---------------------------- MODULE OptimalInput ----------------------------
(***************************************************************************)
(* local_pricing.calculate_optimal_input_size: a ternary search for the      *)
(* input with the greatest profit, over any Profit.  One action is one turn  *)
(* of the loop of comparisons, or of the scan of the window that is left.    *)
(***************************************************************************)
EXTENDS Integers

CONSTANTS Markets,      \* what the profit depends on
          Profit(_, _), \* objective(x): the output, less the input and the gas
          MaxInput(_),  \* max_input_wei
          Iterations,   \* iterations
          MaxSag        \* bound of NearBest: how far a profit may sag below its chords

Top(m) == IF MaxInput(m) > 1 THEN MaxInput(m) ELSE 1

ASSUME SearchAssumption ==
  /\ Iterations \in Nat /\ MaxSag \in Nat
  /\ \A m \in Markets : MaxInput(m) \in Nat /\ \A x \in 1 .. Top(m) : Profit(m, x) \in Int

VARIABLES
  market,
  lo, hi, \* the window
  rounds, \* comparisons made
  best,   \* best_x
  next,   \* the next input to scan; 0 while the window is narrowed
  result  \* -1 while the search goes on

sizeVars == <<market, lo, hi, rounds, best, next, result>>

SizeInit ==
  /\ market \in Markets
  /\ lo = 1 /\ hi = Top(market)
  /\ rounds = 0
  /\ best = 0 /\ next = 0
  /\ result = -1

Narrow == rounds = Iterations \/ hi - lo <= 3
Left == lo + (hi - lo) \div 3
Right == hi - (hi - lo) \div 3

\* Fault: the thirds are compared the wrong way round.
CompareReversed ==
  IF Profit(market, Left) > Profit(market, Right)
  THEN lo' = Left /\ hi' = hi
  ELSE lo' = lo /\ hi' = Right

\* On a tie the right third is given up.
Compare ==
  IF Profit(market, Left) < Profit(market, Right)
  THEN lo' = Left /\ hi' = hi
  ELSE lo' = lo /\ hi' = Right

Step ==
  /\ next = 0 /\ ~Narrow
  /\ Compare
  /\ rounds' = rounds + 1
  /\ UNCHANGED <<market, best, next, result>>

StartScan ==
  /\ next = 0 /\ Narrow
  /\ best' = lo /\ next' = lo + 1
  /\ UNCHANGED <<market, lo, hi, rounds, result>>

Scan ==
  /\ next \in 1 .. hi
  /\ best' = IF Profit(market, next) > Profit(market, best) THEN next ELSE best
  /\ next' = next + 1
  /\ UNCHANGED <<market, lo, hi, rounds, result>>

Scanned == result = -1 /\ next > hi

Return ==
  /\ Scanned
  /\ result' = IF Profit(market, best) <= 0 THEN 0 ELSE best
  /\ UNCHANGED <<market, lo, hi, rounds, best, next>>

SizeNext == Step \/ StartScan \/ Scan \/ Return

SizeSpec == SizeInit /\ [][SizeNext]_sizeVars

-----------------------------------------------------------------------------
\* The window stays within the bounds and never closes.
SizeTypeOK ==
  /\ market \in Markets
  /\ lo \in 1 .. Top(market) /\ hi \in lo .. Top(market)
  /\ rounds \in 0 .. Iterations
  /\ best \in 0 .. Top(market) /\ next \in 0 .. hi + 1
  /\ result \in -1 .. Top(market)

\* The profit lies nowhere more than d below a chord: it is concave but for
\* rounding, with all the plateaus and saw teeth that whole outputs have.
Concave(m, d) ==
  \A a, b, c \in 1 .. Top(m) :
    a < b /\ b < c =>
      (c - b) * Profit(m, a) + (b - a) * Profit(m, c) <= (c - a) * (Profit(m, b) + d)

Gained(m, size) == IF size = 0 THEN 0 ELSE Profit(m, size)

\* "Ternary search for the exact amount_in" of an objective that is "unimodal
\* (concave)": each comparison may cost twice the sag of the profit and no more,
\* so that no input gains much more than the size returned, and on a profit that
\* is concave to the unit none gains more at all.
NearBest ==
  result # -1 =>
    \A d \in 0 .. MaxSag :
      Concave(market, d) =>
        \A x \in 1 .. Top(market) :
          Profit(market, x) <= Gained(market, result) + 2 * rounds * d
=============================================================================

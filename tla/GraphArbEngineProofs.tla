------------------------ MODULE GraphArbEngineProofs ------------------------
(***************************************************************************)
(* For any cycles, grids, prices and events, and any interleaving of the      *)
(* sniper with the notification flush: the types, no result lost, no cycle    *)
(* traded twice, and what is traded is the best size quoted.  The loop over   *)
(* the grid is shown, by induction over its turns, to keep a size that gains  *)
(* most so far.  The invariant adds what the flush has alerted on so far, and *)
(* that the cycle in hand was never simulated before.                         *)
(***************************************************************************)
EXTENDS GraphArbEngine, WellFoundedInduction, TLAPS

InHand == {"quote", "opportunity", "simulate"}

\* The cycle in hand was seen, and did not pass a simulation before.
CycleFresh ==
  /\ passed \subseteq seen
  /\ pc \in InHand => cycle \in seen /\ cycle \notin passed

\* The flush has alerted on all it has walked past.
WalkedPast == \A i \in 1 .. alerting - 1 : results[i].cycle \in alerted

IInv ==
  /\ TypeOK /\ CycleFresh /\ WalkedPast
  /\ NoResultLost /\ BestSizeTraded

Results == [cycle : Cycles, status : {"EXECUTED", "ABORTED"}]
Quotes == [Sizes -> 0 .. MaxOut]

-----------------------------------------------------------------------------
(* Induction over the first n numbers, and what it gives. *)

\* Any set of numbers has a least element.
LEMMA LeastOf ==
  ASSUME NEW T \in SUBSET Nat, T # {}
  PROVE  \E x \in T : \A y \in T : x <= y
<1> DEFINE Less == OpToRel(<, Nat)
<1>1. PICK x \in T : \A y \in T : <<y, x>> \notin Less
  BY NatLessThanWellFounded, WFMin, Zenon
<1>2. \A y \in T : ~(y < x)
  BY <1>1 DEF OpToRel
<1> QED BY <1>2

LEMMA UpTo ==
  ASSUME NEW n \in Nat, NEW T, 0 \in T, \A i \in 1 .. n : i - 1 \in T => i \in T
  PROVE  0 .. n \subseteq T
<1> DEFINE Out == {i \in 0 .. n : i \notin T}
<1> SUFFICES ASSUME Out # {} PROVE FALSE
  OBVIOUS
<1>1. Out \in SUBSET Nat
  OBVIOUS
<1>2. PICK m \in Out : \A y \in Out : m <= y
  BY <1>1, LeastOf
<1>3. m \in 1 .. n /\ m - 1 \in 0 .. n
  BY <1>2
<1>4. m - 1 \in T
  BY <1>2, <1>3
<1> QED BY <1>2, <1>3, <1>4

\* Each of n functions maps S into S.
MapsInto(F, n, S) == \A i \in 1 .. n, x \in S : F[i][x] \in S

\* Applied one after the other, they give a function.
LEMMA Recursion ==
  ASSUME NEW n \in Nat, NEW S, NEW base \in S, NEW F, MapsInto(F, n, S)
  PROVE  \E f \in [0 .. n -> S] : f[0] = base /\ \A i \in 1 .. n : f[i] = F[i][f[i - 1]]
<1> DEFINE Follows(f, m) == f[0] = base /\ \A i \in 1 .. m : f[i] = F[i][f[i - 1]]
           T == {m \in 0 .. n : \E f \in [0 .. m -> S] : Follows(f, m)}
<1>1. 0 \in T
  <2> DEFINE f == [i \in 0 .. 0 |-> base]
  <2>1. f \in [0 .. 0 -> S] /\ Follows(f, 0)
    OBVIOUS
  <2>2. \E h \in [0 .. 0 -> S] : Follows(h, 0)
    BY <2>1
  <2>3. 0 \in 0 .. n
    OBVIOUS
  <2> HIDE DEF Follows
  <2> QED BY <2>2, <2>3
<1>2. ASSUME NEW m \in 1 .. n, m - 1 \in T
      PROVE  m \in T
  <2>1. PICK f \in [0 .. m - 1 -> S] : Follows(f, m - 1)
    BY <1>2
  <2> DEFINE g == [i \in 0 .. m |-> IF i = m THEN F[m][f[m - 1]] ELSE f[i]]
  <2>2. f[m - 1] \in S
    BY <2>1
  <2>3. F[m][f[m - 1]] \in S
    BY <2>2 DEF MapsInto
  <2>4. g \in [0 .. m -> S]
    BY <2>1, <2>3
  <2>5. g[m] = F[m][f[m - 1]] /\ \A i \in 0 .. m - 1 : g[i] = f[i]
    OBVIOUS
  <2>6. g[0] = base
    BY <2>1, <2>5
  <2>7. ASSUME NEW i \in 1 .. m PROVE g[i] = F[i][g[i - 1]]
    <3>1. CASE i = m
      BY <3>1, <2>5, g[m - 1] = f[m - 1]
    <3>2. CASE i # m
      <4>1. i \in 1 .. m - 1 /\ i - 1 \in 0 .. m - 1
        BY <3>2
      <4> QED BY <4>1, <2>1, <2>5
    <3> QED BY <3>1, <3>2
  <2>8. Follows(g, m)
    BY <2>6, <2>7
  <2>9. \E h \in [0 .. m -> S] : Follows(h, m)
    BY <2>4, <2>8
  <2> HIDE DEF Follows
  <2> QED BY <2>9
<1>3. n \in T
  <2> HIDE DEF T
  <2>1. \A i \in 1 .. n : i - 1 \in T => i \in T
    BY <1>2
  <2>2. 0 .. n \subseteq T
    BY <1>1, <2>1, UpTo
  <2> QED BY <2>2, n \in 0 .. n
<1> QED BY <1>3

-----------------------------------------------------------------------------
(* The loop over the grid. *)

LEMMA SizesTyped ==
  /\ Len(Grid) \in Nat /\ MaxOut \in Nat
  /\ \A i \in 1 .. Len(Grid) : Grid[i] \in Sizes
  /\ \A g \in Sizes : g \in Nat \ {0} /\ \E i \in 1 .. Len(Grid) : g = Grid[i]
<1>1. Grid \in Seq(Nat \ {0}) /\ MaxOut \in Nat
  BY EngineAssumption DEF EngineAssumption
<1>2. DOMAIN Grid = 1 .. Len(Grid) /\ Len(Grid) \in Nat /\ \A i \in 1 .. Len(Grid) : Grid[i] \in Nat \ {0}
  BY <1>1
<1> QED BY <1>1, <1>2 DEF Sizes

LEMMA GainTyped ==
  ASSUME NEW outs \in Quotes, NEW g \in Sizes \cup {0}
  PROVE  Gain(outs, g) \in Int
<1>1. CASE g = 0
  BY <1>1 DEF Gain
<1>2. CASE g # 0
  <2>1. g \in Nat \ {0} /\ outs[g] \in 0 .. MaxOut /\ MaxOut \in Nat
    BY <1>2, SizesTyped DEF Quotes
  <2> QED BY <1>2, <2>1 DEF Gain
<1> QED BY <1>1, <1>2

\* One turn of the loop loses nothing: what it leaves gains at least as much as
\* the best before it and as the size it looked at.
LEMMA BetterGains ==
  ASSUME NEW outs \in Quotes, NEW best \in Sizes \cup {0}, NEW g \in Sizes
  PROVE  /\ Better(outs, best, g) \in Sizes \cup {0}
         /\ Gain(outs, best) <= Gain(outs, Better(outs, best, g))
         /\ Gain(outs, best) >= 0 => Gain(outs, g) <= Gain(outs, Better(outs, best, g))
<1>1. Gain(outs, best) \in Int /\ Gain(outs, g) \in Int
  BY GainTyped
<1>2. CASE outs[g] # 0 /\ Gain(outs, g) > Gain(outs, best)
  BY <1>1, <1>2 DEF Better
<1>3. CASE ~(outs[g] # 0 /\ Gain(outs, g) > Gain(outs, best))
  <2>1. Better(outs, best, g) = best
    BY <1>3 DEF Better
  <2>2. g \in Nat /\ g # 0
    BY SizesTyped
  <2>3. outs[g] = 0 => Gain(outs, g) <= 0
    BY <2>2 DEF Gain
  <2> QED BY <1>1, <1>3, <2>1, <2>3
<1> QED BY <1>2, <1>3

\* The size the loop leaves gains at least as much as every size of the grid.
LEMMA BestSizeGainsMost ==
  ASSUME NEW outs \in Quotes
  PROVE  /\ BestSize(outs) \in Sizes \cup {0}
         /\ \A g \in Sizes : Gain(outs, g) <= Gain(outs, BestSize(outs))
<1> DEFINE n == Len(Grid)
           S == Sizes \cup {0}
           F == [i \in 1 .. n |-> [b \in S |-> Better(outs, b, Grid[i])]]
           Loop(f) == [i \in 0 .. n |-> IF i = 0 THEN 0 ELSE Better(outs, f[i - 1], Grid[i])]
           best == CHOOSE f : f = Loop(f)
<1>1. n \in Nat /\ \A i \in 1 .. n : Grid[i] \in Sizes
  BY SizesTyped
<1>2. \A i \in 1 .. n, b \in S : Better(outs, b, Grid[i]) \in S
  BY <1>1, BetterGains
<1>3. MapsInto(F, n, S)
  BY <1>2 DEF MapsInto
<1>4. \A i \in 1 .. n, b \in S : F[i][b] = Better(outs, b, Grid[i])
  OBVIOUS
<1>5. BestSize(outs) = best[n]
  BY DEF BestSize
<1>6. 0 \in S
  OBVIOUS
<1> HIDE DEF F, n, S
<1>7. PICK f \in [0 .. n -> S] : f[0] = 0 /\ \A i \in 1 .. n : f[i] = F[i][f[i - 1]]
  BY <1>1, <1>3, <1>6, Recursion
<1>8. f = Loop(f)
  <2>1. \A i \in 1 .. n : f[i - 1] \in S
    BY <1>1, <1>7
  <2> QED BY <1>1, <1>4, <1>7, <2>1
<1>9. best = Loop(best)
  <2> HIDE DEF Loop
  <2> QED BY <1>8
<1> HIDE DEF best
<1> DEFINE T == {i \in 0 .. n : /\ best[i] \in S /\ Gain(outs, best[i]) >= 0
                              /\ \A j \in 1 .. i : Gain(outs, Grid[j]) <= Gain(outs, best[i])}
<1>10. 0 \in T
  <2>1. best[0] = 0 /\ 0 \in 0 .. n
    BY <1>1, <1>9
  <2>2. Gain(outs, best[0]) = 0
    BY <2>1 DEF Gain
  <2> QED BY <1>6, <2>1, <2>2
<1>11. ASSUME NEW i \in 1 .. n, i - 1 \in T PROVE i \in T
  <2> DEFINE b == best[i - 1]
             c == best[i]
  <2>1. c = Better(outs, b, Grid[i])
    BY <1>1, <1>9
  <2>2. b \in S /\ Gain(outs, b) >= 0 /\ \A j \in 1 .. i - 1 : Gain(outs, Grid[j]) <= Gain(outs, b)
    BY <1>11
  <2> HIDE DEF b, c
  <2>3. Grid[i] \in Sizes /\ b \in Sizes \cup {0} /\ c \in S
    BY <1>1, <1>2, <2>1, <2>2 DEF S
  <2>4. Gain(outs, b) <= Gain(outs, c) /\ Gain(outs, Grid[i]) <= Gain(outs, c)
    BY <2>1, <2>2, <2>3, BetterGains
  <2>5. Gain(outs, b) \in Int /\ Gain(outs, c) \in Int
    BY <2>3, GainTyped DEF S
  <2>6. \A j \in 1 .. i : Gain(outs, Grid[j]) <= Gain(outs, c)
    <3> SUFFICES ASSUME NEW j \in 1 .. i PROVE Gain(outs, Grid[j]) <= Gain(outs, c)
      OBVIOUS
    <3>1. CASE j = i
      BY <2>4, <3>1
    <3>2. CASE j # i
      <4>1. j \in 1 .. i - 1 /\ j \in 1 .. n
        BY <1>1, <3>2
      <4>2. Gain(outs, Grid[j]) \in Int
        BY <1>1, <4>1, GainTyped
      <4> QED BY <2>2, <2>4, <2>5, <4>1, <4>2
    <3> QED BY <3>1, <3>2
  <2>7. Gain(outs, c) >= 0 /\ i \in 0 .. n
    BY <1>1, <2>2, <2>4, <2>5
  <2> QED BY <2>3, <2>6, <2>7 DEF c
<1>12. n \in T
  <2> HIDE DEF T
  <2>1. 0 .. n \subseteq T
    BY <1>1, <1>10, <1>11, UpTo
  <2> QED BY <1>1, <2>1
<1>13. \A g \in Sizes : Gain(outs, g) <= Gain(outs, best[n])
  BY <1>12, SizesTyped DEF n
<1> QED BY <1>5, <1>12, <1>13 DEF S

-----------------------------------------------------------------------------
(* The steps. *)

LEMMA RevertedTyped == Reverted \in Quotes
<1>1. 0 \in 0 .. MaxOut
  BY EngineAssumption DEF EngineAssumption
<1> QED BY <1>1 DEF Reverted, Quotes

LEMMA InitIInv == Init => IInv
<1> SUFFICES ASSUME Init PROVE IInv
  OBVIOUS
<1>1. MaxEvents \in Nat
  BY EngineAssumption DEF EngineAssumption
<1>2. results = << >> /\ Len(results) = 0 /\ results \in Seq(Results)
  BY DEF Init
<1>3. quote \in Quotes
  BY RevertedTyped DEF Init
<1>4. TypeOK
  <2>1. /\ events \in 0 .. MaxEvents /\ waiting \in 0 .. events
        /\ alerting \in -1 .. Len(results) /\ traces \in Nat
    BY <1>1, <1>2 DEF Init
  <2>2. /\ running \in BOOLEAN /\ shutdown \in BOOLEAN /\ priced \in BOOLEAN /\ feed \in BOOLEAN
        /\ entry \in {"orchestrator", "app", "run_live"}
    BY DEF Init
  <2>3. /\ mode \in {"paper", "live", "executor"} /\ pc = "get" /\ cycle = NoCycle /\ size = 0
        /\ seen = {} /\ passed = {} /\ recorded = {} /\ alerted = {}
    BY DEF Init
  <2> QED BY <1>2, <1>3, <2>1, <2>2, <2>3 DEF TypeOK, Results, Quotes
<1>5. CycleFresh /\ NoResultLost /\ BestSizeTraded
  BY <1>2 DEF Init, CycleFresh, InHand, NoResultLost, BestSizeTraded
<1>6. WalkedPast
  <2>1. \A n \in Int : n <= 1 => 1 .. n - 1 = {}
    OBVIOUS
  <2>2. 1 .. alerting - 1 = {}
    BY <2>1 DEF Init
  <2> QED BY <2>2 DEF WalkedPast
<1> QED BY <1>4, <1>5, <1>6 DEF IInv

\* A step of the sniper that records nothing keeps the invariant when the cycle
\* it leaves in hand is fresh and the size the best.
LEMMA UnrecordedIInv ==
  ASSUME IInv, UNCHANGED <<mode, passed, results, recorded, flush>>,
         entry' = entry, feed' \in BOOLEAN,
         events' \in 0 .. MaxEvents, waiting' \in 0 .. events', traces' \in Nat,
         running' \in BOOLEAN, shutdown' \in BOOLEAN, priced' \in BOOLEAN,
         pc' \in {"get", "gecko", "pool", "quote", "opportunity", "simulate", "ended"},
         cycle' \in Cycles \cup {NoCycle}, quote' \in Quotes, size' \in Sizes \cup {0},
         seen \subseteq seen', seen' \subseteq Cycles,
         pc' \in InHand => cycle' \in seen' /\ cycle' \notin passed,
         BestSizeTraded'
  PROVE  IInv'
<1>1. TypeOK'
  <2>1. entry' \in {"orchestrator", "app", "run_live"}
    BY DEF IInv, TypeOK
  <2> QED BY <2>1 DEF IInv, TypeOK, Quotes, flush
<1>2. CycleFresh'
  BY DEF IInv, CycleFresh
<1>3. WalkedPast' /\ NoResultLost'
  BY DEF IInv, WalkedPast, NoResultLost, flush
<1> QED BY <1>1, <1>2, <1>3 DEF IInv

\* The end of an iteration leaves nothing in hand.
LEMMA Finished ==
  ASSUME IInv, Finish
  PROVE  /\ pc' \in {"get", "ended"} /\ pc' \notin InHand
         /\ cycle' = NoCycle /\ quote' \in Quotes /\ size' = 0
         /\ BestSizeTraded'
<1>1. /\ pc' \in {"get", "ended"} /\ cycle' = NoCycle /\ quote' \in Quotes /\ size' = 0
  BY RevertedTyped DEF Finish
<1> QED BY <1>1 DEF InHand, BestSizeTraded

\* A search leaves nothing in hand, or a cycle that was never seen.
LEMMA Searched ==
  ASSUME IInv, Search, pc \notin InHand
  PROVE  /\ pc' \in {"get", "ended", "quote"}
         /\ cycle' \in Cycles \cup {NoCycle} /\ quote' \in Quotes /\ size' \in Sizes \cup {0}
         /\ seen \subseteq seen' /\ seen' \subseteq Cycles
         /\ pc' \in InHand => cycle' \in seen' /\ cycle' \notin passed
         /\ BestSizeTraded'
<1>1. seen \subseteq Cycles /\ quote \in Quotes /\ passed \subseteq seen /\ size = 0
  BY DEF IInv, TypeOK, CycleFresh, BestSizeTraded, InHand, Quotes
<1>2. CASE Finish
  <2>1. seen' = seen \/ \E c \in Cycles : seen' = seen \cup {c}
    BY DEF Search, Evaluate
  <2> QED BY <1>1, <1>2, <2>1, Finished
<1>3. ASSUME NEW c \in Cycles, c \notin seen, seen' = seen \cup {c},
             pc' = "quote", cycle' = c, UNCHANGED <<quote, size>>
      PROVE  /\ pc' \in {"get", "ended", "quote"}
             /\ cycle' \in Cycles \cup {NoCycle} /\ quote' \in Quotes /\ size' \in Sizes \cup {0}
             /\ seen \subseteq seen' /\ seen' \subseteq Cycles
             /\ pc' \in InHand => cycle' \in seen' /\ cycle' \notin passed
             /\ BestSizeTraded'
  BY <1>1, <1>3 DEF BestSizeTraded
<1> QED BY <1>2, <1>3 DEF Search, SearchRaises, Evaluate

\* Asking for a price, searching and putting off, one action after the other.
LEMMA PriceIInv ==
  ASSUME IInv, Get \/ GeckoAnswers \/ PoolAnswers
  PROVE  IInv'
<1>1. /\ pc \notin InHand
      /\ UNCHANGED <<entry, feed, mode, events, running, shutdown, traces, passed, results, recorded, flush>>
      /\ waiting' \in 0 .. events' /\ priced' \in BOOLEAN
  <2>1. waiting' \in 0 .. events'
    BY DEF Get, GeckoAnswers, PoolAnswers, IInv, TypeOK
  <2>2. priced' = priced \/ priced' = TRUE
    BY DEF Get, GeckoAnswers, PoolAnswers
  <2>3. priced' \in BOOLEAN
    BY <2>2, Zenon DEF IInv, TypeOK
  <2> QED BY <2>1, <2>3 DEF Get, GeckoAnswers, PoolAnswers, InHand, program
<1>2. CASE Search
  BY <1>1, <1>2, Searched, UnrecordedIInv DEF IInv, TypeOK
<1>3. CASE Finish /\ UNCHANGED seen
  BY <1>1, <1>3, Finished, UnrecordedIInv DEF IInv, TypeOK, CycleFresh
<1>4. CASE pc' \in {"gecko", "pool"} /\ UNCHANGED <<cycle, quote, size, seen>>
  <2>1. BestSizeTraded'
    BY <1>1, <1>4 DEF IInv, BestSizeTraded, InHand
  <2> QED BY <1>1, <1>4, <2>1, UnrecordedIInv DEF IInv, TypeOK, CycleFresh, InHand, Quotes
<1> QED BY <1>2, <1>3, <1>4 DEF Get, GeckoAnswers, PoolAnswers

\* A quote that does not make an opportunity ends the iteration.
LEMMA UnprofitableIInv ==
  ASSUME IInv, QuoteLoses \/ QuoteGainsDust \/ SimulationFails
  PROVE  IInv'
<1>1. /\ Finish /\ traces' \in {traces, traces + 1}
      /\ UNCHANGED <<entry, feed, mode, events, waiting, running, priced, seen, passed, results,
                     recorded, flush, shutdown>>
  BY DEF QuoteLoses, QuoteGainsDust, SimulationFails, program
<1>2. traces' \in Nat
  BY <1>1 DEF IInv, TypeOK
<1> QED BY <1>1, <1>2, Finished, UnrecordedIInv DEF IInv, TypeOK, CycleFresh

LEMMA QuoteGainsIInv == IInv /\ QuoteGains => IInv'
<1> SUFFICES ASSUME IInv, QuoteGains PROVE IInv'
  OBVIOUS
<1>1. /\ pc = "quote"
      /\ UNCHANGED <<entry, feed, mode, events, waiting, running, priced, seen, traces, passed,
                     results, recorded, flush, shutdown>>
  BY DEF QuoteGains, program
<1>2. CASE Finish
  BY <1>1, <1>2, Finished, UnrecordedIInv DEF IInv, TypeOK, CycleFresh
<1>3. ASSUME NEW outs \in Quotes, \E g \in Sizes : Gain(outs, g) > Dust,
             ~(Gain(outs, BestSize(outs)) <= Gas),
             pc' \in {"opportunity", "simulate"}, quote' = outs, size' = BestSize(outs), UNCHANGED cycle
      PROVE  IInv'
  <2>1. /\ BestSize(outs) \in Sizes \cup {0} /\ Gain(outs, BestSize(outs)) \in Int
        /\ \A g \in Sizes : Gain(outs, g) <= Gain(outs, BestSize(outs))
    BY <1>3, BestSizeGainsMost, GainTyped
  <2>2. Gas \in Nat /\ Gain(outs, BestSize(outs)) > Gas
    BY <1>3, <2>1, EngineAssumption DEF EngineAssumption
  <2>3. size' # 0 /\ size' \in Sizes
    <3>1. Gain(outs, 0) = 0
      BY DEF Gain
    <3> QED BY <1>3, <2>1, <2>2, <3>1
  <2>4. BestSizeTraded'
    BY <1>3, <2>1, <2>2, <2>3 DEF BestSizeTraded, Gain
  <2>5. cycle' \in seen' /\ cycle' \notin passed /\ cycle' \in Cycles
    BY <1>1, <1>3 DEF IInv, TypeOK, CycleFresh, InHand
  <2> QED BY <1>1, <1>3, <2>3, <2>4, <2>5, UnrecordedIInv DEF IInv, TypeOK
<1> QED BY <1>2, <1>3 DEF QuoteGains, Quotes

\* Nothing of the engine moves but the clock, the queue, a flag or the alert.
LEMMA IdleIInv ==
  ASSUME IInv, Put \/ PriceExpires \/ OpportunityAlerted \/ Stop \/ Signal
  PROVE  IInv'
<1>1. UNCHANGED <<entry, feed, mode, cycle, quote, size, seen, traces, passed, results, recorded, flush>>
  BY DEF Put, PriceExpires, OpportunityAlerted, Stop, Signal, engine, flush, program
<1>2. events' \in 0 .. MaxEvents /\ waiting' \in 0 .. events'
  <2>1. CASE Put
    BY <2>1, EngineAssumption DEF Put, EngineAssumption, IInv, TypeOK
  <2>2. CASE UNCHANGED <<events, waiting>>
    BY <2>2 DEF IInv, TypeOK
  <2> QED BY <2>1, <2>2 DEF PriceExpires, OpportunityAlerted, Stop, Signal, engine
<1>3. running' \in BOOLEAN /\ shutdown' \in BOOLEAN /\ priced' \in BOOLEAN
  <2>1. /\ running' = running \/ running' = FALSE
        /\ shutdown' = shutdown \/ shutdown' = TRUE
        /\ priced' = priced \/ priced' = FALSE
    BY DEF Put, PriceExpires, OpportunityAlerted, Stop, Signal, engine
  <2> QED BY <2>1, Zenon DEF IInv, TypeOK
<1>4. pc' = pc \/ (pc = "opportunity" /\ pc' = "simulate")
  BY DEF Put, PriceExpires, OpportunityAlerted, Stop, Signal, engine
<1>5. BestSizeTraded'
  BY <1>1, <1>4 DEF IInv, BestSizeTraded, Gain
<1> QED
  BY <1>1, <1>2, <1>3, <1>4, <1>5, UnrecordedIInv DEF IInv, TypeOK, CycleFresh, InHand, Quotes

\* A simulation that passes leaves its result at the end of the list.
LEMMA SimulationPassesIInv == IInv /\ SimulationPasses => IInv'
<1> SUFFICES ASSUME IInv, SimulationPasses PROVE IInv'
  OBVIOUS
<1>1. /\ pc = "simulate" /\ Finish /\ passed' = passed \cup {cycle}
      /\ UNCHANGED <<entry, feed, mode, events, waiting, running, priced, seen, traces, alerting,
                     alerted, shutdown>>
  BY DEF SimulationPasses, flush, program
<1>2. cycle \in seen /\ seen \subseteq Cycles /\ passed' \subseteq seen /\ results \in Seq(Results)
  BY <1>1 DEF IInv, TypeOK, CycleFresh, InHand, Results
<1>3. /\ pc' \in {"get", "ended"} /\ pc' \notin InHand
      /\ cycle' = NoCycle /\ quote' \in Quotes /\ size' = 0 /\ BestSizeTraded'
  BY <1>1, Finished
<1>4. CASE mode = "executor"
  <2>1. UNCHANGED <<results, recorded>>
    BY <1>4 DEF SimulationPasses
  <2>2. TypeOK'
    BY <1>1, <1>2, <1>3, <2>1 DEF IInv, TypeOK, Quotes
  <2>3. CycleFresh'
    BY <1>1, <1>2, <1>3 DEF CycleFresh
  <2>4. WalkedPast' /\ NoResultLost'
    BY <1>1, <1>4, <2>1 DEF IInv, WalkedPast, NoResultLost
  <2> QED BY <1>3, <2>2, <2>3, <2>4 DEF IInv
<1>5. CASE mode # "executor"
  <2> DEFINE r == [cycle |-> cycle, status |-> Status]
  <2>1. results' = Append(results, r) /\ recorded' = recorded \cup {cycle}
    BY <1>5 DEF SimulationPasses, Record
  <2>2. r \in Results /\ r.cycle = cycle
    BY <1>2 DEF Results, Status
  <2> HIDE DEF r
  <2>3. /\ results' \in Seq(Results) /\ Len(results) \in Nat /\ Len(results') = Len(results) + 1
        /\ \A i \in 1 .. Len(results) : results'[i] = results[i]
        /\ results'[Len(results) + 1] = r
        /\ DOMAIN results = 1 .. Len(results) /\ DOMAIN results' = 1 .. Len(results) + 1
    BY <1>2, <2>1, <2>2
  <2>4. alerting \in -1 .. Len(results) /\ alerting' \in -1 .. Len(results')
    BY <1>1, <2>3 DEF IInv, TypeOK
  <2>5. TypeOK'
    BY <1>1, <1>2, <1>3, <2>1, <2>3, <2>4 DEF IInv, TypeOK, Quotes, Results
  <2>6. CycleFresh'
    BY <1>1, <1>2, <1>3 DEF CycleFresh
  <2>7. WalkedPast'
    <3>1. \A i \in 1 .. alerting - 1 : results'[i] = results[i]
      BY <2>3, <2>4
    <3> QED BY <1>1, <3>1 DEF IInv, WalkedPast
  <2>8. NoResultLost'
    <3>1. {results[i].cycle : i \in DOMAIN results} \cup {cycle} \subseteq {results'[i].cycle : i \in DOMAIN results'}
      BY <2>2, <2>3
    <3> QED BY <1>1, <2>1, <3>1 DEF IInv, NoResultLost
  <2> QED BY <1>3, <2>5, <2>6, <2>7, <2>8 DEF IInv
<1> QED BY <1>4, <1>5

\* The flush clears the list when it has alerted on all of it.
LEMMA FlushIInv ==
  ASSUME IInv, WakeUp \/ Alerted
  PROVE  IInv'
<1>1. /\ UNCHANGED <<entry, feed, events, engine, recorded, shutdown>>
      /\ results \in Seq(Results) /\ Len(results) \in Nat /\ alerting \in -1 .. Len(results)
  BY DEF WakeUp, Alerted, IInv, TypeOK, Results, program
<1>2. CycleFresh'
  BY <1>1 DEF engine, IInv, CycleFresh
<1>3. BestSizeTraded'
  BY <1>1 DEF engine, IInv, BestSizeTraded, Gain
<1>4. CASE WakeUp
  <2>1. UNCHANGED <<results, alerted>> /\ alerting' \in {-1, 0, 1} /\ alerting' \in -1 .. Len(results)
    <3>1. results # << >> => Len(results) >= 1
      BY <1>1
    <3> QED BY <1>1, <1>4, <3>1 DEF WakeUp
  <2>2. TypeOK'
    BY <1>1, <2>1 DEF engine, IInv, TypeOK
  <2>3. NoResultLost'
    BY <1>1, <2>1 DEF IInv, NoResultLost
  <2>4. WalkedPast'
    <3>1. alerting' \in Int /\ alerting' <= 1
      BY <2>1
    <3>2. \A n \in Int : n <= 1 => 1 .. n - 1 = {}
      OBVIOUS
    <3>3. 1 .. alerting' - 1 = {}
      BY <3>1, <3>2
    <3> QED BY <3>3 DEF WalkedPast
  <2> QED BY <1>2, <1>3, <2>2, <2>3, <2>4 DEF IInv
<1>5. CASE Alerted
  <2>1. /\ alerting > 0 /\ alerting \in 1 .. Len(results) /\ alerting \in Nat
        /\ alerted' = alerted \cup {results[alerting].cycle}
    BY <1>1, <1>5 DEF Alerted
  <2>2. results[alerting] \in Results /\ alerted' \subseteq Cycles
    <3>1. results[alerting] \in Results
      BY <1>1, <2>1
    <3>2. results[alerting].cycle \in Cycles
      BY <3>1 DEF Results
    <3> QED BY <2>1, <3>1, <3>2 DEF IInv, TypeOK
  <2>3. \A i \in 1 .. alerting : results[i].cycle \in alerted'
    <3>1. \A i \in 1 .. alerting : i \in 1 .. alerting - 1 \/ i = alerting
      BY <2>1
    <3> QED BY <2>1, <3>1 DEF IInv, WalkedPast
  <2>4. CASE alerting < Len(results)
    <3>1. alerting' = alerting + 1 /\ UNCHANGED results
      BY <1>5, <2>4 DEF Alerted
    <3>2. alerting' \in -1 .. Len(results')
      BY <1>1, <2>1, <2>4, <3>1
    <3>3. TypeOK'
      BY <1>1, <2>2, <3>1, <3>2 DEF engine, IInv, TypeOK
    <3>4. (alerting + 1) - 1 = alerting
      BY <2>1
    <3>5. WalkedPast' /\ NoResultLost'
      BY <1>1, <2>1, <2>3, <3>1, <3>4 DEF IInv, WalkedPast, NoResultLost
    <3> QED BY <1>2, <1>3, <3>3, <3>5 DEF IInv
  <2>5. CASE ~(alerting < Len(results))
    <3>1. alerting' = 0 /\ results' = << >>
      BY <1>5, <2>5 DEF Alerted
    <3>2. results' \in Seq(Results) /\ alerting' \in -1 .. Len(results') /\ DOMAIN results' = {}
      BY <3>1
    <3>3. TypeOK'
      BY <1>1, <2>2, <3>2 DEF engine, IInv, TypeOK, Results
    <3>4. WalkedPast'
      BY <3>1 DEF WalkedPast
    <3>5. DOMAIN results = 1 .. alerting
      BY <1>1, <2>1, <2>5
    <3>6. recorded \subseteq alerted'
      BY <2>1, <2>3, <3>5 DEF IInv, NoResultLost
    <3>7. NoResultLost'
      BY <1>1, <3>6 DEF NoResultLost
    <3> QED BY <1>2, <1>3, <3>3, <3>4, <3>7 DEF IInv
  <2> QED BY <2>4, <2>5
<1> QED BY <1>4, <1>5

\* The death of the feed ends the session or leaves it as it is.
LEMMA FeedDiesIInv == IInv /\ FeedDies => IInv'
<1> SUFFICES ASSUME IInv, FeedDies PROVE IInv'
  OBVIOUS
<1>1. /\ feed' = FALSE
      /\ UNCHANGED <<entry, mode, events, waiting, running, priced, seen, traces, passed, results,
                     recorded, alerted, shutdown>>
  BY DEF FeedDies
<1>2. CASE UNCHANGED <<pc, cycle, quote, size, alerting>>
  <2>1. BestSizeTraded'
    BY <1>2 DEF IInv, BestSizeTraded, Gain
  <2> QED BY <1>1, <1>2, <2>1, UnrecordedIInv DEF IInv, TypeOK, CycleFresh, Quotes, flush
<1>3. CASE SessionEnds
  <2>1. /\ pc' = "ended" /\ cycle' = NoCycle /\ quote' \in Quotes /\ size' = 0 /\ alerting' = -1
    BY <1>3, RevertedTyped DEF SessionEnds
  <2>2. alerting' \in -1 .. Len(results')
    <3>1. Len(results) \in Nat
      BY DEF IInv, TypeOK
    <3> QED BY <1>1, <2>1, <3>1
  <2>3. TypeOK'
    BY <1>1, <2>1, <2>2 DEF IInv, TypeOK, Quotes
  <2>4. CycleFresh' /\ BestSizeTraded'
    BY <1>1, <2>1 DEF IInv, CycleFresh, InHand, BestSizeTraded
  <2>5. NoResultLost'
    BY <1>1 DEF IInv, NoResultLost
  <2>6. WalkedPast'
    <3>1. \A n \in Int : n <= 1 => 1 .. n - 1 = {}
      OBVIOUS
    <3>2. 1 .. alerting' - 1 = {}
      BY <2>1, <3>1
    <3> QED BY <3>2 DEF WalkedPast
  <2> QED BY <2>3, <2>4, <2>5, <2>6 DEF IInv
<1> QED BY <1>2, <1>3 DEF FeedDies

LEMMA Inductive == Spec => []IInv
<1>1. IInv /\ [Next]_vars => IInv'
  <2> SUFFICES ASSUME IInv, [Next]_vars PROVE IInv'
    OBVIOUS
  <2>1. CASE UNCHANGED vars
    BY <2>1 DEF vars, program, engine, flush, IInv, TypeOK, CycleFresh, WalkedPast, NoResultLost,
                BestSizeTraded, Gain
  <2> QED
    BY <2>1, PriceIInv, UnprofitableIInv, QuoteGainsIInv, IdleIInv, SimulationPassesIInv, FlushIInv,
       FeedDiesIInv DEF Next
<1> QED BY <1>1, InitIInv, PTL DEF Spec

-----------------------------------------------------------------------------
\* ProcessBSniper.run, GraphArbEngine and flush_notifications keep their state in
\* its types; the place in the list stays inside the list the engine appends to.
THEOREM TypeCorrect == Spec => []TypeOK
<1>1. IInv => TypeOK
  BY DEF IInv
<1> QED BY <1>1, Inductive, PTL

\* flush_notifications never clears a result it has not alerted on.
THEOREM ResultsKept == Spec => []NoResultLost
<1>1. IInv => NoResultLost
  BY DEF IInv
<1> QED BY <1>1, Inductive, PTL

\* _evaluate_cycle alerts on and simulates the best size of its own quote, for
\* every grid and every answer of the quoter.
THEOREM BestTraded == Spec => []BestSizeTraded
<1>1. IInv => BestSizeTraded
  BY DEF IInv
<1> QED BY <1>1, Inductive, PTL

\* _seen_cycles keeps a cycle from being simulated again after it passed.
THEOREM TradedAtMostOnce == Spec => TradedOnce
<1>1. IInv => [\A c \in Cycles : c \in passed => ~(pc = "simulate" /\ cycle = c)]_vars
  BY DEF IInv, CycleFresh, InHand
<1> QED BY <1>1, Inductive, PTL DEF TradedOnce
=============================================================================

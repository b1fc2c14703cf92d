------------------------- MODULE LocalPricingProofs -------------------------
(***************************************************************************)
(* infra/local_pricing.py, for every graph, every price and every profit.    *)
(*                                                                           *)
(* The formulas: what get_amount_out pays is less than the reserve, more for *)
(* more, and never so much that a round trip gains; the variant that takes   *)
(* the fee as a float pays more only by what the float rounds; v3_amount_out *)
(* pays more for more and no more than the liquidity holds, and rounds in    *)
(* favour of the trader by less than liquidity / Q; a chain of hops keeps    *)
(* the order.                                                                *)
(*                                                                           *)
(* The search for the input size, for any profit with integer values: where  *)
(* it sags by d below its chords, no input gains more than the one returned  *)
(* by more than 2d for each comparison.  The invariant is that the window    *)
(* holds an input as good as any but for the comparisons made so far.        *)
(*                                                                           *)
(* The search for a cycle: what it returns gains, and where it returns       *)
(* nothing there was nothing.  The invariant is that a token is never        *)
(* cheaper to reach than over its predecessor, and that a relaxation that    *)
(* closes a cycle of predecessors leaves slack on it: this is why following  *)
(* pred finds a loop that gains, although distances on it have gone on       *)
(* falling.                                                                  *)
(***************************************************************************)
EXTENDS ArbGraph, CycleSizing, FiniteSetTheorems, SequenceTheorems, WellFoundedInduction, TLAPS

-----------------------------------------------------------------------------
(* Induction over the first n numbers, and what it gives. *)

\* Any set of numbers has a least element.
LEMMA LeastOf ==
  ASSUME NEW T \in SUBSET Nat, T # {}
  PROVE  \E x \in T : \A y \in T : x <= y
<1> DEFINE Less == OpToRel(<, Nat)
<1>1. PICK x \in T : \A y \in T : <<y, x>> \notin Less
  BY NatLessThanWellFounded, WFMin, Zenon
<1>2. \A y \in T : ~(y < x)
  BY <1>1 DEF OpToRel
<1> QED BY <1>2

LEMMA UpTo ==
  ASSUME NEW n \in Nat, NEW T, 0 \in T, \A i \in 1 .. n : i - 1 \in T => i \in T
  PROVE  0 .. n \subseteq T
<1> DEFINE Out == {i \in 0 .. n : i \notin T}
<1> SUFFICES ASSUME Out # {} PROVE FALSE
  OBVIOUS
<1>1. Out \in SUBSET Nat
  OBVIOUS
<1>2. PICK m \in Out : \A y \in Out : m <= y
  BY <1>1, LeastOf
<1>3. m \in 1 .. n /\ m - 1 \in 0 .. n
  BY <1>2
<1>4. m - 1 \in T
  BY <1>2, <1>3
<1> QED BY <1>2, <1>3, <1>4

\* Each of n functions maps S into S.
MapsInto(F, n, S) == \A i \in 1 .. n, x \in S : F[i][x] \in S

\* Applied one after the other, they give a function.
LEMMA Recursion ==
  ASSUME NEW n \in Nat, NEW S, NEW base \in S, NEW F, MapsInto(F, n, S)
  PROVE  \E f \in [0 .. n -> S] : f[0] = base /\ \A i \in 1 .. n : f[i] = F[i][f[i - 1]]
<1> DEFINE Follows(f, m) == f[0] = base /\ \A i \in 1 .. m : f[i] = F[i][f[i - 1]]
           T == {m \in 0 .. n : \E f \in [0 .. m -> S] : Follows(f, m)}
<1>1. 0 \in T
  <2> DEFINE f == [i \in 0 .. 0 |-> base]
  <2>1. f \in [0 .. 0 -> S] /\ Follows(f, 0)
    OBVIOUS
  <2>2. \E h \in [0 .. 0 -> S] : Follows(h, 0)
    BY <2>1
  <2>3. 0 \in 0 .. n
    OBVIOUS
  <2> HIDE DEF Follows
  <2> QED BY <2>2, <2>3
<1>2. ASSUME NEW m \in 1 .. n, m - 1 \in T
      PROVE  m \in T
  <2>1. PICK f \in [0 .. m - 1 -> S] : Follows(f, m - 1)
    BY <1>2
  <2> DEFINE g == [i \in 0 .. m |-> IF i = m THEN F[m][f[m - 1]] ELSE f[i]]
  <2>2. f[m - 1] \in S
    BY <2>1
  <2>3. F[m][f[m - 1]] \in S
    BY <2>2 DEF MapsInto
  <2>4. g \in [0 .. m -> S]
    BY <2>1, <2>3
  <2>5. g[m] = F[m][f[m - 1]] /\ \A i \in 0 .. m - 1 : g[i] = f[i]
    OBVIOUS
  <2>6. g[0] = base
    BY <2>1, <2>5
  <2>7. ASSUME NEW i \in 1 .. m PROVE g[i] = F[i][g[i - 1]]
    <3>1. CASE i = m
      BY <3>1, <2>5, g[m - 1] = f[m - 1]
    <3>2. CASE i # m
      <4>1. i \in 1 .. m - 1 /\ i - 1 \in 0 .. m - 1
        BY <3>2
      <4> QED BY <4>1, <2>1, <2>5
    <3> QED BY <3>1, <3>2
  <2>8. Follows(g, m)
    BY <2>6, <2>7
  <2>9. \E h \in [0 .. m -> S] : Follows(h, m)
    BY <2>4, <2>8
  <2> HIDE DEF Follows
  <2> QED BY <2>9
<1>3. n \in T
  <2> HIDE DEF T
  <2>1. \A i \in 1 .. n : i - 1 \in T => i \in T
    BY <1>2
  <2>2. 0 .. n \subseteq T
    BY <1>1, <2>1, UpTo
  <2> QED BY <2>2, n \in 0 .. n
<1> QED BY <1>3

-----------------------------------------------------------------------------
(* The formulas. *)

\* Integer division.
LEMMA Floor ==
  ASSUME NEW n \in Nat, NEW d \in Nat, d > 0
  PROVE  /\ n \div d \in Nat
         /\ (n \div d) * d <= n
         /\ n < (n \div d + 1) * d
OBVIOUS

LEMMA FloorGreatest ==
  ASSUME NEW n \in Nat, NEW d \in Nat, d > 0, NEW k \in Nat, k * d <= n
  PROVE  k <= n \div d
<1> DEFINE q == n \div d
<1>1. q \in Nat /\ n < (q + 1) * d
  BY Floor
<1> HIDE DEF q
<1>2. k * d < (q + 1) * d
  BY <1>1
<1>3. k < q + 1
  <2> SUFFICES ASSUME k >= q + 1 PROVE FALSE
    BY <1>1
  <2>1. k * d >= (q + 1) * d
    BY <1>1
  <2> QED BY <1>1, <1>2, <2>1
<1> QED BY <1>1, <1>3 DEF q

\* The division of get_amount_out without the division.
LEMMA Paid ==
  ASSUME NEW x \in Nat, NEW a \in Nat, NEW b \in Nat, x > 0, a > 0, b > 0
  PROVE  /\ GetAmountOut(x, a, b) \in Nat
         /\ GetAmountOut(x, a, b) * (a * 1000 + x * 997) <= x * 997 * b
<1>1. x * 997 * b \in Nat /\ a * 1000 + x * 997 \in Nat /\ a * 1000 + x * 997 > 0
  OBVIOUS
<1>2. GetAmountOut(x, a, b) = (x * 997 * b) \div (a * 1000 + x * 997)
  BY DEF GetAmountOut
<1> QED BY <1>1, <1>2, Floor

\* Nothing in, nothing out.
LEMMA Typed ==
  ASSUME NEW x \in Nat, NEW a \in Nat, NEW b \in Nat
  PROVE  GetAmountOut(x, a, b) \in Nat
<1>1. CASE x = 0 \/ a = 0 \/ b = 0
  BY <1>1 DEF GetAmountOut
<1>2. CASE x > 0 /\ a > 0 /\ b > 0
  BY <1>2, Paid
<1> QED BY <1>1, <1>2

-----------------------------------------------------------------------------
\* However much is put in, a hop never empties the pool: get_amount_out stays
\* below the reserve it pays from.
THEOREM OutputBelowReserve ==
  ASSUME NEW x \in Nat, NEW a \in Nat, NEW b \in Nat, b > 0
  PROVE  GetAmountOut(x, a, b) < b
<1> DEFINE q == GetAmountOut(x, a, b)
<1>1. CASE x = 0 \/ a = 0
  BY <1>1 DEF GetAmountOut
<1>2. CASE x > 0 /\ a > 0
  <2>1. q \in Nat /\ q * (a * 1000 + x * 997) <= x * 997 * b
    BY <1>2, Paid
  <2> HIDE DEF q
  <2>2. b * (a * 1000 + x * 997) > x * 997 * b
    <3>1. b * (a * 1000 + x * 997) = b * (a * 1000) + x * 997 * b
      OBVIOUS
    <3>2. b * (a * 1000) > 0
      BY <1>2
    <3> QED BY <3>1, <3>2
  <2>3. SUFFICES ASSUME q >= b PROVE FALSE
    BY <2>1 DEF q
  <2>4. q * (a * 1000 + x * 997) >= b * (a * 1000 + x * 997)
    BY <2>1, <2>3
  <2> QED BY <2>1, <2>2, <2>4
<1> QED BY <1>1, <1>2

\* The product of the reserves never falls: what the formula pays, with the
\* whole input in the pool, is never more than the constant product allows.
THEOREM ProductNeverFalls ==
  ASSUME NEW x \in Nat, NEW a \in Nat, NEW b \in Nat
  PROVE  (a + x) * (b - GetAmountOut(x, a, b)) >= a * b
<1> DEFINE q == GetAmountOut(x, a, b)
<1>1. CASE x = 0 \/ a = 0 \/ b = 0
  BY <1>1 DEF GetAmountOut
<1>2. CASE x > 0 /\ a > 0 /\ b > 0
  <2>1. q \in Nat /\ q * (a * 1000 + x * 997) <= x * 997 * b
    BY <1>2, Paid
  <2>2. q < b
    BY <1>2, OutputBelowReserve
  <2> HIDE DEF q
  <2>3. q * a * 1000 + q * x * 997 <= x * b * 997
    BY <2>1
  <2>4. q * x <= b * x
    BY <2>1, <2>2
  <2>5. q * a \in Nat /\ q * x \in Nat /\ x * b \in Nat /\ b * x = x * b
    BY <2>1
  <2>6. q * a + q * x <= x * b
    BY <2>3, <2>4, <2>5
  <2>7. (a + x) * (b - q) = a * b + x * b - (q * a + q * x)
    BY <2>1
  <2>8. a * b \in Nat
    OBVIOUS
  <2> QED BY <2>5, <2>6, <2>7, <2>8 DEF q
<1> QED BY <1>1, <1>2

\* A hop pays more for more: a larger input is never quoted a smaller output.
THEOREM OutputGrows ==
  ASSUME NEW x \in Nat, NEW y \in Nat, x <= y, NEW a \in Nat, NEW b \in Nat
  PROVE  GetAmountOut(x, a, b) <= GetAmountOut(y, a, b)
<1> DEFINE q == GetAmountOut(x, a, b)
<1>1. CASE x = 0 \/ a = 0 \/ b = 0
  BY <1>1, Typed DEF GetAmountOut
<1>2. CASE x > 0 /\ a > 0 /\ b > 0
  <2>1. q \in Nat /\ q * (a * 1000 + x * 997) <= x * 997 * b
    BY <1>2, Paid
  <2>2. q < b
    BY <1>2, OutputBelowReserve
  <2> HIDE DEF q
  <2>3. PICK z \in Nat : y = x + z
    <3>1. y - x \in Nat /\ y = x + (y - x)
      OBVIOUS
    <3> QED BY <3>1
  <2>4. q * z <= b * z
    BY <2>1, <2>2, <2>3
  <2>5. q * (a * 1000 + y * 997) = q * (a * 1000 + x * 997) + 997 * (q * z)
    BY <2>1, <2>3
  <2>6. y * 997 * b = x * 997 * b + 997 * (b * z)
    BY <2>3
  <2>7. /\ q * z \in Nat /\ b * z \in Nat /\ x * 997 * b \in Nat
        /\ q * (a * 1000 + x * 997) \in Nat
    BY <2>1, <2>3
  <2>8. q * (a * 1000 + y * 997) <= y * 997 * b
    BY <2>1, <2>4, <2>5, <2>6, <2>7
  <2>9. y * 997 * b \in Nat /\ a * 1000 + y * 997 \in Nat /\ a * 1000 + y * 997 > 0
    BY <1>2
  <2>10. q <= (y * 997 * b) \div (a * 1000 + y * 997)
    BY <2>1, <2>8, <2>9, FloorGreatest
  <2> QED BY <1>2, <2>10 DEF GetAmountOut, q
<1> QED BY <1>1, <1>2

\* Whatever the pool and the input, what comes back from a swap there and back is
\* no more than what went in: rounding never shows a profit in one pool.
THEOREM NoRoundTripGain ==
  ASSUME NEW x \in Nat, NEW a \in Nat, NEW b \in Nat
  PROVE  SwapBack(x, a, b) <= x
<1> DEFINE q == GetAmountOut(x, a, b)
           r == GetAmountOut(q, b - q, a + x)
<1>1. q \in Nat
  BY Typed
<1>2. CASE x = 0 \/ a = 0 \/ b = 0 \/ q = 0
  <2>1. q = 0
    BY <1>2 DEF GetAmountOut
  <2> QED BY <2>1 DEF SwapBack, GetAmountOut
<1>3. CASE x > 0 /\ a > 0 /\ b > 0 /\ q > 0
  <2>1. q * (a * 1000 + x * 997) <= x * 997 * b
    BY <1>3, Paid
  <2>2. q < b
    BY <1>3, OutputBelowReserve
  <2>3. b - q \in Nat /\ b - q > 0 /\ a + x \in Nat /\ a + x > 0
    BY <1>1, <1>3, <2>2
  <2>4. r \in Nat /\ r * ((b - q) * 1000 + q * 997) <= q * 997 * (a + x)
    <3> DEFINE left == b - q
               full == a + x
    <3>1. left \in Nat /\ full \in Nat /\ left > 0 /\ full > 0
      BY <2>3
    <3> HIDE DEF q, left, full
    <3>2. /\ GetAmountOut(q, left, full) \in Nat
          /\ GetAmountOut(q, left, full) * (left * 1000 + q * 997) <= q * 997 * full
      BY <1>1, <1>3, <3>1, Paid
    <3> QED BY <3>2 DEF left, full
  <2>5. SwapBack(x, a, b) = r
    BY DEF SwapBack
  <2> HIDE DEF q, r
  <2>6. q * a * 1000 + q * x * 997 <= x * b * 997
    BY <1>1, <2>1
  <2>7. q * a * 997 + q * x * 997 <= x * b * 997
    <3>1. q * a \in Nat
      BY <1>1
    <3> QED BY <1>1, <2>6, <3>1
  <2>8. r * ((b - q) * 1000 + q * 997) <= x * b * 997
    <3>1. q * 997 * (a + x) = q * a * 997 + q * x * 997
      BY <1>1
    <3>2. /\ q * a \in Nat /\ q * x \in Nat /\ x * b \in Nat
          /\ r * ((b - q) * 1000 + q * 997) \in Nat
      BY <1>1, <2>3, <2>4
    <3> QED BY <2>4, <2>7, <3>1, <3>2
  <2>9. (b - q) * 1000 + q * 997 > b * 997
    BY <1>1, <2>2
  <2>10. SUFFICES ASSUME r > x PROVE FALSE
    BY <2>4, <2>5
  <2>11. r * ((b - q) * 1000 + q * 997) >= r * (b * 997)
    <3>1. (b - q) * 1000 + q * 997 \in Nat /\ b * 997 \in Nat
      BY <1>1, <2>3
    <3> QED BY <2>4, <2>9, <3>1
  <2>12. r * (b * 997) > x * (b * 997)
    <3>1. b * 997 \in Nat /\ b * 997 > 0
      BY <1>3
    <3> QED BY <2>4, <2>10, <3>1
  <2>13. r * (b * 997) \in Nat /\ x * (b * 997) = x * b * 997
    BY <2>4
  <2> QED BY <1>1, <2>3, <2>4, <2>8, <2>11, <2>12, <2>13
<1> QED BY <1>1, <1>2, <1>3
-----------------------------------------------------------------------------
\* A float product rounds, to a number that is neither negative nor less for more.
Rounds(fee) ==
  \A x, y \in Nat :
    x <= y => AfterFee(x, fee) \in Nat /\ AfterFee(y, fee) \in Nat /\ AfterFee(x, fee) <= AfterFee(y, fee)

\* compute_v2_output quotes no more than get_amount_out would for any input y whose
\* exact fee leaves as much as the float product leaves of x: what it quotes above
\* get_amount_out is what that rounding is worth, and where the product does not
\* exceed the exact share, it quotes nothing above.
THEOREM QuoteWithinRounding ==
  ASSUME NEW x \in Nat, NEW y \in Nat, NEW a \in Nat, NEW b \in Nat,
         Rounds(V2Fee), 1000 * AfterFee(x, V2Fee) <= 997 * y
  PROVE  /\ ComputeV2Output(a, b, x) \in Nat
         /\ ComputeV2Output(a, b, x) <= GetAmountOut(y, a, b)
<1> DEFINE w == AfterFee(x, V2Fee)
           q == (w * b) \div (a + w)
<1>0. w \in Nat /\ 1000 * w <= 997 * y
  BY DEF Rounds
<1>1. CASE x = 0 \/ a = 0 \/ b = 0
  BY <1>1, Typed DEF ComputeV2Output
<1>2. CASE x > 0 /\ a > 0 /\ b > 0
  <2>1. w \in Nat /\ w * 1000 <= y * 997
    BY <1>0
  <2> HIDE DEF w
  <2>2. w * b \in Nat /\ a + w \in Nat /\ a + w > 0
    BY <1>2, <2>1
  <2>3. q \in Nat /\ q * (a + w) <= w * b
    BY <2>2, Floor
  <2>4. ComputeV2Output(a, b, x) = q
    BY <1>2 DEF ComputeV2Output, w
  <2> HIDE DEF q
  <2>5. q <= b
    <3> SUFFICES ASSUME q > b PROVE FALSE
      BY <2>3
    <3>1. q * (a + w) > b * (a + w)
      BY <2>2, <2>3
    <3>2. b * (a + w) = b * a + w * b /\ b * a \in Nat
      BY <2>1
    <3>3. q * (a + w) \in Nat
      BY <2>2, <2>3
    <3> QED BY <2>2, <2>3, <3>1, <3>2, <3>3
  \* With the whole of y, y * 997 = w * 1000 + z, both sides grow by z.
  <2>6. PICK z \in Nat : y * 997 = w * 1000 + z
    <3>1. y * 997 - w * 1000 \in Nat /\ y * 997 = w * 1000 + (y * 997 - w * 1000)
      BY <2>1
    <3> QED BY <3>1
  <2>7. q * (a * 1000 + y * 997) <= y * 997 * b
    <3>1. q * (a * 1000 + y * 997) = 1000 * (q * (a + w)) + q * z
      <4>1. a * 1000 + y * 997 = 1000 * (a + w) + z
        BY <2>1, <2>6
      <4> QED BY <2>1, <2>3, <4>1
    <3>2. y * 997 * b = 1000 * (w * b) + b * z
      BY <2>1, <2>6
    <3>3. q * z <= b * z
      BY <2>3, <2>5
    <3>4. q * z \in Nat /\ b * z \in Nat /\ q * (a + w) \in Nat
      BY <2>2, <2>3
    <3>5. 1000 * (q * (a + w)) + q * z <= 1000 * (w * b) + b * z
      BY <2>2, <2>3, <3>3, <3>4
    <3> QED BY <3>1, <3>2, <3>5
  <2>8. y * 997 * b \in Nat /\ a * 1000 + y * 997 \in Nat /\ a * 1000 + y * 997 > 0
    BY <1>2
  <2>9. q <= (y * 997 * b) \div (a * 1000 + y * 997)
    BY <2>3, <2>7, <2>8, FloorGreatest
  <2>10. CASE y = 0
    <3>1. w = 0 /\ GetAmountOut(y, a, b) = 0
      BY <2>1, <2>10 DEF GetAmountOut
    <3>2. w * b = 0 /\ y * 997 * b = 0
      BY <2>10, <3>1
    <3>3. q * (a + w) = q * a
      BY <3>1
    <3>4. q = 0
      <4> SUFFICES ASSUME q > 0 PROVE FALSE
        BY <2>3
      <4> QED BY <1>2, <2>3, <3>2, <3>3
    <3> QED BY <2>4, <3>1, <3>4
  <2>11. CASE y > 0
    BY <1>2, <2>3, <2>4, <2>9, <2>11 DEF GetAmountOut
  <2> QED BY <2>10, <2>11
<1> QED BY <1>1, <1>2

-----------------------------------------------------------------------------
(* The V3 amounts: integer divisions of the price and of its inverse. *)

\* More divided by less is no less.
LEMMA DivGrows ==
  ASSUME NEW n \in Nat, NEW m \in Nat, n <= m, NEW d \in Nat, NEW e \in Nat, d >= e, e > 0
  PROVE  n \div d \in Nat /\ m \div e \in Nat /\ n \div d <= m \div e
<1> DEFINE k == n \div d
<1>1. k \in Nat /\ k * d <= n /\ m \div e \in Nat
  BY Floor
<1> HIDE DEF k
<1>2. k * e <= m
  <2>1. k * e <= k * d
    BY <1>1
  <2>2. k * e \in Int /\ k * d \in Int
    BY <1>1
  <2> QED BY <1>1, <2>1, <2>2
<1>3. k <= m \div e
  BY <1>1, <1>2, FloorGreatest
<1> QED BY <1>1, <1>3 DEF k

\* What liquidity l pays for a price, or its inverse, that moves by g.
PaidFor(l, g) == Positive((l * g) \div Q)

LEMMA GapGrows ==
  ASSUME NEW l \in Nat, NEW g \in Int, NEW h \in Int, g <= h
  PROVE  PaidFor(l, g) \in Nat /\ PaidFor(l, h) \in Nat /\ PaidFor(l, g) <= PaidFor(l, h)
<1>1. Q \in Nat /\ Q > 0
  BY PricingAssumption
<1>2. ASSUME NEW n \in Int PROVE n \div Q \in Int /\ (n <= 0 => n \div Q <= 0)
  BY <1>1
<1>3. l * g \in Int /\ l * h \in Int /\ l * g <= l * h
  BY Z3
<1>4. ASSUME NEW n \in Int PROVE Positive(n \div Q) \in Nat
  BY <1>2 DEF Positive
<1>5. CASE l * g <= 0
  BY <1>2, <1>3, <1>4, <1>5 DEF Positive, PaidFor
<1>6. CASE l * g > 0
  <2>1. (l * g) \div Q <= (l * h) \div Q
    BY <1>1, <1>3, <1>6, DivGrows
  <2> QED BY <1>2, <1>3, <1>4, <2>1 DEF Positive, PaidFor
<1> QED BY <1>3, <1>5, <1>6

\* Token0 is sold: the more of it, the lower the price falls, never below zero.
LEMMA SellZeroGrows ==
  ASSUME NEW x \in Nat, NEW y \in Nat, x <= y,
         NEW p \in Nat, p > 0, NEW l \in Nat, l > 0
  PROVE  /\ SellZero(x, p, l) \in Nat /\ SellZero(y, p, l) \in Nat
         /\ SellZero(x, p, l) <= SellZero(y, p, l)
         /\ SellZero(x, p, l) <= (l * p) \div Q
<1> DEFINE S == Q * Q
           i == S \div p
           ix == i + (x * Q) \div l
           iy == i + (y * Q) \div l
           px == S \div ix
           py == S \div iy
<1>1. Q \in Nat /\ Q > 0 /\ S \in Nat
  BY PricingAssumption
<1>2. /\ SellZero(x, p, l) = IF ix = 0 THEN 0 ELSE PaidFor(l, p - px)
      /\ SellZero(y, p, l) = IF iy = 0 THEN 0 ELSE PaidFor(l, p - py)
  BY DEF SellZero, PaidFor
<1> HIDE DEF S
<1>3. i \in Nat
  BY <1>1, Floor
<1>4. /\ (x * Q) \div l \in Nat /\ (y * Q) \div l \in Nat
      /\ (x * Q) \div l <= (y * Q) \div l
  <2>1. x * Q \in Nat /\ y * Q \in Nat /\ x * Q <= y * Q
    BY <1>1
  <2> QED BY <2>1, DivGrows
<1> HIDE DEF i
<1>5. ix \in Nat /\ iy \in Nat /\ ix <= iy
  BY <1>3, <1>4
<1> HIDE DEF ix, iy
<1>6. ASSUME ix > 0
      PROVE  px \in Nat /\ py \in Nat /\ py <= px
  BY <1>1, <1>5, <1>6, DivGrows
<1>7. iy > 0 => py \in Nat
  BY <1>1, <1>5, Floor
<1> HIDE DEF px, py
<1>8. CASE ix = 0
  <2>1. iy > 0 => PaidFor(l, p - py) \in Nat
    BY <1>7, GapGrows
  <2>2. (l * p) \div Q \in Nat
    BY <1>1, Floor
  <2> QED BY <1>2, <1>5, <1>8, <2>1, <2>2
<1>9. CASE ix > 0
  <2>1. /\ p - px \in Int /\ p - py \in Int /\ p - px <= p - py /\ p - px <= p
    BY <1>6, <1>9
  <2>2. /\ SellZero(x, p, l) = PaidFor(l, p - px)
        /\ SellZero(y, p, l) = PaidFor(l, p - py)
    BY <1>2, <1>5, <1>9
  <2>3. PaidFor(l, p - px) <= PaidFor(l, p)
    BY <2>1, GapGrows
  <2>4. PaidFor(l, p) = (l * p) \div Q
    <3>1. (l * p) \div Q \in Nat
      BY <1>1, Floor
    <3> QED BY <3>1 DEF Positive, PaidFor
  <2>5. /\ PaidFor(l, p - px) \in Nat /\ PaidFor(l, p - py) \in Nat
        /\ PaidFor(l, p - px) <= PaidFor(l, p - py)
    BY <2>1, GapGrows
  <2> QED BY <2>2, <2>3, <2>4, <2>5
<1> QED BY <1>5, <1>8, <1>9

\* Token1 is sold: the more of it, the lower the inverse of the price falls.
LEMMA SellOneGrows ==
  ASSUME NEW x \in Nat, NEW y \in Nat, x <= y,
         NEW p \in Nat, p > 0, NEW l \in Nat, l > 0
  PROVE  /\ SellOne(x, p, l) \in Nat /\ SellOne(y, p, l) \in Nat
         /\ SellOne(x, p, l) <= SellOne(y, p, l)
         /\ SellOne(x, p, l) <= (l * ((Q * Q) \div p)) \div Q
<1> DEFINE S == Q * Q
           px == p + (x * Q) \div l
           py == p + (y * Q) \div l
           i == S \div p
           ix == S \div px
           iy == S \div py
<1>1. Q \in Nat /\ Q > 0 /\ S \in Nat
  BY PricingAssumption
<1>2. /\ SellOne(x, p, l) = PaidFor(l, i - ix)
      /\ SellOne(y, p, l) = PaidFor(l, i - iy)
  BY DEF SellOne, PaidFor
<1>3. i = (Q * Q) \div p
  OBVIOUS
<1> HIDE DEF S
<1>4. /\ (x * Q) \div l \in Nat /\ (y * Q) \div l \in Nat
      /\ (x * Q) \div l <= (y * Q) \div l
  <2>1. x * Q \in Nat /\ y * Q \in Nat /\ x * Q <= y * Q
    BY <1>1
  <2> QED BY <2>1, DivGrows
<1>5. px \in Nat /\ py \in Nat /\ px > 0 /\ px <= py
  BY <1>4
<1> HIDE DEF px, py
<1>6. i \in Nat /\ ix \in Nat /\ iy \in Nat /\ iy <= ix
  BY <1>1, <1>5, DivGrows, Floor
<1> HIDE DEF i, ix, iy
<1>7. /\ i - ix \in Int /\ i - iy \in Int /\ i - ix <= i - iy /\ i - ix <= i
  BY <1>6
<1>8. /\ PaidFor(l, i - ix) \in Nat /\ PaidFor(l, i - iy) \in Nat
      /\ PaidFor(l, i - ix) <= PaidFor(l, i - iy)
  BY <1>7, GapGrows
<1>9. PaidFor(l, i - ix) <= PaidFor(l, i)
  BY <1>6, <1>7, GapGrows
<1>10. PaidFor(l, i) = (l * i) \div Q
  <2>1. (l * i) \div Q \in Nat
    BY <1>1, <1>6, Floor
  <2> QED BY <2>1 DEF Positive, PaidFor
<1> QED BY <1>2, <1>3, <1>8, <1>9, <1>10

\* Factors move freely, and a common one can be taken away.
LEMMA TimesGrows ==
  ASSUME NEW a \in Int, NEW b \in Int, a <= b, NEW k \in Nat
  PROVE  a * k \in Int /\ b * k \in Int /\ a * k <= b * k
BY Z3

\* Token0 is sold: with the input a after the fee, what is paid is less than
\* (l/Q) * p * a*p / (l*Q + a*p), the amount without rounding, plus l/Q.
LEMMA SellZeroOverstates ==
  ASSUME NEW a \in Nat, NEW p \in Nat, p > 0, NEW l \in Nat, l > 0
  PROVE  (SellZero(a, p, l) * Q - l) * (l * Q + a * p) <= l * p * (a * p)
<1> DEFINE S == Q * Q
           i == S \div p
           f == (a * Q) \div l
           after == i + f
           pa == S \div after
           out == SellZero(a, p, l)
           D == l * Q + a * p
<1>1. Q \in Nat /\ Q > 0 /\ S \in Nat /\ S > 0
  BY PricingAssumption
<1>2. D \in Nat /\ D > 0 /\ a * p \in Nat
  BY <1>1
<1>3. out = IF after = 0 THEN 0 ELSE Positive((l * (p - pa)) \div Q)
  BY DEF SellZero
<1>4. S = Q * Q /\ D = l * Q + a * p
  OBVIOUS
<1> HIDE DEF S, out, D
<1>5. i \in Nat /\ i * p <= S
  BY <1>1, Floor
<1>6. f \in Nat /\ f * l <= a * Q
  BY <1>1, Floor
<1> HIDE DEF i, f
<1>7. after \in Nat /\ after = i + f
  BY <1>5, <1>6
<1> HIDE DEF after
<1>8. CASE out = 0
  <2>1. (0 * Q - l) * D <= l * p * (a * p)
    <3>1. (0 * Q - l) * D <= 0 /\ 0 <= l * p * (a * p)
      BY <1>1, <1>2
    <3>2. (0 * Q - l) * D \in Int /\ l * p * (a * p) \in Int
      BY <1>1, <1>2
    <3> QED BY <3>1, <3>2
  <2>2. (out * Q - l) * D <= l * p * (a * p)
    BY <1>8, <2>1
  <2> QED BY <1>4, <2>2 DEF out
<1>9. CASE out # 0
  <2>1. after > 0 /\ out = (l * (p - pa)) \div Q /\ out > 0
    <3> DEFINE n == (l * (p - pa)) \div Q
    <3>1. after # 0 /\ out = Positive(n) /\ out # 0
      BY <1>3, <1>9
    <3> HIDE DEF n
    <3>2. out = n /\ n > 0
      BY <3>1 DEF Positive
    <3> QED BY <1>7, <3>1, <3>2 DEF n
  <2>2. pa \in Nat /\ S < (pa + 1) * after
    BY <1>1, <1>7, <2>1, Floor
  <2> HIDE DEF pa
  <2>3. out * Q <= l * (p - pa) /\ out \in Nat
    <3> DEFINE n == l * (p - pa)
    <3>1. n \in Int /\ out = n \div Q /\ out > 0
      BY <2>1, <2>2
    <3> HIDE DEF n
    <3>2. n \div Q \in Int /\ (n \div Q) * Q <= n
      BY <1>1, <3>1
    <3> QED BY <3>1, <3>2 DEF n
  \* The price after the swap is at most one below the exact one.
  <2>4. (pa + 1) * D > l * p * Q
    <3>1. after * p * l <= Q * D
      <4>1. i * p * l <= S * l
        BY <1>1, <1>5, TimesGrows
      <4>2. f * l * p <= a * Q * p
        BY <1>1, <1>6, TimesGrows
      <4>3. after * p * l = i * p * l + f * l * p
        BY <1>5, <1>6, <1>7
      <4>4. Q * D = S * l + a * Q * p
        BY <1>1, <1>4
      <4> QED BY <1>1, <1>5, <1>6, <1>7, <4>1, <4>2, <4>3, <4>4
    <3>2. S * (p * l) < (pa + 1) * after * (p * l)
      BY <1>1, <1>7, <2>2, Z3
    <3>3. (pa + 1) * (after * p * l) <= (pa + 1) * (Q * D)
      BY <1>1, <1>2, <1>7, <2>2, <3>1, Z3
    <3>4. Q * (Q * (p * l)) < Q * ((pa + 1) * D)
      BY <1>1, <1>2, <1>4, <1>7, <2>2, <3>2, <3>3
    <3>5. Q * (p * l) < (pa + 1) * D
      BY <1>1, <1>2, <2>2, <3>4, Z3
    <3> QED BY <1>1, <3>5
  <2>5. (out * Q - l) * D <= l * (p * D) - l * ((pa + 1) * D)
    <3>1. out * Q - l <= l * p - l * (pa + 1)
      BY <1>1, <2>2, <2>3
    <3>2. (out * Q - l) * D <= (l * p - l * (pa + 1)) * D
      BY <1>1, <1>2, <2>2, <2>3, <3>1, TimesGrows
    <3>3. (l * p - l * (pa + 1)) * D = l * (p * D) - l * ((pa + 1) * D)
      BY <1>2, <2>2
    <3> QED BY <3>2, <3>3
  <2>6. l * ((pa + 1) * D) >= l * (l * p * Q)
    BY <1>1, <1>2, <2>2, <2>4, Z3
  <2>7. l * (p * D) - l * (l * p * Q) = l * p * (a * p)
    BY <1>1, <1>4
  <2>8. (out * Q - l) * D <= l * p * (a * p)
    <3>1. /\ (out * Q - l) * D \in Int /\ l * (p * D) \in Int
          /\ l * ((pa + 1) * D) \in Int /\ l * (l * p * Q) \in Int
      BY <1>1, <1>2, <2>2, <2>3
    <3> QED BY <2>5, <2>6, <2>7, <3>1
  <2> QED BY <1>4, <2>8 DEF out
<1> QED BY <1>8, <1>9

\* Token1 is sold: what is paid is less than the amount without rounding,
\* (l/Q) * Q^2 * a*Q / (p * (l*p + a*Q)), plus l/Q.
LEMMA SellOneOverstates ==
  ASSUME NEW a \in Nat, NEW p \in Nat, p > 0, NEW l \in Nat, l > 0
  PROVE  (SellOne(a, p, l) * Q - l) * (p * (l * p + a * Q)) <= l * (Q * Q) * (a * Q)
<1> DEFINE S == Q * Q
           i == S \div p
           f == (a * Q) \div l
           pa == p + f
           after == S \div pa
           out == SellOne(a, p, l)
           D == l * p + a * Q
           R == l * S * (a * Q)
<1>1. Q \in Nat /\ Q > 0 /\ S \in Nat /\ S > 0
  BY PricingAssumption
<1>2. D \in Nat /\ D > 0 /\ a * Q \in Nat /\ p * D \in Nat /\ p * D > 0
  BY <1>1
<1>3. out = Positive((l * (i - after)) \div Q)
  BY DEF SellOne
<1>4. S = Q * Q /\ D = l * p + a * Q /\ R = l * S * (a * Q) /\ R \in Nat
  BY <1>1
<1> HIDE DEF S, out, D, R
<1>5. i \in Nat /\ i * p <= S
  BY <1>1, Floor
<1>6. f \in Nat /\ f * l <= a * Q
  BY <1>1, Floor
<1> HIDE DEF i, f
<1>7. pa \in Nat /\ pa > 0 /\ pa * l <= D
  <2>1. pa * l = l * p + f * l
    BY <1>6
  <2> QED BY <1>1, <1>4, <1>6, <2>1
<1> HIDE DEF pa
<1>8. after \in Nat /\ S < (after + 1) * pa
  BY <1>1, <1>7, Floor
<1> HIDE DEF after
<1>9. CASE out = 0
  <2>1. (0 * Q - l) * (p * D) <= 0
    BY <1>1, <1>2
  <2>2. (out * Q - l) * (p * D) <= R
    <3>1. (0 * Q - l) * (p * D) \in Int
      BY <1>1, <1>2
    <3> QED BY <1>4, <1>9, <2>1, <3>1
  <2> QED BY <1>4, <2>2 DEF out
<1>10. CASE out # 0
  <2>1. out * Q <= l * (i - after) /\ out \in Nat
    <3> DEFINE n == l * (i - after)
    <3>1. n \in Int
      BY <1>5, <1>8
    <3>2. out = Positive(n \div Q)
      BY <1>3
    <3> HIDE DEF n
    <3>3. n \div Q \in Int /\ (n \div Q) * Q <= n
      BY <1>1, <3>1
    <3>4. out = n \div Q /\ out \in Nat
      BY <1>10, <3>2, <3>3 DEF Positive
    <3> QED BY <3>3, <3>4 DEF n
  \* The inverse of the price after the swap is at most one below the exact one.
  <2>2. (after + 1) * D > S * l
    <3>1. S * l < (after + 1) * pa * l
      BY <1>1, <1>7, <1>8, Z3
    <3>2. (after + 1) * (pa * l) <= (after + 1) * D
      BY <1>2, <1>7, <1>8, Z3
    <3>3. (after + 1) * pa * l = (after + 1) * (pa * l)
      BY <1>7, <1>8
    <3>4. S * l \in Int /\ (after + 1) * (pa * l) \in Int /\ (after + 1) * D \in Int
      BY <1>1, <1>2, <1>7, <1>8
    <3> QED BY <3>1, <3>2, <3>3, <3>4
  <2>3. (out * Q - l) * (p * D) <= l * i * (p * D) - l * (after + 1) * (p * D)
    <3>1. out * Q - l <= l * i - l * (after + 1)
      BY <1>1, <1>5, <1>8, <2>1
    <3>2. (out * Q - l) * (p * D) <= (l * i - l * (after + 1)) * (p * D)
      <4> DEFINE k == p * D
                 g == out * Q - l
                 h == l * i - l * (after + 1)
      <4>1. g \in Int /\ h \in Int /\ g <= h /\ k \in Nat
        BY <1>1, <1>2, <1>5, <1>8, <2>1, <3>1
      <4> HIDE DEF k, g, h
      <4>2. g * k <= h * k
        BY <4>1, TimesGrows
      <4> QED BY <4>2 DEF k, g, h
    <3>3. (l * i - l * (after + 1)) * (p * D) = l * i * (p * D) - l * (after + 1) * (p * D)
      BY <1>2, <1>5, <1>8
    <3> QED BY <3>2, <3>3
  <2>4. l * i * (p * D) <= l * S * D
    <3>1. l * D \in Nat
      BY <1>2
    <3>2. i * p * (l * D) <= S * (l * D)
      <4> DEFINE k == l * D
                 g == i * p
      <4>1. g \in Int /\ g <= S /\ k \in Nat
        BY <1>5, <3>1
      <4> HIDE DEF k, g
      <4>2. g * k <= S * k
        BY <1>1, <4>1, TimesGrows
      <4> QED BY <4>2 DEF k, g
    <3>3. l * i * (p * D) = i * p * (l * D) /\ l * S * D = S * (l * D)
      BY <1>1, <1>2, <1>5
    <3> QED BY <3>2, <3>3
  <2>5. l * (after + 1) * (p * D) >= l * p * (S * l)
    <3>1. l * p \in Nat /\ l * p > 0
      OBVIOUS
    <3>2. S * l * (l * p) <= (after + 1) * D * (l * p)
      <4> DEFINE k == l * p
                 g == S * l
                 h == (after + 1) * D
      <4>1. g \in Int /\ h \in Int /\ g <= h /\ k \in Nat
        BY <1>1, <1>2, <1>8, <2>2
      <4> HIDE DEF k, g, h
      <4>2. g * k <= h * k
        BY <4>1, TimesGrows
      <4> QED BY <4>2 DEF k, g, h
    <3>3. /\ l * (after + 1) * (p * D) = (after + 1) * D * (l * p)
          /\ l * p * (S * l) = S * l * (l * p)
      BY <1>1, <1>2, <1>8
    <3> QED BY <3>2, <3>3
  <2>6. l * S * D - l * p * (S * l) = R
    BY <1>1, <1>4
  <2>7. (out * Q - l) * (p * D) <= R
    <3>1. /\ (out * Q - l) * (p * D) \in Int /\ l * i * (p * D) \in Int
          /\ l * (after + 1) * (p * D) \in Int /\ l * p * (S * l) \in Int /\ l * S * D \in Int
      BY <1>1, <1>2, <1>5, <1>8, <2>1
    <3> QED BY <2>3, <2>4, <2>5, <2>6, <3>1
  <2> QED BY <1>4, <2>7 DEF out
<1> QED BY <1>9, <1>10

-----------------------------------------------------------------------------
(* A hop, V2 or V3. *)

\* What the code reads of a pool are natural numbers, and a fee is a float.
HopTyped(pool) ==
  IF pool.v3 THEN pool.price \in Nat /\ pool.liquidity \in Nat /\ Rounds(pool.fee)
  ELSE pool.reserve0 \in Nat /\ pool.reserve1 \in Nat

\* What a pool holds of the token it pays for `from`: its reserve, or what its
\* liquidity comes to at its price.
Holds(pool, from) ==
  IF ~pool.v3 THEN ReservesFrom(pool, from)[2]
  ELSE IF pool.price = 0 THEN 0
  ELSE IF from = pool.token0 THEN (pool.liquidity * pool.price) \div Q
  ELSE (pool.liquidity * ((Q * Q) \div pool.price)) \div Q

LEMMA ReservesTyped ==
  ASSUME NEW pool, NEW from, pool.reserve0 \in Nat, pool.reserve1 \in Nat
  PROVE  ReservesFrom(pool, from)[1] \in Nat /\ ReservesFrom(pool, from)[2] \in Nat
BY DEF ReservesFrom

LEMMA HoldsTyped ==
  ASSUME NEW pool, HopTyped(pool), NEW from
  PROVE  Holds(pool, from) \in Nat
<1> DEFINE p == pool.price
           l == pool.liquidity
           i == (Q * Q) \div p
<1>1. Q \in Nat /\ Q > 0 /\ Q * Q \in Nat
  BY PricingAssumption
<1>2. CASE ~pool.v3
  BY <1>2, ReservesTyped DEF HopTyped, Holds
<1>3. CASE pool.v3
  <2>1. p \in Nat /\ l \in Nat
    BY <1>3 DEF HopTyped
  <2>2. Holds(pool, from) = IF p = 0 THEN 0
                            ELSE IF from = pool.token0 THEN (l * p) \div Q ELSE (l * i) \div Q
    BY <1>3 DEF Holds
  <2> HIDE DEF p, l
  <2>3. (l * p) \div Q \in Nat
    BY <1>1, <2>1, Floor
  <2>4. p > 0 => i \in Nat
    BY <1>1, <2>1, Floor
  <2> HIDE DEF i
  <2>5. i \in Nat => (l * i) \div Q \in Nat
    BY <1>1, <2>1, Floor
  <2> QED BY <2>1, <2>2, <2>3, <2>4, <2>5
<1> QED BY <1>2, <1>3

\* v3_amount_out pays more for more, and never more than the liquidity holds.
THEOREM V3Grows ==
  ASSUME NEW pool, pool.v3, HopTyped(pool), NEW from, NEW x \in Nat, NEW y \in Nat, x <= y
  PROVE  /\ V3AmountOut(x, pool, from) \in Nat /\ V3AmountOut(y, pool, from) \in Nat
         /\ V3AmountOut(x, pool, from) <= V3AmountOut(y, pool, from)
         /\ V3AmountOut(x, pool, from) <= Holds(pool, from)
<1> DEFINE p == pool.price
           l == pool.liquidity
           a == AfterFee(x, pool.fee)
           b == AfterFee(y, pool.fee)
           pays(n) == IF from = pool.token0 THEN SellZero(n, p, l) ELSE SellOne(n, p, l)
           held == Holds(pool, from)
<1>1. p \in Nat /\ l \in Nat
  BY DEF HopTyped
<1>2. /\ V3AmountOut(x, pool, from) = IF l = 0 \/ p = 0 \/ a = 0 THEN 0 ELSE pays(a)
      /\ V3AmountOut(y, pool, from) = IF l = 0 \/ p = 0 \/ b = 0 THEN 0 ELSE pays(b)
  BY DEF V3AmountOut
<1>3. held = IF p = 0 THEN 0
             ELSE IF from = pool.token0 THEN (l * p) \div Q
             ELSE (l * ((Q * Q) \div p)) \div Q
  BY DEF Holds
<1> HIDE DEF p, l, held
<1>4. a \in Nat /\ b \in Nat /\ a <= b
  BY DEF HopTyped, Rounds
<1> HIDE DEF a, b
<1>5. held \in Nat
  BY HoldsTyped DEF held
<1>6. ASSUME p > 0, l > 0
      PROVE  pays(a) \in Nat /\ pays(b) \in Nat /\ pays(a) <= pays(b) /\ pays(a) <= held
  <2>1. CASE from = pool.token0
    <3>1. /\ SellZero(a, p, l) \in Nat /\ SellZero(b, p, l) \in Nat
          /\ SellZero(a, p, l) <= SellZero(b, p, l) /\ SellZero(a, p, l) <= (l * p) \div Q
      BY <1>1, <1>4, <1>6, SellZeroGrows
    <3> QED BY <1>3, <1>6, <2>1, <3>1
  <2>2. CASE from # pool.token0
    <3>1. /\ SellOne(a, p, l) \in Nat /\ SellOne(b, p, l) \in Nat
          /\ SellOne(a, p, l) <= SellOne(b, p, l)
          /\ SellOne(a, p, l) <= (l * ((Q * Q) \div p)) \div Q
      BY <1>1, <1>4, <1>6, SellOneGrows
    <3> QED BY <1>3, <1>6, <2>2, <3>1
  <2> QED BY <2>1, <2>2
<1> HIDE DEF pays
<1>7. CASE l = 0 \/ p = 0 \/ a = 0
  <2>1. b = 0 \/ l = 0 \/ p = 0 \/ pays(b) \in Nat
    BY <1>1, <1>6
  <2> QED BY <1>2, <1>5, <1>7, <2>1 DEF held
<1>8. CASE l > 0 /\ p > 0 /\ a > 0
  <2>1. b > 0
    BY <1>4, <1>8
  <2> QED BY <1>2, <1>6, <1>8, <2>1 DEF held
<1> QED BY <1>1, <1>4, <1>7, <1>8

\* Rounding may favour the trader in v3_amount_out, by less than l/Q: what is paid
\* for a, the input less the fee, is less than that above the amount of the
\* constant-liquidity formulas of its docstring, l * (p - p_after) with
\* 1/p_after = 1/p + a/l for token0 and l * (1/p - 1/p_after) with
\* p_after = p + a/l for token1 (p is a price in units of 1/Q).
THEOREM V3OverstatesLittle ==
  ASSUME NEW pool, pool.v3, HopTyped(pool), pool.price > 0, pool.liquidity > 0,
         NEW from, NEW x \in Nat
  PROVE  LET out == V3AmountOut(x, pool, from)
             a == AfterFee(x, pool.fee)
             p == pool.price
             l == pool.liquidity
         IN  IF from = pool.token0
             THEN (out * Q - l) * (l * Q + a * p) <= l * p * (a * p)
             ELSE (out * Q - l) * (p * (l * p + a * Q)) <= l * (Q * Q) * (a * Q)
<1> DEFINE p == pool.price
           l == pool.liquidity
           a == AfterFee(x, pool.fee)
           out == V3AmountOut(x, pool, from)
<1>1. p \in Nat /\ l \in Nat /\ p > 0 /\ l > 0
  BY DEF HopTyped
<1>2. a \in Nat
  BY DEF HopTyped, Rounds
<1>3. out = IF l = 0 \/ p = 0 \/ a = 0 THEN 0
            ELSE IF from = pool.token0 THEN SellZero(a, p, l) ELSE SellOne(a, p, l)
  BY DEF V3AmountOut
<1>4. Q \in Nat /\ Q > 0
  BY PricingAssumption
<1> HIDE DEF p, l, a, out
<1>5. CASE a > 0 /\ from = pool.token0
  <2>1. (out * Q - l) * (l * Q + a * p) <= l * p * (a * p)
    <3>1. out = SellZero(a, p, l)
      BY <1>1, <1>3, <1>5
    <3>2. (SellZero(a, p, l) * Q - l) * (l * Q + a * p) <= l * p * (a * p)
      BY <1>1, <1>2, SellZeroOverstates
    <3> QED BY <3>1, <3>2
  <2> QED BY <1>5, <2>1 DEF p, l, a, out
<1>6. CASE a > 0 /\ from # pool.token0
  <2>1. (out * Q - l) * (p * (l * p + a * Q)) <= l * (Q * Q) * (a * Q)
    <3>1. out = SellOne(a, p, l)
      BY <1>1, <1>3, <1>6
    <3>2. (SellOne(a, p, l) * Q - l) * (p * (l * p + a * Q)) <= l * (Q * Q) * (a * Q)
      BY <1>1, <1>2, SellOneOverstates
    <3> QED BY <3>1, <3>2
  <2> QED BY <1>6, <2>1 DEF p, l, a, out
<1>7. CASE a = 0
  <2>1. out = 0
    BY <1>3, <1>7
  <2>2. ASSUME NEW d \in Nat, NEW r \in Nat PROVE (out * Q - l) * d <= r
    <3>1. out * Q - l = -l
      BY <1>1, <1>4, <2>1
    <3>2. l * d \in Nat /\ (-l) * d = -(l * d)
      BY <1>1
    <3> QED BY <3>1, <3>2
  <2>3. /\ l * Q + a * p \in Nat /\ l * p * (a * p) \in Nat
        /\ p * (l * p + a * Q) \in Nat /\ l * (Q * Q) * (a * Q) \in Nat
    BY <1>1, <1>2, <1>4
  <2>4. /\ (out * Q - l) * (l * Q + a * p) <= l * p * (a * p)
        /\ (out * Q - l) * (p * (l * p + a * Q)) <= l * (Q * Q) * (a * Q)
    BY <2>2, <2>3
  <2> QED BY <2>4 DEF p, l, a, out
<1> QED BY <1>2, <1>5, <1>6, <1>7

LEMMA HopGrows ==
  ASSUME NEW pool, HopTyped(pool), NEW from, NEW x \in Nat, NEW y \in Nat, x <= y
  PROVE  /\ HopOut(x, pool, from) \in Nat /\ HopOut(y, pool, from) \in Nat
         /\ HopOut(x, pool, from) <= HopOut(y, pool, from)
         /\ HopOut(x, pool, from) <= Holds(pool, from)
<1>1. CASE pool.v3
  BY <1>1, V3Grows DEF HopOut
<1>2. CASE ~pool.v3
  <2> DEFINE a == ReservesFrom(pool, from)[1]
             b == ReservesFrom(pool, from)[2]
  <2>1. /\ HopOut(x, pool, from) = GetAmountOut(x, a, b)
        /\ HopOut(y, pool, from) = GetAmountOut(y, a, b)
        /\ Holds(pool, from) = b
    BY <1>2 DEF HopOut, Holds
  <2>2. a \in Nat /\ b \in Nat
    BY <1>2, ReservesTyped DEF HopTyped
  <2> HIDE DEF a, b
  <2>3. /\ GetAmountOut(x, a, b) \in Nat /\ GetAmountOut(y, a, b) \in Nat
        /\ GetAmountOut(x, a, b) <= GetAmountOut(y, a, b)
    BY <2>2, Typed, OutputGrows
  <2>4. GetAmountOut(x, a, b) <= b
    <3>1. CASE b = 0
      BY <3>1 DEF GetAmountOut
    <3>2. CASE b > 0
      BY <2>2, <2>3, <3>2, OutputBelowReserve
    <3> QED BY <2>2, <3>1, <3>2
  <2> QED BY <2>1, <2>3, <2>4
<1> QED BY <1>1, <1>2

-----------------------------------------------------------------------------
(* A chain of hops. *)

PoolsOf(c) == Len(c.pools) \in Nat /\ \A i \in 1 .. Len(c.pools) : HopTyped(c.pools[i])

LEMMA ChainSteps ==
  ASSUME NEW c, PoolsOf(c), NEW x \in Nat
  PROVE  \E out \in [0 .. Len(c.pools) -> Nat] :
           /\ out[0] = x
           /\ \A i \in 1 .. Len(c.pools) : out[i] = HopOut(out[i - 1], c.pools[i], c.tokens[i])
           /\ GetAmountOutMultiHop(c, x) = out[Len(c.pools)]
<1> DEFINE n == Len(c.pools)
           hop(i, a) == HopOut(a, c.pools[i], c.tokens[i])
           F == [i \in 1 .. n |-> [a \in Nat |-> hop(i, a)]]
           Hops(f) == [i \in 0 .. n |-> IF i = 0 THEN x ELSE hop(i, f[i - 1])]
           out == CHOOSE f : f = Hops(f)
<1>1. n \in Nat
  BY DEF PoolsOf
<1>2. ASSUME NEW i \in 1 .. n, NEW a \in Nat
      PROVE  hop(i, a) \in Nat
  <2>1. HopTyped(c.pools[i]) /\ a <= a
    BY DEF PoolsOf
  <2> QED BY <2>1, HopGrows
<1>3. MapsInto(F, n, Nat)
  BY <1>2 DEF MapsInto
<1>4. \A i \in 1 .. n, a \in Nat : F[i][a] = hop(i, a)
  OBVIOUS
<1>5. GetAmountOutMultiHop(c, x) = out[n]
  BY DEF GetAmountOutMultiHop
<1> HIDE DEF F, hop, n
<1>6. PICK f \in [0 .. n -> Nat] : f[0] = x /\ \A i \in 1 .. n : f[i] = F[i][f[i - 1]]
  <2> DEFINE S == Nat
  <2>1. x \in S /\ MapsInto(F, n, S)
    BY <1>3
  <2> HIDE DEF S
  <2>2. \E f \in [0 .. n -> S] : f[0] = x /\ \A i \in 1 .. n : f[i] = F[i][f[i - 1]]
    BY <1>1, <2>1, Recursion
  <2> QED BY <2>2 DEF S
<1>7. f = Hops(f)
  <2>1. \A i \in 1 .. n : f[i] = hop(i, f[i - 1])
    <3>1. \A i \in 1 .. n : f[i - 1] \in Nat
      BY <1>1
    <3> QED BY <1>4, <1>6, <3>1
  <2>2. \A i \in 0 .. n : f[i] = IF i = 0 THEN x ELSE hop(i, f[i - 1])
    BY <1>1, <1>6, <2>1
  <2>3. f = [i \in 0 .. n |-> f[i]]
    OBVIOUS
  <2> QED BY <2>2, <2>3
<1>8. out = Hops(out)
  <2> HIDE DEF Hops
  <2> QED BY <1>7
<1> HIDE DEF out
<1>9. out[0] = x /\ \A i \in 1 .. n : out[i] = hop(i, out[i - 1])
  BY <1>1, <1>8
<1>10. \A i \in 0 .. n : out[i] \in Nat
  <2> DEFINE T == {i \in 0 .. n : out[i] \in Nat}
  <2>1. 0 \in T
    BY <1>1, <1>9
  <2>2. ASSUME NEW i \in 1 .. n, i - 1 \in T PROVE i \in T
    <3>1. out[i - 1] \in Nat
      BY <2>2
    <3>2. hop(i, out[i - 1]) \in Nat
      BY <1>2, <3>1
    <3> QED BY <1>9, <3>2
  <2> HIDE DEF T
  <2>3. 0 .. n \subseteq T
    BY <1>1, <2>1, <2>2, UpTo
  <2> QED BY <2>3 DEF T
<1>11. out \in [0 .. n -> Nat]
  <2>1. out = [i \in 0 .. n |-> out[i]]
    BY <1>8
  <2> QED BY <1>10, <2>1
<1> QED BY <1>5, <1>9, <1>11 DEF n, hop

\* get_amount_out_multi_hop keeps the order of its inputs, however long the cycle
\* and whatever its pools: a larger loan is never quoted a smaller return.
THEOREM ChainGrows ==
  ASSUME NEW c, PoolsOf(c), NEW x \in Nat, NEW y \in Nat, x <= y
  PROVE  GetAmountOutMultiHop(c, x) <= GetAmountOutMultiHop(c, y)
<1> DEFINE n == Len(c.pools)
<1>1. PICK f \in [0 .. n -> Nat] :
        /\ f[0] = x
        /\ \A i \in 1 .. n : f[i] = HopOut(f[i - 1], c.pools[i], c.tokens[i])
        /\ GetAmountOutMultiHop(c, x) = f[n]
  BY ChainSteps
<1>2. PICK g \in [0 .. n -> Nat] :
        /\ g[0] = y
        /\ \A i \in 1 .. n : g[i] = HopOut(g[i - 1], c.pools[i], c.tokens[i])
        /\ GetAmountOutMultiHop(c, y) = g[n]
  BY ChainSteps
<1>3. n \in Nat
  BY DEF PoolsOf
<1> DEFINE T == {i \in 0 .. n : f[i] <= g[i]}
<1>4. 0 \in T
  BY <1>1, <1>2, <1>3
<1>5. ASSUME NEW i \in 1 .. n, i - 1 \in T PROVE i \in T
  <2>1. f[i - 1] \in Nat /\ g[i - 1] \in Nat /\ f[i - 1] <= g[i - 1]
    BY <1>3, <1>5
  <2>2. HopTyped(c.pools[i])
    BY DEF PoolsOf
  <2>3. HopOut(f[i - 1], c.pools[i], c.tokens[i]) <= HopOut(g[i - 1], c.pools[i], c.tokens[i])
    BY <2>1, <2>2, HopGrows
  <2>4. f[i] <= g[i]
    BY <1>1, <1>2, <2>3
  <2> QED BY <2>4
<1> HIDE DEF T, n
<1>6. 0 .. n \subseteq T
  BY <1>3, <1>4, <1>5, UpTo
<1> QED BY <1>1, <1>2, <1>3, <1>6, n \in 0 .. n DEF T

\* Nor is a cycle ever quoted more than its last pool holds.
THEOREM ChainBelowReserve ==
  ASSUME NEW c, PoolsOf(c), Len(c.pools) > 0, NEW x \in Nat
  PROVE  GetAmountOutMultiHop(c, x) <= Holds(c.pools[Len(c.pools)], c.tokens[Len(c.pools)])
<1> DEFINE n == Len(c.pools)
<1>1. PICK f \in [0 .. n -> Nat] :
        /\ f[0] = x
        /\ \A i \in 1 .. n : f[i] = HopOut(f[i - 1], c.pools[i], c.tokens[i])
        /\ GetAmountOutMultiHop(c, x) = f[n]
  BY ChainSteps
<1>2. n \in Nat /\ n \in 1 .. n /\ n - 1 \in 0 .. n /\ HopTyped(c.pools[n])
  BY DEF PoolsOf
<1>3. f[n] = HopOut(f[n - 1], c.pools[n], c.tokens[n]) /\ f[n - 1] \in Nat
  BY <1>1, <1>2
<1>4. HopOut(f[n - 1], c.pools[n], c.tokens[n]) <= Holds(c.pools[n], c.tokens[n])
  BY <1>2, <1>3, HopGrows, f[n - 1] <= f[n - 1]
<1> QED BY <1>1, <1>3, <1>4

\* The profit the sniper searches is an integer, as the search needs it, and is
\* negative from an input on that the last pool of the cycle holds.
THEOREM LargeLoansLose ==
  ASSUME NEW m, PoolsOf(m.cycle), Len(m.cycle.pools) > 0, m.gas \in Nat, NEW x \in Nat
  PROVE  LET n == Len(m.cycle.pools)
         IN  /\ NetProfit(m, x) \in Int
             /\ x >= Holds(m.cycle.pools[n], m.cycle.tokens[n]) => NetProfit(m, x) <= 0
<1> DEFINE n == Len(m.cycle.pools)
           c == m.cycle
           held == Holds(c.pools[n], c.tokens[n])
           out == GetAmountOutMultiHop(c, x)
<1>1. out \in Nat
  <2>1. PoolsOf(c) /\ n \in Nat
    BY DEF PoolsOf
  <2> HIDE DEF c
  <2>2. \E f \in [0 .. Len(c.pools) -> Nat] : out = f[Len(c.pools)]
    BY <2>1, ChainSteps
  <2> QED BY <2>1, <2>2 DEF PoolsOf
<1>2. out <= held
  BY ChainBelowReserve
<1>3. held \in Nat
  <2>1. HopTyped(c.pools[n])
    BY DEF PoolsOf
  <2> QED BY <2>1, HoldsTyped
<1>4. NetProfit(m, x) = out - x - m.gas
  BY DEF NetProfit
<1> HIDE DEF out, held
<1>5. NetProfit(m, x) \in Int /\ (x >= held => NetProfit(m, x) <= 0)
  BY <1>1, <1>2, <1>3, <1>4
<1> QED BY <1>5 DEF held

-----------------------------------------------------------------------------
(* The search for the input size. *)

\* Of a profit that sags by d at most, the window holds an input as good as any,
\* but for what the comparisons made so far may have cost.
NearKept ==
  \A d \in 0 .. MaxSag :
    Concave(market, d) =>
      \A x \in 1 .. Top(market) :
        \E y \in lo .. hi : Profit(market, x) <= Profit(market, y) + 2 * rounds * d

\* What was scanned is not better than best.
ScanOK ==
  /\ next > 0 =>
       /\ lo < next /\ best \in lo .. hi
       /\ \A y \in lo .. next - 1 : Profit(market, y) <= Profit(market, best)
  /\ result # -1 => next > hi

SizeInv == SizeTypeOK /\ NearKept /\ ScanOK /\ NearBest

-----------------------------------------------------------------------------
\* The two inputs compared lie inside the window, one before the other.
LEMMA Thirds ==
  ASSUME NEW l \in Nat, NEW h \in Nat, h - l > 3
  PROVE  /\ l + (h - l) \div 3 \in Nat /\ h - (h - l) \div 3 \in Nat
         /\ l < l + (h - l) \div 3
         /\ l + (h - l) \div 3 < h - (h - l) \div 3
         /\ h - (h - l) \div 3 < h
<1> DEFINE third == (h - l) \div 3
<1>1. third \in Nat /\ 3 * third <= h - l /\ h - l < 3 * third + 3
  OBVIOUS
<1>2. third >= 1
  BY <1>1
<1> HIDE DEF third
<1>3. /\ l + third \in Nat /\ h - third \in Nat
      /\ l < l + third /\ l + third < h - third /\ h - third < h
  BY <1>1, <1>2
<1> QED BY <1>3 DEF third

LEMMA TopTyped ==
  ASSUME NEW m \in Markets
  PROVE  Top(m) \in Nat /\ Top(m) >= 1 /\ \A x \in 1 .. Top(m) : Profit(m, x) \in Int
BY SearchAssumption DEF Top

LEMMA InitSizeInv == SizeInit => SizeInv
<1> SUFFICES ASSUME SizeInit PROVE SizeInv
  OBVIOUS
<1>1. Top(market) \in Nat /\ Top(market) >= 1
  BY TopTyped DEF SizeInit
<1>2. SizeTypeOK
  BY <1>1, SearchAssumption DEF SizeInit, SizeTypeOK
<1>3. NearKept
  <2> SUFFICES ASSUME NEW d \in 0 .. MaxSag, NEW x \in 1 .. Top(market)
               PROVE  \E y \in lo .. hi : Profit(market, x) <= Profit(market, y) + 2 * rounds * d
    BY DEF NearKept
  <2>1. Profit(market, x) \in Int /\ d \in Int
    BY TopTyped, SearchAssumption DEF SizeInit
  <2>2. x \in lo .. hi /\ rounds = 0
    BY DEF SizeInit
  <2>3. 2 * rounds * d = 0
    BY <2>1, <2>2
  <2>4. Profit(market, x) <= Profit(market, x) + 2 * rounds * d
    BY <2>1, <2>3
  <2> QED BY <2>2, <2>4
<1> QED BY <1>2, <1>3 DEF SizeInit, SizeInv, ScanOK, NearBest

\* An input that is given up lies q beyond the nearer of two inputs p apart, which
\* gains no more than the farther one: it gains little more than the nearer one.
LEMMA GivenUp ==
  ASSUME NEW p \in Nat, NEW q \in Nat, NEW d \in Nat,
         NEW out \in Int, NEW near \in Int, NEW far \in Int,
         p > 0, q <= p, near <= far,
         p * out + q * far <= (p + q) * (near + d)
  PROVE  out <= near + 2 * d
<1> SUFFICES ASSUME out > near + 2 * d PROVE FALSE
  OBVIOUS
<1> DEFINE e == out - (near + 2 * d + 1)
           g == far - near
<1>1. e \in Nat /\ out = near + 2 * d + 1 + e
  OBVIOUS
<1>2. g \in Nat /\ far = near + g
  OBVIOUS
<1> HIDE DEF e, g
<1>3. p * out = p * near + 2 * (p * d) + p + p * e
  BY <1>1, Z3
<1>4. q * far = q * near + q * g
  BY <1>2, Z3
<1>5. (p + q) * (near + d) = p * near + q * near + p * d + q * d
  BY Z3
<1>6. p * e >= 0 /\ q * g >= 0 /\ q * d <= p * d
  <2>1. p * e \in Nat /\ q * g \in Nat
    BY <1>1, <1>2
  <2>2. q * d <= p * d
    BY TimesGrows
  <2> QED BY <2>1, <2>2
<1> DEFINE pn == p * near
           qn == q * near
           pd == p * d
           qd == q * d
           pe == p * e
           qg == q * g
<1>7. pn \in Int /\ qn \in Int /\ pd \in Int /\ qd \in Int /\ pe \in Int /\ qg \in Int
  BY <1>1, <1>2
<1>8. pn + 2 * pd + p + pe + qn + qg <= pn + qn + pd + qd
  BY <1>3, <1>4, <1>5
<1>9. pe >= 0 /\ qg >= 0 /\ qd <= pd
  BY <1>6
<1> HIDE DEF pn, qn, pd, qd, pe, qg
<1> QED BY <1>7, <1>8, <1>9

\* Whichever side a comparison gives up, each input of it has one in the window
\* that is left which gains at most 2d less.
LEMMA ComparisonCost ==
  ASSUME NEW m \in Markets, NEW d \in Nat, Concave(m, d),
         NEW l \in 1 .. Top(m), NEW h \in 1 .. Top(m), h - l > 3,
         NEW y \in l .. h, NEW l2 \in Nat, NEW h2 \in Nat,
         LET left == l + (h - l) \div 3
             right == h - (h - l) \div 3
         IN  \/ Profit(m, left) < Profit(m, right) /\ l2 = left /\ h2 = h
             \/ ~(Profit(m, left) < Profit(m, right)) /\ l2 = l /\ h2 = right
  PROVE  \E z \in l2 .. h2 : z \in 1 .. Top(m) /\ Profit(m, y) <= Profit(m, z) + 2 * d
<1> DEFINE third == (h - l) \div 3
           left == l + third
           right == h - third
<1>1. /\ Top(m) \in Nat /\ l \in Nat /\ h \in Nat /\ y \in Nat /\ y \in 1 .. Top(m)
  BY TopTyped
<1>2. third \in Nat /\ 3 * third <= h - l
  BY <1>1
<1>3. /\ left \in Nat /\ right \in Nat /\ l < left /\ left < right /\ right < h
  BY <1>1, Thirds
<1>4. left - l = third /\ h - right = third /\ third <= right - left
  BY <1>1, <1>2
<1>5. \/ Profit(m, left) < Profit(m, right) /\ l2 = left /\ h2 = h
      \/ ~(Profit(m, left) < Profit(m, right)) /\ l2 = l /\ h2 = right
  OBVIOUS
<1> HIDE DEF third, left, right
<1>6. left \in 1 .. Top(m) /\ right \in 1 .. Top(m)
  BY <1>1, <1>3
<1>7. Profit(m, left) \in Int /\ Profit(m, right) \in Int /\ Profit(m, y) \in Int
  BY <1>1, <1>6, TopTyped
<1>8. CASE y \in l2 .. h2
  <2>1. Profit(m, y) <= Profit(m, y) + 2 * d
    BY <1>7
  <2> QED BY <1>1, <1>8, <2>1
<1>9. CASE Profit(m, left) < Profit(m, right) /\ l2 = left /\ h2 = h /\ y \notin l2 .. h2
  <2>1. y < left
    BY <1>1, <1>3, <1>9
  <2> DEFINE p == right - left
             q == left - y
  <2>2. p \in Nat /\ q \in Nat /\ p > 0 /\ q <= p /\ right - y = p + q
    BY <1>1, <1>2, <1>3, <1>4, <2>1
  <2>3. p * Profit(m, y) + q * Profit(m, right) <= (right - y) * (Profit(m, left) + d)
    BY <1>1, <1>3, <1>6, <2>1 DEF Concave
  <2>4. p * Profit(m, y) + q * Profit(m, right) <= (p + q) * (Profit(m, left) + d)
    BY <2>2, <2>3
  <2> HIDE DEF p, q
  <2>5. Profit(m, left) <= Profit(m, right)
    BY <1>7, <1>9
  <2>6. Profit(m, y) <= Profit(m, left) + 2 * d
    BY <1>7, <2>2, <2>4, <2>5, GivenUp
  <2>7. left \in l2 .. h2
    BY <1>1, <1>3, <1>9
  <2> QED BY <1>6, <2>6, <2>7
<1>10. CASE ~(Profit(m, left) < Profit(m, right)) /\ l2 = l /\ h2 = right /\ y \notin l2 .. h2
  <2>1. right < y
    BY <1>1, <1>3, <1>10
  <2> DEFINE p == right - left
             q == y - right
  <2>2. p \in Nat /\ q \in Nat /\ p > 0 /\ q <= p /\ y - left = p + q
    BY <1>1, <1>2, <1>3, <1>4, <2>1
  <2>3. q * Profit(m, left) + p * Profit(m, y) <= (y - left) * (Profit(m, right) + d)
    BY <1>1, <1>3, <1>6, <2>1 DEF Concave
  <2> HIDE DEF p, q
  <2>4. p * Profit(m, y) + q * Profit(m, left) <= (p + q) * (Profit(m, right) + d)
    <3>1. p * Profit(m, y) \in Int /\ q * Profit(m, left) \in Int
      BY <1>7, <2>2
    <3> QED BY <2>2, <2>3, <3>1
  <2>5. Profit(m, right) <= Profit(m, left)
    BY <1>7, <1>10
  <2>6. Profit(m, y) <= Profit(m, right) + 2 * d
    BY <1>7, <2>2, <2>4, <2>5, GivenUp
  <2>7. right \in l2 .. h2
    BY <1>1, <1>3, <1>10
  <2> QED BY <1>6, <2>6, <2>7
<1> QED BY <1>5, <1>8, <1>9, <1>10

\* One comparison gives up inputs that gain little more than the one it keeps.
LEMMA CompareSizeInv == SizeInv /\ Step => SizeInv'
<1> SUFFICES ASSUME SizeInv, Step PROVE SizeInv'
  OBVIOUS
<1>1. /\ market \in Markets /\ Top(market) \in Nat
      /\ lo \in Nat /\ hi \in Nat /\ 1 <= lo /\ lo <= hi /\ hi <= Top(market)
  BY TopTyped DEF SizeInv, SizeTypeOK
<1>2. hi - lo > 3 /\ rounds \in 0 .. Iterations /\ rounds # Iterations /\ next = 0
  BY <1>1 DEF Step, Narrow, SizeInv, SizeTypeOK
<1>3. /\ Left \in Nat /\ Right \in Nat
      /\ lo < Left /\ Left < Right /\ Right < hi
  BY <1>1, <1>2, Thirds DEF Left, Right
<1>4. Left \in 1 .. Top(market) /\ Right \in 1 .. Top(market)
  BY <1>1, <1>3
<1>5. \/ Profit(market, Left) < Profit(market, Right) /\ lo' = Left /\ hi' = hi
      \/ ~(Profit(market, Left) < Profit(market, Right)) /\ lo' = lo /\ hi' = Right
  BY DEF Step, Compare
<1>6. /\ UNCHANGED <<market, best, next, result>> /\ rounds' = rounds + 1
  BY DEF Step
<1>7. SizeTypeOK'
  <2>1. lo' \in 1 .. Top(market) /\ hi' \in lo' .. Top(market)
    BY <1>1, <1>3, <1>5
  <2>2. rounds' \in 0 .. Iterations
    BY <1>2, <1>6, SearchAssumption
  <2>3. next' \in 0 .. hi' + 1
    <3>1. hi' \in Nat
      BY <1>1, <1>3, <1>5
    <3>2. next' = 0
      BY <1>2, <1>6
    <3>3. \A h \in Nat : 0 \in 0 .. h + 1
      OBVIOUS
    <3>4. 0 \in 0 .. hi' + 1
      BY <3>1, <3>3
    <3> QED BY <3>2, <3>4
  <2> QED BY <1>6, <2>1, <2>2, <2>3 DEF SizeInv, SizeTypeOK
<1>8. NearKept'
  <2> SUFFICES ASSUME NEW d \in 0 .. MaxSag, Concave(market, d), NEW x \in 1 .. Top(market)
               PROVE  \E y \in lo' .. hi' :
                        Profit(market, x) <= Profit(market, y) + 2 * (rounds + 1) * d
    BY <1>6 DEF NearKept
  <2>1. PICK y \in lo .. hi : Profit(market, x) <= Profit(market, y) + 2 * rounds * d
    BY DEF SizeInv, NearKept
  <2>2. d \in Nat /\ y \in 1 .. Top(market)
    BY <1>1, SearchAssumption
  <2>3. PICK z \in lo' .. hi' : z \in 1 .. Top(market) /\ Profit(market, y) <= Profit(market, z) + 2 * d
    <3>1. lo \in 1 .. Top(market) /\ hi \in 1 .. Top(market)
      BY <1>1
    <3>2. lo' \in Nat /\ hi' \in Nat
      BY <1>1, <1>3, <1>5
    <3>3. \/ Profit(market, Left) < Profit(market, Right) /\ lo' = Left /\ hi' = hi
          \/ ~(Profit(market, Left) < Profit(market, Right)) /\ lo' = lo /\ hi' = Right
      BY <1>5
    <3> QED BY <1>1, <1>2, <2>2, <3>1, <3>2, <3>3, ComparisonCost DEF Left, Right
  <2>4. /\ Profit(market, x) \in Int /\ Profit(market, y) \in Int /\ Profit(market, z) \in Int
        /\ rounds \in Nat
    BY <1>1, <1>2, <2>2, <2>3, TopTyped
  <2>5. 2 * (rounds + 1) * d = 2 * rounds * d + 2 * d
    BY <2>2, <2>4
  <2> DEFINE cost == 2 * rounds * d
  <2>6. cost \in Int
    BY <2>2, <2>4
  <2> HIDE DEF cost
  <2>7. Profit(market, x) <= Profit(market, z) + (cost + 2 * d)
    BY <2>1, <2>2, <2>3, <2>4, <2>6 DEF cost
  <2> QED BY <2>3, <2>5, <2>7 DEF cost
<1>9. result = -1
  BY <1>1, <1>2 DEF SizeInv, ScanOK
<1>10. ScanOK' /\ NearBest'
  BY <1>2, <1>6, <1>9 DEF ScanOK, NearBest
<1> QED BY <1>7, <1>8, <1>10 DEF SizeInv

LEMMA StartScanSizeInv == SizeInv /\ StartScan => SizeInv'
<1> SUFFICES ASSUME SizeInv, StartScan PROVE SizeInv'
  OBVIOUS
<1>1. /\ market \in Markets /\ Top(market) \in Nat
      /\ lo \in Nat /\ hi \in Nat /\ 1 <= lo /\ lo <= hi /\ hi <= Top(market)
      /\ Profit(market, lo) \in Int
  BY TopTyped DEF SizeInv, SizeTypeOK
<1>2. /\ next = 0 /\ best' = lo /\ next' = lo + 1
      /\ UNCHANGED <<market, lo, hi, rounds, result>>
  BY DEF StartScan
<1>3. SizeTypeOK'
  BY <1>1, <1>2 DEF SizeInv, SizeTypeOK
<1>4. result = -1
  BY <1>1, <1>2 DEF SizeInv, ScanOK
<1>5. ScanOK'
  <2>1. \A y \in lo .. lo : y = lo
    BY <1>1
  <2>2. (lo + 1) - 1 = lo
    BY <1>1
  <2> QED BY <1>1, <1>2, <1>4, <2>1, <2>2 DEF ScanOK
<1> QED
  BY <1>2, <1>3, <1>4, <1>5 DEF SizeInv, NearKept, NearBest

\* One turn of the scan extends what best was compared with by one input.
LEMMA ScanSizeInv == SizeInv /\ Scan => SizeInv'
<1> SUFFICES ASSUME SizeInv, Scan PROVE SizeInv'
  OBVIOUS
<1>1. /\ market \in Markets /\ Top(market) \in Nat
      /\ lo \in Nat /\ hi \in Nat /\ 1 <= lo /\ lo <= hi /\ hi <= Top(market)
      /\ \A x \in 1 .. Top(market) : Profit(market, x) \in Int
  BY TopTyped DEF SizeInv, SizeTypeOK
<1>2. /\ next \in 1 .. hi /\ lo < next /\ best \in lo .. hi /\ next \in Nat /\ best \in Nat
      /\ \A y \in lo .. next - 1 : Profit(market, y) <= Profit(market, best)
  BY <1>1 DEF Scan, SizeInv, ScanOK
<1>3. /\ best' = IF Profit(market, next) > Profit(market, best) THEN next ELSE best
      /\ next' = next + 1
      /\ UNCHANGED <<market, lo, hi, rounds, result>>
  BY DEF Scan
<1>4. best' \in lo .. hi
  BY <1>1, <1>2, <1>3
<1>5. SizeTypeOK'
  BY <1>1, <1>2, <1>3, <1>4 DEF SizeInv, SizeTypeOK
<1>6. \A y \in lo .. next : Profit(market, y) <= Profit(market, best')
  <2> SUFFICES ASSUME NEW y \in lo .. next PROVE Profit(market, y) <= Profit(market, best')
    OBVIOUS
  <2>1. /\ Profit(market, y) \in Int /\ Profit(market, next) \in Int
        /\ Profit(market, best) \in Int
    BY <1>1, <1>2
  <2>2. y = next \/ y \in lo .. next - 1
    BY <1>1, <1>2
  <2> QED BY <1>2, <1>3, <2>1, <2>2
<1>7. result = -1
  BY <1>1, <1>2 DEF SizeInv, ScanOK
<1>8. ScanOK'
  <2>1. (next + 1) - 1 = next
    BY <1>2
  <2> QED BY <1>1, <1>2, <1>3, <1>4, <1>6, <1>7, <2>1 DEF ScanOK
<1> QED
  BY <1>3, <1>5, <1>7, <1>8 DEF SizeInv, NearKept, NearBest

\* When the window was scanned, best is the best of it, and little is better.
LEMMA ReturnSizeInv == SizeInv /\ Return => SizeInv'
<1> SUFFICES ASSUME SizeInv, Return PROVE SizeInv'
  OBVIOUS
<1>1. /\ market \in Markets /\ Top(market) \in Nat
      /\ lo \in Nat /\ hi \in Nat /\ 1 <= lo /\ lo <= hi /\ hi <= Top(market)
      /\ \A x \in 1 .. Top(market) : Profit(market, x) \in Int
  BY TopTyped DEF SizeInv, SizeTypeOK
<1>2. /\ next > hi /\ next \in Nat
      /\ result' = IF Profit(market, best) <= 0 THEN 0 ELSE best
      /\ UNCHANGED <<market, lo, hi, rounds, best, next>>
  BY <1>1 DEF Return, Scanned, SizeInv, SizeTypeOK
<1>3. /\ best \in lo .. hi /\ best >= 1
      /\ \A y \in lo .. hi : Profit(market, y) <= Profit(market, best)
  BY <1>1, <1>2 DEF SizeInv, ScanOK
<1>4. Profit(market, best) \in Int
  BY <1>1, <1>3
<1>5. SizeTypeOK'
  BY <1>1, <1>2, <1>3 DEF SizeInv, SizeTypeOK
<1>6. Gained(market, result') \in Int /\ Profit(market, best) <= Gained(market, result')
  BY <1>2, <1>3, <1>4 DEF Gained
<1>7. NearBest'
  <2> SUFFICES ASSUME NEW d \in 0 .. MaxSag, Concave(market, d), NEW x \in 1 .. Top(market)
               PROVE  Profit(market, x) <= Gained(market, result') + 2 * rounds * d
    BY <1>2 DEF NearBest, Gained
  <2>1. PICK y \in lo .. hi : Profit(market, x) <= Profit(market, y) + 2 * rounds * d
    BY DEF SizeInv, NearKept
  <2>2. /\ Profit(market, x) \in Int /\ Profit(market, y) \in Int
        /\ Profit(market, y) <= Profit(market, best)
    BY <1>1, <1>3
  <2> DEFINE cost == 2 * rounds * d
  <2>3. cost \in Int
    BY SearchAssumption DEF SizeInv, SizeTypeOK
  <2>4. Profit(market, x) <= Profit(market, y) + cost
    BY <2>1
  <2> HIDE DEF cost
  <2>5. Profit(market, x) <= Gained(market, result') + cost
    BY <1>4, <1>6, <2>2, <2>3, <2>4
  <2> QED BY <2>5 DEF cost
<1>8. NearKept' /\ ScanOK'
  BY <1>1, <1>2 DEF SizeInv, NearKept, ScanOK
<1> QED BY <1>5, <1>7, <1>8 DEF SizeInv

LEMMA SizeInductive == SizeSpec => []SizeInv
<1>1. SizeInv /\ [SizeNext]_sizeVars => SizeInv'
  <2> SUFFICES ASSUME SizeInv, [SizeNext]_sizeVars PROVE SizeInv'
    OBVIOUS
  <2>1. CASE UNCHANGED sizeVars
    BY <2>1 DEF sizeVars, SizeInv, SizeTypeOK, NearKept, ScanOK, NearBest
  <2> QED BY <2>1, CompareSizeInv, StartScanSizeInv, ScanSizeInv, ReturnSizeInv DEF SizeNext
<1> QED BY <1>1, InitSizeInv, PTL DEF SizeSpec

-----------------------------------------------------------------------------
\* No input gains much more than the size calculate_optimal_input_size returns:
\* each comparison costs at most twice what the profit sags below its chords,
\* whatever plateaus and saw teeth rounding gives it, and however few iterations
\* are allowed.
THEOREM NearlyBestFound == SizeSpec => []NearBest
<1>1. SizeInv => NearBest
  BY DEF SizeInv
<1> QED BY <1>1, SizeInductive, PTL

\* No input that the search prices comes back from a V2 pool of the cycle as more,
\* whatever the cycle, its reserves, the gas and the greatest input.
THEOREM RoundTripsLose == SizeSpec => []RoundTripNeverGains
<1>1. SizeInv => RoundTripNeverGains
  <2> SUFFICES ASSUME SizeInv,
                      NEW i \in DOMAIN market.cycle.pools, NEW x \in {lo, Left, Right, hi},
                      ~market.cycle.pools[i].v3
               PROVE  LET reserves == ReservesFrom(market.cycle.pools[i], market.cycle.tokens[i])
                      IN  SwapBack(x, reserves[1], reserves[2]) <= x
    BY DEF RoundTripNeverGains
  <2> DEFINE pool == market.cycle.pools[i]
             reserves == ReservesFrom(pool, market.cycle.tokens[i])
  <2>1. market \in Markets /\ lo \in Nat /\ hi \in Nat /\ lo <= hi
    BY TopTyped DEF SizeInv, SizeTypeOK
  <2>2. Left \in Nat /\ Right \in Nat
    <3>1. (hi - lo) \div 3 \in Nat /\ (hi - lo) \div 3 <= hi - lo
      BY <2>1
    <3> QED BY <2>1, <3>1 DEF Left, Right
  <2>3. pool.reserve0 \in Nat /\ pool.reserve1 \in Nat
    BY <2>1, ReservesAssumption
  <2>4. reserves[1] \in Nat /\ reserves[2] \in Nat
    BY <2>3, ReservesTyped
  <2>5. x \in Nat
    BY <2>1, <2>2
  <2> QED BY <2>4, <2>5, NoRoundTripGain
<1> QED BY <1>1, SizeInductive, PTL

-----------------------------------------------------------------------------
(* The search for a cycle. *)

PoolsTyped ==
  /\ pools \in Shapes
  /\ quote \in [DOMAIN pools -> {Closed} \cup Probes \cup V2Quotes]

Searches ==
  [dist : [Tokens -> Int \cup {None}],
   pred : [Tokens -> Tokens \cup {None}],
   edge : [Tokens -> DOMAIN pools \cup {None}]]

\* Pool k sells u for v.
Sells(k, u, v) ==
  /\ k \in DOMAIN pools /\ Open(k, u)
  /\ u \in {pools[k].t0, pools[k].t1} /\ v = Buys(k, u)

\* A token is never cheaper to reach than over its predecessor: the distance of
\* the predecessor may have fallen since, and never rises.
PredsHold(s) ==
  \A v \in Tokens :
    s.pred[v] # None =>
      /\ Sells(s.edge[v], s.pred[v], v)
      /\ s.dist[s.pred[v]] \in Int /\ s.dist[v] \in Int
      /\ s.dist[s.pred[v]] + Weight(s.edge[v], s.pred[v]) <= s.dist[v]

\* The hop to v has become cheaper since v was relaxed.
Slack(s, v) == s.dist[s.pred[v]] + Weight(s.edge[v], s.pred[v]) < s.dist[v]

\* No tokens have all their predecessors among them without slack: the relaxation
\* that closes a cycle leaves slack on it.
CyclesSlack(s) ==
  \A C \in SUBSET Tokens : C # {} => \E v \in C : s.pred[v] \notin C \/ Slack(s, v)

Sound(s) ==
  /\ s \in Searches
  /\ PredsHold(s)
  /\ CyclesSlack(s)
  /\ Start \in Tokens => s.dist[Start] # None

-----------------------------------------------------------------------------
(* The pools and their directed edges. *)

LEMMA PoolFacts ==
  ASSUME PoolsTyped
  PROVE  /\ Len(pools) \in Nat /\ DOMAIN pools = 1 .. Len(pools)
         /\ \A k \in DOMAIN pools :
              /\ pools[k].t0 \in Tokens /\ pools[k].t1 \in Tokens /\ pools[k].t0 # pools[k].t1
              /\ quote[k].sell0 \in Int \cup {Dry} /\ quote[k].sell1 \in Int \cup {Dry}
              /\ quote[k].sell0 # Dry /\ quote[k].sell1 # Dry => quote[k].sell0 + quote[k].sell1 > 0
<1>1. /\ pools \in Seq([t0 : Tokens, t1 : Tokens, v3 : BOOLEAN])
      /\ \A k \in DOMAIN pools : pools[k].t0 # pools[k].t1
  BY GraphAssumption DEF GraphAssumption, PoolsTyped
<1>2. Len(pools) \in Nat /\ DOMAIN pools = 1 .. Len(pools)
  BY <1>1
<1>3. \A k \in DOMAIN pools : pools[k].t0 \in Tokens /\ pools[k].t1 \in Tokens
  <2> DEFINE Edge == [t0 : Tokens, t1 : Tokens, v3 : BOOLEAN]
  <2>1. pools \in Seq(Edge)
    BY <1>1
  <2> HIDE DEF Edge
  <2>2. \A k \in DOMAIN pools : pools[k] \in Edge
    BY <2>1
  <2> QED BY <2>2 DEF Edge
<1>4. ASSUME NEW k \in DOMAIN pools
      PROVE  /\ quote[k].sell0 \in Int \cup {Dry} /\ quote[k].sell1 \in Int \cup {Dry}
             /\ quote[k].sell0 # Dry /\ quote[k].sell1 # Dry => quote[k].sell0 + quote[k].sell1 > 0
  <2>1. quote[k] \in {Closed} \cup Probes \cup V2Quotes
    BY DEF PoolsTyped
  <2>2. CASE quote[k] = Closed
    BY <2>2 DEF Closed
  <2>3. CASE quote[k] \in Probes
    BY <2>3, GraphAssumption DEF GraphAssumption
  <2>4. CASE quote[k] \in V2Quotes
    <3>1. PICK p \in Prices : quote[k] = [sell0 |-> Fee - p, sell1 |-> Fee + p]
      BY <2>4 DEF V2Quotes
    <3>2. p \in Int /\ Fee \in Nat \ {0}
      BY GraphAssumption DEF GraphAssumption
    <3>3. quote[k].sell0 = Fee - p /\ quote[k].sell1 = Fee + p
      BY <3>1
    <3> QED BY <3>2, <3>3
  <2> QED BY <2>1, <2>2, <2>3, <2>4
<1> QED BY <1>1, <1>2, <1>3, <1>4

\* What a pool sells has a weight, and what it sells there and back costs something.
LEMMA BothWays ==
  ASSUME PoolsTyped, NEW k, NEW u, NEW v, Sells(k, u, v)
  PROVE  /\ u \in Tokens /\ v \in Tokens /\ u # v
         /\ {u, v} = {pools[k].t0, pools[k].t1}
         /\ Weight(k, u) \in Int
         /\ Sells(k, v, u) => Weight(k, v) \in Int /\ Weight(k, u) + Weight(k, v) > 0
<1>1. /\ k \in DOMAIN pools /\ u \in {pools[k].t0, pools[k].t1}
      /\ v = IF u = pools[k].t0 THEN pools[k].t1 ELSE pools[k].t0
      /\ Weight(k, u) # Dry
  BY DEF Sells, Buys, Open
<1>2. /\ pools[k].t0 \in Tokens /\ pools[k].t1 \in Tokens /\ pools[k].t0 # pools[k].t1
      /\ quote[k].sell0 \in Int \cup {Dry} /\ quote[k].sell1 \in Int \cup {Dry}
      /\ quote[k].sell0 # Dry /\ quote[k].sell1 # Dry => quote[k].sell0 + quote[k].sell1 > 0
  BY <1>1, PoolFacts
<1>3. (u = pools[k].t0 /\ v = pools[k].t1) \/ (u = pools[k].t1 /\ v = pools[k].t0)
  BY <1>1, <1>2
<1>4. Weight(k, u) \in Int
  BY <1>1, <1>2 DEF Weight
<1>5. ASSUME Sells(k, v, u) PROVE Weight(k, v) \in Int /\ Weight(k, u) + Weight(k, v) > 0
  <2>1. Weight(k, v) # Dry
    BY <1>5 DEF Sells, Open
  <2>2. \/ Weight(k, u) = quote[k].sell0 /\ Weight(k, v) = quote[k].sell1
        \/ Weight(k, u) = quote[k].sell1 /\ Weight(k, v) = quote[k].sell0
    BY <1>2, <1>3 DEF Weight
  <2> QED BY <1>1, <1>2, <1>4, <2>1, <2>2
<1> QED BY <1>1, <1>2, <1>3, <1>4, <1>5

LEMMA EdgeFacts ==
  ASSUME PoolsTyped
  PROVE  /\ DirectedEdges = [e \in 1 .. Len(DirectedEdges) |-> DirectedEdges[e]]
         /\ Len(DirectedEdges) \in Nat
         /\ \A e \in 1 .. Len(DirectedEdges) :
              \E k \in DOMAIN pools, u \in Tokens :
                u \in {pools[k].t0, pools[k].t1} /\ DirectedEdges[e] = [pool |-> k, from |-> u]
         /\ \A k \in DOMAIN pools : \A u \in {pools[k].t0, pools[k].t1} :
              \E e \in 1 .. Len(DirectedEdges) : DirectedEdges[e] = [pool |-> k, from |-> u]
<1> DEFINE P == Len(pools)
<1>1. P \in Nat /\ DOMAIN pools = 1 .. P
  BY PoolFacts
<1>2. \A k \in DOMAIN pools : pools[k].t0 \in Tokens /\ pools[k].t1 \in Tokens
  BY PoolFacts
<1>3. /\ DOMAIN DirectedEdges = 1 .. 2 * P
      /\ DirectedEdges = [e \in 1 .. 2 * P |-> DirectedEdges[e]]
      /\ \A e \in 1 .. 2 * P :
           DirectedEdges[e] = [pool |-> (e + 1) \div 2,
                               from |-> IF e % 2 = 1 THEN pools[(e + 1) \div 2].t0
                                        ELSE pools[(e + 1) \div 2].t1]
  BY DEF DirectedEdges
<1>4. Len(DirectedEdges) = 2 * P
  BY <1>1, <1>3, 2 * P \in Nat
<1> HIDE DEF P
<1>5. ASSUME NEW e \in 1 .. 2 * P
      PROVE  \E k \in DOMAIN pools, u \in Tokens :
               u \in {pools[k].t0, pools[k].t1} /\ DirectedEdges[e] = [pool |-> k, from |-> u]
  <2> DEFINE k == (e + 1) \div 2
             u == IF e % 2 = 1 THEN pools[k].t0 ELSE pools[k].t1
  <2>1. k \in 1 .. P
    BY <1>1
  <2>2. k \in DOMAIN pools /\ DirectedEdges[e] = [pool |-> k, from |-> u]
    BY <1>1, <1>3, <2>1
  <2> HIDE DEF k
  <2>3. u \in Tokens /\ u \in {pools[k].t0, pools[k].t1}
    BY <1>2, <2>2
  <2> HIDE DEF u
  <2> QED BY <2>2, <2>3
<1>6. ASSUME NEW k \in DOMAIN pools, NEW u \in {pools[k].t0, pools[k].t1}
      PROVE  \E e \in 1 .. 2 * P : DirectedEdges[e] = [pool |-> k, from |-> u]
  <2>1. k \in 1 .. P
    BY <1>1
  <2>2. CASE u = pools[k].t0
    <3>1. 2 * k - 1 \in 1 .. 2 * P /\ (2 * k - 1 + 1) \div 2 = k /\ (2 * k - 1) % 2 = 1
      BY <1>1, <2>1
    <3> QED BY <1>3, <2>2, <3>1
  <2>3. CASE u = pools[k].t1
    <3>1. 2 * k \in 1 .. 2 * P /\ (2 * k + 1) \div 2 = k /\ (2 * k) % 2 # 1
      BY <1>1, <2>1
    <3> QED BY <1>3, <2>3, <3>1
  <2> QED BY <2>2, <2>3
<1>7. Len(DirectedEdges) \in Nat
  BY <1>1, <1>4
<1>8. DirectedEdges = [e \in 1 .. Len(DirectedEdges) |-> DirectedEdges[e]]
  BY <1>3, <1>4
<1> QED BY <1>4, <1>5, <1>6, <1>7, <1>8

-----------------------------------------------------------------------------
(* Relaxing an edge keeps a search sound. *)

LEMMA RelaxSound ==
  ASSUME PoolsTyped, NEW s, Sound(s),
         NEW k \in DOMAIN pools, NEW u \in {pools[k].t0, pools[k].t1}
  PROVE  Sound(Relax(s, [pool |-> k, from |-> u]))
<1> DEFINE e == [pool |-> k, from |-> u]
           v == Buys(k, u)
           t == Relax(s, e)
<1>1. CASE ~Relaxable(s, e)
  BY <1>1 DEF Relax
<1>2. CASE Relaxable(s, e)
  <2>1. /\ Open(k, u) /\ s.dist[u] # None
        /\ s.dist[v] = None \/ s.dist[u] + Weight(k, u) < s.dist[v]
    BY <1>2 DEF Relaxable
  <2>2. Sells(k, u, v)
    BY <2>1 DEF Sells
  <2>3. u \in Tokens /\ v \in Tokens /\ u # v /\ Weight(k, u) \in Int
    BY <2>2, BothWays
  <2> DEFINE d == s.dist[u] + Weight(k, u)
  <2>4. t = [dist |-> [s.dist EXCEPT ![v] = d],
             pred |-> [s.pred EXCEPT ![v] = u],
             edge |-> [s.edge EXCEPT ![v] = k]]
    BY <1>2 DEF Relax
  <2>5. s \in Searches /\ PredsHold(s) /\ CyclesSlack(s) /\ (Start \in Tokens => s.dist[Start] # None)
    BY DEF Sound
  <2>6. /\ s.dist \in [Tokens -> Int \cup {None}]
        /\ s.pred \in [Tokens -> Tokens \cup {None}]
        /\ s.edge \in [Tokens -> DOMAIN pools \cup {None}]
    BY <2>5 DEF Searches
  <2>7. s.dist[u] \in Int /\ d \in Int
    BY <2>1, <2>3, <2>6
  <2>8. None \notin Int /\ None \notin Tokens
    BY GraphAssumption DEF GraphAssumption
  <2> HIDE DEF d, v, t
  <2>9. t \in Searches
    BY <2>3, <2>4, <2>6, <2>7 DEF Searches
  <2>10. /\ t.dist[v] = d /\ t.pred[v] = u /\ t.edge[v] = k
         /\ \A x \in Tokens \ {v} : t.dist[x] = s.dist[x] /\ t.pred[x] = s.pred[x] /\ t.edge[x] = s.edge[x]
    BY <2>3, <2>4, <2>6
  <2>11. s.dist[v] \in Int => d < s.dist[v]
    BY <2>1, <2>8 DEF d, v
  <2>12. PredsHold(t)
    <3> SUFFICES ASSUME NEW x \in Tokens, t.pred[x] # None
                 PROVE  /\ Sells(t.edge[x], t.pred[x], x)
                        /\ t.dist[t.pred[x]] \in Int /\ t.dist[x] \in Int
                        /\ t.dist[t.pred[x]] + Weight(t.edge[x], t.pred[x]) <= t.dist[x]
      BY DEF PredsHold
    <3>1. CASE x = v
      BY <3>1, <2>2, <2>3, <2>7, <2>10 DEF d
    <3>2. CASE x # v
      <4> DEFINE y == s.pred[x]
      <4>1. /\ t.pred[x] = y /\ t.edge[x] = s.edge[x] /\ t.dist[x] = s.dist[x] /\ y # None
        BY <3>2, <2>10
      <4>2. /\ Sells(s.edge[x], y, x) /\ s.dist[y] \in Int /\ s.dist[x] \in Int
            /\ s.dist[y] + Weight(s.edge[x], y) <= s.dist[x]
        BY <4>1, <2>5 DEF PredsHold
      <4>3. y \in Tokens /\ Weight(s.edge[x], y) \in Int
        BY <4>2, BothWays
      <4> HIDE DEF y
      <4>4. t.dist[y] \in Int /\ t.dist[y] <= s.dist[y]
        BY <4>2, <4>3, <2>7, <2>10, <2>11
      <4> QED BY <4>1, <4>2, <4>3, <4>4
    <3> QED BY <3>1, <3>2
  <2>13. CyclesSlack(t)
    <3> SUFFICES ASSUME NEW C \in SUBSET Tokens, C # {},
                        \A x \in C : t.pred[x] \in C /\ ~Slack(t, x)
                 PROVE  FALSE
      BY DEF CyclesSlack
    <3>1. \E x \in C \ {v} : TRUE
      <4>1. CASE v \in C
        BY <4>1, <2>3, <2>10
      <4> QED BY <4>1
    \* What is reached from v had slack from the moment v got cheaper.
    <3>2. ASSUME NEW x \in C \ {v}
          PROVE  s.pred[x] \in C \ {v} /\ ~Slack(s, x)
      <4> DEFINE y == s.pred[x]
                 w == Weight(s.edge[x], y)
      <4>1. t.pred[x] = y /\ t.edge[x] = s.edge[x] /\ t.dist[x] = s.dist[x] /\ y \in C
        BY <2>10
      <4>2. y # None /\ y \in Tokens
        BY <4>1, <2>8
      <4>3. /\ Sells(s.edge[x], y, x) /\ s.dist[y] \in Int /\ s.dist[x] \in Int
            /\ s.dist[y] + w <= s.dist[x]
        BY <4>2, <2>5 DEF PredsHold
      <4>4. w \in Int
        BY <4>3, BothWays
      <4>5. ~(t.dist[y] + w < s.dist[x])
        BY <4>1 DEF Slack
      <4>6. y # v
        <5> SUFFICES ASSUME y = v PROVE FALSE
          OBVIOUS
        <5>1. t.dist[y] = d /\ d < s.dist[y]
          BY <4>3, <2>10, <2>11
        <5> HIDE DEF y, w
        <5> QED BY <5>1, <4>3, <4>4, <4>5, <2>7
      <4>7. t.dist[y] = s.dist[y]
        BY <4>2, <4>6, <2>10
      <4> QED BY <4>1, <4>5, <4>6, <4>7 DEF Slack
    <3>3. C \ {v} \in SUBSET Tokens /\ C \ {v} # {}
      BY <3>1
    <3> QED BY <2>5, <3>2, <3>3 DEF CyclesSlack
  <2>14. Start \in Tokens => t.dist[Start] # None
    BY <2>5, <2>7, <2>8, <2>10
  <2> QED BY <2>9, <2>12, <2>13, <2>14 DEF Sound, t, e
<1> QED BY <1>1, <1>2

\* So does a whole pass.
LEMMA RelaxedSound ==
  ASSUME PoolsTyped, Sound(search)
  PROVE  Sound(Relaxed)
<1> DEFINE n == Len(DirectedEdges)
           S == {s \in Searches : Sound(s)}
           F == [e \in 1 .. n |-> [s \in S |-> Relax(s, DirectedEdges[e])]]
           Pass(f) == [e \in 0 .. n |-> IF e = 0 THEN search ELSE Relax(f[e - 1], DirectedEdges[e])]
           after == CHOOSE f : f = Pass(f)
<1>1. n \in Nat
  BY EdgeFacts
<1>2. ASSUME NEW e \in 1 .. n, NEW s \in S
      PROVE  Relax(s, DirectedEdges[e]) \in S
  <2>1. PICK k \in DOMAIN pools, u \in Tokens :
          u \in {pools[k].t0, pools[k].t1} /\ DirectedEdges[e] = [pool |-> k, from |-> u]
    BY EdgeFacts
  <2>2. Sound(Relax(s, DirectedEdges[e]))
    BY <2>1, RelaxSound
  <2> QED BY <2>2 DEF Sound
<1>3. search \in S
  BY DEF Sound
<1>4. MapsInto(F, n, S)
  BY <1>2 DEF MapsInto
<1> HIDE DEF n, S, F
<1>5. PICK f \in [0 .. n -> S] : f[0] = search /\ \A e \in 1 .. n : f[e] = F[e][f[e - 1]]
  BY <1>1, <1>3, <1>4, Recursion
<1>6. f = Pass(f)
  <2>1. \A e \in 1 .. n : F[e][f[e - 1]] = Relax(f[e - 1], DirectedEdges[e])
    <3>1. \A e \in 1 .. n : f[e - 1] \in S
      BY <1>1
    <3> QED BY <3>1 DEF F
  <2>2. \A e \in 0 .. n : f[e] = IF e = 0 THEN search ELSE Relax(f[e - 1], DirectedEdges[e])
    BY <1>1, <1>5, <2>1
  <2>3. f = [e \in 0 .. n |-> f[e]]
    OBVIOUS
  <2> QED BY <2>2, <2>3
<1>7. after = Pass(after)
  <2> HIDE DEF Pass
  <2> QED BY <1>6
<1> HIDE DEF after
<1>8. after[0] = search /\ \A e \in 1 .. n : after[e] = Relax(after[e - 1], DirectedEdges[e])
  BY <1>1, <1>7
<1>9. \A e \in 0 .. n : after[e] \in S
  <2> DEFINE T == {e \in 0 .. n : after[e] \in S}
  <2>1. 0 \in T
    BY <1>1, <1>3, <1>8
  <2>2. \A e \in 1 .. n : e - 1 \in T => e \in T
    BY <1>1, <1>2, <1>8
  <2> HIDE DEF T
  <2>3. 0 .. n \subseteq T
    BY <1>1, <2>1, <2>2, UpTo
  <2> QED BY <2>3 DEF T
<1>10. Relaxed = after[n]
  BY DEF Relaxed, after, n
<1> QED BY <1>1, <1>9, <1>10 DEF S

-----------------------------------------------------------------------------
(* Walking back along pred. *)

PredTyped == search.pred \in [Tokens -> Tokens \cup {None}]

LEMMA NodesCounted ==
  N \in Nat /\ N > 0
<1>1. IsFiniteSet(Tokens) /\ Weth \in Tokens
  BY GraphAssumption DEF GraphAssumption
<1>2. N \in Nat
  BY <1>1, FS_CardinalityType DEF N
<1>3. N # 0
  BY <1>1, FS_EmptySet DEF N
<1> QED BY <1>2, <1>3

LEMMA BackSteps ==
  ASSUME PredTyped, NEW t \in Tokens
  PROVE  /\ Back(t, 0) = t
         /\ \A n \in 0 .. N + 1 : Back(t, n) \in Tokens \cup {None}
         /\ \A n \in 0 .. N :
              Back(t, n + 1) = IF Back(t, n) = None THEN None ELSE search.pred[Back(t, n)]
<1> DEFINE S == Tokens \cup {None}
           Pred(x) == IF x = None THEN None ELSE search.pred[x]
           F == [i \in 1 .. N + 1 |-> [x \in S |-> Pred(x)]]
           Steps(f) == [i \in 0 .. N + 1 |-> IF i = 0 THEN t ELSE IF f[i - 1] = None THEN None ELSE search.pred[f[i - 1]]]
           walk == CHOOSE f : f = Steps(f)
<1>1. N + 1 \in Nat /\ N \in Nat
  BY NodesCounted
<1>2. MapsInto(F, N + 1, S)
  BY DEF PredTyped, MapsInto
<1> HIDE DEF F
<1>3. PICK f \in [0 .. N + 1 -> S] : f[0] = t /\ \A i \in 1 .. N + 1 : f[i] = F[i][f[i - 1]]
  <2> DEFINE n == N + 1
  <2>1. t \in S /\ n \in Nat /\ MapsInto(F, n, S)
    BY <1>1, <1>2
  <2> HIDE DEF S, n
  <2>2. \E f \in [0 .. n -> S] : f[0] = t /\ \A i \in 1 .. n : f[i] = F[i][f[i - 1]]
    BY <2>1, Recursion
  <2> QED BY <2>2 DEF n
<1>4. f = Steps(f)
  <2>1. \A i \in 1 .. N + 1 : F[i][f[i - 1]] = Pred(f[i - 1])
    <3>1. \A i \in 1 .. N + 1 : f[i - 1] \in S
      BY <1>1
    <3> QED BY <3>1 DEF F
  <2>2. \A i \in 0 .. N + 1 : f[i] = IF i = 0 THEN t ELSE Pred(f[i - 1])
    BY <1>1, <1>3, <2>1
  <2>3. f = [i \in 0 .. N + 1 |-> f[i]]
    OBVIOUS
  <2> QED BY <2>2, <2>3
<1>5. walk = Steps(walk)
  <2> HIDE DEF Steps
  <2> QED BY <1>4
<1>6. \A n : Back(t, n) = walk[n]
  BY DEF Back
<1> HIDE DEF walk
<1>7. walk[0] = t /\ \A i \in 1 .. N + 1 : walk[i] = Pred(walk[i - 1])
  BY <1>1, <1>5
<1>8. \A i \in 0 .. N + 1 : walk[i] \in S
  <2> DEFINE T == {i \in 0 .. N + 1 : walk[i] \in S}
  <2>1. 0 \in T
    BY <1>1, <1>7
  <2>2. \A i \in 1 .. N + 1 : i - 1 \in T => i \in T
    BY <1>1, <1>7 DEF PredTyped
  <2> HIDE DEF T
  <2>3. 0 .. N + 1 \subseteq T
    BY <1>1, <2>1, <2>2, UpTo
  <2> QED BY <2>3 DEF T
<1>9. \A n \in 0 .. N : walk[n + 1] = Pred(walk[n])
  <2> SUFFICES ASSUME NEW n \in 0 .. N PROVE walk[n + 1] = Pred(walk[n])
    OBVIOUS
  <2>1. n + 1 \in 1 .. N + 1 /\ n + 1 - 1 = n
    BY <1>1
  <2> QED BY <1>7, <2>1
<1> QED BY <1>6, <1>7, <1>8, <1>9

\* A walk that has not run off the chain never did before.
LEMMA BackStays ==
  ASSUME PredTyped, NEW t \in Tokens, NEW n \in 0 .. N + 1, Back(t, n) # None
  PROVE  \A m \in 0 .. n : Back(t, m) \in Tokens
<1> DEFINE T == {i \in 0 .. N + 1 : Back(t, i) # None => \A m \in 0 .. i : Back(t, m) # None}
<1>1. N \in Nat /\ N + 1 \in Nat
  BY NodesCounted
<1>2. 0 \in T
  BY <1>1
<1>3. ASSUME NEW i \in 1 .. N + 1, i - 1 \in T PROVE i \in T
  <2>1. i - 1 \in 0 .. N /\ i - 1 + 1 = i
    BY <1>1
  <2>2. Back(t, i) # None => Back(t, i - 1) # None
    BY <2>1, BackSteps
  <2>3. \A m \in 0 .. i : m = i \/ m \in 0 .. i - 1
    BY <1>1
  <2> QED BY <1>3, <2>2, <2>3
<1> HIDE DEF T
<1>4. 0 .. N + 1 \subseteq T
  BY <1>1, <1>2, <1>3, UpTo
<1>5. n \in T
  BY <1>4
<1>6. \A m \in 0 .. n : Back(t, m) # None /\ m \in 0 .. N + 1
  BY <1>1, <1>5 DEF T
<1> QED BY <1>6, BackSteps

\* a steps back and b more are a + b steps back.
LEMMA BackAgain ==
  ASSUME PredTyped, NEW t \in Tokens, NEW a \in Nat, NEW b \in Nat, a + b <= N + 1,
         Back(t, a) \in Tokens
  PROVE  Back(Back(t, a), b) = Back(t, a + b)
<1> DEFINE y == Back(t, a)
           T == {i \in 0 .. b : Back(y, i) = Back(t, a + i)}
<1>1. N \in Nat
  BY NodesCounted
<1>2. 0 \in T
  BY BackSteps
<1>3. ASSUME NEW i \in 1 .. b, i - 1 \in T PROVE i \in T
  <2>1. /\ i - 1 \in 0 .. N /\ a + (i - 1) \in 0 .. N
        /\ i - 1 + 1 = i /\ a + (i - 1) + 1 = a + i
    BY <1>1
  <2> HIDE DEF y
  <2>2. Back(y, i) = IF Back(y, i - 1) = None THEN None ELSE search.pred[Back(y, i - 1)]
    BY <2>1, BackSteps, y \in Tokens DEF y
  <2>3. Back(t, a + i) = IF Back(t, a + (i - 1)) = None THEN None ELSE search.pred[Back(t, a + (i - 1))]
    BY <2>1, BackSteps
  <2> QED BY <1>3, <2>2, <2>3
<1> HIDE DEF T
<1>4. 0 .. b \subseteq T
  BY <1>2, <1>3, UpTo
<1> QED BY <1>4, b \in 0 .. b DEF T

\* N steps back lead into a cycle, when they do not run off the chain.
LEMMA WalkMeetsCycle ==
  ASSUME PredTyped, NEW t \in Tokens, Back(t, N) # None
  PROVE  /\ Back(t, N) \in Tokens
         /\ \E d \in 1 .. N : Back(Back(t, N), d) = Back(t, N)
<1>1. N \in Nat /\ N > 0
  BY NodesCounted
<1>2. \A m \in 0 .. N : Back(t, m) \in Tokens
  BY <1>1, BackStays
<1>3. \E i, j \in 0 .. N : i # j /\ Back(t, i) = Back(t, j)
  <2> DEFINE f == [i \in 0 .. N |-> Back(t, i)]
  <2>1. f \in [0 .. N -> Tokens]
    BY <1>2
  <2>2. IsFiniteSet(Tokens) /\ Cardinality(Tokens) = N
    BY GraphAssumption DEF GraphAssumption, N
  <2>3. IsFiniteSet(0 .. N) /\ Cardinality(0 .. N) = N + 1
    BY <1>1, FS_Interval
  <2>4. \A i \in 0 .. N : f[i] = Back(t, i)
    OBVIOUS
  <2> HIDE DEF f
  <2>5. \E i, j \in 0 .. N : i # j /\ f[i] = f[j]
    BY <1>1, <2>1, <2>2, <2>3, FS_PigeonHole
  <2> QED BY <2>4, <2>5
<1>4. PICK i \in 0 .. N, j \in 0 .. N : i < j /\ Back(t, i) = Back(t, j)
  BY <1>1, <1>3
<1> DEFINE d == j - i
           T == {m \in 0 .. N : m >= i => Back(Back(t, m), d) = Back(t, m)}
<1>5. d \in 1 .. N
  BY <1>1, <1>4
<1>6. Back(Back(t, i), d) = Back(t, i)
  <2>1. i + d = j /\ i \in Nat /\ d \in Nat /\ i + d <= N + 1
    BY <1>1, <1>4
  <2>2. Back(Back(t, i), d) = Back(t, i + d)
    BY <1>2, <2>1, BackAgain
  <2> QED BY <1>4, <2>1, <2>2
<1> HIDE DEF d
<1>7. 0 \in T
  BY <1>1, <1>4, <1>6
<1>8. ASSUME NEW m \in 1 .. N, m - 1 \in T
      PROVE  m \in T
  <2> SUFFICES ASSUME m >= i PROVE Back(Back(t, m), d) = Back(t, m)
    BY <1>1
  <2>1. CASE m = i
    BY <2>1, <1>6
  <2>2. CASE m # i
    <3> DEFINE z == Back(t, m - 1)
    <3>1. m - 1 \in 0 .. N /\ m - 1 >= i /\ m - 1 + 1 = m /\ m - 1 \in Nat
      BY <1>1, <1>4, <2>2
    <3>2. z \in Tokens /\ Back(z, d) = z
      BY <1>2, <1>8, <3>1
    <3>3. Back(t, m) = search.pred[z] /\ Back(t, m) \in Tokens
      <4>1. z # None
        BY <3>2, GraphAssumption DEF GraphAssumption
      <4> QED BY <1>2, <3>1, <4>1, BackSteps
    <3> HIDE DEF z
    <3>4. Back(z, 1) = Back(t, m)
      <4>1. Back(z, 0 + 1) = search.pred[z]
        BY <1>1, <3>2, BackSteps, GraphAssumption, 0 \in 0 .. N DEF GraphAssumption
      <4> QED BY <3>3, <4>1
    <3>5. Back(z, d + 1) = search.pred[z]
      <4>1. d \in 0 .. N
        BY <1>5
      <4> QED BY <3>2, <4>1, BackSteps, GraphAssumption DEF GraphAssumption
    <3>6. Back(Back(z, 1), d) = Back(z, 1 + d)
      BY <1>1, <1>5, <3>2, <3>3, <3>4, BackAgain
    <3> QED BY <1>5, <3>3, <3>4, <3>5, <3>6
  <2> QED BY <2>1, <2>2
<1>9. N \in T
  <2> HIDE DEF T
  <2>1. 0 .. N \subseteq T
    BY <1>1, <1>7, <1>8, UpTo
  <2> QED BY <1>1, <2>1
<1>10. Back(Back(t, N), d) = Back(t, N)
  BY <1>1, <1>4, <1>9
<1> QED BY <1>1, <1>2, <1>5, <1>10

-----------------------------------------------------------------------------
(* The cycle that is reconstructed. *)

\* Each hop of c is the predecessor of the next, over the edge it was relaxed
\* with; c passes through no token twice before it closes.
AlongPred(c) ==
  /\ c.tokens \in Seq(Tokens) /\ c.pools \in Seq(DOMAIN pools \cup {None})
  /\ Len(c.pools) \in 1 .. N /\ Len(c.tokens) = Len(c.pools) + 1
  /\ c.tokens[1] = c.tokens[Len(c.pools) + 1]
  /\ \A i \in 1 .. Len(c.pools) :
       /\ search.pred[c.tokens[i + 1]] = c.tokens[i]
       /\ search.edge[c.tokens[i + 1]] = c.pools[i]
  /\ \A i, j \in 1 .. Len(c.pools) : c.tokens[i] = c.tokens[j] => i = j

LEMMA CycleThroughPred ==
  ASSUME PredTyped, search.edge \in [Tokens -> DOMAIN pools \cup {None}],
         NEW x \in Tokens, \E d \in 1 .. N : Back(x, d) = x
  PROVE  AlongPred(CycleThrough(x))
<1>1. N \in Nat /\ N > 0 /\ None \notin Tokens
  BY NodesCounted, GraphAssumption DEF GraphAssumption
<1> DEFINE D == {n \in 1 .. N + 1 : Back(x, n) = x}
           First(n) == Back(x, n) = x /\ \A m \in 1 .. (n - 1) : Back(x, m) # x
           len == CHOOSE n \in 1 .. (N + 1) : First(n)
           c == CycleThrough(x)
<1>2. PICK least \in D : \A m \in D : least <= m
  <2>1. D \in SUBSET Nat /\ D # {}
    BY <1>1
  <2> HIDE DEF D
  <2> QED BY <2>1, LeastOf
<1>3. least \in 1 .. N + 1 /\ First(least)
  BY <1>1, <1>2
<1>4. len \in 1 .. N + 1 /\ First(len)
  <2> HIDE DEF First
  <2> QED BY <1>3
<1>5. /\ c.tokens = [i \in 1 .. (len + 1) |-> Back(x, len + 1 - i)]
      /\ c.pools = [i \in 1 .. len |-> search.edge[Back(x, len - i)]]
  BY DEF CycleThrough
<1> HIDE DEF len, c
<1>6. len <= N
  <2>1. PICK d \in 1 .. N : Back(x, d) = x
    OBVIOUS
  <2> SUFFICES ASSUME len > N PROVE FALSE
    BY <1>1, <1>4
  <2>2. d \in 1 .. len - 1
    BY <1>1, <1>4, <2>1
  <2> QED BY <1>4, <2>1, <2>2
<1>7. len \in Nat /\ len + 1 \in Nat /\ len \in 1 .. N
  BY <1>1, <1>4, <1>6
<1>8. \A m \in 0 .. len : Back(x, m) \in Tokens
  <2>1. Back(x, len) # None /\ len \in 0 .. N + 1
    BY <1>1, <1>4
  <2> QED BY <2>1, BackStays
<1>9. c.tokens \in Seq(Tokens) /\ Len(c.tokens) = len + 1
  <2>1. \A i \in 1 .. len + 1 : Back(x, len + 1 - i) \in Tokens
    BY <1>7, <1>8
  <2>2. c.tokens \in [1 .. len + 1 -> Tokens]
    BY <1>5, <2>1
  <2> QED BY <1>7, <2>2
<1>10. c.pools \in Seq(DOMAIN pools \cup {None}) /\ Len(c.pools) = len
  <2>1. \A i \in 1 .. len : search.edge[Back(x, len - i)] \in DOMAIN pools \cup {None}
    BY <1>7, <1>8
  <2> DEFINE E == DOMAIN pools \cup {None}
  <2>2. c.pools \in [1 .. len -> E]
    BY <1>5, <2>1
  <2> HIDE DEF E
  <2>3. c.pools \in Seq(E) /\ Len(c.pools) = len
    BY <1>7, <2>2
  <2> QED BY <2>3 DEF E
<1>11. c.tokens[1] = x /\ c.tokens[len + 1] = x
  <2>1. Back(x, 0) = x
    BY BackSteps
  <2>2. len + 1 - 1 = len /\ len + 1 - (len + 1) = 0 /\ 1 \in 1 .. len + 1 /\ len + 1 \in 1 .. len + 1
    BY <1>7
  <2> QED BY <1>4, <1>5, <2>1, <2>2
<1>12. ASSUME NEW i \in 1 .. len
       PROVE  search.pred[c.tokens[i + 1]] = c.tokens[i] /\ search.edge[c.tokens[i + 1]] = c.pools[i]
  <2>1. /\ len - i \in 0 .. N /\ len - i \in 0 .. len /\ len - i + 1 = len + 1 - i
        /\ len + 1 - (i + 1) = len - i /\ i \in 1 .. len + 1 /\ i + 1 \in 1 .. len + 1
    <3>1. i \in Nat /\ len \in Nat /\ N \in Nat /\ 1 <= i /\ i <= len /\ len <= N
      BY <1>1, <1>7
    <3> QED BY <3>1
  <2>2. c.tokens[i + 1] = Back(x, len - i) /\ c.tokens[i] = Back(x, len - i + 1)
    BY <1>5, <2>1
  <2>3. Back(x, len - i) # None
    BY <1>1, <1>8, <2>1
  <2>4. Back(x, len - i + 1) = search.pred[Back(x, len - i)]
    BY <2>1, <2>3, BackSteps
  <2> QED BY <1>5, <2>2, <2>4
<1>13. ASSUME NEW a \in 0 .. len, NEW b \in 0 .. len, a < b, Back(x, a) = Back(x, b), a >= 1 \/ b < len
       PROVE  FALSE
  <2> DEFINE m == len - b + a
  <2>1. m \in 1 .. len - 1 /\ m = a + (len - b) /\ len - b \in Nat /\ a \in Nat /\ b \in Nat
        /\ b + (len - b) = len /\ len <= N + 1 /\ m <= N + 1
    BY <1>1, <1>7, <1>13
  <2>2. Back(Back(x, b), len - b) = Back(x, len)
    BY <1>8, <2>1, BackAgain
  <2>3. Back(Back(x, a), len - b) = Back(x, a + (len - b))
    BY <1>8, <2>1, BackAgain
  <2>4. Back(x, m) = x
    BY <1>4, <1>13, <2>1, <2>2, <2>3
  <2> QED BY <1>4, <2>1, <2>4
<1>14. ASSUME NEW i \in 1 .. len, NEW j \in 1 .. len, c.tokens[i] = c.tokens[j]
       PROVE  i = j
  <2>1. /\ len + 1 - i \in 1 .. len /\ len + 1 - j \in 1 .. len
        /\ len + 1 - i \in 0 .. len /\ len + 1 - j \in 0 .. len
        /\ len + 1 - i >= 1 /\ len + 1 - j >= 1
        /\ i \in 1 .. len + 1 /\ j \in 1 .. len + 1
    BY <1>7
  <2>2. Back(x, len + 1 - i) = Back(x, len + 1 - j)
    BY <1>5, <1>14, <2>1
  <2>3. ~(len + 1 - i < len + 1 - j) /\ ~(len + 1 - j < len + 1 - i)
    BY <1>7, <1>13, <2>1, <2>2
  <2> QED BY <1>7, <2>3
<1> QED BY <1>7, <1>9, <1>10, <1>11, <1>12, <1>14 DEF AlongPred, c

LEMMA TurnedSequence ==
  ASSUME NEW S, NEW len \in Nat, NEW seq, \A i \in 1 .. len : seq[i] \in S, NEW k \in 1 .. len
  PROVE  LET turn == SubSeq(seq, k, len) \o SubSeq(seq, 1, k - 1)
         IN  /\ turn \in Seq(S) /\ Len(turn) = len
             /\ \A i \in 1 .. len :
                  turn[i] = seq[IF i <= len - k + 1 THEN i + k - 1 ELSE i - (len - k + 1)]
<1> DEFINE front == SubSeq(seq, k, len)
           back == SubSeq(seq, 1, k - 1)
<1>1. /\ front \in Seq(S) /\ Len(front) = len - k + 1
      /\ \A i \in 1 .. len - k + 1 : front[i] = seq[k + i - 1]
  BY SubSeqProperties
<1>2. /\ back \in Seq(S) /\ Len(back) = k - 1
      /\ \A i \in 1 .. k - 1 : back[i] = seq[i]
  <2>1. \A i \in 1 .. k - 1 : seq[i] \in S
    OBVIOUS
  <2>2. /\ back \in Seq(S) /\ Len(back) = IF 1 <= k - 1 THEN k - 1 - 1 + 1 ELSE 0
        /\ \A i \in 1 .. k - 1 - 1 + 1 : back[i] = seq[1 + i - 1]
    BY <2>1, SubSeqProperties, k - 1 \in Int
  <2> QED BY <2>2
<1> HIDE DEF front, back
<1>3. /\ front \o back \in Seq(S) /\ Len(front \o back) = Len(front) + Len(back)
      /\ \A i \in 1 .. Len(front) + Len(back) :
           (front \o back)[i] = IF i <= Len(front) THEN front[i] ELSE back[i - Len(front)]
  BY <1>1, <1>2, ConcatProperties
<1>4. Len(front) + Len(back) = len
  BY <1>1, <1>2
<1>5. ASSUME NEW i \in 1 .. len
      PROVE  (front \o back)[i] = seq[IF i <= len - k + 1 THEN i + k - 1 ELSE i - (len - k + 1)]
  <2>1. CASE i <= len - k + 1
    <3>1. (front \o back)[i] = front[i] /\ i \in 1 .. len - k + 1 /\ k + i - 1 = i + k - 1
      BY <1>1, <1>3, <1>4, <2>1
    <3> QED BY <1>1, <2>1, <3>1
  <2>2. CASE ~(i <= len - k + 1)
    <3>1. (front \o back)[i] = back[i - (len - k + 1)] /\ i - (len - k + 1) \in 1 .. k - 1
      BY <1>1, <1>3, <1>4, <2>2
    <3> QED BY <1>2, <2>2, <3>1
  <2> QED BY <2>1, <2>2
<1> QED BY <1>3, <1>4, <1>5 DEF front, back

\* _rotate_to_start keeps every hop.
LEMMA RotatedPred ==
  ASSUME NEW c, AlongPred(c)
  PROVE  LET r == RotateToStart(c)
         IN  /\ AlongPred(r) /\ Len(r.pools) = Len(c.pools)
             /\ (\E i \in 1 .. Len(r.pools) : r.tokens[i] = Start) => r.tokens[1] = Start
<1> DEFINE len == Len(c.pools)
           at == {i \in DOMAIN c.pools : c.tokens[i] = Start}
           k == CHOOSE i \in at : TRUE
           E == DOMAIN pools \cup {None}
           r == RotateToStart(c)
<1>0. /\ c.tokens \in Seq(Tokens) /\ c.pools \in Seq(E) /\ len \in 1 .. N
      /\ Len(c.tokens) = len + 1 /\ c.tokens[1] = c.tokens[len + 1]
      /\ \A i \in 1 .. len : /\ search.pred[c.tokens[i + 1]] = c.tokens[i]
                             /\ search.edge[c.tokens[i + 1]] = c.pools[i]
      /\ \A i, j \in 1 .. len : c.tokens[i] = c.tokens[j] => i = j
  BY DEF AlongPred
<1>1. len \in Nat
  BY <1>0, NodesCounted
<1> HIDE DEF E
<1>2. DOMAIN c.pools = 1 .. len /\ \A i \in 1 .. len : c.pools[i] \in E
  BY <1>0, <1>1
<1>3. \A i \in 1 .. len + 1 : c.tokens[i] \in Tokens
  BY <1>0, <1>1
<1>4. CASE at = {}
  <2>1. r = c
    BY <1>4 DEF RotateToStart
  <2> QED BY <1>2, <1>4, <2>1
<1>5. CASE at # {}
  <2>1. k \in 1 .. len /\ c.tokens[k] = Start
    BY <1>2, <1>5
  <2>2. /\ r.tokens = Append(SubSeq(c.tokens, k, len) \o SubSeq(c.tokens, 1, k - 1), Start)
        /\ r.pools = SubSeq(c.pools, k, len) \o SubSeq(c.pools, 1, k - 1)
    BY <1>5 DEF RotateToStart
  <2> HIDE DEF k, len
  <2> DEFINE from(i) == IF i <= len - k + 1 THEN i + k - 1 ELSE i - (len - k + 1)
             tt == SubSeq(c.tokens, k, len) \o SubSeq(c.tokens, 1, k - 1)
  <2>3. tt \in Seq(Tokens) /\ Len(tt) = len /\ \A i \in 1 .. len : tt[i] = c.tokens[from(i)]
    <3>1. \A i \in 1 .. len : c.tokens[i] \in Tokens
      BY <1>0, <1>1, <1>3
    <3> QED BY <1>1, <2>1, <3>1, TurnedSequence
  <2>4. /\ r.pools \in Seq(E) /\ Len(r.pools) = len
        /\ \A i \in 1 .. len : r.pools[i] = c.pools[from(i)]
    BY <1>0, <1>1, <1>2, <2>1, <2>2, TurnedSequence
  <2>5. Start \in Tokens
    BY <1>0, <1>1, <1>3, <2>1
  <2> HIDE DEF tt
  <2>6. r.tokens = Append(tt, Start)
    BY <2>2 DEF tt
  <2>7. /\ r.tokens \in Seq(Tokens) /\ Len(r.tokens) = len + 1 /\ r.tokens[len + 1] = Start
        /\ \A i \in 1 .. len : r.tokens[i] = c.tokens[from(i)]
    BY <1>0, <1>1, <2>3, <2>5, <2>6
  <2> HIDE DEF r
  <2>8. \A i \in 1 .. len : from(i) \in 1 .. len
    BY <1>1, <2>1
  <2>9. \A i, j \in 1 .. len : from(i) = from(j) => i = j
    BY <1>1, <2>1
  <2>10. from(1) = k /\ 1 \in 1 .. len
    BY <1>0, <1>1, <2>1
  <2>11. r.tokens[1] = Start
    BY <2>1, <2>7, <2>10
  <2>12. ASSUME NEW i \in 1 .. len
         PROVE  r.tokens[i + 1] = c.tokens[from(i) + 1]
    <3>1. CASE i = len
      <4>1. r.tokens[i + 1] = c.tokens[k]
        BY <2>1, <2>7, <3>1
      <4>2. from(i) + 1 = k \/ (from(i) + 1 = len + 1 /\ k = 1)
        BY <1>0, <1>1, <2>1, <3>1
      <4> QED BY <1>0, <1>1, <4>1, <4>2
    <3>2. CASE i # len
      <4>1. i + 1 \in 1 .. len
        BY <1>0, <1>1, <3>2
      <4>2. r.tokens[i + 1] = c.tokens[from(i + 1)]
        BY <2>7, <4>1
      <4>3. from(i + 1) = from(i) + 1 \/ (from(i) + 1 = len + 1 /\ from(i + 1) = 1)
        BY <1>0, <1>1, <2>1, <4>1
      <4> HIDE DEF from
      <4> QED BY <1>0, <1>1, <4>2, <4>3
    <3> QED BY <3>1, <3>2
  <2> HIDE DEF from
  <2>13. ASSUME NEW i \in 1 .. len
         PROVE  search.pred[r.tokens[i + 1]] = r.tokens[i] /\ search.edge[r.tokens[i + 1]] = r.pools[i]
    <3>1. /\ r.tokens[i] = c.tokens[from(i)] /\ r.pools[i] = c.pools[from(i)]
          /\ r.tokens[i + 1] = c.tokens[from(i) + 1] /\ from(i) \in 1 .. len
      BY <2>4, <2>7, <2>8, <2>12
    <3> QED BY <1>0, <3>1
  <2>14. ASSUME NEW i \in 1 .. len, NEW j \in 1 .. len, r.tokens[i] = r.tokens[j]
         PROVE  i = j
    <3>1. /\ r.tokens[i] = c.tokens[from(i)] /\ r.tokens[j] = c.tokens[from(j)]
          /\ from(i) \in 1 .. len /\ from(j) \in 1 .. len
      BY <2>7, <2>8
    <3>2. from(i) = from(j)
      BY <1>0, <2>14, <3>1
    <3> QED BY <2>9, <3>2
  <2>15. AlongPred(r)
    BY <1>0, <1>1, <2>4, <2>7, <2>11, <2>13, <2>14 DEF AlongPred, E
  <2> QED BY <2>4, <2>11, <2>15 DEF r, len
<1> QED BY <1>4, <1>5

-----------------------------------------------------------------------------
(* Sums of weights. *)

LEMMA TotalSteps ==
  ASSUME NEW n \in Nat, NEW w \in [1 .. n -> Int]
  PROVE  \E sum \in [0 .. n -> Int] :
           /\ sum[0] = 0 /\ \A i \in 1 .. n : sum[i] = sum[i - 1] + w[i]
           /\ Total(w) = sum[n]
<1> DEFINE F == [i \in 1 .. n |-> [x \in Int |-> x + w[i]]]
           Sums(f) == [i \in 0 .. Len(w) |-> IF i = 0 THEN 0 ELSE f[i - 1] + w[i]]
           sum == CHOOSE f : f = Sums(f)
<1>1. Len(w) = n
  OBVIOUS
<1>2. MapsInto(F, n, Int)
  BY DEF MapsInto
<1>3. \A i \in 1 .. n, x \in Int : F[i][x] = x + w[i]
  OBVIOUS
<1> HIDE DEF F
<1>4. PICK f \in [0 .. n -> Int] : f[0] = 0 /\ \A i \in 1 .. n : f[i] = F[i][f[i - 1]]
  <2> DEFINE S == Int
  <2>1. 0 \in S /\ MapsInto(F, n, S)
    BY <1>2
  <2> HIDE DEF S
  <2>2. \E f \in [0 .. n -> S] : f[0] = 0 /\ \A i \in 1 .. n : f[i] = F[i][f[i - 1]]
    BY <2>1, Recursion
  <2> QED BY <2>2 DEF S
<1>5. \A i \in 1 .. n : f[i] = f[i - 1] + w[i]
  <2>1. \A i \in 1 .. n : f[i - 1] \in Int
    OBVIOUS
  <2> QED BY <1>3, <1>4, <2>1
<1>6. f = Sums(f)
  <2>1. \A i \in 0 .. n : f[i] = IF i = 0 THEN 0 ELSE f[i - 1] + w[i]
    BY <1>4, <1>5
  <2>2. f = [i \in 0 .. n |-> f[i]]
    OBVIOUS
  <2> QED BY <1>1, <2>1, <2>2
<1>7. sum = Sums(sum)
  <2> HIDE DEF Sums
  <2> QED BY <1>6
<1>8. Total(w) = sum[Len(w)]
  BY DEF Total
<1> HIDE DEF sum
<1>9. sum[0] = 0 /\ \A i \in 1 .. n : sum[i] = sum[i - 1] + w[i]
  BY <1>1, <1>7
<1>10. \A i \in 0 .. n : sum[i] \in Int
  <2> DEFINE T == {i \in 0 .. n : sum[i] \in Int}
  <2>1. 0 \in T
    BY <1>9
  <2>2. \A i \in 1 .. n : i - 1 \in T => i \in T
    BY <1>9
  <2> HIDE DEF T
  <2>3. 0 .. n \subseteq T
    BY <2>1, <2>2, UpTo
  <2> QED BY <2>3 DEF T
<1>11. sum \in [0 .. n -> Int]
  <2>1. sum = [i \in 0 .. n |-> sum[i]]
    BY <1>1, <1>7
  <2> QED BY <1>10, <2>1
<1> QED BY <1>1, <1>8, <1>9, <1>11

\* Weights that are at least the climbs of a potential come to its whole climb.
LEMMA TotalAbove ==
  ASSUME NEW n \in Nat, NEW w \in [1 .. n -> Int], NEW p \in [0 .. n -> Int],
         \A i \in 1 .. n : p[i] - p[i - 1] <= w[i]
  PROVE  Total(w) \in Int /\ p[n] - p[0] <= Total(w)
<1>1. PICK sum \in [0 .. n -> Int] :
        sum[0] = 0 /\ (\A i \in 1 .. n : sum[i] = sum[i - 1] + w[i]) /\ Total(w) = sum[n]
  BY TotalSteps
<1> DEFINE T == {i \in 0 .. n : p[i] - p[0] <= sum[i]}
<1>2. 0 \in T
  BY <1>1
<1>3. ASSUME NEW i \in 1 .. n, i - 1 \in T PROVE i \in T
  <2>1. p[i] \in Int /\ p[i - 1] \in Int /\ p[0] \in Int /\ sum[i - 1] \in Int /\ w[i] \in Int
    OBVIOUS
  <2>2. sum[i] = sum[i - 1] + w[i] /\ p[i] - p[i - 1] <= w[i] /\ p[i - 1] - p[0] <= sum[i - 1]
    BY <1>1, <1>3
  <2> QED BY <2>1, <2>2
<1> HIDE DEF T
<1>4. 0 .. n \subseteq T
  BY <1>2, <1>3, UpTo
<1> QED BY <1>1, <1>4, n \in 0 .. n DEF T

\* Weights that are at most the climbs, and less than one of them, come to less.
LEMMA TotalBelow ==
  ASSUME NEW n \in Nat, NEW w \in [1 .. n -> Int], NEW p \in [0 .. n -> Int],
         \A i \in 1 .. n : w[i] <= p[i] - p[i - 1],
         \E i \in 1 .. n : w[i] < p[i] - p[i - 1]
  PROVE  Total(w) < p[n] - p[0]
<1>1. PICK sum \in [0 .. n -> Int] :
        sum[0] = 0 /\ (\A i \in 1 .. n : sum[i] = sum[i - 1] + w[i]) /\ Total(w) = sum[n]
  BY TotalSteps
<1>2. PICK m \in 1 .. n : w[m] < p[m] - p[m - 1]
  OBVIOUS
<1> DEFINE T == {i \in 0 .. n : /\ sum[i] <= p[i] - p[0]
                                /\ i >= m => sum[i] < p[i] - p[0]}
<1>3. 0 \in T
  BY <1>1
<1>4. ASSUME NEW i \in 1 .. n, i - 1 \in T PROVE i \in T
  <2>1. p[i] \in Int /\ p[i - 1] \in Int /\ p[0] \in Int /\ sum[i - 1] \in Int /\ w[i] \in Int
    OBVIOUS
  <2>2. /\ sum[i] = sum[i - 1] + w[i] /\ w[i] <= p[i] - p[i - 1]
        /\ sum[i - 1] <= p[i - 1] - p[0]
        /\ i - 1 >= m => sum[i - 1] < p[i - 1] - p[0]
    BY <1>1, <1>4
  <2>3. i >= m => i = m \/ i - 1 >= m
    OBVIOUS
  <2>4. i = m => w[i] < p[i] - p[i - 1]
    BY <1>2
  <2> DEFINE here == p[i]
             prior == p[i - 1]
             climbed == sum[i - 1]
             weight == w[i]
             foot == p[0]
  <2> HIDE DEF here, prior, climbed, weight, foot
  <2>5. sum[i] <= p[i] - p[0]
    <3>1. /\ here \in Int /\ prior \in Int /\ climbed \in Int /\ weight \in Int /\ foot \in Int
          /\ weight <= here - prior /\ climbed <= prior - foot
      BY <2>1, <2>2 DEF here, prior, climbed, weight, foot
    <3>2. climbed + weight <= here - foot
      BY <3>1
    <3> QED BY <2>2, <3>2 DEF here, prior, climbed, weight, foot
  <2>6. ASSUME i >= m PROVE sum[i] < p[i] - p[0]
    <3>1. /\ here \in Int /\ prior \in Int /\ climbed \in Int /\ weight \in Int /\ foot \in Int
          /\ weight <= here - prior /\ climbed <= prior - foot
          /\ weight < here - prior \/ climbed < prior - foot
      BY <2>1, <2>2, <2>3, <2>4, <2>6 DEF here, prior, climbed, weight, foot
    <3>2. climbed + weight < here - foot
      BY <3>1, SMTT(30)
    <3> QED BY <2>2, <3>2 DEF here, prior, climbed, weight, foot
  <2> QED BY <2>5, <2>6
<1> HIDE DEF T
<1>5. 0 .. n \subseteq T
  BY <1>3, <1>4, UpTo
<1> QED BY <1>1, <1>5, n \in 0 .. n DEF T

\* Each hop of a cycle along pred: the pool sells its tokens, and the distance
\* climbs by its weight at least.
LEMMA HopFacts ==
  ASSUME PoolsTyped, Sound(search), NEW c, AlongPred(c), NEW i \in 1 .. Len(c.pools)
  PROVE  /\ Sells(c.pools[i], c.tokens[i], c.tokens[i + 1])
         /\ search.dist[c.tokens[i]] \in Int /\ search.dist[c.tokens[i + 1]] \in Int
         /\ Weight(c.pools[i], c.tokens[i]) \in Int
         /\ search.dist[c.tokens[i]] + Weight(c.pools[i], c.tokens[i]) <= search.dist[c.tokens[i + 1]]
<1> DEFINE u == c.tokens[i]
           v == c.tokens[i + 1]
<1>1. /\ c.tokens \in Seq(Tokens) /\ Len(c.tokens) = Len(c.pools) + 1 /\ Len(c.pools) \in 1 .. N
      /\ search.pred[v] = u /\ search.edge[v] = c.pools[i]
  BY DEF AlongPred
<1>2. u \in Tokens /\ v \in Tokens
  <2>1. i \in 1 .. Len(c.tokens) /\ i + 1 \in 1 .. Len(c.tokens)
    BY <1>1, NodesCounted
  <2> QED BY <1>1, <2>1
<1>3. search.pred[v] # None
  BY <1>1, <1>2, GraphAssumption DEF GraphAssumption
<1>4. /\ Sells(search.edge[v], search.pred[v], v)
      /\ search.dist[search.pred[v]] \in Int /\ search.dist[v] \in Int
      /\ search.dist[search.pred[v]] + Weight(search.edge[v], search.pred[v]) <= search.dist[v]
  BY <1>2, <1>3 DEF Sound, PredsHold
<1>5. Weight(c.pools[i], u) \in Int
  BY <1>1, <1>4, BothWays
<1> QED BY <1>1, <1>4, <1>5

\* A cycle along pred is an arbitrage.
LEMMA PredGains ==
  ASSUME PoolsTyped, Sound(search), NEW c, AlongPred(c)
  PROVE  /\ Len(c.pools) >= 2
         /\ \A i \in 1 .. Len(c.pools) : c.pools[i] \in Swaps(c.tokens[i], c.tokens[i + 1])
         /\ \A i, j \in 1 .. Len(c.pools) : c.pools[i] = c.pools[j] => i = j
         /\ Total([i \in 1 .. Len(c.pools) |-> Weight(c.pools[i], c.tokens[i])]) < 0
<1> DEFINE len == Len(c.pools)
           dist == search.dist
           w == [i \in 1 .. len |-> Weight(c.pools[i], c.tokens[i])]
           p == [i \in 0 .. len |-> dist[c.tokens[i + 1]]]
<1>1. len \in Nat /\ len >= 1
  BY NodesCounted DEF AlongPred
<1>2. /\ c.tokens[1] = c.tokens[len + 1]
      /\ \A i, j \in 1 .. len : c.tokens[i] = c.tokens[j] => i = j
      /\ \A i \in 1 .. len : search.pred[c.tokens[i + 1]] = c.tokens[i]
      /\ \A i \in 1 .. len : search.edge[c.tokens[i + 1]] = c.pools[i]
  BY DEF AlongPred
<1>3. \A i \in 1 .. len :
        /\ Sells(c.pools[i], c.tokens[i], c.tokens[i + 1])
        /\ dist[c.tokens[i]] \in Int /\ dist[c.tokens[i + 1]] \in Int
        /\ Weight(c.pools[i], c.tokens[i]) \in Int
        /\ dist[c.tokens[i]] + Weight(c.pools[i], c.tokens[i]) <= dist[c.tokens[i + 1]]
  BY HopFacts
<1>4. len >= 2
  <2>1. ASSUME len = 1 PROVE FALSE
    <3>1. Sells(c.pools[1], c.tokens[1], c.tokens[1])
      BY <1>2, <1>3, <2>1
    <3> QED BY <3>1, BothWays
  <2> HIDE DEF len
  <2> QED BY <1>1, <2>1
<1>5. ASSUME NEW i \in 1 .. len
      PROVE  c.pools[i] \in Swaps(c.tokens[i], c.tokens[i + 1])
  <2>1. Sells(c.pools[i], c.tokens[i], c.tokens[i + 1])
    BY <1>3
  <2> QED BY <2>1, BothWays DEF Sells, Swaps
<1>6. ASSUME NEW i \in 1 .. len, NEW j \in 1 .. len, c.pools[i] = c.pools[j]
      PROVE  i = j
  <2> DEFINE k == c.pools[i]
             u == c.tokens[i]
             v == c.tokens[i + 1]
  <2>1. Sells(k, u, v) /\ Sells(k, c.tokens[j], c.tokens[j + 1])
    BY <1>3, <1>6
  <2>2. /\ u # v /\ {u, v} = {c.tokens[j], c.tokens[j + 1]}
    <3> HIDE DEF k, u, v
    <3>1. u # v /\ {u, v} = {pools[k].t0, pools[k].t1}
      BY <2>1, BothWays
    <3> DEFINE x == c.tokens[j]
               y == c.tokens[j + 1]
    <3>2. {x, y} = {pools[k].t0, pools[k].t1}
      <4>1. Sells(k, x, y)
        BY <2>1
      <4> HIDE DEF x, y
      <4> QED BY <4>1, BothWays
    <3> QED BY <3>1, <3>2
  <2>3. ~(c.tokens[j] = v /\ c.tokens[j + 1] = u)
    <3> SUFFICES ASSUME c.tokens[j] = v, c.tokens[j + 1] = u PROVE FALSE
      OBVIOUS
    <3>1. dist[u] \in Int /\ dist[v] \in Int /\ dist[u] + Weight(k, u) <= dist[v]
      BY <1>3
    <3>2. dist[v] + Weight(k, v) <= dist[u]
      BY <1>3, <1>6
    <3> DEFINE a == dist[u]
               b == dist[v]
               x == Weight(k, u)
               y == Weight(k, v)
    <3>0. x \in Int /\ y \in Int /\ x + y > 0
      <4>1. Sells(k, u, v) /\ Sells(k, v, u)
        BY <2>1
      <4> HIDE DEF k, u, v
      <4> QED BY <4>1, BothWays
    <3>3. a \in Int /\ b \in Int /\ x \in Int /\ y \in Int /\ a + x <= b /\ b + y <= a /\ x + y > 0
      BY <3>0, <3>1, <3>2
    <3> HIDE DEF a, b, x, y
    <3> QED BY <3>3
  <2>4. u = c.tokens[j]
    <3> DEFINE x == c.tokens[j]
               y == c.tokens[j + 1]
    <3>1. u # v /\ {u, v} = {x, y} /\ ~(x = v /\ y = u)
      BY <2>2, <2>3
    <3> HIDE DEF u, v, x, y
    <3>2. u = x
      BY <3>1
    <3> QED BY <3>2 DEF x
  <2> QED BY <1>2, <2>4
<1>7. Total(w) < 0
  <2>1. w \in [1 .. len -> Int] /\ p \in [0 .. len -> Int]
    <3>1. ASSUME NEW i \in 0 .. len PROVE dist[c.tokens[i + 1]] \in Int
      <4>1. CASE i = 0
        BY <1>1, <1>3, <4>1, 1 \in 1 .. len
      <4>2. CASE i # 0
        BY <1>3, <4>2, i \in 1 .. len
      <4> QED BY <4>1, <4>2
    <3> QED BY <1>3, <3>1
  <2>2. ASSUME NEW i \in 1 .. len
        PROVE  /\ w[i] = Weight(c.pools[i], c.tokens[i])
               /\ p[i] = dist[c.tokens[i + 1]] /\ p[i - 1] = dist[c.tokens[i]]
    <3>1. i \in 0 .. len /\ i - 1 \in 0 .. len /\ i - 1 + 1 = i
      BY <1>1
    <3> QED BY <3>1
  <2>3. p[0] = dist[c.tokens[1]] /\ p[len] = dist[c.tokens[len + 1]]
    BY <1>1
  <2> HIDE DEF w, p
  <2>4. \A i \in 1 .. len : w[i] <= p[i] - p[i - 1]
    <3> SUFFICES ASSUME NEW i \in 1 .. len PROVE w[i] <= p[i] - p[i - 1]
      OBVIOUS
    <3>1. w[i] \in Int /\ p[i] \in Int /\ p[i - 1] \in Int /\ p[i - 1] + w[i] <= p[i]
      BY <1>3, <2>2
    <3> DEFINE a == p[i - 1]
               b == p[i]
               x == w[i]
    <3> HIDE DEF a, b, x
    <3>2. x <= b - a
      BY <3>1 DEF a, b, x
    <3> QED BY <3>2 DEF a, b, x
  \* The tokens of the cycle have their predecessors among them.
  <2>5. PICK m \in 1 .. len : Slack(search, c.tokens[m + 1])
    <3> DEFINE C == {c.tokens[i + 1] : i \in 1 .. len}
    <3>1. C \in SUBSET Tokens /\ C # {}
      <4>1. \A i \in 1 .. len : c.tokens[i + 1] \in Tokens
        BY <1>3, BothWays
      <4> QED BY <1>1, <4>1, 1 \in 1 .. len
    <3>2. \A i \in 1 .. len : c.tokens[i] \in C
      <4> SUFFICES ASSUME NEW i \in 1 .. len PROVE c.tokens[i] \in C
        OBVIOUS
      <4>1. CASE i = 1
        BY <1>1, <1>2, <4>1, len \in 1 .. len
      <4>2. CASE i # 1
        BY <4>2, i - 1 \in 1 .. len, i - 1 + 1 = i
      <4> QED BY <4>1, <4>2
    <3>3. PICK v \in C : search.pred[v] \notin C \/ Slack(search, v)
      BY <3>1 DEF Sound, CyclesSlack
    <3>4. PICK m \in 1 .. len : v = c.tokens[m + 1]
      OBVIOUS
    <3>5. search.pred[v] \in C
      BY <1>2, <3>2, <3>4
    <3> QED BY <3>3, <3>4, <3>5
  <2>6. w[m] < p[m] - p[m - 1]
    <3>1. w[m] \in Int /\ p[m] \in Int /\ p[m - 1] \in Int /\ p[m - 1] + w[m] < p[m]
      BY <1>2, <1>3, <2>2, <2>5 DEF Slack
    <3> DEFINE a == p[m - 1]
               b == p[m]
               x == w[m]
    <3> HIDE DEF a, b, x
    <3>2. x < b - a
      BY <3>1 DEF a, b, x
    <3> QED BY <3>2 DEF a, b, x
  <2>7. Total(w) < p[len] - p[0]
    BY <1>1, <2>1, <2>4, <2>6, TotalBelow
  <2>8. p[len] = p[0] /\ p[0] \in Int
    BY <1>1, <1>2, <2>1, <2>3
  <2> QED BY <2>7, <2>8
<1> QED BY <1>4, <1>5, <1>6, <1>7

-----------------------------------------------------------------------------
(* When no edge can be relaxed, no loop gains. *)

\* The potential dist falls by no more than what any pool charges.
Settled ==
  \A k \in DOMAIN pools, u \in Tokens, v \in Tokens :
    Sells(k, u, v) /\ search.dist[u] \in Int =>
      search.dist[v] \in Int /\ search.dist[v] - search.dist[u] <= Weight(k, u)

LEMMA NothingRelaxable ==
  ASSUME PoolsTyped, Sound(search), StillRelaxable = {}
  PROVE  Settled
<1> SUFFICES ASSUME NEW k \in DOMAIN pools, NEW u \in Tokens, NEW v \in Tokens,
                    Sells(k, u, v), search.dist[u] \in Int
             PROVE  search.dist[v] \in Int /\ search.dist[v] - search.dist[u] <= Weight(k, u)
  BY DEF Settled
<1>1. u \in {pools[k].t0, pools[k].t1} /\ v = Buys(k, u) /\ Open(k, u)
  BY DEF Sells
<1>2. PICK e \in 1 .. Len(DirectedEdges) : DirectedEdges[e] = [pool |-> k, from |-> u]
  BY <1>1, EdgeFacts
<1>3. e \in DOMAIN DirectedEdges
  <2>1. DOMAIN DirectedEdges = 1 .. Len(DirectedEdges)
    BY EdgeFacts
  <2> QED BY <2>1
<1>4. ~Relaxable(search, [pool |-> k, from |-> u])
  BY <1>2, <1>3 DEF StillRelaxable
<1>5. search.dist[u] # None /\ None \notin Int
  BY GraphAssumption DEF GraphAssumption
<1>6. search.dist[v] # None /\ ~(search.dist[u] + Weight(k, u) < search.dist[v])
  BY <1>1, <1>4, <1>5 DEF Relaxable
<1>7. search.dist[v] \in Int /\ Weight(k, u) \in Int
  BY <1>6, BothWays DEF Sound, Searches
<1> QED BY <1>6, <1>7

LEMMA SwapsSell ==
  ASSUME PoolsTyped, NEW u, NEW v, NEW k \in Swaps(u, v)
  PROVE  Sells(k, u, v) /\ k \in DOMAIN pools /\ u \in Tokens /\ v \in Tokens /\ Weight(k, u) \in Int
<1>1. k \in DOMAIN pools /\ Open(k, u) /\ {u, v} = {pools[k].t0, pools[k].t1}
  BY DEF Swaps
<1>2. pools[k].t0 # pools[k].t1
  BY <1>1, PoolFacts
<1>3. Sells(k, u, v)
  BY <1>1, <1>2 DEF Sells, Buys
<1> QED BY <1>1, <1>3, BothWays

\* The cheapest of the pools between two tokens is one of them.
LEMMA CheapestAbove ==
  ASSUME PoolsTyped, NEW u, NEW v, Swaps(u, v) # {},
         NEW low \in Int, \A k \in Swaps(u, v) : low <= Weight(k, u)
  PROVE  Cheapest(u, v) \in Int /\ low <= Cheapest(u, v)
<1> DEFINE K == Swaps(u, v)
           Costs == {Weight(k, u) : k \in K}
           Above == {Weight(k, u) - low : k \in K}
<1>1. \A k \in K : Weight(k, u) \in Int /\ low <= Weight(k, u)
  BY SwapsSell
<1> HIDE DEF K
<1>2. Above \in SUBSET Nat /\ Above # {}
  <2>1. K # {}
    BY DEF K
  <2> QED BY <1>1, <2>1
<1>3. PICK a \in Above : \A b \in Above : a <= b
  <2> HIDE DEF Above
  <2> QED BY <1>2, LeastOf
<1>4. PICK m \in K : a = Weight(m, u) - low
  OBVIOUS
<1>5. \A k \in K : Weight(m, u) <= Weight(k, u)
  <2> SUFFICES ASSUME NEW k \in K PROVE Weight(m, u) <= Weight(k, u)
    OBVIOUS
  <2>1. Weight(m, u) - low <= Weight(k, u) - low
    BY <1>3, <1>4
  <2>2. Weight(m, u) \in Int /\ Weight(k, u) \in Int
    BY <1>1
  <2> QED BY <2>1, <2>2
<1>6. \E w \in Costs : \A k \in K : w <= Weight(k, u)
  BY <1>5
<1>7. Cheapest(u, v) = CHOOSE w \in Costs : \A k \in K : w <= Weight(k, u)
  BY DEF Cheapest, K
<1>8. Cheapest(u, v) \in Costs
  <2> HIDE DEF Costs
  <2> QED BY <1>6, <1>7
<1> QED BY <1>1, <1>8

\* What a route starts from being reached, all of it is.
LEMMA RouteReached ==
  ASSUME PoolsTyped, Settled, NEW n \in Nat, NEW q,
         search.dist[q[1]] \in Int,
         \A i \in 1 .. n : Swaps(q[i], q[i + 1]) # {}
  PROVE  \A i \in 1 .. n + 1 : search.dist[q[i]] \in Int
<1> DEFINE T == {i \in 0 .. n : search.dist[q[i + 1]] \in Int}
<1>1. 0 \in T
  OBVIOUS
<1>2. ASSUME NEW i \in 1 .. n, i - 1 \in T PROVE i \in T
  <2>1. search.dist[q[i]] \in Int
    BY <1>2
  <2>2. PICK k \in Swaps(q[i], q[i + 1]) : TRUE
    OBVIOUS
  <2> DEFINE u == q[i]
             v == q[i + 1]
  <2>3. Sells(k, u, v) /\ k \in DOMAIN pools /\ u \in Tokens /\ v \in Tokens
    BY <2>2, SwapsSell
  <2>4. search.dist[v] \in Int
    <3>1. search.dist[u] \in Int
      BY <2>1
    <3> HIDE DEF u, v
    <3> QED BY <2>3, <3>1 DEF Settled
  <2> QED BY <2>4
<1> HIDE DEF T
<1>3. 0 .. n \subseteq T
  BY <1>1, <1>2, UpTo
<1>4. ASSUME NEW i \in 1 .. n + 1 PROVE search.dist[q[i]] \in Int
  <2>1. i - 1 \in T /\ i - 1 + 1 = i
    BY <1>3
  <2> QED BY <2>1 DEF T
<1> QED BY <1>4

LEMMA NothingLeft ==
  ASSUME PoolsTyped, Sound(search), Start = Weth, StillRelaxable = {}
  PROVE  ~\E r \in SimpleRoutes : Reachable(r[1]) /\ Profitable(r)
<1>1. Settled
  BY NothingRelaxable
<1>2. search.dist[Weth] \in Int
  BY GraphAssumption DEF GraphAssumption, Sound, Searches
<1>3. ASSUME NEW t, Reachable(t) PROVE search.dist[t] \in Int
  <2>1. PICK q \in SimpleRoutes : q[1] = Weth /\ q[Len(q)] = t /\ Connected(q)
    BY <1>3 DEF Reachable
  <2>2. PICK n \in 1 .. N : q \in [1 .. n -> Tokens]
    BY <2>1 DEF SimpleRoutes
  <2>3. n \in Nat /\ n - 1 \in Nat /\ n - 1 + 1 = n /\ Len(q) = n /\ n \in 1 .. n
    BY <2>2, NodesCounted
  <2>4. \A i \in 1 .. n - 1 : Swaps(q[i], q[i + 1]) # {}
    BY <2>1, <2>3 DEF Connected
  <2>5. \A i \in 1 .. n - 1 + 1 : search.dist[q[i]] \in Int
    BY <1>1, <1>2, <2>1, <2>3, <2>4, RouteReached
  <2> QED BY <2>1, <2>3, <2>5
<1> SUFFICES ASSUME NEW r \in SimpleRoutes, Reachable(r[1]), Profitable(r)
             PROVE  FALSE
  OBVIOUS
<1>4. PICK n \in 1 .. N : r \in [1 .. n -> Tokens]
  BY DEF SimpleRoutes
<1> DEFINE loop == Loop(r)
           w == [i \in 1 .. n |-> Cheapest(loop[i], loop[i + 1])]
           p == [i \in 0 .. n |-> search.dist[loop[i + 1]]]
<1>5. n \in Nat /\ n >= 1 /\ Len(r) = n
  BY <1>4, NodesCounted
<1>6. Len(loop) = n + 1 /\ loop[1] = r[1] /\ loop[n + 1] = r[1]
  <2>1. r \in Seq(Tokens) /\ r[1] \in Tokens
    BY <1>4, <1>5
  <2> QED BY <1>5, <2>1 DEF Loop
<1> HIDE DEF loop
<1>7. /\ \A i \in 1 .. n : Swaps(loop[i], loop[i + 1]) # {}
      /\ Total(w) < 0
  <2>1. Connected(loop) /\ Total([i \in 1 .. Len(r) |-> Cheapest(loop[i], loop[i + 1])]) < 0
    BY DEF Profitable, loop
  <2>2. Len(loop) - 1 = n
    BY <1>5, <1>6
  <2> QED BY <1>5, <2>1, <2>2 DEF Connected
<1>8. \A i \in 1 .. n + 1 : search.dist[loop[i]] \in Int
  <2>1. search.dist[loop[1]] \in Int
    BY <1>3, <1>6
  <2> QED BY <1>1, <1>5, <1>7, <2>1, RouteReached
<1>9. p \in [0 .. n -> Int] /\ p[0] = p[n] /\ \A i \in 1 .. n : p[i] - p[i - 1] = search.dist[loop[i + 1]] - search.dist[loop[i]]
  <2>1. \A i \in 0 .. n : i + 1 \in 1 .. n + 1
    BY <1>5
  <2>2. p \in [0 .. n -> Int]
    BY <1>8, <2>1
  <2>3. p[0] = p[n]
    BY <1>5, <1>6
  <2>4. ASSUME NEW i \in 1 .. n
        PROVE  p[i] - p[i - 1] = search.dist[loop[i + 1]] - search.dist[loop[i]]
    <3>1. i \in 0 .. n /\ i - 1 \in 0 .. n /\ i - 1 + 1 = i
      BY <1>5
    <3>2. p[i] = search.dist[loop[i + 1]] /\ p[i - 1] = search.dist[loop[i]]
      BY <3>1
    <3> QED BY <3>2
  <2> QED BY <2>2, <2>3, <2>4
<1>10. ASSUME NEW i \in 1 .. n
       PROVE  /\ Cheapest(loop[i], loop[i + 1]) \in Int
              /\ search.dist[loop[i + 1]] - search.dist[loop[i]] <= Cheapest(loop[i], loop[i + 1])
  <2> DEFINE u == loop[i]
             v == loop[i + 1]
             low == search.dist[v] - search.dist[u]
  <2>1. Swaps(u, v) # {} /\ search.dist[u] \in Int /\ search.dist[v] \in Int
    BY <1>5, <1>7, <1>8, i \in 1 .. n + 1, i + 1 \in 1 .. n + 1
  <2> HIDE DEF u, v
  <2>2. \A k \in Swaps(u, v) : low <= Weight(k, u)
    BY <1>1, <2>1, SwapsSell DEF Settled
  <2>3. low \in Int
    BY <2>1
  <2> HIDE DEF low
  <2>4. Cheapest(u, v) \in Int /\ low <= Cheapest(u, v)
    BY <2>1, <2>2, <2>3, CheapestAbove
  <2> QED BY <2>4 DEF low, u, v
<1>11. w \in [1 .. n -> Int] /\ \A i \in 1 .. n : p[i] - p[i - 1] <= w[i]
  <2>1. \A i \in 1 .. n : w[i] = Cheapest(loop[i], loop[i + 1])
    OBVIOUS
  <2>2. w \in [1 .. n -> Int]
    BY <1>10
  <2> HIDE DEF w, p
  <2>3. \A i \in 1 .. n : p[i] - p[i - 1] <= w[i]
    BY <1>9, <1>10, <2>1
  <2> QED BY <2>2, <2>3
<1> HIDE DEF w, p
<1>12. Total(w) \in Int /\ p[n] - p[0] <= Total(w)
  BY <1>5, <1>9, <1>11, TotalAbove
<1>13. p[n] \in Int /\ p[0] = p[n]
  BY <1>5, <1>9
<1> QED BY <1>7, <1>12, <1>13

-----------------------------------------------------------------------------
(* The inductive invariant. *)

\* A cycle that was found stays one until the next update.
CycleHeld ==
  phase = "found" =>
    /\ AlongPred(cycle)
    /\ (\E i \in 1 .. Len(cycle.pools) : cycle.tokens[i] = Start) => cycle.tokens[1] = Start

ArbInv ==
  /\ PoolsTyped
  /\ phase \in {"idle", "relax", "found", "none", "raised"}
  /\ passes \in 0 .. (N - 1)
  /\ Sound(search)
  /\ CycleHeld
  /\ phase # "found" => cycle = NoCycle

LEMMA FreshSound ==
  Sound(FreshSearch)
<1>1. None \notin Int /\ None \notin Tokens
  BY GraphAssumption DEF GraphAssumption
<1> DEFINE s == FreshSearch
<1>2. /\ \A t \in Tokens : s.pred[t] = None
      /\ s \in Searches
      /\ Start \in Tokens => s.dist[Start] = 0
  BY DEF FreshSearch, Searches
<1> HIDE DEF s
<1>3. PredsHold(s)
  BY <1>2 DEF PredsHold
<1>4. CyclesSlack(s)
  BY <1>1, <1>2 DEF CyclesSlack
<1>5. Start \in Tokens => s.dist[Start] # None
  BY <1>1, <1>2
<1> QED BY <1>2, <1>3, <1>4, <1>5 DEF Sound, s

LEMMA InitArbInv ==
  Init => ArbInv
<1> SUFFICES ASSUME Init PROVE ArbInv
  OBVIOUS
<1>1. PoolsTyped
  BY DEF Init, PoolsTyped
<1>2. passes \in 0 .. (N - 1)
  BY NodesCounted DEF Init
<1>3. Sound(search)
  BY FreshSound DEF Init
<1> QED BY <1>1, <1>2, <1>3 DEF Init, ArbInv, CycleHeld

\* Soundness depends on the pools and their weights only.
LEMMA SoundKept ==
  ASSUME UNCHANGED <<pools, quote>>, NEW s, Sound(s), search' = s
  PROVE  Sound(search)'
<1>1. /\ s \in Searches /\ PredsHold(s) /\ CyclesSlack(s)
      /\ Start \in Tokens => s.dist[Start] # None
  BY DEF Sound
<1>2. \A k, u, v : Sells(k, u, v)' <=> Sells(k, u, v)
  BY DEF Sells, Open, Buys, Weight
<1>3. \A k, u : Weight(k, u)' = Weight(k, u)
  BY DEF Weight
<1>4. (search \in Searches)'
  BY <1>1 DEF Searches
<1>5. PredsHold(search)'
  BY <1>1, <1>2, <1>3 DEF PredsHold
<1>6. CyclesSlack(search)'
  BY <1>1, <1>3 DEF CyclesSlack, Slack
<1> QED BY <1>1, <1>4, <1>5, <1>6 DEF Sound

\* So do the routes.
LEMMA RoutesKept ==
  ASSUME UNCHANGED <<pools, quote>>,
         ~\E r \in SimpleRoutes : Reachable(r[1]) /\ Profitable(r)
  PROVE  (~\E r \in SimpleRoutes : Reachable(r[1]) /\ Profitable(r))'
<1>1. \A u, v : Swaps(u, v)' = Swaps(u, v)
  BY DEF Swaps, Open, Weight
<1>2. \A u, v : Cheapest(u, v)' = Cheapest(u, v)
  BY DEF Cheapest, Swaps, Weight, Open
<1>3. \A q : Connected(q)' <=> Connected(q)
  BY <1>1 DEF Connected
<1>4. \A t : Reachable(t)' <=> Reachable(t)
  BY <1>3 DEF Reachable, SimpleRoutes, N
<1>5. \A r : Profitable(r)' <=> Profitable(r)
  <2> SUFFICES ASSUME NEW r PROVE Profitable(r)' <=> Profitable(r)
    OBVIOUS
  <2> DEFINE loop == Loop(r)
             w == [i \in 1 .. Len(r) |-> Cheapest(loop[i], loop[i + 1])]
  <2>1. w' = w
    BY <1>2 DEF Loop
  <2>2. Profitable(r) <=> Len(r) >= 2 /\ Connected(loop) /\ Total(w) < 0
    BY DEF Profitable
  <2>3. Profitable(r)' <=> Len(r) >= 2 /\ Connected(loop)' /\ Total(w') < 0
    BY DEF Profitable, Loop, Total
  <2>4. Connected(loop)' <=> Connected(loop)
    BY <1>3 DEF Loop
  <2> HIDE DEF w
  <2> QED BY <2>1, <2>2, <2>3, <2>4
<1> QED BY <1>4, <1>5 DEF SimpleRoutes, N

LEMMA TypesKept ==
  ASSUME ArbInv, Next
  PROVE  PoolsTyped' /\ (phase \in {"idle", "relax", "found", "none", "raised"})'
<1>1. CASE RelaxAll
  BY <1>1 DEF ArbInv, PoolsTyped, RelaxAll, V2Quotes, Closed
<1>2. CASE Detect
  BY <1>2 DEF ArbInv, PoolsTyped, Detect, V2Quotes, Closed
<1>3. ASSUME NEW k \in DOMAIN pools, Update(k)
      PROVE  PoolsTyped' /\ (phase \in {"idle", "relax", "found", "none", "raised"})'
  BY <1>3 DEF ArbInv, PoolsTyped, Update, Quotes, V2Quotes, Closed
<1> QED BY <1>1, <1>2, <1>3 DEF Next

\* What Detect finds on a walk that stays on the chain of pred.
LEMMA DetectedAlongPred ==
  ASSUME ArbInv, StillRelaxable # {}, Back(CycleNode, N) # None
  PROVE  LET c == CycleThrough(Back(CycleNode, N))
         IN  AlongPred(c) /\ Len(c.pools) >= 2
<1>1. PoolsTyped /\ Sound(search) /\ PredTyped /\ search.edge \in [Tokens -> DOMAIN pools \cup {None}]
  BY DEF ArbInv, Sound, Searches, PredTyped
<1>2. CycleNode \in Tokens
  <2> DEFINE i == CHOOSE i \in StillRelaxable : \A j \in StillRelaxable : i <= j
  <2>1. DOMAIN DirectedEdges = 1 .. Len(DirectedEdges)
    BY <1>1, EdgeFacts
  <2>2. StillRelaxable \in SUBSET Nat
    BY <2>1 DEF StillRelaxable
  <2>3. \E x \in StillRelaxable : \A y \in StillRelaxable : x <= y
    BY <2>2, LeastOf
  <2>4. i \in StillRelaxable
    BY <2>3
  <2>5. i \in 1 .. Len(DirectedEdges) /\ Relaxable(search, DirectedEdges[i])
    BY <2>1, <2>4 DEF StillRelaxable
  <2>6. CycleNode = Buys(DirectedEdges[i].pool, DirectedEdges[i].from)
    BY DEF CycleNode
  <2> HIDE DEF i
  <2>7. PICK k \in DOMAIN pools, u \in Tokens :
          u \in {pools[k].t0, pools[k].t1} /\ DirectedEdges[i] = [pool |-> k, from |-> u]
    BY <1>1, <2>5, EdgeFacts
  <2>8. CycleNode = Buys(k, u)
    BY <2>6, <2>7
  <2> QED BY <1>1, <2>7, <2>8, PoolFacts DEF Buys
<1> DEFINE x == Back(CycleNode, N)
<1>3. x \in Tokens /\ \E d \in 1 .. N : Back(x, d) = x
  BY <1>1, <1>2, WalkMeetsCycle
<1> HIDE DEF x
<1>4. AlongPred(CycleThrough(x))
  BY <1>1, <1>3, CycleThroughPred
<1>5. Len(CycleThrough(x).pools) >= 2
  BY <1>1, <1>4, PredGains
<1> QED BY <1>4, <1>5 DEF x

LEMMA RelaxAllStep ==
  ASSUME ArbInv, RelaxAll
  PROVE  ArbInv'
<1>1. /\ PoolsTyped' /\ (phase \in {"idle", "relax", "found", "none", "raised"})'
  BY TypesKept DEF Next
<1>2. (passes \in 0 .. (N - 1))'
  BY NodesCounted DEF ArbInv, RelaxAll, N
<1>3. Sound(search)'
  <2>1. Sound(Relaxed)
    BY RelaxedSound DEF ArbInv
  <2>2. UNCHANGED <<pools, quote>> /\ search' = Relaxed
    BY DEF RelaxAll
  <2> QED BY <2>1, <2>2, SoundKept
<1>4. phase' = "relax" /\ cycle' = cycle /\ cycle = NoCycle
  BY DEF RelaxAll, ArbInv
<1> QED BY <1>1, <1>2, <1>3, <1>4 DEF ArbInv, CycleHeld, NoCycle

LEMMA UpdateStep ==
  ASSUME ArbInv, NEW k \in DOMAIN pools, Update(k)
  PROVE  ArbInv'
<1>1. /\ PoolsTyped' /\ (phase \in {"idle", "relax", "found", "none", "raised"})'
  BY TypesKept DEF Next
<1>2. (passes \in 0 .. (N - 1))'
  BY NodesCounted DEF Update, N
<1>3. Sound(search)'
  <2>1. Sound(FreshSearch)'
    BY FreshSound, PTL
  <2> QED BY <2>1 DEF Update, FreshSearch
<1>4. phase' # "found" /\ cycle' = NoCycle
  BY DEF Update
<1> QED BY <1>1, <1>2, <1>3, <1>4 DEF ArbInv, CycleHeld, NoCycle

LEMMA DetectStep ==
  ASSUME ArbInv, Detect
  PROVE  ArbInv'
<1>1. /\ PoolsTyped' /\ (phase \in {"idle", "relax", "found", "none", "raised"})'
  BY TypesKept DEF Next
<1>2. (passes \in 0 .. (N - 1))'
  BY DEF ArbInv, Detect, N
<1>3. UNCHANGED <<pools, quote, search>> /\ Sound(search)'
  <2>1. UNCHANGED <<pools, quote, search>> /\ Sound(search)
    BY DEF Detect, ArbInv
  <2> QED BY <2>1, SoundKept
<1>4. CASE phase' # "found"
  <2>1. cycle' = NoCycle
    BY <1>4 DEF Detect, ArbInv
  <2> QED BY <1>1, <1>2, <1>3, <1>4, <2>1 DEF ArbInv, CycleHeld, NoCycle
<1>5. CASE phase' = "found"
  <2> DEFINE c == CycleThrough(Back(CycleNode, N))
  <2>1. StillRelaxable # {} /\ Back(CycleNode, N) # None /\ cycle' = RotateToStart(c)
    BY <1>5 DEF Detect
  <2>2. AlongPred(c)
    BY <2>1, DetectedAlongPred
  <2> HIDE DEF c
  <2>3. LET r == RotateToStart(c)
        IN  /\ AlongPred(r)
            /\ (\E i \in 1 .. Len(r.pools) : r.tokens[i] = Start) => r.tokens[1] = Start
    BY <2>2, RotatedPred
  <2>4. CycleHeld'
    BY <1>3, <2>1, <2>3 DEF CycleHeld, AlongPred, N
  <2> QED BY <1>1, <1>2, <1>3, <1>5, <2>4 DEF ArbInv
<1> QED BY <1>4, <1>5

LEMMA StepArbInv ==
  ArbInv /\ [Next]_vars => ArbInv'
<1> SUFFICES ASSUME ArbInv, [Next]_vars PROVE ArbInv'
  OBVIOUS
<1>1. CASE RelaxAll
  BY <1>1, RelaxAllStep
<1>2. CASE Detect
  BY <1>2, DetectStep
<1>3. ASSUME NEW k \in DOMAIN pools, Update(k) PROVE ArbInv'
  BY <1>3, UpdateStep
<1>4. CASE UNCHANGED vars
  <2>1. UNCHANGED <<pools, quote, phase, passes, search, cycle>>
    BY <1>4 DEF vars
  <2>2. Sound(search)'
    BY <2>1, SoundKept DEF ArbInv
  <2> QED BY <2>1, <2>2 DEF ArbInv, PoolsTyped, CycleHeld, AlongPred, N
<1> QED BY <1>1, <1>2, <1>3, <1>4 DEF Next

\* What the search knows is sound between any two passes: the recorded predecessors
\* are open pools, and along any cycle of them the recorded distances have slack.
THEOREM ArbInductive ==
  Spec => []ArbInv
<1> QED BY InitArbInv, StepArbInv, PTL DEF Spec

\* The types of the search, and the length of what it returns.
THEOREM SearchTyped ==
  Spec => []TypeOK
<1>1. ArbInv => TypeOK
  <2> SUFFICES ASSUME ArbInv PROVE TypeOK
    OBVIOUS
  <2>1. Len(cycle.tokens) <= N + 1
    <3>1. CASE phase = "found"
      <4>1. Len(cycle.tokens) = Len(cycle.pools) + 1 /\ Len(cycle.pools) \in 1 .. N
        BY <3>1 DEF ArbInv, CycleHeld, AlongPred
      <4> QED BY <4>1, NodesCounted
    <3>2. CASE phase # "found"
      BY <3>2, NodesCounted DEF ArbInv, NoCycle
    <3> QED BY <3>1, <3>2
  <2> QED BY <2>1 DEF ArbInv, PoolsTyped, Sound, Searches, TypeOK
<1> QED BY <1>1, ArbInductive, PTL

\* find_arbitrage_cycle returns only cycles that can be traded and that gain,
\* whatever the tokens, the pools and their weights: the cycle is closed, begins
\* at the start token if it passes through it, uses each pool once between its
\* own tokens, and its weights come to less than nothing.
THEOREM FoundCyclesGain ==
  Spec => []FoundIsArbitrage
<1>1. ArbInv => FoundIsArbitrage
  <2> SUFFICES ASSUME ArbInv, phase = "found" PROVE FoundIsArbitrage
    BY DEF FoundIsArbitrage
  <2> DEFINE len == Len(cycle.pools)
  <2>1. /\ AlongPred(cycle)
        /\ (\E i \in 1 .. len : cycle.tokens[i] = Start) => cycle.tokens[1] = Start
    BY DEF ArbInv, CycleHeld
  <2>2. /\ Len(cycle.tokens) = len + 1 /\ cycle.tokens[1] = cycle.tokens[len + 1]
        /\ cycle.pools \in Seq(DOMAIN pools \cup {None})
    BY <2>1 DEF AlongPred
  <2>3. DOMAIN cycle.pools = 1 .. len
    BY <2>2
  <2>4. /\ \A i \in 1 .. len : cycle.pools[i] \in Swaps(cycle.tokens[i], cycle.tokens[i + 1])
        /\ \A i, j \in 1 .. len : cycle.pools[i] = cycle.pools[j] => i = j
        /\ Total([i \in 1 .. len |-> Weight(cycle.pools[i], cycle.tokens[i])]) < 0
    BY <2>1, PredGains DEF ArbInv
  <2>5. Total([i \in DOMAIN cycle.pools |-> Weight(cycle.pools[i], cycle.tokens[i])]) < 0
    <3> HIDE DEF len
    <3> QED BY <2>3, <2>4
  <2> HIDE DEF len
  <2>6. /\ cycle.tokens[1] = cycle.tokens[Len(cycle.tokens)]
        /\ Len(cycle.tokens) = Len(cycle.pools) + 1
    BY <2>2 DEF len
  <2>7. \A i \in DOMAIN cycle.pools :
          /\ cycle.pools[i] \in Swaps(cycle.tokens[i], cycle.tokens[i + 1])
          /\ \A j \in DOMAIN cycle.pools : cycle.pools[i] = cycle.pools[j] => i = j
    BY <2>3, <2>4
  <2>8. (\E i \in DOMAIN cycle.pools : cycle.tokens[i] = Start) => cycle.tokens[1] = Start
    BY <2>1, <2>3
  <2> QED BY <2>5, <2>6, <2>7, <2>8 DEF FoundIsArbitrage
<1> QED BY <1>1, ArbInductive, PTL

\* When the caller spells the start token as the graph does, a search that
\* returns nothing has missed nothing: no loop that the borrowed token reaches
\* gains by the weights of the graph.  (A checksummed spelling finds no node, and misses them all.)
THEOREM NothingMissed ==
  ASSUME Start = Weth
  PROVE  Spec => []NoArbitrageMissed
<1>1. Start \in Tokens
  BY GraphAssumption DEF GraphAssumption
<1>2. Init => NoArbitrageMissed
  BY DEF Init, NoArbitrageMissed
<1>3. ArbInv /\ NoArbitrageMissed /\ [Next]_vars => NoArbitrageMissed'
  <2> SUFFICES ASSUME ArbInv, NoArbitrageMissed, [Next]_vars, phase' = "none"
               PROVE  (~\E r \in SimpleRoutes : Reachable(r[1]) /\ Profitable(r))'
    BY DEF NoArbitrageMissed
  <2>1. CASE RelaxAll
    BY <2>1 DEF RelaxAll
  <2>2. ASSUME NEW k \in DOMAIN pools, Update(k) PROVE FALSE
    BY <1>1, <2>2 DEF Update
  <2>3. CASE Detect
    <3>1. StillRelaxable = {}
      BY <2>3, DetectedAlongPred DEF Detect
    <3>2. ~\E r \in SimpleRoutes : Reachable(r[1]) /\ Profitable(r)
      BY <3>1, NothingLeft DEF ArbInv
    <3>3. UNCHANGED <<pools, quote>>
      BY <2>3 DEF Detect
    <3> QED BY <3>2, <3>3, RoutesKept
  <2>4. CASE UNCHANGED vars
    BY <2>4, RoutesKept DEF vars, NoArbitrageMissed
  <2> QED BY <2>1, <2>2, <2>3, <2>4 DEF Next
<1> QED BY <1>2, <1>3, ArbInductive, PTL DEF Spec
=============================================================================

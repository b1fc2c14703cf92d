----------------------------- MODULE MCArbGraph -----------------------------
(* TLC instances of ArbGraph: three tokens, and lists of V2 and V3 pools with *)
(* parallel pools, both orientations and several orders.                      *)
EXTENDS ArbGraph

CONSTANTS w, a, b

V2(t0, t1) == [t0 |-> t0, t1 |-> t1, v3 |-> FALSE]
V3(t0, t1) == [t0 |-> t0, t1 |-> t1, v3 |-> TRUE]

\* A triangle with a parallel pool, listed in three orders.
TriangleShapes ==
  {<<V2(w, a), V2(a, b), V3(b, w), V3(b, a)>>,
   <<V2(a, b), V2(b, a), V3(a, w), V3(w, b)>>,
   <<V2(b, w), V3(b, a), V3(a, w), V3(w, a)>>}

SmallPrices == -2..2

\* Deep pools on either side of par, one that a probe of token1 moves far, and
\* pools that pay for one token only.
Probe(sell0, sell1) == [sell0 |-> sell0, sell1 |-> sell1]
SmallProbes == {Probe(0, 1), Probe(-2, 3), Probe(2, -1), Probe(-1, 4), Probe(Dry, -2), Probe(-1, Dry)}
=============================================================================

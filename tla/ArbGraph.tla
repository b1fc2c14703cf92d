------------------------------ MODULE ArbGraph ------------------------------
(***************************************************************************)
(* infra/local_pricing.py: DirectedGraph, whose edges are the whitelisted    *)
(* pools, and find_arbitrage_cycle, the Bellman-Ford search run after every  *)
(* update of an edge.                                                        *)
(*                                                                           *)
(* A rate is a power of some base greater than one, so that weights,         *)
(* -log(rate), are integers, and comparing them within 1e-15 is comparing    *)
(* them.  Dry stands for INF.                                                *)
(*                                                                           *)
(* The rate of a V2 pool is its price after the fee, one way the inverse of  *)
(* the other.  The rate of a V3 pool is what 1e18 raw units would be paid,   *)
(* each way on its own: below the price by the fee of its tier and by as     *)
(* much as such an amount moves the price, which is a lot for a token of few *)
(* decimals, and nothing at all (INF) when the amount paid rounds to zero.   *)
(* Gaining is gaining by these weights: a loop that gains by the prices of   *)
(* V3 pools and not by what 1e18 units would be paid is none to the search.  *)
(***************************************************************************)
EXTENDS Integers, FiniteSets, Sequences

CONSTANTS Tokens,  \* the nodes, as the whitelist spells them (lower case)
          Weth,    \* the node of the token the flashloan borrows
          Start,   \* start_token, as the caller spells it
          Shapes,  \* the pool lists explored: sequences of [t0, t1, v3], in the order
                   \* of self.edges and then of self.v3_edges
          Prices,  \* the prices a V2 pool may have
          Fee,     \* V2_FEE
          Probes,  \* what the probe of a V3 pool may come to: [sell0, sell1], the weights
                   \* of selling token0 and token1
          Dry, None

ASSUME GraphAssumption ==
  /\ IsFiniteSet(Tokens) /\ Weth \in Tokens
  /\ Prices \subseteq Int /\ Fee \in Nat \ {0} /\ Dry \notin Int
  /\ Probes \subseteq [sell0 : Int \cup {Dry}, sell1 : Int \cup {Dry}]
  /\ \A q \in Probes : q.sell0 # Dry /\ q.sell1 # Dry => q.sell0 + q.sell1 > 0
  /\ \A s \in Shapes : /\ s \in Seq([t0 : Tokens, t1 : Tokens, v3 : BOOLEAN])
                        /\ \A k \in DOMAIN s : s[k].t0 # s[k].t1
  /\ None \notin Tokens /\ None \notin Int

VARIABLES
  pools,   \* self.edges then self.v3_edges, in insertion order
  quote,   \* the weights of each pool, as it was last seen
  phase,   \* "idle", "relax" during the passes, then "found", "none" or "raised"
  passes,  \* relax_all() calls made
  search,  \* dist, pred and pred_edge
  cycle    \* the ArbCycle returned: tokens and pools

vars == <<pools, quote, phase, passes, search, cycle>>

N == Cardinality(Tokens)
NoCycle == [tokens |-> << >>, pools |-> << >>]

-----------------------------------------------------------------------------
(* Weights: DirectedGraph._weight *)

\* The direction of pool k that sells token t, and what it buys.
Buys(k, t) == IF t = pools[k].t0 THEN pools[k].t1 ELSE pools[k].t0
Weight(k, from) == IF from = pools[k].t0 THEN quote[k].sell0 ELSE quote[k].sell1
Open(k, from) == Weight(k, from) # Dry

\* A pool without reserves or liquidity, as all pools are at first.
Closed == [sell0 |-> Dry, sell1 |-> Dry]
V2Quotes == {[sell0 |-> Fee - p, sell1 |-> Fee + p] : p \in Prices}
Quotes(k) == {Closed} \cup IF pools[k].v3 THEN Probes ELSE V2Quotes

\* Fault: the loops only follow token0 -> token1.
DirectedEdgesForwards == [k \in DOMAIN pools |-> [pool |-> k, from |-> pools[k].t0]]

\* The order relax_all visits the edges in: each pool forwards, then backwards.
DirectedEdges ==
  [e \in 1..(2 * Len(pools)) |->
     LET k == (e + 1) \div 2
     IN  [pool |-> k, from |-> IF e % 2 = 1 THEN pools[k].t0 ELSE pools[k].t1]]

\* dist[u] + w < dist[v]; an unreached or dry edge relaxes nothing.
Relaxable(s, e) ==
  LET u == e.from
      v == Buys(e.pool, u)
  IN  /\ Open(e.pool, u) /\ s.dist[u] # None
      /\ s.dist[v] = None \/ s.dist[u] + Weight(e.pool, u) < s.dist[v]

Relax(s, e) ==
  LET v == Buys(e.pool, e.from)
  IN  IF Relaxable(s, e)
      THEN [dist |-> [s.dist EXCEPT ![v] = s.dist[e.from] + Weight(e.pool, e.from)],
            pred |-> [s.pred EXCEPT ![v] = e.from],
            edge |-> [s.edge EXCEPT ![v] = e.pool]]
      ELSE s

FreshSearch ==
  [dist |-> [t \in Tokens |-> IF t = Start THEN 0 ELSE None],
   pred |-> [t \in Tokens |-> None],
   edge |-> [t \in Tokens |-> None]]

Init ==
  /\ pools \in Shapes
  /\ quote = [k \in DOMAIN pools |-> Closed]
  /\ phase = "idle"
  /\ passes = 0
  /\ search = FreshSearch
  /\ cycle = NoCycle

\* update_reserves or update_v3_state changes one edge, and a search starts; a
\* start token that is no node ends it at once.
Update(k) ==
  /\ phase \in {"idle", "found", "none", "raised"}
  /\ \E q \in Quotes(k) : quote' = [quote EXCEPT ![k] = q]
  /\ phase' = IF Start \in Tokens THEN "relax" ELSE "none"
  /\ passes' = 0
  /\ search' = FreshSearch
  /\ cycle' = NoCycle
  /\ UNCHANGED pools

\* One relax_all(), in place, edge after edge.
Relaxed ==
  LET after[e \in 0..Len(DirectedEdges)] ==
        IF e = 0 THEN search ELSE Relax(after[e - 1], DirectedEdges[e])
  IN  after[Len(DirectedEdges)]

RelaxAll ==
  /\ phase = "relax"
  /\ passes < N - 1
  /\ search' = Relaxed
  /\ passes' = IF search' = search THEN N - 1 ELSE passes + 1
  /\ UNCHANGED <<pools, quote, phase, cycle>>

\* The first edge that could still be relaxed.
StillRelaxable == {i \in DOMAIN DirectedEdges : Relaxable(search, DirectedEdges[i])}
CycleNode ==
  LET e == DirectedEdges[CHOOSE i \in StillRelaxable : \A j \in StillRelaxable : i <= j]
  IN  Buys(e.pool, e.from)

\* The node n <= N + 1 predecessors before t; None when the chain of pred ends earlier.
Back(t, n) ==
  LET walk[i \in 0..(N + 1)] ==
        IF i = 0 THEN t ELSE IF walk[i - 1] = None THEN None ELSE search.pred[walk[i - 1]]
  IN  walk[n]

\* The cycle through x, from x along the edges of pred to x again.
CycleThrough(x) ==
  LET len == CHOOSE n \in 1..(N + 1) : Back(x, n) = x /\ \A m \in 1..(n - 1) : Back(x, m) # x
  IN  [tokens |-> [i \in 1..(len + 1) |-> Back(x, len + 1 - i)],
       pools  |-> [i \in 1..len |-> search.edge[Back(x, len - i)]]]

\* Fault: the tokens are rotated and the pools are not.
RotateToStartTokensOnly(c) ==
  LET at == {i \in DOMAIN c.pools : c.tokens[i] = Start}
      k == CHOOSE i \in at : TRUE
  IN  IF at = {} THEN c
      ELSE [c EXCEPT !.tokens = SubSeq(c.tokens, k, Len(c.pools)) \o SubSeq(c.tokens, 1, k - 1) \o <<Start>>]

\* _rotate_to_start: a cycle that avoids the start token stays as it is.
RotateToStart(c) ==
  LET at == {i \in DOMAIN c.pools : c.tokens[i] = Start}
      k == CHOOSE i \in at : TRUE
      Turn(seq) == SubSeq(seq, k, Len(c.pools)) \o SubSeq(seq, 1, k - 1)
  IN  IF at = {} THEN c
      ELSE [tokens |-> Append(Turn(c.tokens), Start), pools |-> Turn(c.pools)]

\* The N-th pass, the walk back into the cycle and its reconstruction.  A walk
\* that runs off the chain of pred raises (pred[None]).
Detect ==
  /\ phase = "relax"
  /\ passes = N - 1
  /\ IF StillRelaxable = {}
     THEN phase' = "none" /\ UNCHANGED cycle
     ELSE IF Back(CycleNode, N) = None
     THEN phase' = "raised" /\ UNCHANGED cycle
     ELSE LET c == CycleThrough(Back(CycleNode, N))
          IN  IF Len(c.pools) < 2
              THEN phase' = "none" /\ UNCHANGED cycle
              ELSE phase' = "found" /\ cycle' = RotateToStart(c)
  /\ UNCHANGED <<pools, quote, passes, search>>

Next == RelaxAll \/ Detect \/ \E k \in DOMAIN pools : Update(k)

Spec == Init /\ [][Next]_vars

-----------------------------------------------------------------------------
(* The reference: routes through the graph. *)

\* The sum of a sequence of weights.
Total(weights) ==
  LET sum[n \in 0..Len(weights)] == IF n = 0 THEN 0 ELSE sum[n - 1] + weights[n]
  IN  sum[Len(weights)]

Swaps(a, b) == {k \in DOMAIN pools : {a, b} = {pools[k].t0, pools[k].t1} /\ Open(k, a)}
Cheapest(a, b) == CHOOSE w \in {Weight(k, a) : k \in Swaps(a, b)} :
                    \A k \in Swaps(a, b) : w <= Weight(k, a)

\* Sequences of distinct tokens.
SimpleRoutes == UNION {{r \in [1..n -> Tokens] : \A i, j \in 1..n : r[i] = r[j] => i = j} : n \in 1..N}
Connected(r) == \A i \in 1..(Len(r) - 1) : Swaps(r[i], r[i + 1]) # {}
Reachable(t) == \E r \in SimpleRoutes : r[1] = Weth /\ r[Len(r)] = t /\ Connected(r)

\* The loop along r and back to its first token multiplies the money put in.
Loop(r) == Append(r, r[1])
Profitable(r) ==
  /\ Len(r) >= 2
  /\ Connected(Loop(r))
  /\ Total([i \in 1..Len(r) |-> Cheapest(Loop(r)[i], Loop(r)[i + 1])]) < 0

TypeOK ==
  /\ pools \in Shapes
  /\ quote \in [DOMAIN pools -> {Closed} \cup Probes \cup V2Quotes]
  /\ phase \in {"idle", "relax", "found", "none", "raised"}
  /\ passes \in 0..(N - 1)
  /\ search.dist \in [Tokens -> Int \cup {None}]
  /\ search.pred \in [Tokens -> Tokens \cup {None}]
  /\ search.edge \in [Tokens -> DOMAIN pools \cup {None}]
  /\ Len(cycle.tokens) <= N + 1

\* A cycle that is returned can be traded: it is closed, it begins at the start
\* token if it passes through it ("Required because the flashloan borrows/lends
\* this asset"), each hop is a pool that pays for the token it sells, no pool is
\* used twice, and it gains by the weights of the search.
FoundIsArbitrage ==
  phase = "found" =>
    LET hops == DOMAIN cycle.pools
    IN  /\ cycle.tokens[1] = cycle.tokens[Len(cycle.tokens)]
        /\ (\E i \in hops : cycle.tokens[i] = Start) => cycle.tokens[1] = Start
        /\ Len(cycle.tokens) = Len(cycle.pools) + 1
        /\ \A i \in hops : /\ cycle.pools[i] \in Swaps(cycle.tokens[i], cycle.tokens[i + 1])
                           /\ \A j \in hops : cycle.pools[i] = cycle.pools[j] => i = j
        /\ Total([i \in hops |-> Weight(cycle.pools[i], cycle.tokens[i])]) < 0

\* None is returned only when no loop that gains by the weights of the search
\* can be reached from the borrowed token.
NoArbitrageMissed ==
  phase = "none" => ~\E r \in SimpleRoutes : Reachable(r[1]) /\ Profitable(r)
=============================================================================

------------------------------ MODULE LossyFeed ------------------------------
(***************************************************************************)
(* What a feed from the chain to the graph promises, however it polls,       *)
(* deduplicates, queues and fails: the logs of a pool reach its edge in the  *)
(* order the chain emitted them, each at most once, and a log that is passed *)
(* over was dropped before.  SyncPipeline implements it.                     *)
(***************************************************************************)
EXTENDS Integers, Sequences

CONSTANT Pools

VARIABLES
  emitted, \* the pool of every log emitted, in log order
  graph,   \* position of the log each edge was last updated from, 0 for none
  missed   \* positions of the logs that were dropped

vars == <<emitted, graph, missed>>

Init ==
  /\ emitted = << >>
  /\ graph = [p \in Pools |-> 0]
  /\ missed = {}

\* The chain emits logs.
Emit ==
  /\ \A i \in DOMAIN emitted : i \in DOMAIN emitted' /\ emitted'[i] = emitted[i]
  /\ \A i \in DOMAIN emitted' : emitted'[i] \in Pools
  /\ UNCHANGED <<graph, missed>>

\* Logs that are ahead of their edge are dropped, for good.
Drop ==
  /\ missed \subseteq missed'
  /\ \A i \in missed' \ missed : i \in DOMAIN emitted /\ graph[emitted[i]] < i
  /\ UNCHANGED <<emitted, graph>>

\* The edge of a pool is updated from its next log that was not dropped.
Apply(i) ==
  LET p == emitted[i] IN
  /\ graph[p] < i
  /\ i \notin missed
  /\ \A j \in DOMAIN emitted : emitted[j] = p /\ graph[p] < j /\ j < i => j \in missed
  /\ graph' = [graph EXCEPT ![p] = i]
  /\ UNCHANGED <<emitted, missed>>

Next == Emit \/ Drop \/ \E i \in DOMAIN emitted : Apply(i)

Spec == Init /\ [][Next]_vars
=============================================================================

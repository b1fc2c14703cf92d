---------------------------- MODULE SyncPipeline ----------------------------
(***************************************************************************)
(* The HTTP feed from the chain to the token graph:                          *)
(*   LogsPoller (infra/websocket_listener.py) polls eth_getLogs and calls    *)
(*   ProcessAIndexer._handle_sync / _handle_v3 (process_a_indexer.py), which *)
(*   put the event on an unbounded asyncio.Queue, from which                 *)
(*   ProcessBSniper.run (process_b_sniper.py) updates DirectedGraph          *)
(*   (infra/local_pricing.py).                                               *)
(*                                                                           *)
(* A log is known by its position in the chain's log sequence; what the      *)
(* graph holds for a pool is the position of the log it was updated from.    *)
(* A pool state (reserves, or price and liquidity) is a member of States.    *)
(***************************************************************************)
EXTENDS Integers, Sequences, FiniteSets

CONSTANTS V2Pools, V3Pools, \* the whitelisted pools
          States,           \* what a Sync or Swap log may say of a pool
          Drained,          \* the state with both reserves zero
          PollBlocks,       \* poll_blocks: how far back the first poll looks
          SeenLimit,        \* dedup keys kept before seen.clear() (200_000)
          FloatExponent,    \* largest n for which poll_interval * 2**n is a float
          MaxBlock,         \* bound: blocks mined
          MaxBlockLogs,     \* bound: logs of one block
          MaxLag,           \* bound: how far a node's head trails the chain
          MaxFailures       \* bound: failed RPC calls and upserts

Pools == V2Pools \cup V3Pools

ASSUME PipelineAssumption ==
  /\ V2Pools \cap V3Pools = {}
  /\ PollBlocks \in Nat /\ SeenLimit \in Nat /\ FloatExponent \in Nat
  /\ MaxBlock \in Nat /\ MaxBlockLogs \in Nat /\ MaxLag \in Nat /\ MaxFailures \in Nat

VARIABLES
  chain,     \* every log emitted: [block, pool, state], in log order
  head,      \* number of the last block mined
  phase,     \* where the poller's coroutine is
  fromBlock, \* from_block of the poll under way (to_block is lastBlock)
  lastBlock, \* self._last_block, NoBlock for None
  pending,   \* positions of the logs an eth_getLogs answer still has to hand over
  attempt,   \* consecutive errors in listen()
  seen,      \* dedup keys: LogsPoller._seen and ProcessAIndexer._v3_seen
  queue,     \* the asyncio.Queue between Process A and Process B
  graph,     \* position of the log each edge was last updated from, 0 for none
  missed,    \* history: positions the pipeline dropped, never handed to Process B
  failures   \* failed calls so far

pollerVars == <<phase, fromBlock, lastBlock, pending, attempt, seen>>
vars == <<chain, head, pollerVars, queue, graph, missed, failures>>

NoBlock == -1
Kind(pool) == IF pool \in V2Pools THEN "v2" ELSE "v3"
Key(i) == <<chain[i].pool, chain[i].block, chain[i].state>>
Later(a, b) == IF a >= b THEN a ELSE b

\* The logs eth_getLogs is asked for, of the pools of one kind.
LogsOf(pools) ==
  {i \in DOMAIN chain : chain[i].block \in fromBlock..lastBlock /\ chain[i].pool \in pools}

Init ==
  /\ chain = << >>
  /\ head = 0
  /\ phase = "idle"
  /\ fromBlock = 0
  /\ lastBlock = NoBlock
  /\ pending = {}
  /\ attempt = 0
  /\ seen = [v2 |-> {}, v3 |-> {}]
  /\ queue = << >>
  /\ graph = [p \in Pools |-> 0]
  /\ missed = {}
  /\ failures = 0

-----------------------------------------------------------------------------
(* The chain (external). *)

BlockLogs == UNION {[1..n -> [block : {head + 1}, pool : Pools, state : States]] :
                      n \in 0..MaxBlockLogs}

Mine ==
  /\ head < MaxBlock
  /\ head' = head + 1
  /\ \E logs \in BlockLogs : chain' = chain \o logs
  /\ UNCHANGED <<pollerVars, queue, graph, missed, failures>>

-----------------------------------------------------------------------------
(* LogsPoller._poll_once, one action between two awaits of the RPC. *)

\* Fault: the next range starts with the last block of the one before.
FirstBlockOverlaps(b) == IF lastBlock = NoBlock THEN Later(0, b - PollBlocks) ELSE lastBlock

\* from_block of a poll that sees head b.
FirstBlock(b) == IF lastBlock = NoBlock THEN Later(0, b - PollBlocks) ELSE lastBlock + 1

\* Fault: a range of one block counts as empty.
NothingNewStrict(b) == FirstBlock(b) >= b
NothingNew(b) == FirstBlock(b) > b

\* eth_blockNumber answers b, perhaps from a node behind the chain.  The range
\* is marked as polled here, before any of its logs has been fetched.
PollHead(b) ==
  /\ phase = "idle"
  /\ IF NothingNew(b)
     THEN UNCHANGED <<phase, fromBlock, lastBlock, missed>>
     ELSE /\ fromBlock' = FirstBlock(b)
          /\ lastBlock' = b
          /\ phase' = "v2fetch"
          \* Blocks older than the first poll looks back to.
          /\ missed' = missed \cup {i \in DOMAIN chain : lastBlock = NoBlock
                                                        /\ chain[i].block < FirstBlock(b)}
  /\ attempt' = IF NothingNew(b) THEN 0 ELSE attempt
  /\ UNCHANGED <<chain, head, pending, seen, queue, graph, failures>>

\* The pools the poll asks for.
Asked == IF phase = "v2fetch" THEN V2Pools ELSE V3Pools

\* eth_getLogs answers, perhaps from a node that has the chain up to block b
\* only: what comes after b is not in the answer, and never asked for again.
LogsArrive(b) ==
  /\ \/ phase = "v2fetch" /\ phase' = "v2logs"
     \/ phase = "v3fetch" /\ phase' = "v3logs"
  /\ pending' = {i \in LogsOf(Asked) : chain[i].block <= b}
  /\ missed' = missed \cup (LogsOf(Asked) \ pending')
  /\ UNCHANGED <<chain, head, fromBlock, lastBlock, attempt, seen, queue, graph, failures>>

\* parse_sync_log, in the poller, drops a drained pool's log and a repeated one.
Invalid(i) == chain[i].pool \in V2Pools /\ chain[i].state = Drained
Duplicate(i) == chain[i].pool \in V2Pools /\ Key(i) \in seen["v2"]

\* ProcessAIndexer._parse_v3_log, in the callback, drops a repeated one.
DuplicateV3(i) == chain[i].pool \in V3Pools /\ Key(i) \in seen["v3"]

\* Fault: the keys are never cleared.
RememberedForEver(i) ==
  [seen EXCEPT ![Kind(chain[i].pool)] = @ \cup {Key(i)}]

\* seen.add(key), and seen.clear() once it holds more than SeenLimit keys.
Remembered(i) ==
  LET s == seen[Kind(chain[i].pool)] \cup {Key(i)}
  IN  [seen EXCEPT ![Kind(chain[i].pool)] = IF Cardinality(s) > SeenLimit THEN {} ELSE s]

\* ProcessAIndexer._handle_sync: upsert the token, which the database may refuse
\* by raising, then put the event on the queue.
HandleSync(i, upsertFails) ==
  /\ chain[i].pool \in V2Pools
  /\ IF upsertFails
     THEN /\ failures < MaxFailures
          /\ failures' = failures + 1
          /\ missed' = missed \cup {i}
          /\ UNCHANGED queue
     ELSE queue' = Append(queue, i) /\ UNCHANGED <<missed, failures>>

\* ProcessAIndexer._handle_v3: only put the event on the queue.
HandleV3(i) ==
  /\ chain[i].pool \in V3Pools
  /\ queue' = Append(queue, i)
  /\ UNCHANGED <<missed, failures>>

\* The callback for the next log of the answer.
HandleLog(upsertFails) ==
  /\ phase \in {"v2logs", "v3logs"}
  /\ \E i \in pending :
       /\ \A j \in pending : i <= j
       /\ pending' = pending \ {i}
       /\ IF Invalid(i) \/ Duplicate(i) \/ DuplicateV3(i)
          THEN /\ missed' = missed \cup {i}
               /\ ~upsertFails
               /\ UNCHANGED <<seen, queue, failures>>
          ELSE /\ seen' = Remembered(i)
               /\ \/ HandleSync(i, upsertFails)
                  \/ ~upsertFails /\ HandleV3(i)
  /\ UNCHANGED <<chain, head, phase, fromBlock, lastBlock, attempt, graph>>

\* Fault: a poll moves on before its last log is handed over.
BatchDoneEarly ==
  /\ Cardinality(pending) <= 1
  /\ \/ phase = "v2logs" /\ V3Pools # {} /\ phase' = "v3fetch" /\ UNCHANGED attempt
     \/ phase = "v2logs" /\ V3Pools = {} /\ phase' = "idle" /\ attempt' = 0
     \/ phase = "v3logs" /\ phase' = "idle" /\ attempt' = 0
  /\ pending' = {}
  /\ UNCHANGED <<chain, head, fromBlock, lastBlock, seen, queue, graph, missed, failures>>

\* Every log of the answer is handed over: on to the V3 pools, if there are
\* any, then sleep until the next poll.
BatchDone ==
  /\ pending = {}
  /\ \/ phase = "v2logs" /\ V3Pools # {} /\ phase' = "v3fetch" /\ UNCHANGED attempt
     \/ phase = "v2logs" /\ V3Pools = {} /\ phase' = "idle" /\ attempt' = 0
     \/ phase = "v3logs" /\ phase' = "idle" /\ attempt' = 0
  /\ UNCHANGED <<chain, head, fromBlock, lastBlock, pending, seen, queue, graph, missed, failures>>

\* Logs a failed eth_getLogs leaves behind: the next poll starts after them.
Abandoned ==
  CASE phase = "v2fetch" -> LogsOf(Pools)
    [] phase = "v3fetch" -> LogsOf(V3Pools)
    [] OTHER -> {}

\* An RPC call of the poll raises.  A disconnect resets the connection and
\* starts counting afresh; any other error backs off, and the backoff itself
\* raises, outside the try, when its power of two is no float.
PollFails(disconnect) ==
  /\ \/ phase = "idle"
     \/ phase = "v2fetch" /\ V2Pools # {}
     \/ phase = "v3fetch"
  /\ failures < MaxFailures
  /\ failures' = failures + 1
  /\ missed' = missed \cup Abandoned
  /\ IF disconnect
     THEN attempt' = 0 /\ phase' = "idle"
     ELSE /\ attempt' = attempt + 1
          /\ phase' = IF attempt > FloatExponent THEN "dead" ELSE "idle"
  /\ UNCHANGED <<chain, head, fromBlock, lastBlock, pending, seen, queue, graph>>

-----------------------------------------------------------------------------
(* ProcessBSniper.run: one event at a time updates the edge of its pool. *)

Consume ==
  /\ queue # << >>
  /\ queue' = Tail(queue)
  /\ graph' = [graph EXCEPT ![chain[Head(queue)].pool] = Head(queue)]
  /\ UNCHANGED <<chain, head, pollerVars, missed, failures>>

\* The blocks up to which a node that answers may have the chain.
Heads == Later(0, head - MaxLag)..head

Poll == \E b \in Heads : PollHead(b)

Next ==
  \/ Mine
  \/ Poll
  \/ \E b \in Heads : LogsArrive(b)
  \/ \E f \in BOOLEAN : HandleLog(f)
  \/ BatchDone
  \/ \E d \in BOOLEAN : PollFails(d)
  \/ Consume

Spec == Init /\ [][Next]_vars

\* The event loop runs what is ready, the RPC answers in the end, and its nodes
\* do not trail the chain for ever.
Fairness ==
  /\ WF_vars(PollHead(head))
  /\ WF_vars(\E b \in Heads : LogsArrive(b))
  /\ WF_vars(HandleLog(FALSE))
  /\ WF_vars(BatchDone)
  /\ WF_vars(Consume)

FairSpec == Spec /\ Fairness
-----------------------------------------------------------------------------
TypeOK ==
  /\ chain \in Seq([block : 1..MaxBlock, pool : Pools, state : States])
  /\ head \in 0..MaxBlock
  /\ phase \in {"idle", "v2fetch", "v2logs", "v3fetch", "v3logs", "dead"}
  /\ fromBlock \in Nat
  /\ lastBlock \in {NoBlock} \cup 0..MaxBlock
  /\ pending \subseteq DOMAIN chain
  /\ attempt \in Nat
  /\ \A k \in {"v2", "v3"} : Cardinality(seen[k]) <= SeenLimit
  /\ queue \in Seq(DOMAIN chain)
  /\ graph \in [Pools -> {0} \cup DOMAIN chain]
  /\ missed \subseteq DOMAIN chain
  /\ failures \in 0..MaxFailures

\* The logs of a pool in the blocks marked as polled.
Polled(p) == {i \in DOMAIN chain : chain[i].pool = p /\ chain[i].block <= lastBlock}

AtRest == phase = "idle" /\ queue = << >>

Feed == INSTANCE LossyFeed WITH emitted <- [i \in DOMAIN chain |-> chain[i].pool]

\* The feed is a FIFO that may lose: an edge takes its pool's logs in order, none
\* twice and none after a later one, and passes over a log only if that log was
\* dropped; although ranges are polled by number, nodes answer with heads that
\* move backwards, dedup keys are forgotten, and polls fail half way.
FeedIsLossyFifo == Feed!Spec

\* Of that, the order alone: an edge never goes back to an earlier state.
GraphNeverRegresses == [][\A p \in Pools : graph'[p] >= graph[p]]_graph

\* Between polls, with an empty queue, each edge holds the last polled log of
\* its pool that was not dropped by a failure, by dedup or as drained: what is
\* handed over is never lost or overtaken on its way to the graph.
LosesOnlyMissed ==
  AtRest => \A p \in Pools :
    LET kept == {0} \cup (Polled(p) \ missed)
    IN  graph[p] \in kept /\ \A i \in kept : i <= graph[p]

Settled(i) == i \in missed \/ (i \in DOMAIN chain /\ graph[chain[i].pool] >= i)

\* "Poll forever with bounded backoff on RPC errors": every log the chain ever
\* emits reaches its edge (or is overtaken there by a later one) or is dropped.
\* None stays in the pipeline for good, unless a backoff that is no float ends
\* the poller.
LogsSettle ==
  \A i \in 1..(MaxBlock * MaxBlockLogs) :
    i \in DOMAIN chain ~> Settled(i) \/ phase = "dead"
=============================================================================

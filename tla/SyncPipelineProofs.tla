------------------------- MODULE SyncPipelineProofs -------------------------
(***************************************************************************)
(* Proof that the feed is a FIFO that may lose: an edge moves forward along   *)
(* its pool's logs and passes over none that was not dropped, for every set  *)
(* of pools and every bound.                                                 *)
(*                                                                           *)
(* The argument: a position is Handled when it is queued or in the graph.    *)
(* Handled positions lie in blocks already marked as polled, and before the  *)
(* range under way as long as the pool's logs of that range have not been    *)
(* fetched (Fresh); so whatever an answer still has to hand over comes after *)
(* them (Ahead), and the queue keeps a pool's positions in order (Ordered).  *)
(* And every polled log is somewhere (Accounted), if it was dropped nowhere   *)
(* else (MissedOK), so that what an edge passes over was dropped.             *)
(***************************************************************************)
EXTENDS SyncPipeline, FiniteSetTheorems, TLAPS

ChainOK ==
  /\ head \in Nat
  /\ chain \in Seq([block : Nat, pool : Pools, state : States])
  /\ \A i \in DOMAIN chain : chain[i].block <= head
  /\ \A i, j \in DOMAIN chain : i <= j => chain[i].block <= chain[j].block

RangeOK ==
  /\ phase \in {"idle", "v2fetch", "v2logs", "v3fetch", "v3logs", "dead"}
  /\ fromBlock \in Nat
  /\ lastBlock \in Int /\ lastBlock >= NoBlock /\ lastBlock <= head

\* The pools whose logs the poll under way has still to fetch.
Unfetched ==
  CASE phase = "v2fetch" -> Pools
    [] phase \in {"v2logs", "v3fetch"} -> V3Pools
    [] OTHER -> {}

\* The pools whose logs are being handed over.
Fetched ==
  CASE phase = "v2logs" -> V2Pools
    [] phase = "v3logs" -> V3Pools
    [] OTHER -> {}

PendingOK ==
  \A i \in pending :
    /\ i \in DOMAIN chain
    /\ chain[i].pool \in Fetched
    /\ fromBlock <= chain[i].block /\ chain[i].block <= lastBlock

FeedOK ==
  /\ queue \in Seq(Nat)
  /\ \A k \in DOMAIN queue : queue[k] \in DOMAIN chain
  /\ graph \in [Pools -> Nat]
  /\ \A p \in Pools : graph[p] # 0 => graph[p] \in DOMAIN chain /\ chain[graph[p]].pool = p

Handled(i) ==
  /\ i \in DOMAIN chain
  /\ (\E k \in DOMAIN queue : queue[k] = i) \/ graph[chain[i].pool] = i

Fresh ==
  \A i \in DOMAIN chain : Handled(i) =>
    /\ chain[i].block <= lastBlock
    /\ chain[i].pool \in Unfetched => chain[i].block < fromBlock

Ahead ==
  \A i \in DOMAIN chain, j \in pending :
    Handled(i) /\ chain[i].pool = chain[j].pool => i < j

Ordered ==
  /\ \A k, l \in DOMAIN queue :
       k < l /\ chain[queue[k]].pool = chain[queue[l]].pool => queue[k] < queue[l]
  /\ \A k \in DOMAIN queue : graph[chain[queue[k]].pool] < queue[k]

IInv == ChainOK /\ RangeOK /\ PendingOK /\ FeedOK /\ Fresh /\ Ahead /\ Ordered

\* Where a polled log can be: dropped, in the graph or overtaken there, queued,
\* being handed over, or still to be fetched.
Queued(i) == \E k \in DOMAIN queue : queue[k] = i
ToFetch(i) == chain[i].pool \in Unfetched /\ fromBlock <= chain[i].block

Accounted ==
  \A i \in DOMAIN chain : chain[i].block <= lastBlock =>
    \/ i \in missed
    \/ i <= graph[chain[i].pool]
    \/ Queued(i)
    \/ i \in pending
    \/ ToFetch(i)

\* What was dropped is nowhere else.
MissedOK ==
  \A i \in missed :
    /\ i \in DOMAIN chain
    /\ chain[i].block <= lastBlock
    /\ ~Handled(i)
    /\ i \notin pending
    /\ ~ToFetch(i)

Tally == Accounted /\ MissedOK

-----------------------------------------------------------------------------
\* Positions in a sequence of logs are positive, and each holds a block number
\* and a pool.
LEMMA LogsTyped ==
  ASSUME NEW c \in Seq([block : Nat, pool : Pools, state : States])
  PROVE  \A i \in DOMAIN c :
           i \in Nat /\ i # 0 /\ c[i].block \in Nat /\ c[i].pool \in Pools
<1> DEFINE Log == [block : Nat, pool : Pools, state : States]
<1>1. \A r \in Log : r.block \in Nat /\ r.pool \in Pools
  OBVIOUS
<1>2. c \in Seq(Log)
  OBVIOUS
<1> HIDE DEF Log
<1>3. \A i \in DOMAIN c : i \in Nat /\ i # 0 /\ c[i] \in Log
  BY <1>2
<1> QED BY <1>1, <1>3

LEMMA ChainTyped ==
  ASSUME ChainOK
  PROVE  \A i \in DOMAIN chain :
           i \in Nat /\ i # 0 /\ chain[i].block \in Nat /\ chain[i].pool \in Pools
BY LogsTyped DEF ChainOK

LEMMA InitIInv == Init => IInv
<1> SUFFICES ASSUME Init PROVE IInv
  OBVIOUS
<1> QED
  BY DEF Init, IInv, ChainOK, RangeOK, PendingOK, FeedOK, Fresh, Ahead, Ordered, Handled,
         NoBlock, Unfetched, Fetched

\* A new block keeps the logs that are there and adds later ones.
LEMMA ChainGrows ==
  ASSUME IInv, Mine
  PROVE  /\ head' = head + 1 /\ head \in Nat
         /\ chain' \in Seq([block : Nat, pool : Pools, state : States])
         /\ DOMAIN chain \subseteq DOMAIN chain'
         /\ \A i \in DOMAIN chain : chain'[i] = chain[i]
         /\ \A i \in DOMAIN chain' \ DOMAIN chain : chain'[i].block = head + 1
         /\ \A i \in DOMAIN chain, j \in DOMAIN chain' \ DOMAIN chain : i < j
<1>1. PICK logs \in BlockLogs : chain' = chain \o logs
  BY DEF Mine
<1>2. PICK n \in 0..MaxBlockLogs : logs \in [1..n -> [block : {head + 1}, pool : Pools, state : States]]
  BY <1>1 DEF BlockLogs
<1>3. head' = head + 1 /\ head \in Nat
  BY DEF Mine, IInv, ChainOK
<1>4. /\ logs \in Seq([block : Nat, pool : Pools, state : States])
      /\ \A i \in DOMAIN logs : logs[i].block = head + 1
  <2> DEFINE Log == [block : Nat, pool : Pools, state : States]
             New == [block : {head + 1}, pool : Pools, state : States]
  <2>1. New \subseteq Log /\ \A r \in New : r.block = head + 1
    BY <1>3
  <2>2. logs \in [1..n -> New] /\ n \in Nat
    BY <1>2, PipelineAssumption
  <2> HIDE DEF Log, New
  <2>3. logs \in Seq(Log) /\ \A i \in DOMAIN logs : logs[i].block = head + 1
    BY <2>1, <2>2
  <2> QED BY <2>3 DEF Log
<1>5. /\ chain' \in Seq([block : Nat, pool : Pools, state : States])
      /\ DOMAIN chain \subseteq DOMAIN chain'
      /\ \A i \in DOMAIN chain : chain'[i] = chain[i]
      /\ \A i \in DOMAIN chain' \ DOMAIN chain : chain'[i].block = head + 1
      /\ \A i \in DOMAIN chain, j \in DOMAIN chain' \ DOMAIN chain : i < j
  BY <1>1, <1>4 DEF IInv, ChainOK
<1> QED
  BY <1>3, <1>5

LEMMA MineIInv == IInv /\ Mine => IInv'
<1> SUFFICES ASSUME IInv, Mine PROVE IInv'
  OBVIOUS
<1>3. head' = head + 1 /\ head \in Nat
  BY ChainGrows
<1>5. /\ chain' \in Seq([block : Nat, pool : Pools, state : States])
      /\ DOMAIN chain \subseteq DOMAIN chain'
      /\ \A i \in DOMAIN chain : chain'[i] = chain[i]
      /\ \A i \in DOMAIN chain' \ DOMAIN chain : chain'[i].block = head + 1
      /\ \A i \in DOMAIN chain, j \in DOMAIN chain' \ DOMAIN chain : i < j
  BY ChainGrows
<1>6. ChainOK'
  <2>1. \A i \in DOMAIN chain' : chain'[i].block <= head'
    <3>1. \A i \in DOMAIN chain : chain'[i].block <= head /\ chain'[i].block \in Nat
      BY <1>5, ChainTyped DEF IInv, ChainOK
    <3> QED BY <1>3, <1>5, <3>1
  <2>2. ASSUME NEW i \in DOMAIN chain', NEW j \in DOMAIN chain', i <= j
        PROVE  chain'[i].block <= chain'[j].block
    <3>1. i \in Nat /\ j \in Nat
      BY <1>5
    <3>2. CASE j \in DOMAIN chain
      <4>1. i \in DOMAIN chain
        BY <1>5, <2>2, <3>1, <3>2
      <4> QED BY <1>5, <2>2, <3>2, <4>1 DEF IInv, ChainOK
    <3>3. CASE j \notin DOMAIN chain
      BY <1>3, <1>5, <2>1, <3>3
    <3> QED BY <3>2, <3>3
  <2> QED BY <1>3, <1>5, <2>1, <2>2 DEF ChainOK
<1>7. \A i \in DOMAIN chain' : Handled(i)' => i \in DOMAIN chain /\ Handled(i)
  <2> SUFFICES ASSUME NEW i \in DOMAIN chain', Handled(i)'
               PROVE  i \in DOMAIN chain /\ Handled(i)
    OBVIOUS
  <2>1. queue' = queue /\ graph' = graph
    BY DEF Mine
  <2>2. i \in DOMAIN chain
    <3>1. CASE \E k \in DOMAIN queue : queue[k] = i
      BY <3>1 DEF IInv, FeedOK
    <3>2. CASE graph[chain'[i].pool] = i
      <4>1. i # 0 /\ chain'[i].pool \in Pools
        BY <1>5, LogsTyped
      <4> QED BY <3>2, <4>1 DEF IInv, FeedOK
    <3> QED BY <2>1, <3>1, <3>2 DEF Handled
  <2> QED BY <1>5, <2>1, <2>2 DEF Handled
<1>8. UNCHANGED <<phase, fromBlock, lastBlock, pending, queue, graph>>
  BY DEF Mine, pollerVars
<1>9. RangeOK' /\ PendingOK' /\ FeedOK'
  BY <1>3, <1>5, <1>8 DEF IInv, RangeOK, PendingOK, FeedOK, Fetched
<1>10. Fresh'
  BY <1>5, <1>7, <1>8 DEF IInv, Fresh, Unfetched
<1>11. Ahead'
  BY <1>5, <1>7, <1>8 DEF IInv, Ahead, PendingOK
<1>12. Ordered'
  <2>1. \A k \in DOMAIN queue : queue[k] \in DOMAIN chain /\ chain'[queue[k]] = chain[queue[k]]
    BY <1>5 DEF IInv, FeedOK
  <2> QED BY <1>8, <2>1 DEF IInv, Ordered
<1> QED
  BY <1>6, <1>9, <1>10, <1>11, <1>12 DEF IInv

\* A poll only begins after the blocks marked as polled, so that it begins
\* after whatever is handled.
LEMMA PollIInv == ASSUME IInv, NEW b \in 0..head, PollHead(b) PROVE IInv'
<1>1. UNCHANGED <<chain, head, pending, queue, graph>>
  BY DEF PollHead
<1>2. b \in Nat /\ b <= head /\ head \in Nat /\ lastBlock \in Int
  BY DEF IInv, ChainOK, RangeOK
<1>3. \A i : Handled(i)' <=> Handled(i)
  BY <1>1 DEF Handled
<1>4. ChainOK' /\ FeedOK' /\ Ordered'
  BY <1>1 DEF IInv, ChainOK, FeedOK, Ordered
<1>5. CASE NothingNew(b)
  <2>1. UNCHANGED <<phase, fromBlock, lastBlock>>
    BY <1>5 DEF PollHead
  <2> QED
    BY <1>1, <1>3, <1>4, <2>1
    DEF IInv, RangeOK, PendingOK, Fresh, Ahead, Unfetched, Fetched
<1>6. CASE ~NothingNew(b)
  <2>1. /\ fromBlock' = FirstBlock(b) /\ lastBlock' = b
        /\ phase = "idle" /\ phase' = "v2fetch"
    BY <1>6 DEF PollHead
  <2>2. /\ FirstBlock(b) \in Nat /\ FirstBlock(b) <= b
        /\ lastBlock < FirstBlock(b)
    BY <1>2, <1>6, PipelineAssumption DEF NothingNew, FirstBlock, Later, NoBlock, IInv, RangeOK
  <2>3. RangeOK'
    BY <1>1, <1>2, <2>1, <2>2 DEF RangeOK, NoBlock
  <2>4. pending = {}
    BY <2>1 DEF IInv, PendingOK, Fetched
  <2>5. PendingOK' /\ Ahead'
    BY <1>1, <2>4 DEF PendingOK, Ahead
  <2>6. Fresh'
    <3> SUFFICES ASSUME NEW i \in DOMAIN chain, Handled(i)
                 PROVE  chain[i].block <= b /\ chain[i].block < FirstBlock(b)
      BY <1>1, <1>3, <2>1 DEF Fresh
    <3>1. chain[i].block <= lastBlock /\ chain[i].block \in Nat
      BY ChainTyped DEF IInv, Fresh
    <3> QED BY <1>2, <2>2, <3>1
  <2> QED BY <1>4, <2>3, <2>5, <2>6 DEF IInv
<1> QED BY <1>5, <1>6

\* What arrives lies in the range, and what is handled before it.
LEMMA ArriveIInv == ASSUME IInv, NEW b, LogsArrive(b) PROVE IInv'
<1>1. UNCHANGED <<chain, head, fromBlock, lastBlock, queue, graph>>
  BY DEF LogsArrive
<1>2. \A i : Handled(i)' <=> Handled(i)
  BY <1>1 DEF Handled
<1>3. ChainOK' /\ FeedOK' /\ Ordered'
  BY <1>1 DEF IInv, ChainOK, FeedOK, Ordered
<1>4. RangeOK'
  BY <1>1 DEF LogsArrive, IInv, RangeOK
<1>5. Fetched' \subseteq Unfetched /\ Unfetched' \subseteq Unfetched
  BY DEF LogsArrive, Fetched, Unfetched, Pools
<1>6. pending' \subseteq LogsOf(Fetched')
  BY DEF LogsArrive, Asked, Fetched
<1>7. PendingOK'
  BY <1>1, <1>6 DEF PendingOK, LogsOf, IInv, ChainOK, RangeOK
<1>8. Fresh'
  BY <1>1, <1>2, <1>5 DEF IInv, Fresh
<1>9. Ahead'
  <2> SUFFICES ASSUME NEW i \in DOMAIN chain, NEW j \in pending', Handled(i),
                      chain[i].pool = chain[j].pool
               PROVE  i < j
    BY <1>1, <1>2 DEF Ahead
  <2>1. j \in DOMAIN chain /\ chain[j].pool \in Fetched' /\ fromBlock <= chain[j].block
    BY <1>1, <1>7 DEF PendingOK
  <2>2. chain[i].block < fromBlock
    BY <1>5, <2>1 DEF IInv, Fresh
  <2>3. chain[i].block \in Nat /\ chain[j].block \in Nat /\ fromBlock \in Nat /\ i \in Nat /\ j \in Nat
    BY <2>1, ChainTyped DEF IInv, RangeOK
  <2>4. ~(j <= i)
    BY <2>1, <2>2, <2>3 DEF IInv, ChainOK
  <2> QED BY <2>3, <2>4
<1> QED
  BY <1>3, <1>4, <1>7, <1>8, <1>9 DEF IInv

\* The log handed over is the first of the pending ones: it comes after what is
\* handled and before what is left.
LEMMA HandleIInv == ASSUME IInv, NEW f \in BOOLEAN, HandleLog(f) PROVE IInv'
<1>1. UNCHANGED <<chain, head, phase, fromBlock, lastBlock, graph>>
  BY DEF HandleLog
<1>2. PICK i \in pending :
        /\ \A j \in pending : i <= j
        /\ pending' = pending \ {i}
        /\ queue' = queue \/ queue' = Append(queue, i)
  BY DEF HandleLog, HandleSync, HandleV3
<1>3. /\ i \in DOMAIN chain /\ i \in Nat /\ i # 0
      /\ chain[i].pool \in Fetched /\ chain[i].pool \in Pools
      /\ chain[i].block <= lastBlock
  BY ChainTyped DEF IInv, PendingOK
<1>4. chain[i].pool \notin Unfetched
  BY <1>3, PipelineAssumption DEF Fetched, Unfetched, IInv, RangeOK
<1>5. ChainOK' /\ RangeOK' /\ PendingOK'
  BY <1>1, <1>2 DEF IInv, ChainOK, RangeOK, PendingOK, Fetched
<1>6. \A j : Handled(j)' => Handled(j) \/ j = i
  <2>1. CASE queue' = queue
    BY <1>1, <2>1 DEF Handled
  <2>2. CASE queue' = Append(queue, i)
    <3>1. \A k \in DOMAIN queue' : queue'[k] = i \/ (k \in DOMAIN queue /\ queue'[k] = queue[k])
      BY <2>2 DEF IInv, FeedOK
    <3> QED BY <1>1, <3>1 DEF Handled
  <2> QED BY <1>2, <2>1, <2>2
<1>7. Fresh'
  BY <1>1, <1>3, <1>4, <1>6 DEF IInv, Fresh, Unfetched
<1>8. Ahead'
  <2> SUFFICES ASSUME NEW m \in DOMAIN chain, NEW j \in pending', Handled(m)',
                      chain[m].pool = chain[j].pool
               PROVE  m < j
    BY <1>1 DEF Ahead
  <2>1. j \in pending /\ j # i /\ i <= j /\ j \in Nat
    BY <1>2 DEF IInv, PendingOK, ChainOK
  <2>2. CASE Handled(m)
    BY <2>1, <2>2 DEF IInv, Ahead
  <2>3. CASE m = i
    BY <1>3, <2>1, <2>3
  <2> QED BY <1>6, <2>2, <2>3
<1>9. CASE queue' = queue
  <2>1. FeedOK' /\ Ordered'
    BY <1>1, <1>9 DEF IInv, FeedOK, Ordered
  <2> QED BY <1>5, <1>7, <1>8, <2>1 DEF IInv
<1>10. CASE queue' = Append(queue, i)
  <2>1. /\ queue \in Seq(Nat) /\ queue' \in Seq(Nat)
        /\ DOMAIN queue' = 1..(Len(queue) + 1) /\ DOMAIN queue = 1..Len(queue)
        /\ \A k \in DOMAIN queue : queue'[k] = queue[k]
        /\ queue'[Len(queue) + 1] = i
    BY <1>3, <1>10 DEF IInv, FeedOK
  <2>2. FeedOK'
    <3>1. \A k \in DOMAIN queue' : queue'[k] \in DOMAIN chain'
      BY <1>1, <1>3, <2>1 DEF IInv, FeedOK
    <3> QED BY <1>1, <2>1, <3>1 DEF IInv, FeedOK
  <2>3. \A k \in DOMAIN queue : chain[queue[k]].pool = chain[i].pool => queue[k] < i
    BY DEF IInv, Ahead, FeedOK, Handled
  <2>4. graph[chain[i].pool] < i
    <3>1. CASE graph[chain[i].pool] = 0
      BY <1>3, <3>1
    <3>2. CASE graph[chain[i].pool] # 0
      <4>1. /\ graph[chain[i].pool] \in DOMAIN chain
            /\ chain[graph[chain[i].pool]].pool = chain[i].pool
        BY <1>3, <3>2 DEF IInv, FeedOK
      <4>2. Handled(graph[chain[i].pool])
        BY <4>1 DEF Handled
      <4> QED BY <4>1, <4>2 DEF IInv, Ahead
    <3> QED BY <3>1, <3>2
  <2>5. Ordered'
    <3>1. ASSUME NEW k \in DOMAIN queue', NEW l \in DOMAIN queue', k < l,
                 chain[queue'[k]].pool = chain[queue'[l]].pool
          PROVE  queue'[k] < queue'[l]
      <4>1. CASE l \in DOMAIN queue
        <5>1. k \in DOMAIN queue
          BY <2>1, <3>1, <4>1
        <5> QED BY <2>1, <3>1, <4>1, <5>1 DEF IInv, Ordered
      <4>2. CASE l = Len(queue) + 1
        BY <2>1, <2>3, <3>1, <4>2
      <4> QED BY <2>1, <4>1, <4>2
    <3>2. ASSUME NEW k \in DOMAIN queue'
          PROVE  graph[chain[queue'[k]].pool] < queue'[k]
      <4>1. CASE k \in DOMAIN queue
        BY <2>1, <4>1 DEF IInv, Ordered
      <4>2. CASE k = Len(queue) + 1
        BY <2>1, <2>4, <4>2
      <4> QED BY <2>1, <4>1, <4>2
    <3> QED BY <1>1, <3>1, <3>2 DEF Ordered
  <2> QED BY <1>5, <1>7, <1>8, <2>2, <2>5 DEF IInv
<1> QED BY <1>2, <1>9, <1>10

\* The end of a batch, and a failed call, hand nothing over.
LEMMA PauseIInv ==
  ASSUME IInv, BatchDone \/ \E d \in BOOLEAN : PollFails(d)
  PROVE  IInv'
<1>1. UNCHANGED <<chain, head, fromBlock, lastBlock, pending, queue, graph>>
  BY DEF BatchDone, PollFails
<1>2. \A i : Handled(i)' <=> Handled(i)
  BY <1>1 DEF Handled
<1>3. pending = {}
  BY DEF BatchDone, PollFails, IInv, PendingOK, Fetched
<1>4. ChainOK' /\ FeedOK' /\ Ordered' /\ PendingOK' /\ Ahead'
  BY <1>1, <1>3 DEF IInv, ChainOK, FeedOK, Ordered, PendingOK, Ahead
<1>5. RangeOK' /\ Unfetched' \subseteq Unfetched
  BY <1>1 DEF BatchDone, PollFails, IInv, RangeOK, Unfetched
<1>6. Fresh'
  BY <1>1, <1>2, <1>5 DEF IInv, Fresh
<1> QED BY <1>4, <1>5, <1>6 DEF IInv

\* The head of the queue replaces an earlier log of its pool in the graph.
LEMMA ConsumeIInv ==
  ASSUME IInv, Consume
  PROVE  IInv' /\ \A p \in Pools : graph'[p] >= graph[p]
<1>1. UNCHANGED <<chain, head, phase, fromBlock, lastBlock, pending>>
  BY DEF Consume, pollerVars
<1> DEFINE h == Head(queue)
<1>2. /\ queue \in Seq(Nat) /\ queue # << >> /\ h = queue[1] /\ 1 \in DOMAIN queue
      /\ queue' = Tail(queue) /\ queue' \in Seq(Nat)
      /\ \A k \in DOMAIN queue' : k + 1 \in DOMAIN queue /\ k + 1 > 1 /\ queue'[k] = queue[k + 1]
      /\ DOMAIN queue' \subseteq Nat
  BY DEF Consume, IInv, FeedOK
<1>3. h \in DOMAIN chain /\ h \in Nat /\ chain[h].pool \in Pools
  BY <1>2, ChainTyped DEF IInv, FeedOK
<1>4. /\ graph \in [Pools -> Nat]
      /\ graph' = [graph EXCEPT ![chain[h].pool] = h]
      /\ graph[chain[h].pool] < h
  BY <1>2 DEF Consume, IInv, FeedOK, Ordered
<1> HIDE DEF h
<1>5. ChainOK' /\ RangeOK' /\ PendingOK'
  BY <1>1 DEF IInv, ChainOK, RangeOK, PendingOK, Fetched
<1>6. FeedOK'
  BY <1>1, <1>2, <1>3, <1>4 DEF IInv, FeedOK
<1>7. \A i : Handled(i)' => Handled(i)
  <2> SUFFICES ASSUME NEW i, Handled(i)' PROVE Handled(i)
    OBVIOUS
  <2>1. i \in DOMAIN chain /\ chain[i].pool \in Pools
    BY <1>1, ChainTyped DEF Handled, IInv
  <2>2. CASE \E k \in DOMAIN queue' : queue'[k] = i
    BY <1>2, <2>1, <2>2 DEF Handled
  <2>3. CASE graph'[chain[i].pool] = i
    BY <1>2, <1>3, <1>4, <2>1, <2>3 DEF Handled
  <2> QED BY <1>1, <2>2, <2>3 DEF Handled
<1>8. Fresh' /\ Ahead'
  BY <1>1, <1>7 DEF IInv, Fresh, Ahead, Unfetched
<1>9. Ordered'
  <2>1. \A k, l \in DOMAIN queue' :
          k < l /\ chain[queue'[k]].pool = chain[queue'[l]].pool => queue'[k] < queue'[l]
    BY <1>2 DEF IInv, Ordered
  <2>2. ASSUME NEW k \in DOMAIN queue'
        PROVE  graph'[chain[queue'[k]].pool] < queue'[k]
    <3>1. k + 1 \in DOMAIN queue /\ queue'[k] = queue[k + 1] /\ 1 < k + 1
      BY <1>2
    <3>2. chain[queue[k + 1]].pool \in Pools
      BY <3>1, ChainTyped DEF IInv, FeedOK
    <3>3. CASE chain[queue[k + 1]].pool = chain[h].pool
      <4>1. h < queue[k + 1]
        BY <1>2, <3>1, <3>3 DEF IInv, Ordered
      <4> QED BY <1>3, <1>4, <3>1, <3>3, <4>1
    <3>4. CASE chain[queue[k + 1]].pool # chain[h].pool
      <4>1. graph[chain[queue[k + 1]].pool] < queue[k + 1]
        BY <3>1 DEF IInv, Ordered
      <4> QED BY <1>4, <3>1, <3>2, <3>4, <4>1
    <3> QED BY <3>3, <3>4
  <2> QED BY <1>1, <2>1, <2>2 DEF Ordered
<1>10. \A p \in Pools : graph'[p] >= graph[p]
  BY <1>3, <1>4
<1> QED BY <1>5, <1>6, <1>8, <1>9, <1>10 DEF IInv

LEMMA NextIInv == IInv /\ [Next]_vars => IInv' /\ [\A p \in Pools : graph'[p] >= graph[p]]_graph
<1> SUFFICES ASSUME IInv, [Next]_vars
             PROVE  IInv' /\ [\A p \in Pools : graph'[p] >= graph[p]]_graph
  OBVIOUS
<1>1. CASE Mine
  BY <1>1, MineIInv DEF Mine
<1>2. CASE Poll
  <2>1. PICK b \in Later(0, head - MaxLag)..head : PollHead(b)
    BY <1>2 DEF Poll, Heads
  <2>2. b \in 0..head
    BY <2>1, PipelineAssumption DEF Later, IInv, ChainOK
  <2> QED BY <2>1, <2>2, PollIInv DEF PollHead
<1>3. CASE \E b \in Heads : LogsArrive(b)
  BY <1>3, ArriveIInv DEF LogsArrive
<1>4. CASE \E f \in BOOLEAN : HandleLog(f)
  BY <1>4, HandleIInv DEF HandleLog
<1>5. CASE BatchDone \/ \E d \in BOOLEAN : PollFails(d)
  BY <1>5, PauseIInv DEF BatchDone, PollFails
<1>6. CASE Consume
  BY <1>6, ConsumeIInv
<1>7. CASE UNCHANGED vars
  <2>1. \A i : Handled(i)' <=> Handled(i)
    BY <1>7 DEF vars, Handled
  <2>2. ChainOK' /\ RangeOK' /\ PendingOK' /\ FeedOK' /\ Ordered'
    BY <1>7 DEF vars, pollerVars, IInv, ChainOK, RangeOK, PendingOK, FeedOK, Ordered, Fetched
  <2>3. Fresh' /\ Ahead' /\ UNCHANGED graph
    BY <1>7, <2>1 DEF vars, pollerVars, IInv, Fresh, Ahead, Unfetched
  <2> QED BY <2>2, <2>3 DEF IInv
<1> QED
  BY <1>1, <1>2, <1>3, <1>4, <1>5, <1>6, <1>7 DEF Next

\* An edge of the graph only moves forward along its pool's logs, however
\* nodes lag, polls fail and dedup keys are forgotten (LogsPoller._poll_once to
\* DirectedGraph.update_reserves and update_v3_state).
THEOREM GraphOnlyAdvances == Spec => GraphNeverRegresses
<1> QED
  BY InitIInv, NextIInv, PTL DEF Spec, GraphNeverRegresses

-----------------------------------------------------------------------------
(* Nothing disappears: what is polled and not dropped reaches its edge. *)

\* The graph is behind whatever is still pending for a pool.
LEMMA GraphBehind ==
  ASSUME IInv, NEW i \in pending
  PROVE  graph[chain[i].pool] < i /\ ~Handled(i)
<1>1. i \in DOMAIN chain /\ i \in Nat /\ i # 0 /\ chain[i].pool \in Pools
  BY ChainTyped DEF IInv, PendingOK
<1>2. ~Handled(i)
  BY <1>1 DEF IInv, Ahead
<1>3. CASE graph[chain[i].pool] = 0
  BY <1>1, <1>2, <1>3
<1>4. CASE graph[chain[i].pool] # 0
  <2>1. /\ graph[chain[i].pool] \in DOMAIN chain
        /\ chain[graph[chain[i].pool]].pool = chain[i].pool
    BY <1>1, <1>4 DEF IInv, FeedOK
  <2>2. Handled(graph[chain[i].pool])
    BY <2>1 DEF Handled
  <2> QED BY <1>2, <2>1, <2>2 DEF IInv, Ahead
<1> QED BY <1>3, <1>4

\* The graph is behind whatever is still to be fetched for a pool.
LEMMA GraphBefore ==
  ASSUME IInv, NEW i \in DOMAIN chain,
         \/ lastBlock = NoBlock
         \/ ToFetch(i)
  PROVE  graph[chain[i].pool] < i /\ ~Handled(i)
<1>1. /\ i \in Nat /\ i # 0 /\ chain[i].pool \in Pools /\ chain[i].block \in Nat
      /\ fromBlock \in Nat
  BY ChainTyped DEF IInv, RangeOK
<1>2. ASSUME NEW h \in DOMAIN chain, Handled(h), chain[h].pool = chain[i].pool
      PROVE  h < i
  <2>1. h \in Nat /\ chain[h].block \in Nat
    BY ChainTyped DEF IInv
  <2>2. chain[h].block <= lastBlock /\ (ToFetch(i) => chain[h].block < fromBlock)
    BY <1>2 DEF IInv, Fresh, ToFetch
  <2>3. chain[h].block < chain[i].block
    BY <1>1, <2>1, <2>2 DEF ToFetch, NoBlock
  <2>4. ~(i <= h)
    BY <1>1, <2>1, <2>3 DEF IInv, ChainOK
  <2> QED BY <1>1, <2>1, <2>4
<1>3. ~Handled(i)
  BY <1>1, <1>2
<1>4. CASE graph[chain[i].pool] = 0
  BY <1>1, <1>3, <1>4
<1>5. CASE graph[chain[i].pool] # 0
  <2>1. /\ graph[chain[i].pool] \in DOMAIN chain
        /\ chain[graph[chain[i].pool]].pool = chain[i].pool
    BY <1>1, <1>5 DEF IInv, FeedOK
  <2>2. Handled(graph[chain[i].pool])
    BY <2>1 DEF Handled
  <2> QED BY <1>2, <1>3, <2>1, <2>2
<1> QED BY <1>4, <1>5

LEMMA MineTally ==
  ASSUME IInv, Tally, Mine
  PROVE  Tally' /\ Feed!Emit
<1>1. UNCHANGED <<phase, fromBlock, lastBlock, pending, queue, graph, missed>>
  BY DEF Mine, pollerVars
<1>2. /\ DOMAIN chain \subseteq DOMAIN chain'
      /\ \A i \in DOMAIN chain : chain'[i] = chain[i]
      /\ \A i \in DOMAIN chain' \ DOMAIN chain : chain'[i].block > lastBlock
  BY ChainGrows DEF IInv, RangeOK
<1>3. Accounted'
  <2> SUFFICES ASSUME NEW i \in DOMAIN chain', chain'[i].block <= lastBlock
               PROVE  \/ i \in missed
                      \/ i <= graph[chain'[i].pool]
                      \/ Queued(i)'
                      \/ i \in pending
                      \/ ToFetch(i)'
    BY <1>1 DEF Accounted
  <2>1. i \in DOMAIN chain
    <3>1. CASE i \notin DOMAIN chain
      <4>1. chain'[i].block = head + 1 /\ head \in Nat
        BY <3>1, ChainGrows
      <4> QED BY <4>1 DEF IInv, RangeOK
    <3> QED BY <3>1
  <2>2. chain'[i] = chain[i]
    BY <1>2, <2>1
  <2> QED BY <1>1, <2>1, <2>2 DEF Tally, Accounted, Queued, ToFetch, Unfetched
<1>4. MissedOK'
  BY <1>1, <1>2 DEF Tally, MissedOK, Handled, ToFetch, Unfetched
<1>5. Feed!Emit
  <2>1. \A i \in DOMAIN chain' : chain'[i].pool \in Pools
    BY ChainGrows, LogsTyped
  <2> QED BY <1>1, <1>2, <2>1 DEF Feed!Emit
<1> QED BY <1>3, <1>4, <1>5 DEF Tally

LEMMA PollTally ==
  ASSUME IInv, Tally, NEW b \in 0..head, PollHead(b)
  PROVE  Tally' /\ (Feed!Drop \/ UNCHANGED Feed!vars)
<1>1. UNCHANGED <<chain, pending, queue, graph>>
  BY DEF PollHead
<1>2. \A i : (Handled(i)' <=> Handled(i)) /\ (Queued(i)' <=> Queued(i))
  BY <1>1 DEF Handled, Queued
<1>3. CASE NothingNew(b)
  <2>1. UNCHANGED <<phase, fromBlock, lastBlock, missed>>
    BY <1>3 DEF PollHead
  <2> QED
    BY <1>1, <1>2, <2>1 DEF Tally, Accounted, MissedOK, ToFetch, Unfetched, Feed!vars
<1>4. CASE ~NothingNew(b)
  <2>1. /\ fromBlock' = FirstBlock(b) /\ lastBlock' = b
        /\ phase = "idle" /\ phase' = "v2fetch"
        /\ missed' = missed \cup {i \in DOMAIN chain : lastBlock = NoBlock
                                                      /\ chain[i].block < FirstBlock(b)}
    BY <1>4 DEF PollHead
  <2>2. /\ b \in Nat /\ lastBlock \in Int /\ lastBlock >= NoBlock
        /\ FirstBlock(b) \in Nat /\ FirstBlock(b) <= b /\ lastBlock < FirstBlock(b)
        /\ lastBlock # NoBlock => FirstBlock(b) = lastBlock + 1
    BY <1>4, PipelineAssumption
    DEF NothingNew, FirstBlock, Later, NoBlock, IInv, RangeOK, ChainOK
  <2>3. pending = {} /\ Unfetched = {} /\ Unfetched' = Pools
    BY <2>1 DEF IInv, PendingOK, Fetched, Unfetched
  <2>4. Accounted'
    <3> SUFFICES ASSUME NEW i \in DOMAIN chain, chain[i].block <= b
                 PROVE  \/ i \in missed'
                        \/ i <= graph[chain[i].pool]
                        \/ Queued(i)
                        \/ ToFetch(i)'
      BY <1>1, <1>2, <2>1 DEF Accounted
    <3>1. chain[i].block \in Nat /\ chain[i].pool \in Pools
      BY ChainTyped DEF IInv
    <3>2. CASE FirstBlock(b) <= chain[i].block
      BY <1>1, <2>1, <2>3, <3>1, <3>2 DEF ToFetch
    <3>3. CASE chain[i].block < FirstBlock(b) /\ lastBlock = NoBlock
      BY <2>1, <3>3
    <3>4. CASE chain[i].block < FirstBlock(b) /\ lastBlock # NoBlock
      <4>1. chain[i].block <= lastBlock
        BY <2>2, <3>1, <3>4
      <4> QED BY <2>1, <2>3, <4>1 DEF Tally, Accounted, ToFetch
    <3> QED BY <2>2, <3>1, <3>2, <3>3, <3>4
  <2>5. ASSUME NEW i \in missed'
        PROVE  /\ i \in DOMAIN chain /\ ~Handled(i)
               /\ chain[i].block <= b /\ chain[i].block < FirstBlock(b)
               /\ i \notin missed => graph[chain[i].pool] < i
    <3>1. CASE i \in missed
      <4>1. i \in DOMAIN chain /\ ~Handled(i) /\ chain[i].block <= lastBlock
        BY <3>1 DEF Tally, MissedOK
      <4>2. chain[i].block \in Nat
        BY <4>1, ChainTyped DEF IInv
      <4> QED BY <2>2, <3>1, <4>1, <4>2
    <3>2. CASE i \notin missed
      <4>1. i \in DOMAIN chain /\ lastBlock = NoBlock /\ chain[i].block < FirstBlock(b)
        BY <2>1, <2>5, <3>2
      <4>2. chain[i].block \in Nat
        BY <4>1, ChainTyped DEF IInv
      <4> QED BY <2>2, <4>1, <4>2, GraphBefore
    <3> QED BY <3>1, <3>2
  <2>6. MissedOK'
    <3>1. ASSUME NEW i \in missed' PROVE ~ToFetch(i)'
      <4>1. chain[i].block \in Nat /\ chain[i].block < FirstBlock(b)
        BY <2>5, ChainTyped DEF IInv
      <4> QED BY <1>1, <2>1, <2>2, <4>1 DEF ToFetch
    <3> QED BY <1>1, <1>2, <2>1, <2>3, <2>5, <3>1 DEF MissedOK
  <2>7. Feed!Drop
    BY <1>1, <2>1, <2>5 DEF Feed!Drop
  <2> QED BY <2>4, <2>6, <2>7 DEF Tally
<1> QED BY <1>3, <1>4

\* What an answer leaves out was still to be fetched, and is dropped.
LEMMA ArriveTally ==
  ASSUME IInv, Tally, NEW b, LogsArrive(b)
  PROVE  Tally' /\ Feed!Drop
<1>1. UNCHANGED <<chain, fromBlock, lastBlock, queue, graph>>
  BY DEF LogsArrive
<1>2. /\ pending = {}
      /\ pending' \subseteq LogsOf(Fetched')
      /\ missed' = missed \cup (LogsOf(Fetched') \ pending')
  BY DEF LogsArrive, Asked, Fetched, IInv, PendingOK
<1>3. Unfetched = Fetched' \cup Unfetched' /\ Fetched' \cap Unfetched' = {}
  BY PipelineAssumption DEF LogsArrive, Fetched, Unfetched, Pools
<1>4. \A i \in DOMAIN chain : chain[i].block \in Nat /\ fromBlock \in Nat /\ lastBlock \in Int
  BY ChainTyped DEF IInv, RangeOK
<1>5. \A i : (Handled(i)' <=> Handled(i)) /\ (Queued(i)' <=> Queued(i))
  BY <1>1 DEF Handled, Queued
<1>6. LogsOf(Fetched') =
        {i \in DOMAIN chain : chain[i].pool \in Fetched' /\ ToFetch(i) /\ chain[i].block <= lastBlock}
  BY <1>3, <1>4 DEF ToFetch, LogsOf
<1>7. \A i \in DOMAIN chain : ToFetch(i)' <=> ToFetch(i) /\ chain[i].pool \notin Fetched'
  BY <1>1, <1>3 DEF ToFetch
<1>8. \A i \in LogsOf(Fetched') : /\ i \in DOMAIN chain /\ chain[i].block <= lastBlock
                                  /\ ~Handled(i) /\ graph[chain[i].pool] < i
                                  /\ i \notin missed
  <2>1. \A i \in LogsOf(Fetched') : i \in DOMAIN chain /\ ToFetch(i) /\ chain[i].block <= lastBlock
    BY <1>6
  <2>2. \A i \in LogsOf(Fetched') : ~Handled(i) /\ graph[chain[i].pool] < i
    BY <2>1, GraphBefore
  <2> QED BY <2>1, <2>2 DEF Tally, MissedOK
<1>9. Accounted'
  <2> SUFFICES ASSUME NEW i \in DOMAIN chain, chain[i].block <= lastBlock, ToFetch(i)
               PROVE  i \in missed' \/ i \in pending' \/ ToFetch(i)'
    BY <1>1, <1>2, <1>5 DEF Tally, Accounted
  <2> QED BY <1>2, <1>6, <1>7
<1>10. MissedOK'
  <2> SUFFICES ASSUME NEW i \in missed'
               PROVE  /\ i \in DOMAIN chain /\ chain[i].block <= lastBlock
                      /\ ~Handled(i) /\ i \notin pending' /\ ~ToFetch(i)'
    BY <1>1, <1>5 DEF MissedOK
  <2>1. CASE i \in missed
    BY <1>2, <1>7, <1>8, <2>1 DEF Tally, MissedOK
  <2>2. CASE i \in LogsOf(Fetched') \ pending'
    BY <1>6, <1>7, <1>8, <2>2
  <2> QED BY <1>2, <2>1, <2>2
<1>11. Feed!Drop
  BY <1>1, <1>2, <1>8 DEF Feed!Drop
<1> QED BY <1>9, <1>10, <1>11 DEF Tally

LEMMA HandleTally ==
  ASSUME IInv, Tally, NEW f \in BOOLEAN, HandleLog(f)
  PROVE  Tally' /\ (Feed!Drop \/ UNCHANGED Feed!vars)
<1>1. UNCHANGED <<chain, phase, fromBlock, lastBlock, graph>>
  BY DEF HandleLog
<1>2. PICK i \in pending :
        /\ pending' = pending \ {i}
        /\ \/ queue' = queue /\ missed' = missed \cup {i}
           \/ queue' = Append(queue, i) /\ missed' = missed
  BY DEF HandleLog, HandleSync, HandleV3
<1>3. /\ i \in DOMAIN chain /\ chain[i].pool \in Fetched
      /\ chain[i].block <= lastBlock
      /\ graph[chain[i].pool] < i /\ ~Handled(i)
  BY GraphBehind DEF IInv, PendingOK
<1>4. \A j : ToFetch(j)' <=> ToFetch(j)
  BY <1>1 DEF ToFetch, Unfetched
<1>5. ~ToFetch(i)
  BY <1>3, PipelineAssumption DEF ToFetch, Fetched, Unfetched, IInv, RangeOK
<1>6. CASE queue' = queue /\ missed' = missed \cup {i}
  <2>1. \A j : (Handled(j)' <=> Handled(j)) /\ (Queued(j)' <=> Queued(j))
    BY <1>1, <1>6 DEF Handled, Queued
  <2>2. Accounted'
    BY <1>1, <1>2, <1>4, <1>6, <2>1 DEF Tally, Accounted
  <2>3. MissedOK'
    BY <1>1, <1>2, <1>3, <1>4, <1>5, <1>6, <2>1 DEF Tally, MissedOK
  <2>4. Feed!Drop
    BY <1>1, <1>3, <1>6 DEF Feed!Drop
  <2> QED BY <2>2, <2>3, <2>4 DEF Tally
<1>7. CASE queue' = Append(queue, i) /\ missed' = missed
  <2>1. /\ DOMAIN queue' = 1..(Len(queue) + 1) /\ DOMAIN queue = 1..Len(queue) /\ Len(queue) \in Nat
        /\ \A k \in DOMAIN queue : queue'[k] = queue[k]
        /\ queue'[Len(queue) + 1] = i
    BY <1>7 DEF IInv, FeedOK
  <2>2. Queued(i)' /\ \A j : Queued(j) => Queued(j)'
    BY <2>1 DEF Queued
  <2>3. \A j : Handled(j)' => Handled(j) \/ j = i
    <3>1. \A k \in DOMAIN queue' : queue'[k] = i \/ (k \in DOMAIN queue /\ queue'[k] = queue[k])
      BY <2>1
    <3> QED BY <1>1, <3>1 DEF Handled
  <2>4. Accounted'
    BY <1>1, <1>2, <1>4, <1>7, <2>2 DEF Tally, Accounted
  <2>5. MissedOK'
    BY <1>1, <1>2, <1>4, <1>7, <2>3 DEF Tally, MissedOK
  <2>6. UNCHANGED Feed!vars
    BY <1>1, <1>7 DEF Feed!vars
  <2> QED BY <2>4, <2>5, <2>6 DEF Tally
<1> QED BY <1>2, <1>6, <1>7

LEMMA DoneTally ==
  ASSUME IInv, Tally, BatchDone
  PROVE  Tally' /\ UNCHANGED Feed!vars
<1>1. UNCHANGED <<chain, fromBlock, lastBlock, pending, queue, graph, missed>>
  BY DEF BatchDone
<1>2. Unfetched' = Unfetched
  BY DEF BatchDone, Unfetched
<1> QED
  BY <1>1, <1>2 DEF Tally, Accounted, MissedOK, Handled, Queued, ToFetch, Feed!vars

\* What a failed call leaves behind is dropped.
LEMMA FailTally ==
  ASSUME IInv, Tally, NEW d \in BOOLEAN, PollFails(d)
  PROVE  Tally' /\ Feed!Drop
<1>1. UNCHANGED <<chain, fromBlock, lastBlock, pending, queue, graph>>
  BY DEF PollFails
<1>2. missed' = missed \cup Abandoned /\ pending = {} /\ Unfetched' = {}
  BY DEF PollFails, IInv, PendingOK, Fetched, Unfetched
<1>3. \A i \in DOMAIN chain : chain[i].block \in Nat /\ fromBlock \in Nat /\ lastBlock \in Int
  BY ChainTyped DEF IInv, RangeOK
<1>4. Abandoned = {i \in DOMAIN chain : ToFetch(i) /\ chain[i].block <= lastBlock}
  BY <1>3 DEF PollFails, Abandoned, ToFetch, Unfetched, LogsOf
<1>5. \A i : (Handled(i)' <=> Handled(i)) /\ (Queued(i)' <=> Queued(i)) /\ ~ToFetch(i)'
  BY <1>1, <1>2 DEF Handled, Queued, ToFetch
<1>6. Accounted'
  BY <1>1, <1>2, <1>4, <1>5 DEF Tally, Accounted
<1>7. \A i \in Abandoned : i \in DOMAIN chain /\ chain[i].block <= lastBlock
                           /\ ~Handled(i) /\ graph[chain[i].pool] < i
  BY <1>4, GraphBefore
<1>8. MissedOK'
  BY <1>1, <1>2, <1>5, <1>7 DEF Tally, MissedOK
<1>9. Feed!Drop
  BY <1>1, <1>2, <1>7 DEF Feed!Drop
<1> QED BY <1>6, <1>8, <1>9 DEF Tally

\* What lies between the state of an edge and the head of the queue was dropped.
LEMMA ConsumeTally ==
  ASSUME IInv, Tally, Consume
  PROVE  Tally' /\ \E i \in DOMAIN chain : Feed!Apply(i)
<1>1. UNCHANGED <<chain, phase, fromBlock, lastBlock, pending, missed>>
  BY DEF Consume, pollerVars
<1> DEFINE h == Head(queue)
<1>2. /\ h = queue[1] /\ 1 \in DOMAIN queue
      /\ \A k \in DOMAIN queue' : k + 1 \in DOMAIN queue /\ queue'[k] = queue[k + 1]
      /\ \A k \in DOMAIN queue : k \in Nat /\ (k = 1 \/ (k > 1 /\ k - 1 \in DOMAIN queue' /\ queue'[k - 1] = queue[k]))
  BY DEF Consume, IInv, FeedOK
<1>3. h \in DOMAIN chain /\ h \in Nat /\ chain[h].pool \in Pools /\ Handled(h)
  BY <1>2, ChainTyped DEF IInv, FeedOK, Handled
<1>4. /\ graph \in [Pools -> Nat]
      /\ graph' = [graph EXCEPT ![chain[h].pool] = h]
      /\ graph[chain[h].pool] < h
  BY <1>2 DEF Consume, IInv, FeedOK, Ordered
<1> HIDE DEF h
<1>5. \A i \in DOMAIN chain : i \in Nat /\ chain[i].pool \in Pools /\ graph[chain[i].pool] \in Nat
                              /\ graph[chain[i].pool] <= graph'[chain[i].pool]
                              /\ graph'[chain[i].pool] \in Nat
  BY <1>3, <1>4, ChainTyped DEF IInv
<1>6. \A i : Queued(i) => i = h \/ Queued(i)'
  BY <1>2 DEF Queued
<1>7. Accounted'
  <2> SUFFICES ASSUME NEW i \in DOMAIN chain, chain[i].block <= lastBlock
               PROVE  \/ i \in missed
                      \/ i <= graph'[chain[i].pool]
                      \/ Queued(i)'
                      \/ i \in pending
                      \/ ToFetch(i)
    BY <1>1 DEF Accounted, ToFetch, Unfetched
  <2>1. CASE i <= graph[chain[i].pool]
    BY <1>5, <2>1
  <2>2. CASE i = h
    BY <1>3, <1>4, <2>2
  <2> QED BY <1>6, <2>1, <2>2 DEF Tally, Accounted
<1>8. \A i \in DOMAIN chain : Handled(i)' => Handled(i)
  <2> SUFFICES ASSUME NEW i \in DOMAIN chain, Handled(i)' PROVE Handled(i)
    OBVIOUS
  <2>1. CASE \E k \in DOMAIN queue' : queue'[k] = i
    BY <1>2, <2>1 DEF Handled
  <2>2. CASE graph'[chain[i].pool] = i
    BY <1>3, <1>4, <1>5, <2>2 DEF Handled
  <2> QED BY <1>1, <2>1, <2>2 DEF Handled
<1>9. MissedOK'
  BY <1>1, <1>8 DEF Tally, MissedOK, ToFetch, Unfetched
<1>10. ASSUME NEW j \in DOMAIN chain, chain[j].pool = chain[h].pool,
              graph[chain[h].pool] < j, j < h
       PROVE  j \in missed
  <2>1. /\ j \in Nat /\ chain[j].block \in Nat /\ chain[h].block \in Nat
        /\ fromBlock \in Nat /\ lastBlock \in Int
    BY <1>3, ChainTyped DEF IInv, RangeOK
  <2>2. chain[j].block <= chain[h].block
    BY <1>3, <1>10, <2>1 DEF IInv, ChainOK
  <2>3. chain[h].block <= lastBlock /\ (chain[h].pool \in Unfetched => chain[h].block < fromBlock)
    BY <1>3 DEF IInv, Fresh
  <2>4. ~Queued(j)
    <3>1. ASSUME NEW k \in DOMAIN queue, queue[k] = j PROVE FALSE
      <4>1. k \in Nat /\ (k = 1 \/ k > 1)
        BY <1>2
      <4>2. k # 1
        BY <1>2, <1>3, <1>10, <3>1
      <4>3. queue[1] < queue[k]
        BY <1>2, <1>10, <3>1, <4>1, <4>2 DEF IInv, Ordered
      <4> QED BY <1>2, <1>3, <1>10, <2>1, <3>1, <4>3
    <3> QED BY <3>1 DEF Queued
  <2>5. j \notin pending
    <3>1. CASE j \in pending
      <4>1. h < j
        BY <1>3, <1>10, <3>1 DEF IInv, Ahead
      <4> QED BY <1>3, <1>10, <2>1, <4>1
    <3> QED BY <3>1
  <2>6. ~ToFetch(j)
    BY <1>10, <2>1, <2>2, <2>3 DEF ToFetch
  <2>7. ~(j <= graph[chain[j].pool]) /\ chain[j].block <= lastBlock
    BY <1>5, <1>10, <2>1, <2>2, <2>3
  <2> QED BY <2>4, <2>5, <2>6, <2>7 DEF Tally, Accounted
<1>11. h \notin missed
  BY <1>3 DEF Tally, MissedOK
<1>12. Feed!Apply(h)
  BY <1>1, <1>3, <1>4, <1>10, <1>11 DEF Feed!Apply
<1> QED BY <1>3, <1>7, <1>9, <1>12 DEF Tally

LEMMA NextTally == IInv /\ Tally /\ [Next]_vars => Tally' /\ [Feed!Next]_(Feed!vars)
<1> SUFFICES ASSUME IInv, Tally, [Next]_vars
             PROVE  Tally' /\ [Feed!Next]_(Feed!vars)
  OBVIOUS
<1>1. CASE Mine
  BY <1>1, MineTally DEF Feed!Next
<1>2. CASE Poll
  <2>1. PICK b \in Later(0, head - MaxLag)..head : PollHead(b)
    BY <1>2 DEF Poll, Heads
  <2>2. b \in 0..head
    BY <2>1, PipelineAssumption DEF Later, IInv, ChainOK
  <2> QED BY <2>1, <2>2, PollTally DEF Feed!Next
<1>3. CASE \E b \in Heads : LogsArrive(b)
  BY <1>3, ArriveTally DEF Feed!Next
<1>4. CASE \E f \in BOOLEAN : HandleLog(f)
  BY <1>4, HandleTally DEF Feed!Next
<1>5. CASE BatchDone
  BY <1>5, DoneTally
<1>6. CASE \E d \in BOOLEAN : PollFails(d)
  BY <1>6, FailTally DEF Feed!Next
<1>7. CASE Consume
  BY <1>7, ConsumeTally DEF Feed!Next
<1>8. CASE UNCHANGED vars
  BY <1>8 DEF vars, pollerVars, Tally, Accounted, MissedOK, Handled, Queued, ToFetch, Unfetched,
              Feed!vars
<1> QED
  BY <1>1, <1>2, <1>3, <1>4, <1>5, <1>6, <1>7, <1>8 DEF Next

LEMMA InitTally == Init => Tally /\ Feed!Init
BY DEF Init, Tally, Accounted, MissedOK, Feed!Init

\* The poller, the indexer, the queue and the sniper together are a FIFO that
\* may lose (LogsPoller._poll_once to DirectedGraph.update_reserves).
THEOREM Refinement == Spec => FeedIsLossyFifo
<1>1. Init => IInv /\ Tally /\ Feed!Init
  BY InitIInv, InitTally
<1>2. IInv /\ Tally /\ [Next]_vars => IInv' /\ Tally' /\ [Feed!Next]_(Feed!vars)
  BY NextIInv, NextTally
<1> QED
  BY <1>1, <1>2, PTL DEF Spec, FeedIsLossyFifo, Feed!Spec

\* At rest, with nothing to fetch and an empty queue, what is polled and was not
\* dropped has reached the graph.
LEMMA RestTally == IInv /\ Tally => LosesOnlyMissed
<1> SUFFICES ASSUME IInv, Tally, AtRest, NEW p \in Pools
             PROVE  LET kept == {0} \cup (Polled(p) \ missed)
                    IN  graph[p] \in kept /\ \A i \in kept : i <= graph[p]
  BY DEF LosesOnlyMissed
<1>1. pending = {} /\ Unfetched = {} /\ DOMAIN queue = {}
  BY DEF AtRest, IInv, PendingOK, Fetched, Unfetched
<1>2. graph[p] \in Nat
  BY DEF IInv, FeedOK
<1>3. \A i \in Polled(p) \ missed : i <= graph[p]
  BY <1>1 DEF Polled, Tally, Accounted, Queued, ToFetch
<1>4. CASE graph[p] # 0
  <2>1. graph[p] \in DOMAIN chain /\ chain[graph[p]].pool = p
    BY <1>4 DEF IInv, FeedOK
  <2>2. Handled(graph[p])
    BY <2>1 DEF Handled
  <2> QED BY <1>2, <1>3, <2>1, <2>2 DEF IInv, Fresh, Polled, Tally, MissedOK
<1> QED BY <1>2, <1>3, <1>4

\* Between polls each edge holds the last polled log of its pool that was not
\* dropped.
THEOREM OnlyMissedIsLost == Spec => []LosesOnlyMissed
<1>1. Init => IInv /\ Tally
  BY InitIInv, InitTally
<1>2. IInv /\ Tally /\ [Next]_vars => IInv' /\ Tally'
  BY NextIInv, NextTally
<1> QED
  BY <1>1, <1>2, RestTally, PTL DEF Spec

-----------------------------------------------------------------------------
(* Types and bounds. *)

SeenOK ==
  /\ DOMAIN seen = {"v2", "v3"}
  /\ \A k \in {"v2", "v3"} : IsFiniteSet(seen[k]) /\ Cardinality(seen[k]) <= SeenLimit

Bounded ==
  /\ chain \in Seq([block : 1..MaxBlock, pool : Pools, state : States])
  /\ head <= MaxBlock
  /\ attempt \in Nat
  /\ failures \in 0..MaxFailures
  /\ SeenOK

LEMMA InitBounded == Init => Bounded
<1> SUFFICES ASSUME Init PROVE Bounded
  OBVIOUS
<1>1. SeenOK
  BY FS_EmptySet, PipelineAssumption DEF Init, SeenOK
<1> QED BY <1>1, PipelineAssumption DEF Init, Bounded

\* A key more than the limit forgets them all.
LEMMA RememberedOK ==
  ASSUME SeenOK, NEW i
  PROVE  seen' = Remembered(i) => SeenOK'
<1> SUFFICES ASSUME seen' = Remembered(i) PROVE SeenOK'
  OBVIOUS
<1> DEFINE kind == Kind(chain[i].pool)
           keys == seen[kind] \cup {Key(i)}
<1>1. kind \in {"v2", "v3"}
  BY DEF Kind
<1>2. IsFiniteSet(keys) /\ Cardinality(keys) \in Nat
  BY <1>1, FS_AddElement, FS_CardinalityType DEF SeenOK
<1>3. seen' = [seen EXCEPT ![kind] = IF Cardinality(keys) > SeenLimit THEN {} ELSE keys]
  BY DEF Remembered
<1> HIDE DEF kind, keys
<1>4. seen'[kind] = (IF Cardinality(keys) > SeenLimit THEN {} ELSE keys)
  BY <1>1, <1>3 DEF SeenOK
<1>5. IsFiniteSet(seen'[kind]) /\ Cardinality(seen'[kind]) <= SeenLimit
  BY <1>2, <1>4, FS_EmptySet, PipelineAssumption
<1>6. \A k \in {"v2", "v3"} : k # kind => seen'[k] = seen[k]
  BY <1>3 DEF SeenOK
<1> QED BY <1>3, <1>5, <1>6 DEF SeenOK

LEMMA NextBounded == IInv /\ Bounded /\ [Next]_vars => Bounded'
<1> SUFFICES ASSUME IInv, Bounded, [Next]_vars PROVE Bounded'
  OBVIOUS
<1>1. CASE Mine
  <2>1. PICK logs \in BlockLogs : chain' = chain \o logs
    BY <1>1 DEF Mine
  <2>2. PICK n \in 0..MaxBlockLogs :
          logs \in [1..n -> [block : {head + 1}, pool : Pools, state : States]]
    BY <2>1 DEF BlockLogs
  <2>3. head' = head + 1 /\ head' \in 1..MaxBlock
    <3>1. head \in Nat /\ head < MaxBlock /\ MaxBlock \in Nat /\ head' = head + 1
      BY <1>1, PipelineAssumption DEF Mine, IInv, ChainOK
    <3> QED BY <3>1
  <2> DEFINE Log == [block : 1..MaxBlock, pool : Pools, state : States]
             New == [block : {head + 1}, pool : Pools, state : States]
  <2>4. New \subseteq Log
    BY <2>3
  <2>5. logs \in [1..n -> New] /\ n \in Nat /\ chain \in Seq(Log)
    BY <2>2, PipelineAssumption DEF Bounded
  <2> HIDE DEF Log, New
  <2>6. chain' \in Seq(Log)
    <3>1. logs \in Seq(Log)
      BY <2>4, <2>5
    <3>2. chain \o logs \in Seq(Log)
      BY <2>5, <3>1
    <3> QED BY <2>1, <3>2
  <2>7. UNCHANGED <<attempt, failures, seen>>
    BY <1>1 DEF Mine, pollerVars
  <2> QED BY <2>3, <2>6, <2>7 DEF Bounded, SeenOK, Log
<1>2. CASE Poll
  <2>1. UNCHANGED <<chain, head, failures, seen>> /\ attempt' \in Nat
    BY <1>2 DEF Poll, PollHead, Bounded
  <2> QED BY <2>1 DEF Bounded, SeenOK
<1>3. CASE \E b \in Heads : LogsArrive(b)
  BY <1>3 DEF LogsArrive, Bounded, SeenOK
<1>4. CASE \E f \in BOOLEAN : HandleLog(f)
  <2>1. UNCHANGED <<chain, head, attempt>>
    BY <1>4 DEF HandleLog
  <2>2. failures' \in 0..MaxFailures
    BY <1>4, PipelineAssumption DEF HandleLog, HandleSync, HandleV3, Bounded
  <2>3. seen' = seen \/ \E i \in pending : seen' = Remembered(i)
    BY <1>4 DEF HandleLog
  <2>4. SeenOK'
    <3>1. CASE seen' = seen
      BY <3>1 DEF Bounded, SeenOK
    <3> QED BY <2>3, <3>1, RememberedOK DEF Bounded
  <2> QED BY <2>1, <2>2, <2>4 DEF Bounded
<1>5. CASE BatchDone
  <2>1. UNCHANGED <<chain, head, failures, seen>> /\ attempt' \in Nat
    BY <1>5 DEF BatchDone, Bounded
  <2> QED BY <2>1 DEF Bounded, SeenOK
<1>6. CASE \E d \in BOOLEAN : PollFails(d)
  <2>1. UNCHANGED <<chain, head, seen>> /\ attempt' \in Nat /\ failures' \in 0..MaxFailures
    BY <1>6, PipelineAssumption DEF PollFails, Bounded
  <2> QED BY <2>1 DEF Bounded, SeenOK
<1>7. CASE Consume
  BY <1>7 DEF Consume, pollerVars, Bounded, SeenOK
<1>8. CASE UNCHANGED vars
  BY <1>8 DEF vars, pollerVars, Bounded, SeenOK
<1> QED
  BY <1>1, <1>2, <1>3, <1>4, <1>5, <1>6, <1>7, <1>8 DEF Next

LEMMA AllTyped == IInv /\ Tally /\ Bounded => TypeOK
<1> SUFFICES ASSUME IInv, Tally, Bounded PROVE TypeOK
  OBVIOUS
<1>1. queue \in Seq(DOMAIN chain)
  BY DEF IInv, FeedOK
<1>2. graph \in [Pools -> {0} \cup DOMAIN chain]
  BY DEF IInv, FeedOK
<1>3. pending \subseteq DOMAIN chain /\ missed \subseteq DOMAIN chain
  BY DEF IInv, PendingOK, Tally, MissedOK
<1>4. lastBlock \in {NoBlock} \cup 0..MaxBlock /\ head \in 0..MaxBlock
  BY PipelineAssumption DEF IInv, RangeOK, ChainOK, Bounded, NoBlock
<1> QED
  BY <1>1, <1>2, <1>3, <1>4 DEF TypeOK, IInv, RangeOK, Bounded, SeenOK

\* Types and bounds; the dedup sets stay within their limit (parse_sync_log,
\* ProcessAIndexer._parse_v3_log).
THEOREM TypeCorrect == Spec => []TypeOK
<1>1. Init => IInv /\ Tally /\ Bounded
  BY InitIInv, InitTally, InitBounded
<1>2. IInv /\ Tally /\ Bounded /\ [Next]_vars => IInv' /\ Tally' /\ Bounded'
  BY NextIInv, NextTally, NextBounded
<1> QED
  BY <1>1, <1>2, AllTyped, PTL DEF Spec
=============================================================================

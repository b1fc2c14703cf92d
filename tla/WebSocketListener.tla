------------------------- MODULE WebSocketListener -------------------------
(***************************************************************************)
(* infra/websocket_listener.py: WebSocketListener, which keeps one socket    *)
(* open, subscribes to newHeads and then to logs, and reads frames under a   *)
(* watchdog; and the provider at the other end of the socket (external).     *)
(*                                                                           *)
(* Frames arrive in order.  A log is a number: the position of the event in  *)
(* the chain.  Parsing and the callbacks are SyncPipeline's subject.         *)
(***************************************************************************)
EXTENDS Integers, Sequences

CONSTANTS HasV3,         \* v3_addresses and a v3 callback are configured
          Refuses,       \* the provider may refuse the handshake with HTTP 429
          FloatExponent, \* largest n for which base_delay * 2**n is a float (1023)
          MaxDrops,      \* bound: connections lost
          MaxLogs,       \* bound: logs in the chain
          MaxInbox       \* bound: frames on their way

ASSUME ListenerAssumption ==
  /\ HasV3 \in BOOLEAN /\ Refuses \in BOOLEAN
  /\ {FloatExponent, MaxDrops, MaxLogs, MaxInbox} \subseteq Nat

VARIABLES
  conn,    \* where listen() is: "down", "heads" or "logs" while it awaits that
           \* ack, "streaming", "sleeping" before a retry, "dead" once it raised
  attempt, \* attempt
  reason,  \* what listen() caught last
  inbox,   \* frames sent by the provider and not yet read
  asked,   \* the last subscription the client sent on this socket
  served,  \* the last subscription the provider accepted on it
  emitted, \* logs in the chain so far
  last,    \* the last log dispatched
  due      \* history: logs emitted since this socket streams, not yet dispatched

vars == <<conn, attempt, reason, inbox, asked, served, emitted, last, due>>

Init ==
  /\ conn = "down" /\ attempt = 0 /\ reason = "none"
  /\ inbox = << >> /\ asked = "none" /\ served = "none"
  /\ emitted = 0 /\ last = 0 /\ due = {}

Frame(kind) == [kind |-> kind, n |-> 0]

-----------------------------------------------------------------------------
(* The provider. *)

\* Fault: the Swap topic is always added.
TopicsAlways == <<"Sync", "Swap">>

\* The topics array of _subscribe_logs.
Topics == IF HasV3 THEN <<"Sync", "Swap">> ELSE <<"Sync">>

\* eth_subscribe matches topics by position: topics[i] is what the i-th topic
\* of a log must be.  No log has a V2 Sync first and a V3 Swap second.
Matches == Len(Topics) = 1

\* The provider accepts a subscription, or refuses it.
Answer ==
  /\ asked # served
  /\ Len(inbox) < MaxInbox
  /\ \/ served' = asked /\ inbox' = Append(inbox, Frame("ack"))
     \/ attempt < MaxDrops /\ UNCHANGED served /\ inbox' = Append(inbox, Frame("error"))
  /\ UNCHANGED <<conn, attempt, reason, asked, emitted, last, due>>

\* A new head, also while the answer to the second subscription is awaited.
NewHead ==
  /\ served # "none"
  /\ conn # "streaming" => attempt < MaxDrops
  /\ Len(inbox) < MaxInbox
  /\ inbox' = Append(inbox, Frame("head"))
  /\ UNCHANGED <<conn, attempt, reason, asked, served, emitted, last, due>>

\* A pool emits a log.
Emit ==
  /\ emitted < MaxLogs
  /\ emitted' = emitted + 1
  /\ IF served = "logs" /\ Matches
     THEN Len(inbox) < MaxInbox /\ inbox' = Append(inbox, [kind |-> "log", n |-> emitted + 1])
     ELSE UNCHANGED inbox
  /\ due' = IF conn = "streaming" THEN due \cup {emitted + 1} ELSE due
  /\ UNCHANGED <<conn, attempt, reason, asked, served, last>>

-----------------------------------------------------------------------------
(* The listener. *)

\* Fault: listen() does not catch OSError.
DropUncaught(why) ==
  /\ attempt' = attempt + 1
  /\ conn' = IF why \in {"rejected", "unreachable"} THEN "dead" ELSE "sleeping"
  /\ reason' = why
  /\ inbox' = << >> /\ asked' = "none" /\ served' = "none" /\ due' = {}

\* Fault: the attempt is counted by the connection and by the loop.
DropTwice(why) ==
  /\ attempt' = attempt + 2
  /\ conn' = IF attempt > FloatExponent THEN "dead" ELSE "sleeping"
  /\ reason' = why
  /\ inbox' = << >> /\ asked' = "none" /\ served' = "none" /\ due' = {}

\* listen() catches a TimeoutError, ConnectionClosed or OSError.  The delay is
\* capped after 2 ** (attempt - 1) was multiplied, which raises when that has
\* outgrown a float.  attempt is only reset when _connect_and_stream returns,
\* and it never does.
Drop(why) ==
  /\ attempt' = attempt + 1
  /\ conn' = IF attempt > FloatExponent THEN "dead" ELSE "sleeping"
  /\ reason' = why
  /\ inbox' = << >> /\ asked' = "none" /\ served' = "none" /\ due' = {}

\* The socket is opened and the newHeads subscription sent.
Connect ==
  /\ conn = "down"
  /\ conn' = "heads"
  /\ asked' = "heads"
  /\ UNCHANGED <<attempt, reason, inbox, served, emitted, last, due>>

ConnectFails ==
  /\ conn = "down"
  /\ attempt < MaxDrops
  /\ Drop("unreachable")
  /\ UNCHANGED <<emitted, last>>

\* The handshake is answered with HTTP 429: InvalidStatus is none of the
\* exceptions listen() catches.
ConnectRefused ==
  /\ conn = "down"
  /\ Refuses
  /\ conn' = "dead" /\ reason' = "refused"
  /\ UNCHANGED <<attempt, inbox, asked, served, emitted, last, due>>

\* Fault: any frame without an error is an ack.
AckedByAny == Head(inbox).kind # "error"

\* A frame without a result acknowledges nothing.
Acked == Head(inbox).kind = "ack"

\* _recv_json reads ONE frame, without a timeout, and takes it for the answer.
SubscribeHeads ==
  /\ conn = "heads"
  /\ inbox # << >>
  /\ \/ /\ Acked
        /\ conn' = "logs" /\ asked' = "logs" /\ inbox' = Tail(inbox)
        /\ UNCHANGED <<attempt, reason, served, due>>
     \/ ~Acked /\ Drop("rejected")
  /\ UNCHANGED <<emitted, last>>

SubscribeLogs ==
  /\ conn = "logs"
  /\ inbox # << >>
  /\ \/ /\ Acked
        /\ conn' = "streaming" /\ inbox' = Tail(inbox)
        /\ UNCHANGED <<attempt, reason, asked, served, due>>
     \/ ~Acked /\ Drop("rejected")
  /\ UNCHANGED <<emitted, last>>

\* A frame within the watchdog's time: _dispatch.
Read ==
  /\ conn = "streaming"
  /\ inbox # << >>
  /\ inbox' = Tail(inbox)
  /\ last' = IF Head(inbox).kind = "log" THEN Head(inbox).n ELSE last
  /\ due' = due \ {last'}
  /\ UNCHANGED <<conn, attempt, reason, asked, served, emitted>>

\* SILENT_DROP_TIMEOUT seconds without a frame.
Silence ==
  /\ conn = "streaming"
  /\ inbox = << >>
  /\ attempt < MaxDrops
  /\ Drop("silent")
  /\ UNCHANGED <<emitted, last>>

\* ConnectionClosed: the peer closes, or a ping is not answered.
Closed ==
  /\ conn \in {"heads", "logs", "streaming"}
  /\ attempt < MaxDrops
  /\ Drop("closed")
  /\ UNCHANGED <<emitted, last>>

\* asyncio.sleep(delay) is over.
Retry ==
  /\ conn = "sleeping"
  /\ conn' = "down"
  /\ UNCHANGED <<attempt, reason, inbox, asked, served, emitted, last, due>>

Next ==
  \/ Answer \/ NewHead \/ Emit
  \/ Connect \/ ConnectFails \/ ConnectRefused \/ SubscribeHeads \/ SubscribeLogs
  \/ Read \/ Silence \/ Closed \/ Retry

Spec == Init /\ [][Next]_vars

\* The event loop runs the listener whenever it has something to do.
ListenerFairness ==
  /\ WF_vars(Connect) /\ WF_vars(SubscribeHeads) /\ WF_vars(SubscribeLogs)
  /\ WF_vars(Read) /\ WF_vars(Retry)

\* A provider that answers every subscription and sends new heads.
AnsweringSpec == Spec /\ ListenerFairness /\ WF_vars(Answer) /\ WF_vars(NewHead)

-----------------------------------------------------------------------------
TypeOK ==
  /\ conn \in {"down", "heads", "logs", "streaming", "sleeping", "dead"}
  /\ attempt \in 0..MaxDrops
  /\ reason \in {"none", "unreachable", "refused", "rejected", "silent", "closed"}
  /\ inbox \in Seq([kind : {"ack", "error", "head", "log"}, n : 0..MaxLogs])
  /\ Len(inbox) <= MaxInbox
  /\ asked \in {"none", "heads", "logs"} /\ served \in {"none", "heads", "logs"}
  /\ due \subseteq 1..emitted
  /\ last \in 0..emitted /\ emitted \in 0..MaxLogs

\* The listener streams only what this very socket was subscribed to: taking
\* one frame per subscription for its answer never lets it believe in a
\* subscription the provider has not accepted.
StreamsWhatIsServed == conn = "streaming" => served = "logs"

\* "On any drop/exception [...] we wait with exponential backoff before
\* reconnecting": after any failure the listener streams again, except after a
\* refused handshake and after a backoff that is no float.
StreamsAgain ==
  conn # "streaming" ~> conn = "streaming" \/ reason = "refused" \/ attempt > FloatExponent + 1

\* A log emitted while the listener streams is dispatched, or the socket lost.
\* "the topics array filters by either V2 Sync OR V3 Swap, so a single
\* subscription suffices."
LogsDelivered == \A n \in 1..MaxLogs : n \in due ~> n \notin due
=============================================================================

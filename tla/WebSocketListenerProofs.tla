----------------------- MODULE WebSocketListenerProofs -----------------------
(***************************************************************************)
(* For any providers, drops and logs: the listener keeps its types, and it    *)
(* streams only when this very socket was subscribed to the logs, although    *)
(* _recv_json takes whatever frame comes first for the answer.  The invariant *)
(* says which frames can be on their way in each phase of a connection: one   *)
(* ack at most, and only of the subscription asked for last.                  *)
(***************************************************************************)
EXTENDS WebSocketListener, TLAPS

Places == 1 .. Len(inbox)

\* What is asked for and served in each phase.
PhaseOK ==
  /\ conn \in {"down", "sleeping", "dead"} => asked = "none" /\ served = "none" /\ inbox = << >>
  /\ conn = "heads" => asked = "heads" /\ served \in {"none", "heads"}
  /\ conn = "logs" => asked = "logs" /\ served \in {"heads", "logs"}
  /\ conn = "streaming" => asked = "logs" /\ served = "logs"

\* An ack is on its way exactly when the subscription asked for is served and
\* the listener still waits for the answer; and there is one only.
AckOK ==
  /\ \A i \in Places : inbox[i].kind = "ack" => conn \in {"heads", "logs"} /\ served = asked
  /\ \A i, j \in Places : inbox[i].kind = "ack" /\ inbox[j].kind = "ack" => i = j
  /\ conn \in {"heads", "logs"} /\ served = asked => \E i \in Places : inbox[i].kind = "ack"

\* A log follows the ack of its subscription, and is of the chain.
LogsFollow ==
  /\ \A i \in Places : inbox[i].n <= emitted
  /\ \A i \in Places : inbox[i].kind = "log" =>
       \/ conn = "streaming"
       \/ conn = "logs" /\ \E j \in 1 .. i - 1 : inbox[j].kind = "ack"

\* A frame that will be taken for a refusal leaves an attempt to be counted.
RefusalsCounted ==
  conn \in {"heads", "logs"} =>
    \A i \in Places : inbox[i].kind \in {"error", "head"} => attempt < MaxDrops

IInv == TypeOK /\ PhaseOK /\ AckOK /\ LogsFollow /\ RefusalsCounted

AnyFrame == [kind : {"ack", "error", "head", "log"}, n : 0 .. MaxLogs]

-----------------------------------------------------------------------------
(* Frames on their way. *)

LEMMA Appended ==
  ASSUME NEW s \in Seq(AnyFrame), NEW f \in AnyFrame
  PROVE  /\ Append(s, f) \in Seq(AnyFrame)
         /\ Len(Append(s, f)) = Len(s) + 1 /\ Len(s) \in Nat
         /\ \A i \in 1 .. Len(s) : Append(s, f)[i] = s[i]
         /\ Append(s, f)[Len(s) + 1] = f
OBVIOUS

LEMMA Rest ==
  ASSUME NEW s \in Seq(AnyFrame), s # << >>
  PROVE  /\ Tail(s) \in Seq(AnyFrame) /\ Head(s) \in AnyFrame
         /\ Len(s) \in Nat \ {0} /\ Len(Tail(s)) = Len(s) - 1
         /\ \A i \in 1 .. Len(s) - 1 : Tail(s)[i] = s[i + 1]
         /\ Head(s) = s[1]
OBVIOUS

LEMMA InitIInv == Init => IInv
<1> SUFFICES ASSUME Init PROVE IInv
  OBVIOUS
<1>1. MaxDrops \in Nat /\ MaxLogs \in Nat /\ MaxInbox \in Nat
  BY ListenerAssumption DEF ListenerAssumption
<1>2. Len(inbox) = 0 /\ Places = {}
  BY DEF Init, Places
<1>3. TypeOK
  BY <1>1, <1>2 DEF Init, TypeOK
<1> QED BY <1>2, <1>3 DEF Init, IInv, PhaseOK, AckOK, LogsFollow, RefusalsCounted

\* After a failure nothing is on its way, asked for or served.
LEMMA DropIInv ==
  ASSUME IInv, NEW why \in {"unreachable", "rejected", "silent", "closed"}, Drop(why),
         attempt < MaxDrops, UNCHANGED <<emitted, last>>
  PROVE  IInv'
<1>1. MaxDrops \in Nat /\ MaxLogs \in Nat /\ MaxInbox \in Nat
  BY ListenerAssumption DEF ListenerAssumption
<1>2. /\ conn' \in {"dead", "sleeping"} /\ inbox' = << >> /\ asked' = "none" /\ served' = "none"
      /\ due' = {} /\ reason' = why /\ attempt' = attempt + 1
  BY DEF Drop
<1>3. Len(inbox') = 0 /\ Places' = {}
  BY <1>2 DEF Places
<1>4. inbox' \in Seq(AnyFrame)
  BY <1>2
<1>5. TypeOK'
  BY <1>1, <1>2, <1>3, <1>4 DEF IInv, TypeOK, AnyFrame
<1> QED BY <1>2, <1>3, <1>5 DEF IInv, PhaseOK, AckOK, LogsFollow, RefusalsCounted

\* Only the answer to the subscription asked for last adds an ack.
LEMMA AnswerIInv == IInv /\ Answer => IInv'
<1> SUFFICES ASSUME IInv, Answer PROVE IInv'
  OBVIOUS
<1>1. MaxDrops \in Nat /\ MaxLogs \in Nat /\ MaxInbox \in Nat
  BY ListenerAssumption DEF ListenerAssumption
<1>2. /\ asked # served /\ Len(inbox) < MaxInbox
      /\ UNCHANGED <<conn, attempt, reason, asked, emitted, last, due>>
      /\ inbox \in Seq(AnyFrame) /\ Len(inbox) \in Nat
  BY DEF Answer, IInv, TypeOK, AnyFrame
<1>3. conn \in {"heads", "logs"} /\ \A i \in Places : inbox[i].kind # "ack" /\ inbox[i].kind # "log"
  <2>1. conn \in {"heads", "logs"}
    BY <1>2 DEF IInv, TypeOK, PhaseOK
  <2>2. \A i \in Places : inbox[i].kind # "ack"
    BY <1>2 DEF IInv, AckOK
  <2>3. \A i \in Places : 1 .. i - 1 \subseteq Places
    BY <1>2 DEF Places
  <2> QED BY <2>1, <2>2, <2>3 DEF IInv, LogsFollow
<1>4. PICK f \in {Frame("ack"), Frame("error")} :
        /\ inbox' = Append(inbox, f)
        /\ f = Frame("ack") => served' = asked
        /\ f = Frame("error") => attempt < MaxDrops /\ served' = served
  BY DEF Answer, Frame
<1>5. f \in AnyFrame /\ f.kind \in {"ack", "error"} /\ f.n = 0
      /\ (f.kind = "ack" <=> f = Frame("ack")) /\ (f.kind = "error" <=> f = Frame("error"))
  BY <1>1 DEF AnyFrame, Frame
<1>6. /\ inbox' \in Seq(AnyFrame) /\ Len(inbox') = Len(inbox) + 1
      /\ \A i \in 1 .. Len(inbox) : inbox'[i] = inbox[i]
      /\ inbox'[Len(inbox) + 1] = f
  BY <1>2, <1>4, <1>5, Appended
<1>7. Places' = Places \cup {Len(inbox) + 1} /\ Len(inbox) + 1 \notin Places
  BY <1>2, <1>6 DEF Places
<1>8. \A i \in Places' : (i \in Places /\ inbox'[i] = inbox[i]) \/ (i = Len(inbox) + 1 /\ inbox'[i] = f)
  BY <1>6, <1>7 DEF Places
<1>9. TypeOK'
  <2>1. served' \in {"none", "heads", "logs"}
    BY <1>4, <1>5 DEF IInv, TypeOK
  <2>2. Len(inbox') <= MaxInbox
    BY <1>1, <1>2, <1>6
  <2> QED BY <1>2, <1>6, <2>1, <2>2 DEF IInv, TypeOK, AnyFrame
<1>10. PhaseOK'
  BY <1>2, <1>3, <1>4, <1>5 DEF IInv, PhaseOK
<1>11. AckOK'
  <2>1. CASE f.kind = "ack"
    <3>1. served' = asked' /\ conn' \in {"heads", "logs"}
      BY <1>2, <1>3, <1>4, <1>5, <2>1
    <3>2. \A i \in Places' : inbox'[i].kind = "ack" => i = Len(inbox) + 1
      BY <1>3, <1>8
    <3>3. Len(inbox) + 1 \in Places' /\ inbox'[Len(inbox) + 1].kind = "ack"
      BY <1>6, <1>7, <2>1
    <3> QED BY <3>1, <3>2, <3>3 DEF AckOK
  <2>2. CASE f.kind = "error"
    <3>1. served' = served
      BY <1>4, <1>5, <2>2
    <3>2. \A i \in Places' : inbox'[i].kind # "ack"
      BY <1>3, <1>8, <2>2
    <3> QED BY <1>2, <3>1, <3>2 DEF AckOK
  <2> QED BY <1>5, <2>1, <2>2
<1>12. LogsFollow'
  <2>1. \A i \in Places' : inbox'[i].kind # "log"
    BY <1>3, <1>5, <1>8
  <2>2. \A i \in Places' : inbox'[i].n <= emitted'
    BY <1>2, <1>5, <1>8 DEF IInv, LogsFollow, TypeOK
  <2> QED BY <2>1, <2>2 DEF LogsFollow
<1>13. RefusalsCounted'
  BY <1>2, <1>3, <1>4, <1>5, <1>8 DEF IInv, RefusalsCounted
<1> QED BY <1>9, <1>10, <1>11, <1>12, <1>13 DEF IInv

\* A head or a log that is sent is no ack.
LEMMA SentIInv ==
  ASSUME IInv, NEW f \in AnyFrame, inbox' = Append(inbox, f), Len(inbox) < MaxInbox,
         f.kind \in {"head", "log"}, f.n <= emitted',
         f.kind = "head" /\ conn # "streaming" => attempt < MaxDrops,
         f.kind = "log" => served = "logs",
         served # "none",
         UNCHANGED <<conn, attempt, reason, asked, served, last>>,
         emitted' \in emitted .. MaxLogs, due' \subseteq 1 .. emitted'
  PROVE  IInv'
<1>1. MaxDrops \in Nat /\ MaxLogs \in Nat /\ MaxInbox \in Nat
  BY ListenerAssumption DEF ListenerAssumption
<1>2. inbox \in Seq(AnyFrame) /\ Len(inbox) \in Nat
  BY DEF IInv, TypeOK, AnyFrame
<1>3. /\ inbox' \in Seq(AnyFrame) /\ Len(inbox') = Len(inbox) + 1
      /\ \A i \in 1 .. Len(inbox) : inbox'[i] = inbox[i]
      /\ inbox'[Len(inbox) + 1] = f
  BY <1>2, Appended
<1>4. Places \subseteq Places' /\ Len(inbox) + 1 \in Places'
  BY <1>2, <1>3 DEF Places
<1>5. \A i \in Places' : (i \in Places /\ inbox'[i] = inbox[i]) \/ (i = Len(inbox) + 1 /\ inbox'[i] = f)
  BY <1>2, <1>3 DEF Places
<1>6. emitted \in Nat /\ emitted' \in Nat /\ emitted <= emitted' /\ emitted' <= MaxLogs
  BY <1>1 DEF IInv, TypeOK
<1>7. TypeOK'
  <2>1. Len(inbox') <= MaxInbox
    BY <1>1, <1>2, <1>3
  <2>2. last' \in 0 .. emitted' /\ emitted' \in 0 .. MaxLogs
    BY <1>6 DEF IInv, TypeOK
  <2> QED BY <1>3, <2>1, <2>2 DEF IInv, TypeOK, AnyFrame
<1>8. PhaseOK'
  BY DEF IInv, TypeOK, PhaseOK
<1>9. AckOK'
  <2>1. \A i \in Places' : inbox'[i].kind = "ack" => i \in Places /\ inbox[i].kind = "ack"
    BY <1>5
  <2>2. \A i \in Places : inbox'[i] = inbox[i]
    BY <1>3 DEF Places
  <2> QED BY <1>4, <2>1, <2>2 DEF IInv, AckOK
<1>10. LogsFollow'
  <2>1. \A i \in Places' : inbox'[i].n <= emitted'
    <3> SUFFICES ASSUME NEW i \in Places PROVE inbox[i].n <= emitted'
      BY <1>5
    <3>1. inbox[i] \in AnyFrame /\ inbox[i].n <= emitted
      BY <1>2 DEF IInv, LogsFollow, Places
    <3> QED BY <1>1, <1>6, <3>1 DEF AnyFrame
  <2>2. ASSUME NEW i \in Places', inbox'[i].kind = "log"
        PROVE  conn' = "streaming" \/ (conn' = "logs" /\ \E j \in 1 .. i - 1 : inbox'[j].kind = "ack")
    <3>1. CASE i \in Places /\ inbox'[i] = inbox[i]
      <4>1. \A j \in 1 .. i - 1 : inbox'[j] = inbox[j]
        BY <1>2, <1>3, <3>1 DEF Places
      <4> QED BY <2>2, <3>1, <4>1 DEF IInv, LogsFollow
    <3>2. CASE i = Len(inbox) + 1 /\ f.kind = "log"
      <4>1. conn = "streaming" \/ (conn = "logs" /\ asked = "logs")
        BY <3>2 DEF IInv, TypeOK, PhaseOK
      <4>2. conn = "logs" => \E j \in Places : inbox[j].kind = "ack"
        BY <3>2, <4>1 DEF IInv, AckOK
      <4>3. 1 .. i - 1 = Places /\ \A j \in Places : inbox'[j] = inbox[j]
        BY <1>2, <1>3, <3>2 DEF Places
      <4> QED BY <4>1, <4>2, <4>3
    <3> QED BY <1>5, <2>2, <3>1, <3>2
  <2> QED BY <2>1, <2>2 DEF LogsFollow
<1>11. RefusalsCounted'
  BY <1>5 DEF IInv, RefusalsCounted
<1> QED BY <1>7, <1>8, <1>9, <1>10, <1>11 DEF IInv

LEMMA NewHeadIInv == IInv /\ NewHead => IInv'
<1> SUFFICES ASSUME IInv, NewHead PROVE IInv'
  OBVIOUS
<1>1. MaxLogs \in Nat /\ emitted \in 0 .. MaxLogs /\ due \subseteq 1 .. emitted
  BY ListenerAssumption DEF ListenerAssumption, IInv, TypeOK
<1>2. Frame("head") \in AnyFrame /\ Frame("head").kind = "head" /\ Frame("head").n = 0
  BY <1>1 DEF Frame, AnyFrame
<1>3. /\ inbox' = Append(inbox, Frame("head")) /\ Len(inbox) < MaxInbox /\ served # "none"
      /\ conn # "streaming" => attempt < MaxDrops
      /\ UNCHANGED <<conn, attempt, reason, asked, served, emitted, last, due>>
  BY DEF NewHead
<1>4. Frame("head").n <= emitted' /\ emitted' \in emitted .. MaxLogs /\ due' \subseteq 1 .. emitted'
  BY <1>1, <1>2, <1>3
<1> QED BY <1>2, <1>3, <1>4, SentIInv

LEMMA EmitIInv == IInv /\ Emit => IInv'
<1> SUFFICES ASSUME IInv, Emit PROVE IInv'
  OBVIOUS
<1>1. /\ MaxLogs \in Nat /\ emitted \in 0 .. MaxLogs /\ emitted < MaxLogs /\ emitted' = emitted + 1
      /\ due \subseteq 1 .. emitted /\ last \in 0 .. emitted
      /\ due' = IF conn = "streaming" THEN due \cup {emitted + 1} ELSE due
      /\ UNCHANGED <<conn, attempt, reason, asked, served, last>>
  BY ListenerAssumption DEF ListenerAssumption, Emit, IInv, TypeOK
<1>2. emitted' \in emitted .. MaxLogs /\ due' \subseteq 1 .. emitted' /\ last' \in 0 .. emitted'
      /\ emitted' \in 0 .. MaxLogs
  BY <1>1
<1>3. CASE served = "logs" /\ Len(inbox) < MaxInbox
           /\ inbox' = Append(inbox, [kind |-> "log", n |-> emitted + 1])
  <2> DEFINE f == [kind |-> "log", n |-> emitted + 1]
  <2>1. f \in AnyFrame /\ f.kind = "log" /\ f.n <= emitted'
    BY <1>1 DEF AnyFrame
  <2>2. inbox' = Append(inbox, f) /\ served = "logs" /\ Len(inbox) < MaxInbox
    BY <1>3
  <2> HIDE DEF f
  <2> QED BY <1>1, <1>2, <2>1, <2>2, SentIInv
<1>4. CASE UNCHANGED inbox
  <2>1. TypeOK'
    BY <1>1, <1>2, <1>4 DEF IInv, TypeOK
  <2>2. \A i \in Places : inbox[i].n \in 0 .. MaxLogs
    <3>1. inbox \in Seq(AnyFrame)
      BY DEF IInv, TypeOK, AnyFrame
    <3>2. \A i \in Places : inbox[i] \in AnyFrame
      BY <3>1 DEF Places
    <3> QED BY <3>2 DEF AnyFrame
  <2>3. \A i \in Places : inbox[i].n <= emitted'
    BY <1>1, <2>2 DEF IInv, LogsFollow
  <2> QED
    BY <1>1, <1>4, <2>1, <2>3 DEF IInv, PhaseOK, AckOK, LogsFollow, RefusalsCounted, Places
<1> QED BY <1>3, <1>4 DEF Emit

\* The listener reads a frame and goes on: the rest of the frames keeps its order.
LEMMA Shifted ==
  ASSUME IInv, inbox # << >>, inbox' = Tail(inbox)
  PROVE  /\ inbox' \in Seq(AnyFrame) /\ Len(inbox') <= MaxInbox /\ 1 \in Places
         /\ Head(inbox) = inbox[1] /\ Head(inbox) \in AnyFrame
         /\ \A i \in Places' : i + 1 \in Places /\ i + 1 # 1 /\ inbox'[i] = inbox[i + 1]
<1>1. MaxInbox \in Nat /\ inbox \in Seq(AnyFrame) /\ Len(inbox) <= MaxInbox
  BY ListenerAssumption DEF ListenerAssumption, IInv, TypeOK, AnyFrame
<1> QED BY <1>1, Rest DEF Places

\* An ack leaves no other ack behind it, and a listener that reads an ack was
\* waiting for it.
LEMMA AckedIInv ==
  ASSUME IInv, inbox # << >>, inbox' = Tail(inbox), Acked,
         \/ conn = "heads" /\ conn' = "logs" /\ asked' = "logs"
         \/ conn = "logs" /\ conn' = "streaming" /\ UNCHANGED asked,
         UNCHANGED <<attempt, reason, served, emitted, last, due>>
  PROVE  IInv'
<1>1. /\ inbox' \in Seq(AnyFrame) /\ Len(inbox') <= MaxInbox /\ 1 \in Places
      /\ Head(inbox) = inbox[1]
      /\ \A i \in Places' : i + 1 \in Places /\ i + 1 # 1 /\ inbox'[i] = inbox[i + 1]
  BY Shifted
<1>2. inbox[1].kind = "ack" /\ served = asked
  BY <1>1 DEF Acked, IInv, AckOK
<1>3. \A i \in Places' : inbox'[i].kind # "ack"
  BY <1>1, <1>2 DEF IInv, AckOK
<1>4. TypeOK'
  BY <1>1 DEF IInv, TypeOK, AnyFrame
<1>5. PhaseOK'
  BY <1>2 DEF IInv, PhaseOK
<1>6. AckOK'
  BY <1>2, <1>3 DEF IInv, PhaseOK, AckOK
<1>7. LogsFollow'
  <2>1. conn = "heads" => \A i \in Places' : inbox'[i].kind # "log"
    BY <1>1 DEF IInv, LogsFollow
  <2>2. \A i \in Places' : inbox'[i].n <= emitted'
    BY <1>1 DEF IInv, LogsFollow
  <2> QED BY <2>1, <2>2 DEF LogsFollow
<1>8. RefusalsCounted'
  BY <1>1 DEF IInv, RefusalsCounted
<1> QED BY <1>4, <1>5, <1>6, <1>7, <1>8 DEF IInv

\* The frame in front, taken for a refusal, leaves an attempt to be counted.
LEMMA RefusedCounted ==
  ASSUME IInv, inbox # << >>, ~Acked, conn \in {"heads", "logs"}
  PROVE  attempt < MaxDrops
<1>1. 1 \in Places /\ Head(inbox) = inbox[1] /\ Head(inbox) \in AnyFrame
  <2>1. inbox \in Seq(AnyFrame)
    BY DEF IInv, TypeOK, AnyFrame
  <2> QED BY <2>1, Rest DEF Places
<1>2. inbox[1].kind # "log"
  BY <1>1 DEF IInv, LogsFollow
<1>3. inbox[1].kind \in {"error", "head"}
  BY <1>1, <1>2 DEF Acked, AnyFrame
<1> QED BY <1>1, <1>3 DEF IInv, RefusalsCounted

LEMMA ReadIInv == IInv /\ Read => IInv'
<1> SUFFICES ASSUME IInv, Read PROVE IInv'
  OBVIOUS
<1>1. /\ inbox' \in Seq(AnyFrame) /\ Len(inbox') <= MaxInbox /\ 1 \in Places
      /\ Head(inbox) = inbox[1] /\ Head(inbox) \in AnyFrame
      /\ \A i \in Places' : i + 1 \in Places /\ i + 1 # 1 /\ inbox'[i] = inbox[i + 1]
  BY Shifted DEF Read
<1>2. /\ conn = "streaming" /\ UNCHANGED <<conn, attempt, reason, asked, served, emitted>>
      /\ last' = (IF Head(inbox).kind = "log" THEN Head(inbox).n ELSE last)
      /\ due' = due \ {last'}
  BY DEF Read
<1>3. TypeOK'
  <2>1. Head(inbox).n <= emitted /\ Head(inbox).n \in Nat
    BY <1>1 DEF IInv, LogsFollow, AnyFrame
  <2>2. last' \in 0 .. emitted'
    BY <1>2, <2>1 DEF IInv, TypeOK
  <2>3. due' \subseteq 1 .. emitted'
    BY <1>2 DEF IInv, TypeOK
  <2> QED BY <1>1, <1>2, <2>2, <2>3 DEF IInv, TypeOK, AnyFrame
<1>4. PhaseOK'
  BY <1>2 DEF IInv, PhaseOK
<1>5. AckOK'
  <2>1. \A i \in Places' : inbox'[i].kind # "ack"
    BY <1>1, <1>2 DEF IInv, AckOK
  <2> QED BY <1>2, <2>1 DEF AckOK
<1>6. LogsFollow'
  BY <1>1, <1>2 DEF IInv, LogsFollow
<1>7. RefusalsCounted'
  BY <1>2 DEF RefusalsCounted
<1> QED BY <1>3, <1>4, <1>5, <1>6, <1>7 DEF IInv

\* Connecting, being refused and waiting touch an empty socket.
LEMMA QuietIInv ==
  ASSUME IInv, Connect \/ ConnectRefused \/ Retry
  PROVE  IInv'
<1>1. /\ inbox = << >> /\ asked = "none" /\ served = "none"
      /\ UNCHANGED <<attempt, inbox, served, emitted, last, due>>
  BY DEF IInv, PhaseOK, Connect, ConnectRefused, Retry
<1>2. Places' = {}
  BY <1>1 DEF Places
<1>3. TypeOK'
  BY <1>1 DEF IInv, TypeOK, Connect, ConnectRefused, Retry
<1>4. PhaseOK'
  BY <1>1 DEF IInv, PhaseOK, Connect, ConnectRefused, Retry
<1>5. conn' \in {"heads", "logs"} => served' # asked'
  BY <1>1 DEF Connect, ConnectRefused, Retry
<1> QED BY <1>2, <1>3, <1>4, <1>5 DEF IInv, AckOK, LogsFollow, RefusalsCounted

LEMMA Inductive == Spec => []IInv
<1>1. IInv /\ [Next]_vars => IInv'
  <2> SUFFICES ASSUME IInv, [Next]_vars PROVE IInv'
    OBVIOUS
  <2>1. CASE UNCHANGED vars
    BY <2>1 DEF vars, IInv, TypeOK, PhaseOK, AckOK, LogsFollow, RefusalsCounted, Places
  <2>2. CASE ConnectFails
    BY <2>2, DropIInv DEF ConnectFails
  <2>3. CASE SubscribeHeads
    <3>1. CASE Acked /\ conn' = "logs"
      BY <2>3, <3>1, AckedIInv DEF SubscribeHeads, Drop
    <3>2. CASE ~Acked /\ Drop("rejected")
      <4>1. attempt < MaxDrops
        BY <2>3, <3>2, RefusedCounted DEF SubscribeHeads
      <4> QED BY <2>3, <3>2, <4>1, DropIInv DEF SubscribeHeads
    <3> QED BY <2>3, <3>1, <3>2 DEF SubscribeHeads
  <2>4. CASE SubscribeLogs
    <3>1. CASE Acked /\ conn' = "streaming"
      BY <2>4, <3>1, AckedIInv DEF SubscribeLogs, Drop
    <3>2. CASE ~Acked /\ Drop("rejected")
      <4>1. attempt < MaxDrops
        BY <2>4, <3>2, RefusedCounted DEF SubscribeLogs
      <4> QED BY <2>4, <3>2, <4>1, DropIInv DEF SubscribeLogs
    <3> QED BY <2>4, <3>1, <3>2 DEF SubscribeLogs
  <2>5. CASE Silence
    BY <2>5, DropIInv DEF Silence
  <2>6. CASE Closed
    BY <2>6, DropIInv DEF Closed
  <2> QED
    BY <2>1, <2>2, <2>3, <2>4, <2>5, <2>6, AnswerIInv, NewHeadIInv, EmitIInv, QuietIInv, ReadIInv
       DEF Next
<1> QED BY <1>1, InitIInv, PTL DEF Spec

-----------------------------------------------------------------------------
\* listen(), _subscribe_* and _dispatch keep their state in its types; every
\* reconnection of the runs is one the bound on drops allows.
THEOREM TypeCorrect == Spec => []TypeOK
<1>1. IInv => TypeOK
  BY DEF IInv
<1> QED BY <1>1, Inductive, PTL

\* Taking the first frame for the answer never lets the listener stream from a
\* socket that was not subscribed to the logs.
THEOREM StreamIsServed == Spec => []StreamsWhatIsServed
<1>1. IInv => StreamsWhatIsServed
  BY DEF IInv, PhaseOK, StreamsWhatIsServed
<1> QED BY <1>1, Inductive, PTL
=============================================================================

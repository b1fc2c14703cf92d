------------------------------ MODULE Broadcast ------------------------------
(***************************************************************************)
(* From a trade that passed its simulation to the chain: the ways            *)
(* LiveExecutor and RPCManager offer to sign and deliver it.                 *)
(*   shotgun  sign_calldata, then broadcast_raw_tx as a detached task        *)
(*   native   broadcast_ex: the Rust ex_broadcast, called from a coroutine   *)
(*            without an await, so that the event loop stands still          *)
(*   direct   execute_calldata without a relay: one synchronous send         *)
(*   relay    execute_calldata with bundle_relay_url                         *)
(*   swap     execute_swap, from the triangular path: as direct              *)
(* Every way signs once.  All but the native one read the nonce with         *)
(* eth_getTransactionCount; ex_broadcast lets its wallet fill the transaction *)
(* without a provider, so that where its nonce comes from is not in the code:  *)
(* it is any of Filled.                                                       *)
(* The trader awaits one trade at a time (ProcessBSniper.run), while posts   *)
(* of earlier trades are still under way.  Endpoints, relay and sequencer    *)
(* are external: an endpoint keeps what it accepts until the sequencer has   *)
(* taken it; endpoints in Up answer every post, others may fail before or    *)
(* after they accepted.  The entry points of today configure no executor.    *)
(***************************************************************************)
EXTENDS Integers, Sequences

CONSTANTS Trades,
          Endpoints, \* self.execution_rpcs
          Up,        \* the endpoints that answer every post
          Node,      \* the endpoint behind LiveExecutor.w3
          Relay,     \* bundle_relay_url
          Filled,    \* nonces the wallet of ex_broadcast may fill in
          Lag        \* transactions an endpoint may trail the chain by

ASSUME BroadcastAssumption ==
  /\ Up \subseteq Endpoints /\ Node \in Endpoints /\ Relay \notin Endpoints
  /\ Filled \subseteq Nat /\ Lag \in Nat /\ "free" \notin Trades

VARIABLES
  loop,   \* the event loop: "runs", "blocked" in native code, "closed"
  trader, \* the trade the trader awaits, or "free"
  way,    \* how a trade was sent, "none" before
  told,   \* what the trader was told of it
  nonce,  \* the nonce it was signed with, -1 before
  post,   \* post[t][e]: the HTTP request that takes t to e
  pool,   \* the signed transactions an endpoint or the relay holds
  landed  \* the trades in the order they were executed: landed[n + 1] has nonce n

vars == <<loop, trader, way, told, nonce, post, pool, landed>>

Places == Endpoints \cup {Relay}
UnderWay == {"sent", "accepted", "collided"}
Count == Len(landed)

Init ==
  /\ loop = "runs" /\ trader = "free"
  /\ way = [t \in Trades |-> "none"]
  /\ told = [t \in Trades |-> "none"]
  /\ nonce = [t \in Trades |-> -1]
  /\ post = [t \in Trades |-> [e \in Places |-> "none"]]
  /\ pool = [e \in Places |-> {}]
  /\ landed = <<>>

\* What an endpoint takes for the number of transactions of the account.
Counts == {c \in 0 .. Count : c >= Count - Lag}

\* eth_getTransactionCount(account) counts what was executed.
NonceRead == Counts

\* Fault: sign again for every post.
RawSignedAgain(t) == {<<t, c>> : c \in NonceRead}

\* The signed payload every post carries.
Raw(t) == {<<t, nonce[t]>>}

-----------------------------------------------------------------------------
\* Trading

Ready(t) == loop = "runs" /\ trader = "free" /\ way[t] = "none"

\* No key, or the node did not answer: sign_calldata returns None and the
\* others a failure; ex_broadcast is not built, or cannot fill the transaction.
SignFails(t) ==
  /\ Ready(t)
  /\ way' = [way EXCEPT ![t] = "unsigned"]
  /\ told' = [told EXCEPT ![t] = "failed"]
  /\ UNCHANGED <<loop, trader, nonce, post, pool, landed>>

Signed(t, w, nonces) ==
  /\ Ready(t)
  /\ way' = [way EXCEPT ![t] = w]
  /\ \E n \in nonces : nonce' = [nonce EXCEPT ![t] = n]

SentToAll(t) == post' = [post EXCEPT ![t] = [e \in Places |-> IF e = Relay THEN "none" ELSE "sent"]]

\* The task is detached and the trade recorded as executed.
Shotgun(t) ==
  /\ Signed(t, "shotgun", NonceRead)
  /\ SentToAll(t)
  /\ told' = [told EXCEPT ![t] = "executed"]
  /\ UNCHANGED <<loop, trader, pool, landed>>

\* broadcast_ex: the wallet fills in a nonce and signs, and a task per endpoint
\* is spawned; the coroutine does not yield before the call returns.
Native(t) ==
  /\ Signed(t, "native", Filled)
  /\ SentToAll(t)
  /\ loop' = "blocked" /\ trader' = t
  /\ UNCHANGED <<told, pool, landed>>

\* ex_broadcast returns when every handle was joined.
NativeReturns(t) ==
  /\ loop = "blocked" /\ trader = t
  /\ \A e \in Endpoints : post[t][e] \notin UnderWay
  /\ loop' = "runs" /\ trader' = "free"
  /\ told' = [told EXCEPT ![t] = "returned"]
  /\ UNCHANGED <<way, nonce, post, pool, landed>>

\* Whether an endpoint that trails the chain refuses a transaction: nonce too
\* low, already known, or a replacement that is underpriced.
MayCollide(e, tx) ==
  \/ \E c \in Counts : tx[2] < c
  \/ \E other \in pool[e] : other[2] = tx[2]

MayAccept(e, tx) ==
  /\ \E c \in Counts : tx[2] >= c
  /\ \A other \in pool[e] : other[2] # tx[2]

\* send_raw_transaction does not yield.  It raises when the node refuses or
\* fails, and then the node may hold the transaction all the same.
SendRaw(t, w) ==
  /\ Signed(t, w, NonceRead)
  /\ UNCHANGED <<loop, trader, post, landed>>
  /\ \E tx \in Raw(t)', submitted \in BOOLEAN, held \in BOOLEAN :
       /\ submitted => held
       /\ held => MayAccept(Node, tx)
       /\ Node \in Up => submitted \/ (~held /\ MayCollide(Node, tx))
       /\ pool' = IF held THEN [pool EXCEPT ![Node] = @ \cup {tx}] ELSE pool
       /\ told' = [told EXCEPT ![t] = IF submitted THEN "submitted" ELSE "failed"]

\* execute_calldata without a relay.
Direct(t) == SendRaw(t, "direct")

\* execute_swap signs and sends a router call of its own.
ExecuteSwap(t) == SendRaw(t, "swap")

\* The bundle is posted with a timeout, and the trader awaits the answer.
ToRelay(t) ==
  /\ Signed(t, "relay", NonceRead)
  /\ trader' = t
  /\ post' = [post EXCEPT ![t][Relay] = "sent"]
  /\ UNCHANGED <<loop, told, pool, landed>>

RelayTakes(t) ==
  /\ post[t][Relay] = "sent"
  /\ post' = [post EXCEPT ![t][Relay] = "accepted"]
  /\ pool' = [pool EXCEPT ![Relay] = @ \cup Raw(t)]
  /\ UNCHANGED <<loop, trader, way, told, nonce, landed>>

\* Fault: the timeout of the client is not caught, and no result is returned.
RelayAnsweredOnly(t) ==
  /\ loop = "runs" /\ trader = t /\ post[t][Relay] \in UnderWay
  /\ trader' = "free"
  /\ \/ /\ post[t][Relay] = "accepted"
        /\ post' = [post EXCEPT ![t][Relay] = "hash"]
        /\ told' = [told EXCEPT ![t] = "submitted"]
     \/ /\ post' = [post EXCEPT ![t][Relay] = "nothing"]
        /\ UNCHANGED told
  /\ UNCHANGED <<loop, way, nonce, pool, landed>>

\* An error, a timeout or an answer without a result is a failure, whatever
\* the relay does with the bundle.
RelayAnswered(t) ==
  /\ loop = "runs" /\ trader = t /\ post[t][Relay] \in UnderWay
  /\ trader' = "free"
  /\ \/ /\ post[t][Relay] = "accepted"
        /\ post' = [post EXCEPT ![t][Relay] = "hash"]
        /\ told' = [told EXCEPT ![t] = "submitted"]
     \/ /\ post' = [post EXCEPT ![t][Relay] = "nothing"]
        /\ told' = [told EXCEPT ![t] = "failed"]
  /\ UNCHANGED <<loop, way, nonce, pool, landed>>

-----------------------------------------------------------------------------
\* The posts of a broadcast

\* Tokio's threads go on while the event loop is blocked.
Runs(t) == loop = IF way[t] = "native" THEN "blocked" ELSE "runs"

\* The post reaches the endpoint, which answers.
Deliver(t, e) ==
  /\ Runs(t)
  /\ post[t][e] = "sent"
  /\ \E tx \in Raw(t) :
       \/ /\ MayAccept(e, tx)
          /\ pool' = [pool EXCEPT ![e] = @ \cup {tx}]
          /\ post' = [post EXCEPT ![t][e] = "accepted"]
       \/ /\ MayCollide(e, tx)
          /\ post' = [post EXCEPT ![t][e] = "collided"]
          /\ UNCHANGED pool
  /\ UNCHANGED <<loop, trader, way, told, nonce, landed>>

\* Fault: a collision means that the transaction is known, hence sent.
AnsweredKnown(t, e) ==
  /\ Runs(t)
  /\ post[t][e] \in {"accepted", "collided"}
  /\ post' = [post EXCEPT ![t][e] = "hash"]
  /\ UNCHANGED <<loop, trader, way, told, nonce, pool, landed>>

\* A hash, or None for a collision.
Answered(t, e) ==
  /\ Runs(t)
  /\ post[t][e] \in {"accepted", "collided"}
  /\ post' = [post EXCEPT ![t][e] = IF @ = "accepted" THEN "hash" ELSE "nothing"]
  /\ UNCHANGED <<loop, trader, way, told, nonce, pool, landed>>

\* Fault: a task group whose first failure cancels the other posts.
FailedCancelsAll(t, e) ==
  /\ Runs(t)
  /\ post[t][e] \in UnderWay /\ e \notin Up
  /\ post' = [post EXCEPT ![t] = [f \in Places |-> IF @[f] \in UnderWay THEN "nothing" ELSE @[f]]]
  /\ UNCHANGED <<loop, trader, way, told, nonce, pool, landed>>

\* A transport failure of one endpoint is None too, and no other post's concern.
Failed(t, e) ==
  /\ Runs(t)
  /\ post[t][e] \in UnderWay /\ e \notin Up
  /\ post' = [post EXCEPT ![t][e] = "nothing"]
  /\ UNCHANGED <<loop, trader, way, told, nonce, pool, landed>>

\* The program ends: asyncio.run cancels the tasks it finds.
Shutdown ==
  /\ loop = "runs"
  /\ loop' = "closed"
  /\ post' = [t \in Trades |-> [e \in Places |->
                IF post[t][e] \in UnderWay THEN "nothing" ELSE post[t][e]]]
  /\ UNCHANGED <<trader, way, told, nonce, pool, landed>>

-----------------------------------------------------------------------------
\* The chain

\* First come, first served: the transaction of the next nonce is executed,
\* one of an older nonce is dropped.
Sequence(e) ==
  \E tx \in pool[e] :
    /\ tx[2] <= Count
    /\ landed' = IF tx[2] = Count THEN Append(landed, tx[1]) ELSE landed
    /\ pool' = [pool EXCEPT ![e] = @ \ {tx}]
    /\ UNCHANGED <<loop, trader, way, told, nonce, post>>

\* A bundle is for one block only.
BundleExpires ==
  \E tx \in pool[Relay] :
    /\ pool' = [pool EXCEPT ![Relay] = @ \ {tx}]
    /\ UNCHANGED <<loop, trader, way, told, nonce, post, landed>>

Next ==
  \/ \E t \in Trades : SignFails(t) \/ Shotgun(t) \/ Native(t) \/ NativeReturns(t)
                        \/ Direct(t) \/ ExecuteSwap(t) \/ ToRelay(t) \/ RelayTakes(t) \/ RelayAnswered(t)
  \/ \E t \in Trades, e \in Endpoints : Deliver(t, e) \/ Answered(t, e) \/ Failed(t, e)
  \/ Shutdown
  \/ \E e \in Places : Sequence(e)
  \/ BundleExpires

\* The loop runs what is ready, the client's timeouts end the posts of a shotgun
\* and of the relay, and endpoints that are up deliver.  ex_broadcast has no timeout.
Fairness ==
  /\ \A t \in Trades : WF_vars(NativeReturns(t)) /\ WF_vars(RelayAnswered(t))
  /\ \A t \in Trades, e \in Up : WF_vars(Deliver(t, e)) /\ WF_vars(Answered(t, e))
  /\ \A t \in Trades, e \in Endpoints \ Up : WF_vars(way[t] = "shotgun" /\ Failed(t, e))
  /\ \A e \in Up : WF_vars(Sequence(e))

Spec == Init /\ [][Next]_vars
FairSpec == Spec /\ Fairness

-----------------------------------------------------------------------------
\* Properties

Raws == Trades \X Nat

\* Every variable keeps its type, only a native broadcast blocks the loop, and
\* a trade that was taken up has an outcome, but for the one the trader awaits:
\* none is left without a result by a failure on the way.
TypeOK ==
  /\ loop \in {"runs", "blocked", "closed"}
  /\ trader \in Trades \cup {"free"}
  /\ way \in [Trades -> {"none", "unsigned", "shotgun", "native", "direct", "swap", "relay"}]
  /\ told \in [Trades -> {"none", "failed", "executed", "returned", "submitted"}]
  /\ nonce \in [Trades -> Nat \cup {-1}]
  /\ post \in [Trades -> [Places -> {"none", "hash", "nothing"} \cup UnderWay]]
  /\ pool \in [Places -> SUBSET Raws]
  /\ landed \in Seq(Trades)
  /\ loop = "blocked" => trader \in Trades /\ way[trader] = "native"
  /\ \A t \in Trades : told[t] = "none" <=> way[t] = "none" \/ trader = t

\* However many endpoints get it, and however late, a trade is executed at most
\* once: it is signed once and its nonce is used up.
ExecutedOnce == \A m, n \in DOMAIN landed : landed[m] = landed[n] => m = n

\* A trade of which the executor reports a hash is still held by the endpoint
\* that returned it, or its nonce was used, by it or by the trade that shares it.
ReportedIsNotLost ==
  \A t \in Trades :
    /\ \A e \in Endpoints : post[t][e] = "hash" => Raw(t) \subseteq pool[e] \/ nonce[t] < Count
    /\ way[t] \in {"direct", "swap"} /\ told[t] = "submitted" => Raw(t) \subseteq pool[Node] \/ nonce[t] < Count

\* One endpoint that is up is enough, whatever the others do: a trade that is
\* broadcast is executed, or the trade that shares its nonce is, unless the
\* program ends or a native broadcast never returns.
BroadcastsLand ==
  \A t \in Trades :
    []<>(loop = "runs") => (way[t] = "shotgun" ~> nonce[t] < Count)
=============================================================================

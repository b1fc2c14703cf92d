----------------------------- MODULE RPCManager -----------------------------
(***************************************************************************)
(* infra/rpc_manager.py: RPCManager.call, run by several coroutines at once  *)
(* over two endpoints, with the failover flag and the failure counter they   *)
(* share.  With the HTTP transport one of the callers is LogsPoller.listen,   *)
(* which calls reset_connection() when an httpx error escapes.               *)
(*                                                                           *)
(* One action lies between two awaits of a call: the limiter's acquire() and *)
(* _http_post.  An endpoint answers every post according to its health:      *)
(*   ok        a result                                                      *)
(*   down      5xx, connect error or timeout: counted towards the failover   *)
(*   denied    401/403 or an "unauthorized" error: _is_auth_error            *)
(*   limited   429                                                           *)
(*   broken    another httpx error: escapes from call() at once              *)
(*   rpcerror  a JSON-RPC error: escapes too, and is no httpx error          *)
(***************************************************************************)
EXTENDS Integers

CONSTANTS Callers,
          Poller,     \* the caller that polls, with the HTTP transport
          MaxRetries, \* MAX_429_RETRIES
          Outcomes,   \* the kinds of health the run explores
          MaxFlaps    \* bound: changes of an endpoint's health

Endpoints == {"primary", "fallback"}
Healths == {"ok", "down", "denied", "limited", "broken", "rpcerror"}

ASSUME CallAssumption ==
  /\ Poller \in Callers
  /\ MaxRetries \in Nat \ {0} /\ MaxFlaps \in Nat
  /\ Outcomes \subseteq Healths

VARIABLES
  polling,  \* the transport is HTTP, not WSS
  health,   \* what each endpoint answers
  flaps,    \* changes of health so far
  failover, \* self._failover_active
  failures, \* self._consecutive_failures
  pc,       \* where each caller is in call()
  url,      \* the endpoint its last or next post goes to
  tries,    \* 429 retries made
  posts,    \* history: _http_post calls of the call under way
  result    \* how its last call ended

shared == <<failover, failures>>
local == <<pc, url, tries, posts, result>>
external == <<polling, health, flaps>>
vars == <<external, shared, local>>

Init ==
  /\ polling \in BOOLEAN
  /\ health \in [Endpoints -> Outcomes]
  /\ flaps = 0
  /\ failover = FALSE
  /\ failures = 0
  /\ pc = [c \in Callers |-> "idle"]
  /\ url = [c \in Callers |-> "primary"]
  /\ tries = [c \in Callers |-> 0]
  /\ posts = [c \in Callers |-> 0]
  /\ result = [c \in Callers |-> "none"]

Active(over) == IF over THEN "fallback" ELSE "primary"

-----------------------------------------------------------------------------
(* The endpoints (external). *)

Flap ==
  /\ flaps < MaxFlaps
  /\ \E e \in Endpoints, h \in Outcomes : h # health[e] /\ health' = [health EXCEPT ![e] = h]
  /\ flaps' = flaps + 1
  /\ UNCHANGED <<polling, shared, local>>

-----------------------------------------------------------------------------
(* RPCManager.call *)

At(c, place) == pc[c] = place /\ UNCHANGED external
Goto(c, place) == pc' = [pc EXCEPT ![c] = place]
Finish(c, how) == Goto(c, "idle") /\ result' = [result EXCEPT ![c] = how]
PostTo(c, place, target) ==
  /\ Goto(c, place)
  /\ url' = [url EXCEPT ![c] = target]
  /\ posts' = [posts EXCEPT ![c] = @ + 1]

\* An exception leaves call(); the poller's handler resets the manager when it
\* is an httpx error (a denial may come as either kind of exception).
ResetConnection == failover' = FALSE /\ failures' = 0
Resets(c) == polling /\ c = Poller

Escape(c, error) ==
  /\ Finish(c, "failed")
  /\ \/ /\ Resets(c) /\ error # "rpcerror"
        /\ ResetConnection
     \/ /\ ~Resets(c) \/ error \in {"rpcerror", "denied"}
        /\ UNCHANGED shared
  /\ UNCHANGED <<url, tries, posts>>

Call(c) ==
  /\ At(c, "idle")
  /\ Goto(c, "acquire")
  /\ posts' = [posts EXCEPT ![c] = 0]
  /\ UNCHANGED <<shared, url, tries, result>>

\* The limiter lets the call through; the endpoint is chosen only now.
FirstPost(c) ==
  /\ At(c, "acquire")
  /\ PostTo(c, "posted", Active(failover))
  /\ UNCHANGED <<shared, tries, result>>

Answered(c) ==
  /\ At(c, "posted") /\ health[url[c]] = "ok"
  /\ failures' = 0
  /\ Finish(c, "ok")
  /\ UNCHANGED <<failover, url, tries, posts>>

\* An auth failure switches to the fallback without counting.
Denied(c) ==
  /\ At(c, "posted") /\ health[url[c]] = "denied"
  /\ failover' = TRUE
  /\ url' = [url EXCEPT ![c] = "fallback"]
  /\ Goto(c, "reacquire")
  /\ UNCHANGED <<failures, tries, posts, result>>

\* Fault: the toggle does not start the count afresh.
CountFailureOn(c) ==
  /\ At(c, "posted") /\ health[url[c]] = "down"
  /\ failover' = IF failures + 1 >= 3 THEN ~failover ELSE failover
  /\ failures' = failures + 1
  /\ url' = [url EXCEPT ![c] = Active(failover')]
  /\ Goto(c, "reacquire")
  /\ UNCHANGED <<tries, posts, result>>

\* The third counted failure in a row toggles the failover, whichever endpoint
\* this call had posted to; the retry goes to the endpoint active afterwards.
CountFailure(c) ==
  /\ At(c, "posted") /\ health[url[c]] = "down"
  /\ failover' = IF failures + 1 >= 3 THEN ~failover ELSE failover
  /\ failures' = IF failures + 1 >= 3 THEN 0 ELSE failures + 1
  /\ url' = [url EXCEPT ![c] = Active(failover')]
  /\ Goto(c, "reacquire")
  /\ UNCHANGED <<tries, posts, result>>

Escapes(c) ==
  /\ At(c, "posted") /\ health[url[c]] \in {"broken", "rpcerror"}
  /\ Escape(c, health[url[c]])

\* Fault: the retry counts as a fresh start.
RetryForgets(c) ==
  /\ At(c, "reacquire")
  /\ PostTo(c, "retried", url[c])
  /\ failures' = 0
  /\ UNCHANGED <<failover, tries, result>>

\* The single retry after a denial or a counted failure.
Retry(c) ==
  /\ At(c, "reacquire")
  /\ PostTo(c, "retried", url[c])
  /\ UNCHANGED <<shared, tries, result>>

RetryAnswered(c) ==
  /\ At(c, "retried") /\ health[url[c]] = "ok"
  /\ Finish(c, "ok")
  /\ UNCHANGED <<shared, url, tries, posts>>

RetryFails(c) ==
  /\ At(c, "retried") /\ health[url[c]] # "ok"
  /\ Escape(c, health[url[c]])

\* 429: up to MaxRetries more posts to the same endpoint, each after a backoff.
Limited(c) ==
  /\ At(c, "posted") /\ health[url[c]] = "limited"
  /\ tries' = [tries EXCEPT ![c] = 0]
  /\ Goto(c, "backoff")
  /\ UNCHANGED <<shared, url, posts, result>>

\* Fault: one retry too many.
BackoffOnceMore(c) ==
  /\ At(c, "backoff") /\ tries[c] <= MaxRetries
  /\ tries' = [tries EXCEPT ![c] = @ + 1]
  /\ PostTo(c, "relimited", url[c])
  /\ UNCHANGED <<shared, result>>

\* Fault: the retries are not counted.
BackoffUncounted(c) ==
  /\ At(c, "backoff") /\ tries[c] < MaxRetries
  /\ Goto(c, "relimited")
  /\ UNCHANGED <<shared, url, tries, posts, result>>

\* Wait, acquire and post once more.
Backoff(c) ==
  /\ At(c, "backoff") /\ tries[c] < MaxRetries
  /\ tries' = [tries EXCEPT ![c] = @ + 1]
  /\ PostTo(c, "relimited", url[c])
  /\ UNCHANGED <<shared, result>>

GiveUp(c) ==
  /\ At(c, "backoff") /\ tries[c] = MaxRetries
  /\ Escape(c, "limited")

BackoffAnswered(c) ==
  /\ At(c, "relimited")
  /\ \/ /\ health[url[c]] = "limited"
        /\ Goto(c, "backoff")
        /\ UNCHANGED <<shared, url, tries, posts, result>>
     \/ /\ health[url[c]] = "ok"
        /\ Finish(c, "ok")
        /\ UNCHANGED <<shared, url, tries, posts>>
     \/ /\ health[url[c]] \notin {"limited", "ok"}
        /\ Escape(c, health[url[c]])

Step(c) ==
  \/ FirstPost(c) \/ Answered(c) \/ Denied(c) \/ CountFailure(c) \/ Escapes(c)
  \/ Retry(c) \/ RetryAnswered(c) \/ RetryFails(c)
  \/ Limited(c) \/ Backoff(c) \/ GiveUp(c) \/ BackoffAnswered(c)

Next == Flap \/ \E c \in Callers : Call(c) \/ Step(c)

Spec == Init /\ [][Next]_vars

\* The event loop resumes every coroutine whose await is over, endpoints answer
\* or time out, and the callers keep calling: a poll or a scan never ends for good.
FairSpec == Spec /\ \A c \in Callers : WF_vars(Call(c)) /\ WF_vars(Step(c))

-----------------------------------------------------------------------------
TypeOK ==
  /\ polling \in BOOLEAN
  /\ health \in [Endpoints -> Healths] /\ flaps \in 0..MaxFlaps
  /\ failover \in BOOLEAN
  /\ failures \in 0..2
  /\ pc \in [Callers -> {"idle", "acquire", "posted", "reacquire", "retried",
                         "backoff", "relimited"}]
  /\ url \in [Callers -> Endpoints]
  /\ tries \in [Callers -> 0..MaxRetries]
  /\ posts \in [Callers -> Nat]
  /\ result \in [Callers -> {"none", "ok", "failed"}]

\* A call never posts more often than once plus MAX_429_RETRIES, whatever mix of
\* answers it meets and however the health changes under it.
RetriesBounded == \A c \in Callers : posts[c] <= 1 + MaxRetries

\* Every call returns or raises.
CallsEnd == \A c \in Callers : pc[c] # "idle" ~> pc[c] = "idle"

\* "Fallback public RPC used when primary fails": once the primary is down for
\* good and the fallback is well, every caller ends up served.  With the HTTP
\* transport it is not so: the poller's resets clear the count time and again.
FallbackTakesOver ==
  ~polling /\ <>[](health["primary"] = "down" /\ health["fallback"] = "ok")
    => <>[](\A c \in Callers : result[c] = "ok")
=============================================================================

------------------------------ MODULE RpcProofs ------------------------------
(***************************************************************************)
(* The two halves of an RPC call, for any number of callers.                 *)
(*                                                                           *)
(* RateLimiter, for every capacity and rate: no window of time lets more     *)
(* calls through than the bucket promises.  The invariant is that the calls  *)
(* let through and the tokens left come out of one budget.                   *)
(*                                                                           *)
(* RPCManager, for every number of retries: a call posts no more often than  *)
(* its retries allow.  The invariant ties the posts of a call to the place   *)
(* it is at and the retries it has counted.                                  *)
(***************************************************************************)
EXTENDS RateLimiter, RPCManager, TLAPS

-----------------------------------------------------------------------------
(* The rate limiter. *)

LimiterInv == LimiterTypeOK /\ BudgetInv

\* Waiting longer earns exactly Rate parts per tick (time.monotonic() advancing
\* by d during `elapsed * self.rate`).
LEMMA Accrual ==
  ASSUME NEW e \in Nat, NEW d \in Nat
  PROVE  /\ (e + d) * Rate = e * Rate + d * Rate
         /\ e * Rate \in Nat
BY LimiterAssumption DEF LimiterAssumption

\* A longer wait never earns less.
LEMMA AccrualMonotone ==
  ASSUME NEW e \in Nat, NEW d \in Nat, e <= d
  PROVE  e * Rate <= d * Rate
<1>1. d - e \in Nat /\ d = e + (d - e)  OBVIOUS
<1>2. d * Rate = e * Rate + (d - e) * Rate /\ (d - e) * Rate \in Nat
  BY <1>1, Accrual
<1> QED  BY <1>2, Accrual

\* Rounding up, division reaches its dividend (the whole ticks of wait_time).
LEMMA Division ==
  ASSUME NEW n \in Nat, NEW r \in Nat, r > 0
  PROVE  /\ n \div r \in Nat
         /\ n < (n \div r) * r + r
OBVIOUS

\* The sleep computed by wait_time earns what the sleeper lacks.
LEMMA SleepLongEnough ==
  ASSUME NEW have \in Nat, have < Unit
  PROVE  /\ WaitTime(have) \in Nat
         /\ have + WaitTime(have) * Rate >= Unit
<1>1. /\ Unit - have + Rate - 1 \in Nat
      /\ Rate \in Nat /\ Rate > 0 /\ Unit \in Nat
  BY LimiterAssumption DEF LimiterAssumption
<1>2. /\ WaitTime(have) \in Nat
      /\ Unit - have + Rate - 1 < WaitTime(have) * Rate + Rate
  BY <1>1, Division DEF WaitTime
<1>3. WaitTime(have) * Rate \in Nat
  BY <1>2, Accrual
<1> QED
  BY <1>1, <1>2, <1>3

\* The bucket holds between nothing and its capacity, after every refill.
LEMMA RefilledRange ==
  ASSUME LimiterTypeOK
  PROVE  Refilled \in 0..Full /\ Full \in Nat
<1>1. Full \in Nat
  BY LimiterAssumption DEF LimiterAssumption, Full
<1>2. elapsed * Rate \in Nat
  BY LimiterAssumption, Accrual DEF LimiterAssumption, LimiterTypeOK
<1> QED
  BY <1>1, <1>2 DEF LimiterTypeOK, Refilled, Least

LEMMA InitLimiterInv ==
  LimiterInit => LimiterInv
<1> SUFFICES ASSUME LimiterInit PROVE LimiterInv  OBVIOUS
<1>1. Full \in Nat /\ Capacity \in Nat /\ Unit \in Nat /\ Rate \in Nat
  BY LimiterAssumption DEF LimiterAssumption, Full
<1>2. 0 * Rate = 0  BY <1>1
<1>3. LimiterTypeOK
  BY <1>1, LimiterAssumption DEF LimiterInit, LimiterTypeOK, LimiterAssumption
<1>4. BudgetInv
  BY <1>1, <1>2 DEF LimiterInit, BudgetInv, Refilled, Least
<1> QED  BY <1>3, <1>4 DEF LimiterInv
\* Each step keeps the calls let through and the tokens left in one budget.
LEMMA StepLimiterInv ==
  ASSUME LimiterInv, [LimiterNext]_limiterVars
  PROVE  LimiterInv'
<1> USE DEF LimiterInv
<1>1. /\ Unit \in Nat /\ Unit > 0 /\ Rate \in Nat /\ MaxElapsed \in Nat /\ Unit <= Full
      /\ Full \in Nat /\ MaxElapsed * Rate >= Full /\ 0 * Rate = 0 /\ NoOne \notin Clients
  <2>1. Unit <= Capacity * Unit
    BY LimiterAssumption DEF LimiterAssumption
  <2> QED
    BY <2>1, LimiterAssumption DEF LimiterAssumption, Full
<1>2. /\ elapsed * Rate \in Nat /\ sleepFor * Rate \in Nat
      /\ (elapsed + sleepFor) * Rate = elapsed * Rate + sleepFor * Rate
  BY <1>1, Accrual DEF LimiterTypeOK
<1>3. Refilled \in 0..Full
  BY RefilledRange
<1>4. CASE Tick
  <2>1. elapsed' \in 0..MaxElapsed /\ sleepFor' \in Nat /\ excess' \in Nat
    BY <1>1, <1>4 DEF Tick, LimiterTypeOK, Least
  <2>2. LimiterTypeOK'
    BY <1>4, <2>1 DEF Tick, LimiterTypeOK
  <2>3. elapsed' * Rate <= elapsed * Rate + Rate /\ elapsed' * Rate \in Nat
    <3>1. (elapsed + 1) * Rate = elapsed * Rate + 1 * Rate
      BY Accrual DEF LimiterTypeOK
        <3>2. elapsed' <= elapsed + 1 /\ elapsed' \in Nat /\ elapsed + 1 \in Nat
      BY <1>1, <1>4, <2>1 DEF Tick, Least, LimiterTypeOK
    <3>3. elapsed' * Rate <= (elapsed + 1) * Rate
      BY <3>2, AccrualMonotone
    <3>4. elapsed' * Rate \in Nat /\ (elapsed + 1) * Rate \in Nat
      BY <3>2, 0 \in Nat, Accrual
    <3>5. 1 * Rate = Rate
      BY <1>1
    <3> QED
      BY <1>1, <1>2, <3>1, <3>2, <3>3, <3>4, <3>5
  <2>4. excess' + Refilled' <= Full
    <3>1. CASE excess > Rate
      BY <1>1, <1>2, <1>4, <2>3, <3>1 DEF Tick, BudgetInv, Refilled, Least, LimiterTypeOK
    <3>2. CASE ~(excess > Rate)
      BY <1>1, <1>2, <1>4, <2>3, <3>2 DEF Tick, Refilled, Least, LimiterTypeOK
    <3> QED  BY <3>1, <3>2
  <2>5. (sleeper # NoOne => tokens + (elapsed + sleepFor) * Rate >= Unit)'
    <3> SUFFICES ASSUME sleeper # NoOne
                 PROVE  tokens + (elapsed' + sleepFor') * Rate >= Unit
      BY <1>4 DEF Tick
    <3>1. CASE elapsed < MaxElapsed
      <4>1. elapsed' + sleepFor' >= elapsed + sleepFor /\ elapsed' + sleepFor' \in Nat
        BY <1>4, <2>1, <3>1, <1>1 DEF Tick, Least, LimiterTypeOK
      <4>2. (elapsed' + sleepFor') * Rate >= (elapsed + sleepFor) * Rate
        BY <4>1, AccrualMonotone DEF LimiterTypeOK
      <4>3. (elapsed' + sleepFor') * Rate \in Nat
        BY <4>1, Accrual
      <4> QED
        BY <1>1, <1>2, <4>2, <4>3 DEF BudgetInv, LimiterTypeOK
    <3>2. CASE elapsed = MaxElapsed
      <4>1. elapsed' = MaxElapsed
        BY <1>4, <3>2, <1>1 DEF Tick, Least
      <4>2. /\ (elapsed' + sleepFor') * Rate = MaxElapsed * Rate + sleepFor' * Rate
            /\ sleepFor' * Rate \in Nat
        BY <1>1, <2>1, <4>1, Accrual
      <4>3. MaxElapsed * Rate \in Nat
        BY <1>1, Accrual
      <4> QED
        BY <1>1, <4>2, <4>3 DEF LimiterTypeOK
    <3> QED  BY <3>1, <3>2, <1>1 DEF LimiterTypeOK
  <2> QED  BY <2>2, <2>4, <2>5 DEF BudgetInv
<1>5. CASE TakeToken
  <2>1. LimiterTypeOK'
    BY <1>1, <1>3, <1>5 DEF TakeToken, LimiterTypeOK
  <2>2. Refilled' = tokens'
    BY <1>1, <1>5, <2>1 DEF TakeToken, Refilled, Least, LimiterTypeOK
  <2> QED
    BY <1>1, <1>3, <1>5, <2>1, <2>2 DEF TakeToken, BudgetInv, LimiterTypeOK
<1>6. CASE StartSleep
  <2>1. /\ WaitTime(Refilled) \in Nat
        /\ Refilled + WaitTime(Refilled) * Rate >= Unit
    BY <1>3, <1>6, SleepLongEnough DEF StartSleep
  <2>2. Head(lockQueue) \in Clients /\ Tail(lockQueue) \in Seq(Clients)
    BY <1>6 DEF StartSleep, LimiterTypeOK
  <2>3. LimiterTypeOK'
    BY <1>1, <1>3, <1>6, <2>1, <2>2 DEF StartSleep, LimiterTypeOK
  <2>4. Refilled' = tokens'
    BY <1>1, <1>6, <2>3 DEF StartSleep, Refilled, Least, LimiterTypeOK
  <2>5. (elapsed' + sleepFor') * Rate = WaitTime(Refilled) * Rate
    BY <1>6, <2>1 DEF StartSleep
  <2> QED
    BY <1>1, <1>3, <1>6, <2>1, <2>3, <2>4, <2>5 DEF StartSleep, BudgetInv, LimiterTypeOK
<1>7. CASE WakeUp
  <2>1. LimiterTypeOK'
    BY <1>1, <1>7 DEF WakeUp, LimiterTypeOK
  <2>2. Refilled' = 0
    BY <1>1, <1>7, <2>1 DEF WakeUp, Refilled, Least, LimiterTypeOK
  <2>3. tokens + elapsed * Rate >= Unit
    BY <1>7, <1>2 DEF WakeUp, BudgetInv, LimiterTypeOK
  <2>4. Refilled >= Unit
    BY <1>1, <1>2, <2>3 DEF Refilled, Least, LimiterTypeOK
  <2> QED
    BY <1>1, <1>3, <1>7, <2>1, <2>2, <2>4 DEF WakeUp, BudgetInv, LimiterTypeOK
<1>8. ASSUME NEW c \in Clients, Request(c) PROVE LimiterInv'
  BY <1>8 DEF Request, LimiterTypeOK, BudgetInv, Refilled
<1>9. ASSUME NEW c \in Clients, Cancel(c) PROVE LimiterInv'
  <2>1. CASE UNCHANGED <<tokens, elapsed, sleeper, sleepFor, excess>> /\ lockQueue' \in Seq(Clients)
    BY <2>1 DEF LimiterTypeOK, BudgetInv, Refilled
  <2>2. CASE sleeper' = NoOne /\ sleepFor' = 0 /\ UNCHANGED <<tokens, elapsed, lockQueue, excess>>
    BY <1>1, <2>2 DEF LimiterTypeOK, BudgetInv, Refilled
  <2>3. ASSUME NEW i \in DOMAIN lockQueue  PROVE RemoveAt(lockQueue, i) \in Seq(Clients)
    BY DEF LimiterTypeOK, RemoveAt
  <2> QED
    BY <1>9, <2>1, <2>2, <2>3 DEF Cancel, LimiterTypeOK
<1>10. CASE UNCHANGED limiterVars
  BY <1>10 DEF limiterVars, LimiterTypeOK, BudgetInv, Refilled
<1> QED
  BY <1>4, <1>5, <1>6, <1>7, <1>8, <1>9, <1>10 DEF LimiterNext

\* acquire() keeps its fields in their types, whatever the callers do.
THEOREM LimiterTypeCorrect == LimiterSpec => []LimiterTypeOK
<1>1. LimiterInv /\ [LimiterNext]_limiterVars => LimiterInv'
  BY StepLimiterInv
<1>2. LimiterInv => LimiterTypeOK
  BY DEF LimiterInv
<1> QED
  BY InitLimiterInv, <1>1, <1>2, PTL DEF LimiterSpec

\* The calls let through and the tokens left always fit in one bucket.
THEOREM BudgetKept == LimiterSpec => []BudgetInv
<1>1. LimiterInv /\ [LimiterNext]_limiterVars => LimiterInv'
  BY StepLimiterInv
<1>2. LimiterInv => BudgetInv
  BY DEF LimiterInv
<1> QED
  BY InitLimiterInv, <1>1, <1>2, PTL DEF LimiterSpec

\* Whatever the rate, the capacity, the callers, their cancellations and the
\* lateness of the event loop: no window of time lets more than
\* Capacity + rate * length calls through.
THEOREM WindowBounded == LimiterSpec => []WindowBound
<1>1. LimiterInv /\ [LimiterNext]_limiterVars => LimiterInv'
  BY StepLimiterInv
<1>2. LimiterInv => WindowBound
  BY RefilledRange DEF LimiterInv, BudgetInv, WindowBound, LimiterTypeOK
<1> QED
  BY InitLimiterInv, <1>1, <1>2, PTL DEF LimiterSpec

-----------------------------------------------------------------------------
(* The calls. *)

\* How often a call may have posted when it is at a place.
PostsAt(place, tried) ==
  CASE place = "idle"      -> 0 .. 1 + MaxRetries
    [] place = "acquire"   -> {0}
    [] place = "posted"    -> {1}
    [] place = "reacquire" -> {1}
    [] place = "retried"   -> {2}
    [] OTHER               -> {1 + tried}

PostsCounted == \A c \in Callers : posts[c] \in PostsAt(pc[c], tries[c])

IInv == TypeOK /\ PostsCounted

-----------------------------------------------------------------------------
LEMMA InitIInv == Init => IInv
<1> SUFFICES ASSUME Init PROVE IInv
  OBVIOUS
<1>1. MaxRetries \in Nat /\ MaxFlaps \in Nat /\ Outcomes \subseteq Healths
  BY CallAssumption DEF CallAssumption
<1>2. health \in [Endpoints -> Healths]
  BY <1>1 DEF Init
<1>3. 0 \in 0 .. MaxFlaps /\ 0 \in 0 .. MaxRetries /\ 0 \in 0 .. 1 + MaxRetries /\ 0 \in 0 .. 2
  BY <1>1
<1>4. TypeOK
  <2>1. /\ pc \in [Callers -> {"idle", "acquire", "posted", "reacquire", "retried",
                             "backoff", "relimited"}]
        /\ url \in [Callers -> Endpoints]
        /\ tries \in [Callers -> 0 .. MaxRetries]
        /\ posts \in [Callers -> Nat]
        /\ result \in [Callers -> {"none", "ok", "failed"}]
    BY <1>3 DEF Init, Endpoints
  <2> QED BY <1>2, <1>3, <2>1 DEF Init, TypeOK
<1>5. PostsCounted
  <2>1. \A c \in Callers : pc[c] = "idle" /\ posts[c] = 0
    BY DEF Init
  <2>2. \A t : PostsAt("idle", t) = 0 .. 1 + MaxRetries
    BY DEF PostsAt
  <2> QED BY <1>3, <2>1, <2>2 DEF PostsCounted
<1> QED BY <1>4, <1>5 DEF IInv

\* Where a place leaves no choice, it tells the posts made.
LEMMA PlacesCount ==
  ASSUME NEW t
  PROVE  /\ PostsAt("idle", t) = 0 .. 1 + MaxRetries
         /\ PostsAt("acquire", t) = {0}
         /\ PostsAt("posted", t) = {1} /\ PostsAt("reacquire", t) = {1}
         /\ PostsAt("retried", t) = {2}
         /\ PostsAt("backoff", t) = {1 + t} /\ PostsAt("relimited", t) = {1 + t}
BY DEF PostsAt

\* Who does not move keeps its count.
LEMMA OthersKeep ==
  ASSUME IInv, NEW c \in Callers,
         \A d \in Callers : d # c => pc'[d] = pc[d] /\ tries'[d] = tries[d] /\ posts'[d] = posts[d],
         posts'[c] \in PostsAt(pc'[c], tries'[c])
  PROVE  PostsCounted'
BY DEF IInv, PostsCounted

\* The fallback or the primary is an endpoint.
LEMMA ActiveTyped == \A over \in BOOLEAN : Active(over) \in Endpoints
BY DEF Active, Endpoints

\* An exception that leaves the call keeps its posts, and the counter in range.
LEMMA EscapeIInv ==
  ASSUME IInv, NEW c \in Callers, NEW error, Escape(c, error), UNCHANGED external,
         posts[c] \in 0 .. 1 + MaxRetries
  PROVE  IInv'
<1>1. /\ pc' = [pc EXCEPT ![c] = "idle"]
      /\ result' = [result EXCEPT ![c] = "failed"]
      /\ failover' \in BOOLEAN /\ failures' \in 0 .. 2
      /\ UNCHANGED <<url, tries, posts>>
  <2>1. failover \in BOOLEAN /\ failures \in 0 .. 2 /\ 0 \in 0 .. 2
    BY DEF IInv, TypeOK
  <2>2. ResetConnection \/ UNCHANGED shared
    BY Zenon DEF Escape
  <2>3. (failover' = FALSE /\ failures' = 0) \/ (failover' = failover /\ failures' = failures)
    <3>1. UNCHANGED shared => failover' = failover /\ failures' = failures
      BY DEF shared
    <3> QED BY <2>2, <3>1 DEF ResetConnection
  <2>4. failover' \in BOOLEAN /\ failures' \in 0 .. 2
    BY <2>1, <2>3, Zenon
  <2> QED BY <2>4 DEF Escape, Finish, Goto
<1>2. TypeOK'
  BY <1>1 DEF IInv, TypeOK, external
<1>3. PostsCounted'
  <2>1. posts'[c] \in PostsAt(pc'[c], tries'[c])
    BY <1>1, PlacesCount DEF IInv, TypeOK
  <2>2. \A d \in Callers : d # c => pc'[d] = pc[d] /\ tries'[d] = tries[d] /\ posts'[d] = posts[d]
    BY <1>1 DEF IInv, TypeOK
  <2> QED BY <2>1, <2>2, OthersKeep
<1> QED BY <1>2, <1>3 DEF IInv

\* Each step of a call moves it to a place that allows its posts.
LEMMA StepIInv ==
  ASSUME IInv, NEW c \in Callers, Call(c) \/ Step(c)
  PROVE  IInv'
<1>1. MaxRetries \in Nat /\ MaxRetries > 0
  BY CallAssumption DEF CallAssumption
<1>2. posts[c] \in PostsAt(pc[c], tries[c]) /\ posts[c] \in Nat /\ tries[c] \in 0 .. MaxRetries
  BY DEF IInv, PostsCounted, TypeOK
<1>3. CASE Call(c)
  <2>1. TypeOK'
    BY <1>3 DEF Call, At, Goto, external, shared, IInv, TypeOK
  <2>2. PostsCounted'
    <3>1. posts'[c] \in PostsAt(pc'[c], tries'[c])
      BY <1>3, PlacesCount DEF Call, At, Goto, IInv, TypeOK
    <3>2. \A d \in Callers : d # c => pc'[d] = pc[d] /\ tries'[d] = tries[d] /\ posts'[d] = posts[d]
      BY <1>3 DEF Call, At, Goto, IInv, TypeOK
    <3> QED BY <3>1, <3>2, OthersKeep
  <2> QED BY <2>1, <2>2 DEF IInv
<1>4. CASE FirstPost(c)
  <2>1. posts[c] = 0 /\ Active(failover) \in Endpoints
    BY PlacesCount, <1>2, <1>4, ActiveTyped DEF FirstPost, At, PostsAt, IInv, TypeOK
  <2>2. TypeOK'
    BY <1>4, <2>1 DEF FirstPost, PostTo, At, Goto, external, shared, IInv, TypeOK
  <2>3. PostsCounted'
    <3>1. posts'[c] \in PostsAt(pc'[c], tries'[c])
      BY <1>4, <2>1, PlacesCount DEF FirstPost, PostTo, At, Goto, IInv, TypeOK
    <3>2. \A d \in Callers : d # c => pc'[d] = pc[d] /\ tries'[d] = tries[d] /\ posts'[d] = posts[d]
      BY <1>4, <2>1 DEF FirstPost, PostTo, At, Goto, IInv, TypeOK
    <3> QED BY <3>1, <3>2, OthersKeep
  <2> QED BY <2>2, <2>3 DEF IInv
<1>5. CASE Answered(c)
  <2>1. posts[c] = 1
    BY PlacesCount, <1>2, <1>5 DEF Answered, At
  <2>2. TypeOK'
    BY <1>5 DEF Answered, Finish, At, Goto, external, IInv, TypeOK
  <2>3. PostsCounted'
    <3>1. posts'[c] \in PostsAt(pc'[c], tries'[c])
      BY <1>1, <1>5, <2>1, PlacesCount DEF Answered, Finish, At, Goto, IInv, TypeOK
    <3>2. \A d \in Callers : d # c => pc'[d] = pc[d] /\ tries'[d] = tries[d] /\ posts'[d] = posts[d]
      BY <1>1, <1>5, <2>1 DEF Answered, Finish, At, Goto, IInv, TypeOK
    <3> QED BY <3>1, <3>2, OthersKeep
  <2> QED BY <2>2, <2>3 DEF IInv
<1>6. CASE Denied(c)
  <2>1. posts[c] = 1
    BY PlacesCount, <1>2, <1>6 DEF Denied, At
  <2>2. TypeOK'
    BY <1>6 DEF Denied, At, Goto, external, IInv, TypeOK, Endpoints
  <2>3. PostsCounted'
    <3>1. posts'[c] \in PostsAt(pc'[c], tries'[c])
      BY <1>6, <2>1, PlacesCount DEF Denied, At, Goto, IInv, TypeOK
    <3>2. \A d \in Callers : d # c => pc'[d] = pc[d] /\ tries'[d] = tries[d] /\ posts'[d] = posts[d]
      BY <1>6, <2>1 DEF Denied, At, Goto, IInv, TypeOK
    <3> QED BY <3>1, <3>2, OthersKeep
  <2> QED BY <2>2, <2>3 DEF IInv
<1>7. CASE CountFailure(c)
  <2>1. posts[c] = 1
    BY PlacesCount, <1>2, <1>7 DEF CountFailure, At
  <2>2. failover' \in BOOLEAN /\ failures' \in 0 .. 2
    <3>1. failover' = failover \/ failover' = ~failover
      BY <1>7, Zenon DEF CountFailure
    <3>2. failover' \in BOOLEAN
      BY <3>1, Zenon DEF IInv, TypeOK
    <3>3. failures \in 0 .. 2 /\ failures' = IF failures + 1 >= 3 THEN 0 ELSE failures + 1
      BY <1>7 DEF CountFailure, IInv, TypeOK
    <3>4. failures' \in 0 .. 2
      BY <3>3
    <3> QED BY <3>2, <3>4
  <2>3. Active(failover') \in Endpoints
    BY <2>2, ActiveTyped
  <2>4. TypeOK'
    BY <1>7, <2>2, <2>3 DEF CountFailure, At, Goto, external, IInv, TypeOK
  <2>5. PostsCounted'
    <3>1. posts'[c] \in PostsAt(pc'[c], tries'[c])
      BY <1>7, <2>1, PlacesCount DEF CountFailure, At, Goto, IInv, TypeOK
    <3>2. \A d \in Callers : d # c => pc'[d] = pc[d] /\ tries'[d] = tries[d] /\ posts'[d] = posts[d]
      BY <1>7, <2>1 DEF CountFailure, At, Goto, IInv, TypeOK
    <3> QED BY <3>1, <3>2, OthersKeep
  <2> QED BY <2>4, <2>5 DEF IInv
<1>8. CASE Escapes(c)
  <2>1. posts[c] \in 0 .. 1 + MaxRetries
    BY PlacesCount, <1>1, <1>2, <1>8 DEF Escapes, At
  <2> QED BY <1>8, <2>1, EscapeIInv DEF Escapes, At
<1>9. CASE Retry(c)
  <2>1. posts[c] = 1
    BY PlacesCount, <1>2, <1>9 DEF Retry, At
  <2>2. TypeOK'
    BY <1>9 DEF Retry, PostTo, At, Goto, external, shared, IInv, TypeOK
  <2>3. PostsCounted'
    <3>1. posts'[c] \in PostsAt(pc'[c], tries'[c])
      BY <1>9, <2>1, PlacesCount DEF Retry, PostTo, At, Goto, IInv, TypeOK
    <3>2. \A d \in Callers : d # c => pc'[d] = pc[d] /\ tries'[d] = tries[d] /\ posts'[d] = posts[d]
      BY <1>9, <2>1 DEF Retry, PostTo, At, Goto, IInv, TypeOK
    <3> QED BY <3>1, <3>2, OthersKeep
  <2> QED BY <2>2, <2>3 DEF IInv
<1>10. CASE RetryAnswered(c)
  <2>1. posts[c] = 2
    BY PlacesCount, <1>2, <1>10 DEF RetryAnswered, At
  <2>2. TypeOK'
    BY <1>10 DEF RetryAnswered, Finish, At, Goto, external, shared, IInv, TypeOK
  <2>3. PostsCounted'
    <3>1. posts'[c] \in PostsAt(pc'[c], tries'[c])
      BY <1>1, <1>10, <2>1, PlacesCount DEF RetryAnswered, Finish, At, Goto, IInv, TypeOK
    <3>2. \A d \in Callers : d # c => pc'[d] = pc[d] /\ tries'[d] = tries[d] /\ posts'[d] = posts[d]
      BY <1>1, <1>10, <2>1 DEF RetryAnswered, Finish, At, Goto, IInv, TypeOK
    <3> QED BY <3>1, <3>2, OthersKeep
  <2> QED BY <2>2, <2>3 DEF IInv
<1>11. CASE RetryFails(c)
  <2>1. posts[c] \in 0 .. 1 + MaxRetries
    BY PlacesCount, <1>1, <1>2, <1>11 DEF RetryFails, At
  <2> QED BY <1>11, <2>1, EscapeIInv DEF RetryFails, At
<1>12. CASE Limited(c)
  <2>1. posts[c] = 1
    BY PlacesCount, <1>2, <1>12 DEF Limited, At
  <2>2. TypeOK'
    BY <1>1, <1>12 DEF Limited, At, Goto, external, shared, IInv, TypeOK
  <2>3. PostsCounted'
    <3>1. posts'[c] \in PostsAt(pc'[c], tries'[c])
      BY <1>12, <2>1, PlacesCount DEF Limited, At, Goto, IInv, TypeOK
    <3>2. \A d \in Callers : d # c => pc'[d] = pc[d] /\ tries'[d] = tries[d] /\ posts'[d] = posts[d]
      BY <1>12, <2>1 DEF Limited, At, Goto, IInv, TypeOK
    <3> QED BY <3>1, <3>2, OthersKeep
  <2> QED BY <2>2, <2>3 DEF IInv
<1>13. CASE Backoff(c)
  <2>1. posts[c] = 1 + tries[c] /\ tries[c] < MaxRetries
    BY PlacesCount, <1>2, <1>13 DEF Backoff, At
  <2>2. TypeOK'
    BY <1>1, <1>2, <1>13, <2>1 DEF Backoff, PostTo, At, Goto, external, shared, IInv, TypeOK
  <2>3. PostsCounted'
    <3>1. posts'[c] \in PostsAt(pc'[c], tries'[c])
      BY <1>2, <1>13, <2>1, PlacesCount DEF Backoff, PostTo, At, Goto, IInv, TypeOK
    <3>2. \A d \in Callers : d # c => pc'[d] = pc[d] /\ tries'[d] = tries[d] /\ posts'[d] = posts[d]
      BY <1>2, <1>13, <2>1 DEF Backoff, PostTo, At, Goto, IInv, TypeOK
    <3> QED BY <3>1, <3>2, OthersKeep
  <2> QED BY <2>2, <2>3 DEF IInv
<1>14. CASE GiveUp(c)
  <2>1. posts[c] \in 0 .. 1 + MaxRetries
    BY PlacesCount, <1>1, <1>2, <1>14 DEF GiveUp, At
  <2> QED BY <1>14, <2>1, EscapeIInv DEF GiveUp, At
<1>15. CASE BackoffAnswered(c)
  <2>1. pc[c] = "relimited" /\ UNCHANGED external
    BY <1>15 DEF BackoffAnswered, At
  <2>2. posts[c] = 1 + tries[c] /\ posts[c] \in 0 .. 1 + MaxRetries
    BY <1>1, <1>2, <2>1, PlacesCount
  <2>3. CASE Goto(c, "backoff") /\ UNCHANGED <<shared, url, tries, posts, result>>
    <3>1. TypeOK'
      BY <2>1, <2>3 DEF Goto, external, shared, IInv, TypeOK
    <3>2. PostsCounted'
      <4>1. posts'[c] \in PostsAt(pc'[c], tries'[c])
        BY <2>2, <2>3, PlacesCount DEF Goto, IInv, TypeOK
      <4>2. \A d \in Callers : d # c => pc'[d] = pc[d] /\ tries'[d] = tries[d] /\ posts'[d] = posts[d]
        BY <2>2, <2>3 DEF Goto, IInv, TypeOK
      <4> QED BY <4>1, <4>2, OthersKeep
    <3> QED BY <3>1, <3>2 DEF IInv
  <2>4. CASE Finish(c, "ok") /\ UNCHANGED <<shared, url, tries, posts>>
    <3>1. TypeOK'
      BY <2>1, <2>4 DEF Finish, Goto, external, shared, IInv, TypeOK
    <3>2. PostsCounted'
      <4>1. posts'[c] \in PostsAt(pc'[c], tries'[c])
        BY <2>2, <2>4, PlacesCount DEF Finish, Goto, IInv, TypeOK
      <4>2. \A d \in Callers : d # c => pc'[d] = pc[d] /\ tries'[d] = tries[d] /\ posts'[d] = posts[d]
        BY <2>2, <2>4 DEF Finish, Goto, IInv, TypeOK
      <4> QED BY <4>1, <4>2, OthersKeep
    <3> QED BY <3>1, <3>2 DEF IInv
  <2>5. CASE Escape(c, health[url[c]])
    BY <2>1, <2>2, <2>5, EscapeIInv
  <2> QED BY <1>15, <2>3, <2>4, <2>5 DEF BackoffAnswered
<1> QED
  BY <1>3, <1>4, <1>5, <1>6, <1>7, <1>8, <1>9, <1>10, <1>11, <1>12, <1>13, <1>14, <1>15 DEF Step

LEMMA Inductive == Spec => []IInv
<1>1. IInv /\ [Next]_vars => IInv'
  <2> SUFFICES ASSUME IInv, [Next]_vars PROVE IInv'
    OBVIOUS
  <2>1. CASE UNCHANGED vars
    BY <2>1 DEF vars, external, shared, local, IInv, TypeOK, PostsCounted, PostsAt
  <2>2. CASE Flap
    <3>1. Outcomes \subseteq Healths /\ MaxFlaps \in Nat
      BY CallAssumption DEF CallAssumption
    <3>2. TypeOK'
      BY <2>2, <3>1 DEF Flap, shared, local, IInv, TypeOK
    <3>3. PostsCounted'
      BY <2>2 DEF Flap, shared, local, IInv, PostsCounted, PostsAt
    <3> QED BY <3>2, <3>3 DEF IInv
  <2> QED BY <2>1, <2>2, StepIInv DEF Next
<1> QED BY <1>1, InitIInv, PTL DEF Spec

-----------------------------------------------------------------------------
\* call() and reset_connection() keep the shared flag and counter in their
\* types, however many calls are between two awaits at once.
THEOREM TypeCorrect == Spec => []TypeOK
<1>1. IInv => TypeOK
  BY DEF IInv
<1> QED BY <1>1, Inductive, PTL

\* The retries of call() are bounded for any answers and any interleaving.
THEOREM PostsBounded == Spec => []RetriesBounded
<1>1. IInv => RetriesBounded
  <2> SUFFICES ASSUME IInv, NEW c \in Callers PROVE posts[c] <= 1 + MaxRetries
    BY DEF RetriesBounded
  <2>1. MaxRetries \in Nat /\ MaxRetries > 0
    BY CallAssumption DEF CallAssumption
  <2>2. /\ posts[c] \in PostsAt(pc[c], tries[c]) /\ tries[c] \in 0 .. MaxRetries
        /\ posts[c] \in Nat
    BY DEF IInv, PostsCounted, TypeOK
  <2> QED BY <2>1, <2>2 DEF PostsAt
<1> QED BY <1>1, Inductive, PTL
=============================================================================

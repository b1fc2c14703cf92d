---------------------------- MODULE RateLimiter ----------------------------
(***************************************************************************)
(* infra/rate_limiter.py: TokenBucketRateLimiter, one asyncio lock around a  *)
(* token bucket.  The coroutine that finds less than one token keeps the     *)
(* lock while it sleeps.                                                     *)
(*                                                                           *)
(* Tokens are counted in parts: Unit parts make one token and Rate parts     *)
(* are earned per tick of time.monotonic(), so that fractional tokens are    *)
(* integers.  Time is kept relative: elapsed is now - last_refill and        *)
(* sleepFor is what is left of asyncio.sleep(wait_time).                     *)
(***************************************************************************)
EXTENDS Integers, Sequences, SequencesExt

CONSTANTS Clients,    \* the coroutines that call acquire()
          Capacity,   \* self.capacity, in tokens
          Unit,       \* parts in one token
          Rate,       \* parts earned per tick
          MaxElapsed, \* bound: elapsed is not counted past this many ticks
          NoOne       \* the lock is free

ASSUME LimiterAssumption ==
  /\ Capacity \in Nat \ {0}
  /\ Unit \in Nat \ {0}
  /\ Rate \in Nat \ {0}
  /\ MaxElapsed \in Nat
  /\ MaxElapsed * Rate >= Capacity * Unit  \* at the bound the bucket is full
  /\ NoOne \notin Clients

VARIABLES
  tokens,    \* self.tokens, in parts
  elapsed,   \* time.monotonic() - self.last_refill, in ticks
  lockQueue, \* coroutines waiting for self._lock, oldest first
  sleeper,   \* the coroutine that sleeps inside the lock, or NoOne
  sleepFor,  \* ticks its asyncio.sleep still has to run
  excess     \* history: see WindowBound

limiterVars == <<tokens, elapsed, lockQueue, sleeper, sleepFor, excess>>

Least(a, b) == IF a <= b THEN a ELSE b

Full == Capacity * Unit

\* Fault: the refill forgets the capacity.
RefilledUncapped == tokens + elapsed * Rate

\* min(self.capacity, self.tokens + elapsed * self.rate)
Refilled == Least(Full, tokens + elapsed * Rate)

\* wait_time = (1 - self.tokens) / self.rate, in whole ticks (rounded up: a
\* sleep never ends early)
WaitTime(have) == (Unit - have + Rate - 1) \div Rate

Waiting(c) == c = sleeper \/ Contains(lockQueue, c)

LimiterInit ==
  /\ tokens = Full
  /\ elapsed = 0
  /\ lockQueue = << >>
  /\ sleeper = NoOne
  /\ sleepFor = 0
  /\ excess = 0

\* One tick of the monotonic clock.
Tick ==
  /\ elapsed' = Least(elapsed + 1, MaxElapsed)
  /\ sleepFor' = IF sleepFor > 0 THEN sleepFor - 1 ELSE 0
  /\ excess' = IF excess > Rate THEN excess - Rate ELSE 0
  /\ UNCHANGED <<tokens, lockQueue, sleeper>>

\* Fault: the lock serves the newest waiter first.
RequestNewestFirst(c) ==
  /\ ~Waiting(c)
  /\ lockQueue' = <<c>> \o lockQueue
  /\ UNCHANGED <<tokens, elapsed, sleeper, sleepFor, excess>>

\* `async with self._lock`: asyncio.Lock serves its waiters in order.
Request(c) ==
  /\ ~Waiting(c)
  /\ lockQueue' = Append(lockQueue, c)
  /\ UNCHANGED <<tokens, elapsed, sleeper, sleepFor, excess>>

\* The lock is free, the oldest waiter refills and takes a token: no await
\* between acquiring the lock and releasing it.
TakeToken ==
  /\ sleeper = NoOne
  /\ lockQueue # << >>
  /\ Refilled >= Unit
  /\ tokens' = Refilled - Unit
  /\ elapsed' = 0
  /\ lockQueue' = Tail(lockQueue)
  /\ excess' = excess + Unit
  /\ UNCHANGED <<sleeper, sleepFor>>

\* The oldest waiter refills, finds less than a token and sleeps with the lock.
StartSleep ==
  /\ sleeper = NoOne
  /\ lockQueue # << >>
  /\ Refilled < Unit
  /\ tokens' = Refilled
  /\ elapsed' = 0
  /\ lockQueue' = Tail(lockQueue)
  /\ sleeper' = Head(lockQueue)
  /\ sleepFor' = WaitTime(Refilled)
  /\ UNCHANGED excess

\* Fault: last_refill is not moved after the sleep, the slept time counts twice.
WakeUpKeepsClock ==
  /\ sleeper # NoOne
  /\ sleepFor = 0
  /\ tokens' = 0
  /\ sleeper' = NoOne
  /\ excess' = excess + Unit
  /\ UNCHANGED <<elapsed, lockQueue, sleepFor>>

\* The sleep is over, on time or late: what accrued meanwhile is thrown away.
WakeUp ==
  /\ sleeper # NoOne
  /\ sleepFor = 0
  /\ tokens' = 0
  /\ elapsed' = 0
  /\ sleeper' = NoOne
  /\ excess' = excess + Unit
  /\ UNCHANGED <<lockQueue, sleepFor>>

\* The calling task is cancelled while it waits for the lock or sleeps; the
\* `async with` block releases the lock.
Cancel(c) ==
  \/ /\ \E i \in DOMAIN lockQueue :
           lockQueue[i] = c /\ lockQueue' = RemoveAt(lockQueue, i)
     /\ UNCHANGED <<tokens, elapsed, sleeper, sleepFor, excess>>
  \/ /\ c = sleeper
     /\ sleeper' = NoOne
     /\ sleepFor' = 0
     /\ UNCHANGED <<tokens, elapsed, lockQueue, excess>>

LimiterNext ==
  \/ Tick
  \/ TakeToken
  \/ StartSleep
  \/ WakeUp
  \/ \E c \in Clients : Request(c) \/ Cancel(c)

LimiterSpec == LimiterInit /\ [][LimiterNext]_limiterVars

\* Time passes, and the event loop runs every coroutine that is ready.
LimiterFairness ==
  /\ WF_limiterVars(Tick)
  /\ WF_limiterVars(TakeToken)
  /\ WF_limiterVars(StartSleep)
  /\ WF_limiterVars(WakeUp)

FairLimiterSpec == LimiterSpec /\ LimiterFairness

-----------------------------------------------------------------------------
\* Every variable keeps its type (TokenBucketRateLimiter's fields).
LimiterTypeOK ==
  /\ tokens \in 0..Full
  /\ elapsed \in 0..MaxElapsed
  /\ lockQueue \in Seq(Clients)
  /\ sleeper \in Clients \cup {NoOne}
  /\ sleepFor \in Nat
  /\ excess \in Nat

\* What the limiter promises its callers: in EVERY window of time, of any
\* length, acquire() lets at most Capacity + rate * length calls through.
\* excess is the largest value, over the windows that end now, of
\*    Unit * (calls let through in the window) - Rate * (its ticks),
\* and the promise is that it never exceeds a full bucket.
WindowBound == excess <= Full

\* A coroutine in acquire() gets its token (or is cancelled): nobody is left
\* behind the lock by a sleeper, also when the sleeper is cancelled.
EveryCallReturns == \A c \in Clients : Waiting(c) ~> ~Waiting(c)

\* What makes WindowBound inductive: calls let through and tokens in the
\* bucket come out of the same budget, and a sleeper's token is accrued by
\* the time it wakes.
BudgetInv ==
  /\ excess + Refilled <= Full
  /\ sleeper # NoOne => tokens + (elapsed + sleepFor) * Rate >= Unit
=============================================================================

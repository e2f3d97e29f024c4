-------------------------- MODULE ResilientGateway --------------------------
(***************************************************************************)
(* The model gateway's resilience stack (integrations/llm/client.py):      *)
(* callers share one circuit breaker, and each logical call makes bounded  *)
(* attempts with backoff.  Time is counted in ticks; a clock the code      *)
(* subtracts from is kept as an age, and an age saturates where the code   *)
(* stops telling values apart.  An await that cannot block (an uncontended *)
(* asyncio.Lock around straight-line code, a sink that only logs) is no    *)
(* interleaving point, so the end of an attempt, what the breaker records  *)
(* and the telemetry record are one step.                                  *)
(***************************************************************************)
EXTENDS Integers

CONSTANTS
  Calls,        \* callers of the gateway; each makes one call at a time
  Threshold,    \* failure_threshold
  Reset,        \* reset_timeout_seconds
  MaxAttempts,  \* max_attempts
  BaseDelay,    \* base_delay_seconds
  MaxDelay,     \* max_delay_seconds
  MaxElapsed,   \* max_elapsed_seconds
  Timeout       \* longest silence within an attempt: httpx times out a
                \* connect, a read, a write, a wait for the pool, each by itself

ASSUME GatewayAssumption ==
  /\ Threshold \in Nat \ {0}
  /\ MaxAttempts \in Nat \ {0}
  /\ Timeout \in Nat \ {0}
  /\ Reset \in Nat /\ BaseDelay \in Nat
  /\ MaxDelay \in Nat /\ MaxElapsed \in Nat

VARIABLES
  breaker,  \* InMemoryCircuitBreaker; age counts from _opened_at
  call,     \* each caller's _call, and the telemetry outcome it left
  calm,     \* environment: from now on every attempt succeeds
  recent    \* history: consecutive failures recorded, ticks since the last

vars == <<breaker, call, calm, recent>>

Upto(bound, x) == IF x < bound THEN x ELSE bound

\* Past this age of a call nothing asks how old it is.
Ceiling == MaxElapsed + MaxDelay

Breaker  == [failures: 0..Threshold, opened: BOOLEAN, age: 0..Reset, halfOpen: BOOLEAN]
Phases   == {"idle", "attempt", "backoff", "done"}
Outcomes == {"none", "success", "error", "circuit_open", "lost"}
Kinds    == {"unavailable", "rate_limited", "fatal"}
Call     == [phase: Phases, n: 0..MaxAttempts, elapsed: 0..Ceiling, left: Nat,
             outcome: Outcomes]

TypeOK ==
  /\ breaker \in Breaker
  /\ call \in [Calls -> Call]
  /\ calm \in BOOLEAN
  /\ recent \in [streak: 0..Threshold, since: 0..Reset]

Closed == [failures |-> 0, opened |-> FALSE, age |-> 0, halfOpen |-> FALSE]
Idle   == [phase |-> "idle", n |-> 0, elapsed |-> 0, left |-> 0,
           outcome |-> "none"]

Init ==
  /\ breaker = Closed
  /\ call = [c \in Calls |-> Idle]
  /\ calm \in BOOLEAN
  /\ recent = [streak |-> 0, since |-> Reset]

-----------------------------------------------------------------------------
(* The circuit breaker.                                                    *)

State == IF ~breaker.opened THEN "closed" ELSE IF breaker.halfOpen THEN "half_open" ELSE "open"

\* Mutant: the window never ends.
AllowAfterWindow == breaker.opened => breaker.age > Reset

Allow == breaker.opened => breaker.age >= Reset

Admitted == [breaker EXCEPT !.halfOpen = breaker.opened]

\* Mutants: a success that keeps the count; one that leaves the circuit open.
AfterSuccessKeepsCount == [breaker EXCEPT !.opened = FALSE, !.age = 0, !.halfOpen = FALSE]
AfterSuccessStaysOpen  == [breaker EXCEPT !.failures = 0]

AfterSuccess == Closed

AfterFailure ==
  IF breaker.halfOpen \/ breaker.failures + 1 >= Threshold
    THEN [failures |-> Upto(Threshold, breaker.failures + 1), opened |-> TRUE,
          age |-> 0, halfOpen |-> FALSE]
    ELSE [breaker EXCEPT !.failures = @ + 1]

-----------------------------------------------------------------------------
(* One logical call.                                                       *)

Busy(c) == call[c].phase \in {"attempt", "backoff"}

\* _call up to the first attempt: admitted, perhaps as a probe, or refused.
Begin(c) ==
  /\ ~Busy(c)
  /\ Allow
  /\ breaker' = Admitted
  /\ call' = [call EXCEPT ![c] = [phase |-> "attempt", n |-> 1, elapsed |-> 0,
                                  left |-> Timeout, outcome |-> "none"]]
  /\ UNCHANGED <<calm, recent>>

Ended(k, outcome) ==
  [phase |-> "done", n |-> k.n, elapsed |-> k.elapsed, left |-> 0,
   outcome |-> outcome]

Refuse(c) ==
  /\ ~Busy(c)
  /\ ~Allow
  /\ call' = [call EXCEPT ![c] = Ended(Idle, "circuit_open")]
  /\ UNCHANGED <<breaker, calm, recent>>

End(c, outcome) == call' = [call EXCEPT ![c] = Ended(@, outcome)]

Succeed(c) ==
  /\ call[c].phase = "attempt"
  /\ breaker' = AfterSuccess
  /\ recent' = [recent EXCEPT !.streak = 0]
  /\ End(c, "success")
  /\ UNCHANGED calm

\* Mutant: no look at the elapsed time.
MayRetryAnyTime(c, kind) == kind # "fatal" /\ call[c].n < MaxAttempts

MayRetry(c, kind) ==
  /\ kind # "fatal"
  /\ call[c].n < MaxAttempts
  /\ call[c].elapsed < MaxElapsed

\* A Retry-After may be any value up to the cap; our own backoff is jittered
\* under the exponential ceiling.
Delays(kind, n) ==
  {d \in 0..MaxDelay : kind = "rate_limited" \/ d <= BaseDelay * 2^(n - 1)}

\* A phase of the attempt ends in time, or a piece of the answer comes, and the
\* next silence is timed anew: an attempt as a whole has no bound.
Hear(c) ==
  /\ call[c].phase = "attempt"
  /\ call[c].left < Timeout
  /\ call' = [call EXCEPT ![c].left = Timeout]
  /\ UNCHANGED <<breaker, calm, recent>>

\* What an attempt may fail with.  "fatal" is every error not retried: a bad
\* request, refused credentials, an unusable answer, a cancelled attempt.
Fails(c, kind) ==
  /\ call[c].phase = "attempt"
  /\ ~calm
  /\ call[c].left = 0 => kind = "unavailable"

Backoff(c, kind) ==
  /\ Fails(c, kind)
  /\ MayRetry(c, kind)
  /\ \E d \in Delays(kind, call[c].n) :
       call' = [call EXCEPT ![c].phase = "backoff", ![c].left = d]
  /\ UNCHANGED <<breaker, calm, recent>>

GiveUp(c, kind) ==
  /\ Fails(c, kind)
  /\ ~MayRetry(c, kind)
  /\ breaker' = AfterFailure
  /\ recent' = [streak |-> Upto(Threshold, recent.streak + 1), since |-> 0]
  /\ End(c, "error")
  /\ UNCHANGED calm

\* asyncio.sleep returns and the loop goes round: the breaker is not asked.
Wake(c) ==
  /\ call[c].phase = "backoff"
  /\ call[c].left = 0
  /\ call' = [call EXCEPT ![c].phase = "attempt", ![c].n = @ + 1, ![c].left = Timeout]
  /\ UNCHANGED <<breaker, calm, recent>>

\* A cancelled sleep, or an exception that is not a ModelGatewayError, leaves
\* _call without telling the breaker or the telemetry sink.
Lose(c) ==
  /\ Busy(c)
  /\ ~calm
  /\ End(c, "lost")
  /\ UNCHANGED <<breaker, calm, recent>>

\* Time passes for everyone, but not over a timeout or wake-up that is due.
Tick ==
  /\ \A c \in Calls : Busy(c) => call[c].left > 0
  /\ call' = [c \in Calls |->
       IF Busy(c)
       THEN [call[c] EXCEPT !.elapsed = Upto(Ceiling, @ + 1), !.left = @ - 1]
       ELSE call[c]]
  /\ breaker' = [breaker EXCEPT !.age = IF breaker.opened THEN Upto(Reset, @ + 1) ELSE @]
  /\ recent' = [recent EXCEPT !.since = Upto(Reset, @ + 1)]
  /\ UNCHANGED calm

Calm == ~calm /\ calm' = TRUE /\ UNCHANGED <<breaker, call, recent>>

Next ==
  \/ Tick
  \/ Calm
  \/ \E c \in Calls :
       \/ Begin(c) \/ Refuse(c) \/ Hear(c) \/ Succeed(c) \/ Wake(c) \/ Lose(c)
       \/ \E kind \in Kinds : Backoff(c, kind) \/ GiveUp(c, kind)

Spec == Init /\ [][Next]_vars

\* Time passes, timers fire, the provider answers once calm, and callers come.
Fairness ==
  /\ WF_vars(Tick)
  /\ \A c \in Calls : WF_vars(Begin(c)) /\ WF_vars(Succeed(c)) /\ WF_vars(Wake(c))

FairSpec == Spec /\ Fairness

-----------------------------------------------------------------------------
(* Properties.                                                             *)

(***************************************************************************)
(* "Consecutive failures, not lifetime failures, open the circuit": with   *)
(* calls of many callers ending in any order, it is open exactly when the  *)
(* last Threshold outcomes recorded were failures.                         *)
(***************************************************************************)
OpenExactlyAfterStreak == breaker.opened <=> recent.streak = Threshold

(***************************************************************************)
(* The breaker refuses only while a failure is fresh: late failures of     *)
(* calls admitted earlier extend the window, and nothing else does.        *)
(***************************************************************************)
RefusedOnlyAfterRecentFailure ==
  [][\A c \in Calls : call'[c] # call[c] /\ call'[c].outcome = "circuit_open"
                        => recent.since < Reset]_vars

(***************************************************************************)
(* Half-open means the provider was left alone: no failure was recorded    *)
(* for a whole reset window before the probe was admitted or since.        *)
(***************************************************************************)
HalfOpenOnlyAfterQuiet == breaker.halfOpen => breaker.opened /\ recent.since = Reset

(***************************************************************************)
(* A permission does not last: an attempt that a backoff led to begins     *)
(* less than the elapsed ceiling plus one backoff after its call was       *)
(* admitted, and if it is sent while the circuit refuses other callers,    *)
(* its call was admitted before the circuit opened.                        *)
(***************************************************************************)
NoLateAttempt ==
  [][\A c \in Calls :
       call[c].phase = "backoff" /\ call'[c].phase = "attempt" =>
         /\ call[c].elapsed < Ceiling
         /\ ~Allow => breaker.age <= call[c].elapsed]_vars

(***************************************************************************)
(* Once attempts succeed again and callers keep coming, the circuit closes *)
(* and stays closed: a probe is always let through in the end.             *)
(***************************************************************************)
Recovers == <>[]calm => <>[](State = "closed")
=============================================================================

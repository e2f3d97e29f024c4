----------------------- MODULE ResilientGatewayProofs -----------------------
(***************************************************************************)
(* Proofs about ResilientGateway, for any number of callers and any        *)
(* thresholds, delays and timeouts.                                        *)
(***************************************************************************)
EXTENDS ResilientGateway, TLAPS

(***************************************************************************)
(* The breaker's own count and clock agree with what was recorded, and     *)
(* half-open is a state of an open circuit whose window has passed.        *)
(***************************************************************************)
BreakerAgrees ==
  /\ breaker.failures = recent.streak
  /\ breaker.opened <=> recent.streak = Threshold
  /\ breaker.opened => breaker.age = recent.since
  /\ breaker.halfOpen => breaker.opened /\ breaker.age = Reset

(***************************************************************************)
(* A backoff starts below the elapsed ceiling and before the last attempt, *)
(* so what is left of it does not reach the ceiling plus one backoff, nor  *)
(* is the attempt after it one too many.                                   *)
(***************************************************************************)
TimeLeft ==
  \A c \in Calls :
    call[c].phase = "backoff" =>
      /\ call[c].elapsed + call[c].left < Ceiling
      /\ call[c].n < MaxAttempts

(***************************************************************************)
(* A call was admitted by a breaker that let callers in, so one that still *)
(* runs while the breaker does not is at least as old as the open window,  *)
(* as far as its age is told.                                              *)
(***************************************************************************)
AdmittedBefore ==
  \A c \in Calls : Busy(c) /\ ~Allow => Upto(Ceiling, breaker.age) <= call[c].elapsed

(***************************************************************************)
(* A call that has an outcome is over.                                     *)
(***************************************************************************)
BusyHasNoOutcome == \A c \in Calls : Busy(c) => call[c].outcome = "none"

IInv == TypeOK /\ BreakerAgrees /\ TimeLeft /\ AdmittedBefore /\ BusyHasNoOutcome

USE GatewayAssumption

(***************************************************************************)
(* Saturating addition stays in range.                                     *)
(***************************************************************************)
LEMMA UptoRange ==
  ASSUME NEW bound \in Nat, NEW x \in Nat
  PROVE  Upto(bound, x) \in 0..bound
  BY DEF Upto

LEMMA CeilingNat == Ceiling \in Nat
  BY DEF Ceiling

(***************************************************************************)
(* What the breaker becomes after an outcome is a well-typed breaker.      *)
(***************************************************************************)
LEMMA BreakerTypes ==
  ASSUME breaker \in Breaker
  PROVE  /\ Admitted \in Breaker
         /\ AfterSuccess \in Breaker
         /\ AfterFailure \in Breaker
<1>1. Admitted \in Breaker
  BY DEF Admitted, Breaker
<1>2. AfterSuccess \in Breaker
  BY DEF AfterSuccess, Closed, Breaker
<1>3. AfterFailure \in Breaker
  <2>1. Upto(Threshold, breaker.failures + 1) \in 0..Threshold
    <3>1. Threshold \in Nat /\ breaker.failures + 1 \in Nat
      BY DEF Breaker
    <3> QED BY <3>1, UptoRange
  <2>2. CASE breaker.halfOpen \/ breaker.failures + 1 >= Threshold
    BY <2>1, <2>2 DEF AfterFailure, Breaker
  <2>3. CASE ~(breaker.halfOpen \/ breaker.failures + 1 >= Threshold)
    BY <2>3 DEF AfterFailure, Breaker
  <2> QED BY <2>2, <2>3
<1> QED BY <1>1, <1>2, <1>3

LEMMA InitIInv == Init => IInv
<1> SUFFICES ASSUME Init PROVE IInv
  OBVIOUS
<1>1. TypeOK
  BY CeilingNat DEF Init, TypeOK, Closed, Idle, Breaker, Call, Phases, Outcomes
<1>2. BreakerAgrees
  BY DEF Init, BreakerAgrees, Closed
<1>3. TimeLeft
  BY DEF Init, TimeLeft, Idle
<1>4. BusyHasNoOutcome
  BY DEF Init, BusyHasNoOutcome, Busy, Idle
<1>5. AdmittedBefore
  BY DEF Init, AdmittedBefore, Busy, Idle
<1> QED BY <1>1, <1>2, <1>3, <1>4, <1>5 DEF IInv

(***************************************************************************)
(* Ending a call, and the record of a refused one, keep the calls typed.   *)
(***************************************************************************)
LEMMA EndTypes ==
  ASSUME call \in [Calls -> Call], NEW c \in Calls, NEW o \in Outcomes,
         End(c, o) \/ call' = [call EXCEPT ![c] = Ended(Idle, o)]
  PROVE  call' \in [Calls -> Call]
<1>1. Ended(call[c], o) \in Call /\ Ended(Idle, o) \in Call
  BY CeilingNat DEF Ended, Idle, Call, Phases
<1> QED BY <1>1 DEF End

(***************************************************************************)
(* Every step keeps the types.                                             *)
(***************************************************************************)
LEMMA StepTypeOK == IInv /\ [Next]_vars => TypeOK'
<1> SUFFICES ASSUME IInv, [Next]_vars PROVE TypeOK'
  OBVIOUS
<1>t. TypeOK
  BY DEF IInv
<1>1. CASE Tick
  <2>1. call' \in [Calls -> Call]
    <3> SUFFICES ASSUME NEW c \in Calls PROVE call'[c] \in Call
      BY <1>1 DEF Tick
    <3>t. call[c] \in Call
      BY <1>t DEF TypeOK
    <3>1. CASE Busy(c)
      <4>1. /\ call'[c] = [call[c] EXCEPT !.elapsed = Upto(Ceiling, @ + 1), !.left = @ - 1]
            /\ call[c].left > 0
        BY <1>1, <3>1 DEF Tick
      <4>2. Upto(Ceiling, call[c].elapsed + 1) \in 0..Ceiling /\ call[c].left - 1 \in Nat
        <5>1. call[c].elapsed + 1 \in Nat
          BY <3>t, CeilingNat DEF Call
        <5> QED BY <3>t, <4>1, <5>1, CeilingNat, UptoRange DEF Call
      <4> QED BY <3>t, <4>1, <4>2 DEF Call
    <3>2. CASE ~Busy(c)
      BY <1>1, <3>t, <3>2 DEF Tick
    <3> QED BY <3>1, <3>2
  <2>2. Upto(Reset, breaker.age + 1) \in 0..Reset /\ Upto(Reset, recent.since + 1) \in 0..Reset
    <3>1. Reset \in Nat /\ breaker.age + 1 \in Nat /\ recent.since + 1 \in Nat
      BY <1>t DEF TypeOK, Breaker
    <3> QED BY <3>1, UptoRange
  <2>3. breaker' \in Breaker
    BY <1>t, <1>1, <2>2 DEF TypeOK, Tick, Breaker
  <2>4. recent' \in [streak: 0..Threshold, since: 0..Reset]
    BY <1>t, <1>1, <2>2 DEF TypeOK, Tick
  <2> QED BY <1>t, <1>1, <2>1, <2>3, <2>4 DEF TypeOK, Tick
<1>2. CASE Calm
  BY <1>t, <1>2 DEF TypeOK, Calm
<1>3. ASSUME NEW c \in Calls, Begin(c) PROVE TypeOK'
  <2>1. breaker' \in Breaker
    BY <1>t, <1>3, BreakerTypes DEF TypeOK, Begin
  <2>2. call' \in [Calls -> Call]
    BY <1>t, <1>3, CeilingNat DEF TypeOK, Begin, Call, Phases, Outcomes, Breaker
  <2> QED BY <1>t, <1>3, <2>1, <2>2 DEF TypeOK, Begin
<1>4. ASSUME NEW c \in Calls, Refuse(c) PROVE TypeOK'
  BY <1>t, <1>4, EndTypes DEF TypeOK, Refuse, Outcomes
<1>5. ASSUME NEW c \in Calls, Succeed(c) PROVE TypeOK'
  <2>1. breaker' \in Breaker
    BY <1>t, <1>5, BreakerTypes DEF TypeOK, Succeed
  <2> QED BY <1>t, <1>5, <2>1, EndTypes DEF TypeOK, Succeed, Outcomes
<1>6. ASSUME NEW c \in Calls, Wake(c) PROVE TypeOK'
  <2>1. call[c].n + 1 \in 0..MaxAttempts
    BY <1>t, <1>6 DEF IInv, TimeLeft, TypeOK, Wake, Call
  <2> QED BY <1>t, <1>6, <2>1 DEF TypeOK, Wake, Call, Phases
<1>7. ASSUME NEW c \in Calls, Lose(c) PROVE TypeOK'
  BY <1>t, <1>7, EndTypes DEF TypeOK, Lose, Outcomes
<1>8. ASSUME NEW c \in Calls, NEW kind \in Kinds, Backoff(c, kind) PROVE TypeOK'
  <2>1. PICK w \in 0..MaxDelay :
          call' = [call EXCEPT ![c].phase = "backoff", ![c].left = w]
    BY <1>8 DEF Backoff, Delays
  <2>2. w \in Nat
    OBVIOUS
  <2>3. call' \in [Calls -> Call]
    BY <1>t, <2>1, <2>2 DEF TypeOK, Call, Phases
  <2> QED BY <1>t, <1>8, <2>3 DEF TypeOK, Backoff
<1>9. ASSUME NEW c \in Calls, NEW kind \in Kinds, GiveUp(c, kind) PROVE TypeOK'
  <2>1. breaker' \in Breaker
    BY <1>t, <1>9, BreakerTypes DEF TypeOK, GiveUp
  <2>2. Upto(Threshold, recent.streak + 1) \in 0..Threshold
    <3>1. Threshold \in Nat /\ recent.streak + 1 \in Nat
      BY <1>t DEF TypeOK
    <3> QED BY <3>1, UptoRange
  <2>3. recent' \in [streak: 0..Threshold, since: 0..Reset]
    BY <1>9, <2>2 DEF GiveUp
  <2> QED BY <1>t, <1>9, <2>1, <2>3, EndTypes DEF TypeOK, GiveUp, Outcomes
<1>10. CASE UNCHANGED vars
  BY <1>t, <1>10 DEF TypeOK, vars
<1>11. ASSUME NEW c \in Calls, Hear(c) PROVE TypeOK'
  BY <1>t, <1>11 DEF TypeOK, Hear, Call
<1> QED BY <1>1, <1>2, <1>3, <1>4, <1>5, <1>6, <1>7, <1>8, <1>9, <1>10, <1>11 DEF Next

(***************************************************************************)
(* What is recorded of an outcome keeps the breaker and the record agreed. *)
(***************************************************************************)
LEMMA StepBreaker == IInv /\ [Next]_vars => BreakerAgrees'
<1> SUFFICES ASSUME IInv, [Next]_vars PROVE BreakerAgrees'
  OBVIOUS
<1>t. /\ breaker \in Breaker
      /\ recent \in [streak: 0..Threshold, since: 0..Reset]
      /\ BreakerAgrees
  BY DEF IInv, TypeOK
<1>1. CASE Tick
  <2>1. breaker' = [breaker EXCEPT !.age = IF breaker.opened THEN Upto(Reset, @ + 1) ELSE @]
        /\ recent' = [recent EXCEPT !.since = Upto(Reset, @ + 1)]
    BY <1>1 DEF Tick
  <2>2. breaker.halfOpen => Upto(Reset, breaker.age + 1) = Reset
    BY <1>t DEF BreakerAgrees, Upto
  <2> QED BY <1>t, <2>1, <2>2 DEF BreakerAgrees, Breaker
<1>2. ASSUME NEW c \in Calls, Begin(c) PROVE BreakerAgrees'
  BY <1>t, <1>2 DEF Begin, Admitted, Allow, BreakerAgrees, Breaker
<1>3. ASSUME NEW c \in Calls, Succeed(c) PROVE BreakerAgrees'
  <2>1. /\ breaker' = Closed
        /\ recent' = [recent EXCEPT !.streak = 0]
    BY <1>3 DEF Succeed, AfterSuccess
  <2>2. recent'.streak = 0 /\ Threshold # 0
    BY <1>t, <2>1
  <2> QED BY <2>1, <2>2 DEF BreakerAgrees, Closed
<1>4. ASSUME NEW c \in Calls, NEW kind \in Kinds, GiveUp(c, kind) PROVE BreakerAgrees'
  <2>1. /\ breaker' = AfterFailure
        /\ recent' = [streak |-> Upto(Threshold, recent.streak + 1), since |-> 0]
    BY <1>4 DEF GiveUp
  <2>2. CASE breaker.halfOpen \/ breaker.failures + 1 >= Threshold
    <3>1. Upto(Threshold, recent.streak + 1) = Threshold
      BY <1>t, <2>2 DEF BreakerAgrees, Upto, Breaker
    <3> QED BY <1>t, <2>1, <2>2, <3>1 DEF AfterFailure, BreakerAgrees
  <2>3. CASE ~(breaker.halfOpen \/ breaker.failures + 1 >= Threshold)
    <3>1. Upto(Threshold, recent.streak + 1) = recent.streak + 1
          /\ ~breaker.opened /\ recent.streak + 1 < Threshold
      BY <1>t, <2>3 DEF BreakerAgrees, Upto, Breaker
    <3>2. breaker' = [breaker EXCEPT !.failures = @ + 1]
      BY <2>1, <2>3 DEF AfterFailure
    <3> QED BY <1>t, <2>1, <2>3, <3>1, <3>2 DEF BreakerAgrees, Breaker
  <2> QED BY <2>2, <2>3
<1>5. CASE UNCHANGED <<breaker, recent>>
  BY <1>t, <1>5 DEF BreakerAgrees
<1>6. ASSUME NEW c \in Calls, NEW kind \in Kinds,
             Refuse(c) \/ Hear(c) \/ Wake(c) \/ Lose(c) \/ Backoff(c, kind)
      PROVE  UNCHANGED <<breaker, recent>>
  BY <1>6 DEF Refuse, Hear, Wake, Lose, Backoff
<1>7. Calm \/ UNCHANGED vars => UNCHANGED <<breaker, recent>>
  BY DEF Calm, vars
<1>8. "fatal" \in Kinds
  BY DEF Kinds
<1> QED BY <1>1, <1>2, <1>3, <1>4, <1>5, <1>6, <1>7, <1>8 DEF Next

(***************************************************************************)
(* No step lets a backoff reach past the ceiling plus one backoff.         *)
(***************************************************************************)
LEMMA StepTimeLeft == IInv /\ [Next]_vars => TimeLeft'
<1> SUFFICES ASSUME IInv, [Next]_vars, NEW d \in Calls, call'[d].phase = "backoff"
             PROVE  call'[d].elapsed + call'[d].left < Ceiling /\ call'[d].n < MaxAttempts
  BY DEF TimeLeft
<1> DEFINE Fine(k) == k.elapsed + k.left < Ceiling /\ k.n < MaxAttempts
<1>t. /\ call \in [Calls -> Call] /\ call[d] \in Call
      /\ call[d].phase = "backoff" => Fine(call[d])
  BY DEF IInv, TypeOK, TimeLeft
<1> SUFFICES Fine(call'[d])
  OBVIOUS
<1>1. CASE Tick
  <2>1. CASE Busy(d)
    <3>1. call'[d] = [call[d] EXCEPT !.elapsed = Upto(Ceiling, @ + 1), !.left = @ - 1]
          /\ call[d].left > 0
      BY <1>1, <2>1 DEF Tick
    <3> QED BY <1>t, <3>1, CeilingNat DEF Call, Upto
  <2>2. CASE ~Busy(d)
    BY <1>t, <1>1, <2>2 DEF Tick, Busy
  <2> QED BY <2>1, <2>2
<1>2. CASE Calm \/ UNCHANGED vars
  BY <1>t, <1>2 DEF Calm, vars
<1>3. ASSUME NEW c \in Calls, Begin(c) \/ Refuse(c) \/ Hear(c) \/ Wake(c)
      PROVE  Fine(call'[d])
  BY <1>t, <1>3 DEF Begin, Refuse, Hear, Wake, Ended, Call
<1>4. ASSUME NEW c \in Calls, NEW o \in Outcomes, End(c, o) PROVE Fine(call'[d])
  BY <1>t, <1>4 DEF End, Ended, Call
<1>6. ASSUME NEW c \in Calls, NEW kind \in Kinds, Backoff(c, kind) PROVE Fine(call'[d])
  <2>1. CASE d = c
    <3>1. PICK w \in 0..MaxDelay : call'[d] = [call[d] EXCEPT !.phase = "backoff", !.left = w]
      BY <1>t, <1>6, <2>1 DEF Backoff, Delays
    <3>2. call[d].elapsed < MaxElapsed /\ call[d].n < MaxAttempts
      BY <1>6, <2>1 DEF Backoff, MayRetry
    <3> QED BY <1>t, <3>1, <3>2, CeilingNat DEF Call, Ceiling
  <2>2. CASE d # c
    BY <1>t, <1>6, <2>2 DEF Backoff
  <2> QED BY <2>1, <2>2
<1>7. ASSUME NEW c \in Calls, NEW kind \in Kinds, Succeed(c) \/ Lose(c) \/ GiveUp(c, kind)
      PROVE  Fine(call'[d])
  BY <1>4, <1>7 DEF Succeed, Lose, GiveUp, Outcomes
<1>8. "fatal" \in Kinds
  BY DEF Kinds
<1> HIDE DEF Fine
<1> QED BY <1>1, <1>2, <1>3, <1>6, <1>7, <1>8 DEF Next

(***************************************************************************)
(* A circuit that comes to refuse has just opened, and time makes a call   *)
(* older by as much as the window.                                         *)
(***************************************************************************)
LEMMA StepAdmitted == IInv /\ [Next]_vars => AdmittedBefore'
<1> SUFFICES ASSUME IInv, [Next]_vars, NEW d \in Calls, Busy(d)', ~Allow'
             PROVE  Upto(Ceiling, breaker'.age) <= call'[d].elapsed
  BY DEF AdmittedBefore
<1>t. /\ call \in [Calls -> Call] /\ call[d] \in Call
      /\ breaker \in Breaker
      /\ Busy(d) /\ ~Allow => Upto(Ceiling, breaker.age) <= call[d].elapsed
  BY DEF IInv, TypeOK, AdmittedBefore
<1>a. ASSUME breaker'.opened = breaker.opened, breaker'.age = breaker.age,
             Busy(d), call'[d].elapsed = call[d].elapsed
      PROVE  Upto(Ceiling, breaker'.age) <= call'[d].elapsed
  BY <1>t, <1>a DEF Allow
<1>1. CASE Tick
  <2>1. Busy(d) /\ call'[d] = [call[d] EXCEPT !.elapsed = Upto(Ceiling, @ + 1), !.left = @ - 1]
    BY <1>t, <1>1 DEF Tick, Busy
  <2>2. breaker' = [breaker EXCEPT !.age = IF breaker.opened THEN Upto(Reset, @ + 1) ELSE @]
    BY <1>1 DEF Tick
  <2>3. breaker.opened /\ Upto(Reset, breaker.age + 1) < Reset
    BY <1>t, <2>2 DEF Allow, Breaker, Upto
  <2>4. ~Allow /\ breaker'.age = breaker.age + 1
    BY <1>t, <2>2, <2>3 DEF Allow, Breaker, Upto
  <2>5. call'[d].elapsed = Upto(Ceiling, call[d].elapsed + 1)
    BY <1>t, <2>1 DEF Call
  <2>6. Upto(Ceiling, breaker.age) <= call[d].elapsed /\ breaker.age \in Nat
        /\ call[d].elapsed \in 0..Ceiling
    BY <1>t, <2>1, <2>4 DEF Breaker, Call
  <2> QED BY <2>4, <2>5, <2>6, CeilingNat DEF Upto
<1>2. CASE Calm \/ UNCHANGED vars
  BY <1>a, <1>2 DEF Calm, vars, Busy
<1>3. ASSUME NEW c \in Calls, Begin(c) PROVE FALSE
  BY <1>t, <1>3 DEF Begin, Admitted, Allow, Breaker
<1>4. ASSUME NEW c \in Calls, Refuse(c) \/ Hear(c) \/ Wake(c) \/ Lose(c)
      PROVE  Upto(Ceiling, breaker'.age) <= call'[d].elapsed
  <2>1. breaker' = breaker
    BY <1>4 DEF Refuse, Hear, Wake, Lose
  <2>2. Busy(d) /\ call'[d].elapsed = call[d].elapsed
    BY <1>t, <1>4 DEF Refuse, Hear, Wake, Lose, End, Ended, Busy, Call
  <2> QED BY <1>a, <2>1, <2>2
<1>5. ASSUME NEW c \in Calls, NEW kind \in Kinds, Backoff(c, kind)
      PROVE  Upto(Ceiling, breaker'.age) <= call'[d].elapsed
  <2>1. breaker' = breaker
    BY <1>5 DEF Backoff
  <2>2. Busy(d) /\ call'[d].elapsed = call[d].elapsed
    BY <1>t, <1>5 DEF Backoff, Fails, Busy, Call
  <2> QED BY <1>a, <2>1, <2>2
<1>6. ASSUME NEW c \in Calls, Succeed(c) PROVE FALSE
  BY <1>6 DEF Succeed, AfterSuccess, Closed, Allow
<1>7. ASSUME NEW c \in Calls, NEW kind \in Kinds, GiveUp(c, kind)
      PROVE  Upto(Ceiling, breaker'.age) <= call'[d].elapsed
  <2>1. breaker' = AfterFailure
    BY <1>7 DEF GiveUp
  <2>2. Busy(d) /\ call'[d] = call[d]
    BY <1>t, <1>7 DEF GiveUp, End, Ended, Busy
  <2>3. CASE breaker.halfOpen \/ breaker.failures + 1 >= Threshold
    <3>1. breaker'.age = 0
      BY <2>1, <2>3 DEF AfterFailure
    <3> QED BY <1>t, <2>2, <3>1, CeilingNat DEF Upto, Call
  <2>4. CASE ~(breaker.halfOpen \/ breaker.failures + 1 >= Threshold)
    <3>1. breaker'.opened = breaker.opened /\ breaker'.age = breaker.age
      BY <1>t, <2>1, <2>4 DEF AfterFailure, Breaker
    <3> QED BY <1>a, <2>2, <3>1
  <2> QED BY <2>3, <2>4
<1>8. "fatal" \in Kinds
  BY DEF Kinds
<1> QED BY <1>1, <1>2, <1>3, <1>4, <1>5, <1>6, <1>7, <1>8 DEF Next

(***************************************************************************)
(* A call gets its outcome in the step that ends it.                       *)
(***************************************************************************)
LEMMA StepOutcome == IInv /\ [Next]_vars => BusyHasNoOutcome'
<1> SUFFICES ASSUME IInv, [Next]_vars, NEW d \in Calls, Busy(d)'
             PROVE  call'[d].outcome = "none"
  BY DEF BusyHasNoOutcome
<1>t. call \in [Calls -> Call] /\ (Busy(d) => call[d].outcome = "none")
  BY DEF IInv, TypeOK, BusyHasNoOutcome
<1>1. CASE Tick
  BY <1>t, <1>1 DEF Tick, Busy, Call
<1>2. CASE Calm \/ UNCHANGED vars
  BY <1>t, <1>2 DEF Calm, vars, Busy
<1>3. ASSUME NEW c \in Calls, Begin(c) \/ Refuse(c) PROVE call'[d].outcome = "none"
  BY <1>t, <1>3 DEF Begin, Refuse, Ended, Busy
<1>4. ASSUME NEW c \in Calls, NEW o \in Outcomes, End(c, o) PROVE call'[d].outcome = "none"
  BY <1>t, <1>4 DEF End, Ended, Call, Busy
<1>5. ASSUME NEW c \in Calls, Hear(c) \/ Wake(c) PROVE call'[d].outcome = "none"
  BY <1>t, <1>5 DEF Hear, Wake, Call, Busy
<1>6. ASSUME NEW c \in Calls, NEW kind \in Kinds, Backoff(c, kind)
      PROVE  call'[d].outcome = "none"
  BY <1>t, <1>6 DEF Backoff, Fails, Call, Busy
<1>7. ASSUME NEW c \in Calls, NEW kind \in Kinds, Succeed(c) \/ Lose(c) \/ GiveUp(c, kind)
      PROVE  call'[d].outcome = "none"
  BY <1>4, <1>7 DEF Succeed, Lose, GiveUp, Outcomes
<1>8. "fatal" \in Kinds
  BY DEF Kinds
<1> QED BY <1>1, <1>2, <1>3, <1>5, <1>6, <1>7, <1>8 DEF Next

(***************************************************************************)
(* The strengthened invariant of the gateway is inductive.                 *)
(***************************************************************************)
THEOREM GatewayInvariant == Spec => []IInv
<1>1. IInv /\ [Next]_vars => IInv'
  BY StepTypeOK, StepBreaker, StepTimeLeft, StepAdmitted, StepOutcome DEF IInv
<1> QED BY InitIInv, <1>1, PTL DEF Spec

(***************************************************************************)
(* Every reachable state is well typed; in particular no call makes more   *)
(* than max_attempts attempts.                                             *)
(***************************************************************************)
THEOREM GatewayTypes == Spec => []TypeOK
  BY GatewayInvariant, PTL DEF IInv

(***************************************************************************)
(* The circuit is open exactly after Threshold consecutive failures,       *)
(* whatever the callers and however their calls overlap.                   *)
(***************************************************************************)
THEOREM OpenAfterStreak == Spec => []OpenExactlyAfterStreak
<1>1. IInv => OpenExactlyAfterStreak
  BY DEF IInv, BreakerAgrees, OpenExactlyAfterStreak
<1> QED BY GatewayInvariant, <1>1, PTL

(***************************************************************************)
(* A half-open circuit has seen no failure for a whole reset window.       *)
(***************************************************************************)
THEOREM HalfOpenAfterQuiet == Spec => []HalfOpenOnlyAfterQuiet
<1>1. IInv => HalfOpenOnlyAfterQuiet
  BY DEF IInv, BreakerAgrees, HalfOpenOnlyAfterQuiet
<1> QED BY GatewayInvariant, <1>1, PTL

(***************************************************************************)
(* No retry begins beyond the ceiling plus one backoff, and one sent while *)
(* the circuit refuses others belongs to a call admitted before it opened. *)
(***************************************************************************)
THEOREM NoAttemptIsLate == Spec => NoLateAttempt
<1> DEFINE Early == \A c \in Calls :
                      call[c].phase = "backoff" /\ call'[c].phase = "attempt" =>
                        /\ call[c].elapsed < Ceiling
                        /\ ~Allow => breaker.age <= call[c].elapsed
<1>1. IInv /\ [Next]_vars => [Early]_vars
  <2> SUFFICES ASSUME IInv, NEW d \in Calls, call[d].phase = "backoff"
               PROVE  /\ call[d].elapsed < Ceiling
                      /\ ~Allow => breaker.age <= call[d].elapsed
    OBVIOUS
  <2>1. call[d].elapsed + call[d].left < Ceiling /\ call[d] \in Call
    BY DEF IInv, TypeOK, TimeLeft
  <2>2. call[d].elapsed < Ceiling
    BY <2>1, CeilingNat DEF Call
  <2>3. ~Allow => Upto(Ceiling, breaker.age) <= call[d].elapsed
    BY DEF IInv, AdmittedBefore, Busy
  <2>4. breaker.age \in Nat
    BY DEF IInv, TypeOK, Breaker
  <2> QED BY <2>1, <2>2, <2>3, <2>4, CeilingNat DEF Upto, Call
<1> QED BY GatewayInvariant, <1>1, PTL DEF NoLateAttempt, Spec

(***************************************************************************)
(* A refusal always follows a failure recorded less than a window ago.     *)
(***************************************************************************)
THEOREM RefusalsAreFresh == Spec => RefusedOnlyAfterRecentFailure
<1> DEFINE Fresh == \A c \in Calls : call'[c] # call[c] /\ call'[c].outcome = "circuit_open"
                                       => recent.since < Reset
<1>1. IInv /\ IInv' /\ [Next]_vars => [Fresh]_vars
  <2> SUFFICES ASSUME IInv, IInv', Next, NEW d \in Calls,
                      call'[d] # call[d], call'[d].outcome = "circuit_open"
               PROVE  recent.since < Reset
    OBVIOUS
  <2>t. call \in [Calls -> Call] /\ call' \in [Calls -> Call]
        /\ (Busy(d) => call[d].outcome = "none") /\ ~Busy(d)'
    BY DEF IInv, TypeOK, BusyHasNoOutcome
  <2>1. CASE Tick
    BY <2>t, <2>1 DEF Tick, Busy, Call
  <2>2. CASE Calm
    BY <2>2 DEF Calm
  <2>3. ASSUME NEW c \in Calls, NEW kind \in Kinds,
               Begin(c) \/ Hear(c) \/ Wake(c) \/ Backoff(c, kind)
        PROVE  FALSE
    BY <2>t, <2>3 DEF Begin, Hear, Wake, Backoff, Busy, Call
  <2>4. ASSUME NEW c \in Calls, NEW kind \in Kinds,
               Succeed(c) \/ Lose(c) \/ GiveUp(c, kind)
        PROVE  FALSE
    BY <2>t, <2>4 DEF Succeed, Lose, GiveUp, End, Ended, Call
  <2>5. ASSUME NEW c \in Calls, Refuse(c) PROVE recent.since < Reset
    <3>1. breaker.opened /\ ~(breaker.age >= Reset)
      BY <2>5 DEF Refuse, Allow
    <3> QED BY <3>1 DEF IInv, BreakerAgrees, TypeOK, Breaker
  <2>6. "fatal" \in Kinds
    BY DEF Kinds
  <2> QED BY <2>1, <2>2, <2>3, <2>4, <2>5, <2>6 DEF Next
<1> QED BY GatewayInvariant, <1>1, PTL DEF RefusedOnlyAfterRecentFailure, Spec
=============================================================================

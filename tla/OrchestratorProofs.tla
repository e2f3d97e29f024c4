------------------------- MODULE OrchestratorProofs -------------------------
(***************************************************************************)
(* Proofs about Orchestrator, for any number of executions, any registry   *)
(* and any policies.                                                       *)
(***************************************************************************)
EXTENDS Orchestrator, TLAPS

(***************************************************************************)
(* What an execution holds at each place it can stand: no model until one  *)
(* is chosen, the chosen one while it is asked, and a second one only      *)
(* after the first failed.                                                 *)
(***************************************************************************)
Placed(r) ==
  /\ pc[r] \in {"idle", "routing", "choosing"} =>
       selected[r] = None /\ primary[r] = None /\ fallback[r] = None
  /\ pc[r] = "ready" => selected[r] # None /\ primary[r] = None /\ fallback[r] = None
  /\ pc[r] \in {"asking", "failed", "asking again"} =>
       selected[r] # None /\ primary[r] = selected[r]
  /\ pc[r] \in {"asking", "failed"} => fallback[r] = None
  /\ pc[r] = "asking again" => fallback[r] # None
  /\ fallback[r] # None => primary[r] \notin {None, fallback[r]}

(***************************************************************************)
(* A blocked execution only waits for its record or is over.               *)
(***************************************************************************)
Stopped(r) ==
  budget[r] = "BLOCK" =>
    /\ pc[r] \in {"recording", "returned", "raised"}
    /\ primary[r] = None /\ fallback[r] = None

(***************************************************************************)
(* Once a request has come, every enabled model is one it has seen, and so *)
(* is every model it holds.                                                *)
(***************************************************************************)
Witnessed(r) ==
  /\ pc[r] # "idle" => enabled \subseteq seen[r]
  /\ {selected[r], primary[r], fallback[r]} \subseteq seen[r] \cup {None}

(***************************************************************************)
(* m is as cheap as any candidate of r.                                    *)
(***************************************************************************)
Cheapest(r, m) ==
  \A n \in offered[r] \cap Priced : m \in Priced /\ Cost[m] <= Cost[n]

Thrifty(r) ==
  budget[r] = "DOWNGRADE" =>
    /\ pc[r] = "ready" => Cheapest(r, selected[r])
    /\ primary[r] # None => Cheapest(r, primary[r])

(***************************************************************************)
(* The event e tells what ran in r.                                        *)
(***************************************************************************)
Tells(r, e) ==
  /\ e.fallback <=> fallback[r] # None
  /\ e.status = "SUCCESS" => e.model = IF e.fallback THEN fallback[r] ELSE primary[r]
  /\ e.status = "BLOCKED" => primary[r] = None /\ e.model = None
  /\ e.status = "FAILURE" => primary[r] \in {None, e.model}

(***************************************************************************)
(* Nothing is recorded before an execution is over, and what is about to   *)
(* be recorded, like what was, tells what ran.                             *)
(***************************************************************************)
Recorded(r) ==
  /\ ~Ended(r) => events[r] = <<>>
  /\ pc[r] = "recording" => Tells(r, UsageEvent(r))
  /\ events[r] # <<>> => Len(events[r]) = 1 /\ Tells(r, events[r][1])

Good(r) == Placed(r) /\ Stopped(r) /\ Witnessed(r) /\ Thrifty(r) /\ Recorded(r)

IInv == TypeOK /\ \A r \in Requests : Good(r)

USE OrchestratorAssumption

-----------------------------------------------------------------------------
(***************************************************************************)
(* The first of the candidates in price order is as cheap as any of them.  *)
(***************************************************************************)
LEMMA FirstIsCheapest ==
  ASSUME NEW S \in SUBSET Models, NEW m \in SelectModel(S, TRUE), NEW n \in S \cap Priced
  PROVE  m \in Priced /\ Cost[m] <= Cost[n]
<1>1. m \in Models /\ n \in Models
  BY DEF SelectModel
<1> DEFINE a == SortKey(n, TRUE)
           b == SortKey(m, TRUE)
<1>2. ~Before(a, b)
  BY DEF SelectModel
<1>3. a[1] = 0 /\ a[2] = Cost[n]
  BY DEF SortKey, Unknown, Known
<1>4. b[1] = (IF m \in Priced THEN 0 ELSE 1) /\ (m \in Priced => b[2] = Cost[m])
  BY DEF SortKey, Unknown, Known
<1>5. Cost[m] \in Int /\ Cost[n] \in Int
  BY <1>1
<1> HIDE DEF a, b
<1>6. m \in Priced
  <2>1. SUFFICES ASSUME m \notin Priced PROVE FALSE
    OBVIOUS
  <2>2. a[1] < b[1] /\ \A j \in 1..(1 - 1) : a[j] = b[j]
    BY <1>3, <1>4, <2>1
  <2> QED BY <1>2, <2>2 DEF Before
<1>7. Cost[m] <= Cost[n]
  <2>1. SUFFICES ASSUME Cost[n] < Cost[m] PROVE FALSE
    BY <1>5
  <2>2. a[2] < b[2] /\ \A j \in 1..(2 - 1) : a[j] = b[j]
    BY <1>3, <1>4, <1>6, <2>1
  <2> QED BY <1>2, <2>2 DEF Before
<1> QED BY <1>6, <1>7

(***************************************************************************)
(* Candidates are enabled models.                                          *)
(***************************************************************************)
LEMMA CandidatesEnabled ==
  ASSUME NEW p
  PROVE  Candidates(p) \subseteq enabled
  BY DEF Candidates, FindForWorkload

LEMMA FallbacksEnabled ==
  ASSUME NEW r \in Requests, NEW m \in FallbackModels(r)
  PROVE  m \in enabled /\ m # selected[r]
  BY DEF FallbackModels, SelectModel, FindForWorkload

LEMMA InitIInv == Init => IInv
<1> SUFFICES ASSUME Init PROVE IInv
  OBVIOUS
<1>1. TypeOK
  BY DEF Init, TypeOK, BudgetOutcomes, Phases, RecordOutcomes
<1>2. ASSUME NEW r \in Requests PROVE Good(r)
  BY DEF Init, Good, Placed, Stopped, Witnessed, Thrifty, Recorded, Ended
<1> QED BY <1>1, <1>2 DEF IInv

(***************************************************************************)
(* A step leaves alone what it does not touch.                             *)
(***************************************************************************)
LEMMA Untouched ==
  ASSUME NEW q \in Requests, Good(q), enabled' = enabled,
         pc'[q] = pc[q], budget'[q] = budget[q], offered'[q] = offered[q],
         selected'[q] = selected[q], primary'[q] = primary[q], fallback'[q] = fallback[q],
         outcome'[q] = outcome[q], events'[q] = events[q], seen'[q] = seen[q]
  PROVE  Good(q)'
<1>1. Placed(q)' /\ Stopped(q)' /\ Witnessed(q)'
  BY DEF Good, Placed, Stopped, Witnessed
<1>2. Thrifty(q)'
  BY DEF Good, Thrifty, Cheapest
<1>3. Recorded(q)'
  BY DEF Good, Recorded, Ended, Tells, UsageEvent, Status
<1> QED BY <1>1, <1>2, <1>3 DEF Good

(***************************************************************************)
(* The usage event of an execution is well typed.                          *)
(***************************************************************************)
LEMMA EventTypes ==
  ASSUME TypeOK, NEW r \in Requests
  PROVE  UsageEvent(r) \in Event
  BY DEF TypeOK, UsageEvent, Status, Event

LEMMA StepTypeOK == IInv /\ [Next]_vars => TypeOK'
<1> SUFFICES ASSUME IInv, [Next]_vars PROVE TypeOK'
  OBVIOUS
<1>t. TypeOK
  BY DEF IInv
<1> USE DEF calls, plan, Goto, ToRecord, Phases, RecordOutcomes
<1>1. ASSUME NEW r \in Requests, EvaluateBudget(r) PROVE TypeOK'
  <2>1. PICK o \in Outcomes : budget' = [budget EXCEPT ![r] = o]
    BY <1>1 DEF EvaluateBudget
  <2>2. budget' \in [Requests -> BudgetOutcomes]
    BY <1>t, <2>1 DEF TypeOK
  <2>3. pc' \in [Requests -> Phases] /\ outcome' \in [Requests -> RecordOutcomes]
    BY <1>t, <1>1 DEF TypeOK, EvaluateBudget
  <2> QED BY <1>t, <1>1, <2>2, <2>3 DEF TypeOK, EvaluateBudget
<1>2. ASSUME NEW r \in Requests, LoadPolicy(r) PROVE TypeOK'
  <2>1. read' \in [Requests -> Policies \cup {NoPolicy}]
    <3>1. PICK p \in {policy, NoPolicy} : read' = [read EXCEPT ![r] = p]
      BY <1>2 DEF LoadPolicy
    <3>2. p \in Policies \cup {NoPolicy}
      BY <1>t DEF TypeOK
    <3> QED BY <1>t, <3>1, <3>2 DEF TypeOK
  <2>2. pc' \in [Requests -> Phases]
    BY <1>t, <1>2 DEF TypeOK, LoadPolicy
  <2> QED BY <1>t, <1>2, <2>1, <2>2 DEF TypeOK, LoadPolicy
<1>3. ASSUME NEW r \in Requests, Choose(r) PROVE TypeOK'
  <2>1. Candidates(read[r]) \in SUBSET Models
    BY <1>t, CandidatesEnabled DEF TypeOK
  <2>2. \A m \in SelectModel(Candidates(read[r]), budget[r] = "DOWNGRADE") : m \in Models
    BY <2>1 DEF SelectModel
  <2>3. offered' \in [Requests -> SUBSET Models]
    BY <1>t, <1>3, <2>1 DEF TypeOK, Choose
  <2>4. selected' \in [Requests -> Models \cup {None}]
    <3>1. CASE selected' = selected
      BY <1>t, <3>1 DEF TypeOK
    <3>2. ASSUME NEW m \in Models, selected' = [selected EXCEPT ![r] = m]
          PROVE  selected' \in [Requests -> Models \cup {None}]
      BY <1>t, <3>2 DEF TypeOK
    <3> QED BY <1>3, <2>2, <3>1, <3>2 DEF Choose
  <2>5. pc' \in [Requests -> Phases] /\ outcome' \in [Requests -> RecordOutcomes]
    BY <1>t, <1>3 DEF TypeOK, Choose
  <2> QED BY <1>t, <1>3, <2>3, <2>4, <2>5 DEF TypeOK, Choose
<1>4. ASSUME NEW r \in Requests, CheckInput(r) PROVE TypeOK'
  BY <1>t, <1>4 DEF TypeOK, CheckInput
<1>5. ASSUME NEW r \in Requests, PrimaryEnds(r) PROVE TypeOK'
  BY <1>t, <1>5 DEF TypeOK, PrimaryEnds
<1>6. ASSUME NEW r \in Requests, FallBack(r) PROVE TypeOK'
  <2>1. \A m \in FallbackModels(r) : m \in Models
    BY <1>t, FallbacksEnabled DEF TypeOK
  <2>2. fallback' \in [Requests -> Models \cup {None}]
    <3>1. CASE fallback' = fallback
      BY <1>t, <3>1 DEF TypeOK
    <3>2. ASSUME NEW m \in Models, fallback' = [fallback EXCEPT ![r] = m]
          PROVE  fallback' \in [Requests -> Models \cup {None}]
      BY <1>t, <3>2 DEF TypeOK
    <3> QED BY <1>6, <2>1, <3>1, <3>2 DEF FallBack
  <2>3. pc' \in [Requests -> Phases] /\ outcome' \in [Requests -> RecordOutcomes]
    BY <1>t, <1>6 DEF TypeOK, FallBack
  <2> QED BY <1>t, <1>6, <2>2, <2>3 DEF TypeOK, FallBack
<1>7. ASSUME NEW r \in Requests, FallbackAnswers(r) PROVE TypeOK'
  BY <1>t, <1>7 DEF TypeOK, FallbackAnswers
<1>8. ASSUME NEW r \in Requests, Raise(r) PROVE TypeOK'
  BY <1>t, <1>8 DEF TypeOK, Raise
<1>9. ASSUME NEW r \in Requests, Record(r) PROVE TypeOK'
  <2>1. Append(events[r], UsageEvent(r)) \in Seq(Event)
    <3>1. UsageEvent(r) \in Event /\ events[r] \in Seq(Event)
      BY <1>t, EventTypes DEF TypeOK
    <3> QED BY <3>1
  <2>2. events' \in [Requests -> Seq(Event)]
    BY <1>t, <1>9, <2>1 DEF TypeOK, Record
  <2> QED BY <1>t, <1>9, <2>2 DEF TypeOK, Record
<1>10. CASE SetEnabled
  BY <1>t, <1>10 DEF TypeOK, SetEnabled
<1>11. CASE ChangePolicy
  BY <1>t, <1>11 DEF TypeOK, ChangePolicy
<1>12. CASE UNCHANGED vars
  BY <1>t, <1>12 DEF TypeOK, vars
<1> QED
  BY <1>1, <1>2, <1>3, <1>4, <1>5, <1>6, <1>7, <1>8, <1>9, <1>10, <1>11, <1>12
  DEF Next, Step

(***************************************************************************)
(* Every step keeps every execution in order.                              *)
(***************************************************************************)
LEMMA StepGood == IInv /\ [Next]_vars => \A r \in Requests : Good(r)'
<1> SUFFICES ASSUME IInv, [Next]_vars, NEW q \in Requests PROVE Good(q)'
  OBVIOUS
<1>t. TypeOK /\ Good(q)
  BY DEF IInv
<1> USE DEF calls, plan, Goto, ToRecord
<1>1. ASSUME NEW r \in Requests, EvaluateBudget(r) PROVE Good(q)'
  <2>1. CASE r # q
    BY <1>t, <1>1, <2>1, Untouched DEF TypeOK, EvaluateBudget
  <2>2. CASE r = q
    <3>1. /\ pc[q] = "idle" /\ seen'[q] = enabled /\ enabled' = enabled
          /\ selected'[q] = None /\ primary'[q] = None /\ fallback'[q] = None
          /\ events'[q] = <<>>
          /\ \/ budget'[q] = "BLOCK" /\ pc'[q] = "recording" /\ outcome'[q] = "blocked"
             \/ budget'[q] # "BLOCK" /\ pc'[q] = "routing"
      BY <1>t, <1>1, <2>2 DEF TypeOK, EvaluateBudget, Good, Placed, Recorded, Ended
    <3>2. Placed(q)' /\ Stopped(q)' /\ Witnessed(q)'
      BY <3>1 DEF Placed, Stopped, Witnessed
    <3>3. Thrifty(q)'
      BY <3>1 DEF Thrifty
    <3>4. Recorded(q)'
      BY <3>1 DEF Recorded, Ended, Tells, UsageEvent, Status
    <3> QED BY <3>2, <3>3, <3>4 DEF Good
  <2> QED BY <2>1, <2>2
<1>2. ASSUME NEW r \in Requests, LoadPolicy(r) PROVE Good(q)'
  <2>1. CASE r # q
    BY <1>t, <1>2, <2>1, Untouched DEF TypeOK, LoadPolicy
  <2>2. CASE r = q
    <3>1. pc[q] = "routing" /\ pc'[q] = "choosing"
      BY <1>t, <1>2, <2>2 DEF TypeOK, LoadPolicy
    <3>2. Placed(q)' /\ Stopped(q)' /\ Witnessed(q)'
      BY <1>t, <1>2, <3>1 DEF LoadPolicy, Good, Placed, Stopped, Witnessed
    <3>3. Thrifty(q)'
      BY <1>t, <1>2, <3>1 DEF LoadPolicy, Good, Placed, Thrifty
    <3>4. Recorded(q)'
      BY <1>t, <1>2, <3>1 DEF LoadPolicy, Good, Recorded, Ended, Tells
    <3> QED BY <3>2, <3>3, <3>4 DEF Good
  <2> QED BY <2>1, <2>2
<1>3. ASSUME NEW r \in Requests, Choose(r) PROVE Good(q)'
  <2>1. CASE r # q
    BY <1>t, <1>3, <2>1, Untouched DEF TypeOK, Choose
  <2>2. CASE r = q
    <3> DEFINE S == Candidates(read[q])
    <3>1. S \subseteq enabled /\ S \in SUBSET Models
      BY <1>t, CandidatesEnabled DEF TypeOK
    <3>2. /\ pc[q] = "choosing" /\ offered'[q] = S
          /\ primary'[q] = None /\ fallback'[q] = None /\ events'[q] = <<>>
          /\ budget'[q] = budget[q] /\ budget[q] # "BLOCK"
          /\ enabled' = enabled /\ seen'[q] = seen[q] /\ enabled \subseteq seen[q]
      BY <1>t, <1>3, <2>2
      DEF TypeOK, Choose, Good, Placed, Stopped, Witnessed, Recorded, Ended
    <3>3. CASE S = {} /\ ToRecord(q, "no_model") /\ UNCHANGED selected
      <4>1. pc'[q] = "recording" /\ outcome'[q] = "no_model" /\ selected'[q] = None
        BY <1>t, <3>2, <3>3 DEF TypeOK, Good, Placed
      <4>2. Placed(q)' /\ Stopped(q)' /\ Witnessed(q)' /\ Thrifty(q)'
        BY <3>2, <4>1 DEF Placed, Stopped, Witnessed, Thrifty
      <4>3. Recorded(q)'
        BY <3>2, <4>1 DEF Recorded, Ended, Tells, UsageEvent, Status
      <4> QED BY <4>2, <4>3 DEF Good
    <3>4. ASSUME NEW m \in SelectModel(S, budget[q] = "DOWNGRADE"),
                 selected' = [selected EXCEPT ![q] = m], Goto(q, "ready")
          PROVE  Good(q)'
      <4>1. m \in S /\ m # None
        BY <3>1 DEF SelectModel
      <4>2. pc'[q] = "ready" /\ selected'[q] = m
        BY <1>t, <3>4 DEF TypeOK
      <4>3. Placed(q)' /\ Stopped(q)' /\ Witnessed(q)'
        BY <3>1, <3>2, <4>1, <4>2 DEF Placed, Stopped, Witnessed
      <4>4. Thrifty(q)'
        <5> SUFFICES ASSUME budget[q] = "DOWNGRADE", NEW n \in S \cap Priced
                     PROVE  m \in Priced /\ Cost[m] <= Cost[n]
          BY <3>2, <4>2 DEF Thrifty, Cheapest
        <5>1. m \in SelectModel(S, TRUE)
          BY <3>4 DEF SelectModel
        <5> QED BY <3>1, <5>1, FirstIsCheapest
      <4>5. Recorded(q)'
        BY <3>2, <4>2 DEF Recorded, Ended
      <4> QED BY <4>3, <4>4, <4>5 DEF Good
    <3>5. \/ S = {} /\ ToRecord(q, "no_model") /\ UNCHANGED selected
          \/ /\ \E m \in SelectModel(S, budget[q] = "DOWNGRADE") :
                  selected' = [selected EXCEPT ![q] = m]
             /\ Goto(q, "ready")
      BY <1>3, <2>2, Zenon DEF Choose
    <3> QED BY <3>3, <3>4, <3>5
  <2> QED BY <2>1, <2>2
<1>4. ASSUME NEW r \in Requests, CheckInput(r) PROVE Good(q)'
  <2>1. CASE r # q
    BY <1>t, <1>4, <2>1, Untouched DEF TypeOK, CheckInput
  <2>2. CASE r = q
    <3>1. /\ pc[q] = "ready" /\ selected[q] # None /\ fallback[q] = None /\ events[q] = <<>>
          /\ primary[q] = None /\ budget[q] # "BLOCK"
          /\ selected'[q] = selected[q] /\ fallback'[q] = fallback[q] /\ events'[q] = events[q]
          /\ budget'[q] = budget[q] /\ offered'[q] = offered[q]
          /\ enabled' = enabled /\ seen'[q] = seen[q]
      BY <1>t, <1>4, <2>2 DEF TypeOK, CheckInput, Good, Placed, Stopped, Recorded, Ended
    <3>2. \/ pc'[q] = "recording" /\ outcome'[q] = "error" /\ primary'[q] = None
          \/ pc'[q] = "asking" /\ primary'[q] = selected[q]
      BY <1>t, <1>4, <2>2, <3>1 DEF TypeOK, CheckInput
    <3>3. Placed(q)' /\ Stopped(q)' /\ Witnessed(q)'
      BY <1>t, <3>1, <3>2 DEF Good, Placed, Stopped, Witnessed
    <3>4. Thrifty(q)'
      BY <1>t, <3>1, <3>2 DEF Good, Thrifty, Cheapest
    <3>5. Recorded(q)'
      BY <3>1, <3>2 DEF Recorded, Ended, Tells, UsageEvent, Status
    <3> QED BY <3>3, <3>4, <3>5 DEF Good
  <2> QED BY <2>1, <2>2
<1>5. ASSUME NEW r \in Requests, PrimaryEnds(r) PROVE Good(q)'
  <2>1. CASE r # q
    BY <1>t, <1>5, <2>1, Untouched DEF TypeOK, PrimaryEnds
  <2>2. CASE r = q
    <3>1. /\ pc[q] = "asking" /\ selected[q] # None /\ fallback[q] = None /\ events[q] = <<>>
          /\ primary[q] = selected[q] /\ budget[q] # "BLOCK"
          /\ selected'[q] = selected[q] /\ fallback'[q] = fallback[q] /\ events'[q] = events[q]
          /\ primary'[q] = primary[q] /\ budget'[q] = budget[q] /\ offered'[q] = offered[q]
          /\ enabled' = enabled /\ seen'[q] = seen[q]
      BY <1>t, <1>5, <2>2 DEF TypeOK, PrimaryEnds, Good, Placed, Stopped, Recorded, Ended
    <3>2. \/ pc'[q] = "recording" /\ outcome'[q] = "success"
          \/ pc'[q] = "failed"
      BY <1>t, <1>5, <2>2 DEF TypeOK, PrimaryEnds
    <3>3. Placed(q)' /\ Stopped(q)' /\ Witnessed(q)'
      BY <1>t, <3>1, <3>2 DEF Good, Placed, Stopped, Witnessed
    <3>4. Thrifty(q)'
      BY <1>t, <3>1, <3>2 DEF Good, Thrifty, Cheapest
    <3>5. Recorded(q)'
      BY <3>1, <3>2 DEF Recorded, Ended, Tells, UsageEvent, Status
    <3> QED BY <3>3, <3>4, <3>5 DEF Good
  <2> QED BY <2>1, <2>2
<1>6. ASSUME NEW r \in Requests, FallBack(r) PROVE Good(q)'
  <2>1. CASE r # q
    BY <1>t, <1>6, <2>1, Untouched DEF TypeOK, FallBack
  <2>2. CASE r = q
    <3>1. /\ pc[q] = "failed" /\ selected[q] # None /\ fallback[q] = None /\ events[q] = <<>>
          /\ primary[q] = selected[q] /\ budget[q] # "BLOCK" /\ enabled \subseteq seen[q]
          /\ selected'[q] = selected[q] /\ events'[q] = events[q]
          /\ primary'[q] = primary[q] /\ budget'[q] = budget[q] /\ offered'[q] = offered[q]
          /\ enabled' = enabled /\ seen'[q] = seen[q] /\ enabled \subseteq Models
      BY <1>t, <1>6, <2>2
      DEF TypeOK, FallBack, Good, Placed, Stopped, Witnessed, Recorded, Ended
    <3>2. \/ pc'[q] = "recording" /\ outcome'[q] = "error" /\ fallback'[q] = None
          \/ pc'[q] = "asking again" /\ fallback'[q] \in enabled \ {selected[q]}
      <4>1. \/ ToRecord(q, "error") /\ UNCHANGED fallback
            \/ /\ \E m \in FallbackModels(q) : fallback' = [fallback EXCEPT ![q] = m]
               /\ Goto(q, "asking again")
        BY <1>6, <2>2, Zenon DEF FallBack
      <4>2. CASE ToRecord(q, "error") /\ UNCHANGED fallback
        BY <1>t, <3>1, <4>2 DEF TypeOK
      <4>3. ASSUME NEW m \in FallbackModels(q), fallback' = [fallback EXCEPT ![q] = m],
                   Goto(q, "asking again")
            PROVE  pc'[q] = "asking again" /\ fallback'[q] \in enabled \ {selected[q]}
        BY <1>t, <4>3, FallbacksEnabled DEF TypeOK
      <4> QED BY <4>1, <4>2, <4>3
    <3>3. Placed(q)' /\ Stopped(q)' /\ Witnessed(q)'
      BY <1>t, <3>1, <3>2 DEF Good, Placed, Stopped, Witnessed
    <3>4. Thrifty(q)'
      BY <1>t, <3>1, <3>2 DEF Good, Thrifty, Cheapest
    <3>5. Recorded(q)'
      BY <3>1, <3>2 DEF Recorded, Ended, Tells, UsageEvent, Status
    <3> QED BY <3>3, <3>4, <3>5 DEF Good
  <2> QED BY <2>1, <2>2
<1>7. ASSUME NEW r \in Requests, FallbackAnswers(r) PROVE Good(q)'
  <2>1. CASE r # q
    BY <1>t, <1>7, <2>1, Untouched DEF TypeOK, FallbackAnswers
  <2>2. CASE r = q
    <3>1. /\ pc[q] = "asking again" /\ events[q] = <<>> /\ budget[q] # "BLOCK"
          /\ pc'[q] = "recording" /\ outcome'[q] = "success" /\ selected'[q] = fallback[q]
          /\ fallback'[q] = fallback[q] /\ events'[q] = events[q]
          /\ primary'[q] = primary[q] /\ budget'[q] = budget[q] /\ offered'[q] = offered[q]
          /\ enabled' = enabled /\ seen'[q] = seen[q] /\ primary[q] # None
          /\ fallback[q] # None
      BY <1>t, <1>7, <2>2
      DEF TypeOK, FallbackAnswers, Good, Placed, Stopped, Recorded, Ended
    <3>2. Placed(q)' /\ Stopped(q)' /\ Witnessed(q)'
      BY <1>t, <3>1 DEF Good, Placed, Stopped, Witnessed
    <3>3. Thrifty(q)'
      BY <1>t, <3>1 DEF Good, Thrifty, Cheapest
    <3>4. Recorded(q)'
      BY <1>t, <3>1 DEF Recorded, Ended, Tells, UsageEvent, Status
    <3> QED BY <3>2, <3>3, <3>4 DEF Good
  <2> QED BY <2>1, <2>2
<1>8. ASSUME NEW r \in Requests, Raise(r) PROVE Good(q)'
  <2>1. CASE r # q
    BY <1>t, <1>8, <2>1, Untouched DEF TypeOK, Raise
  <2>2. CASE r = q
    <3>1. /\ pc[q] \in {"choosing", "asking", "failed", "asking again"} /\ pc'[q] = "raised"
          /\ events'[q] = <<>> /\ selected'[q] = selected[q] /\ fallback'[q] = fallback[q]
          /\ primary'[q] = primary[q] /\ budget'[q] = budget[q] /\ offered'[q] = offered[q]
          /\ enabled' = enabled /\ seen'[q] = seen[q]
      BY <1>t, <1>8, <2>2 DEF TypeOK, Raise, Good, Recorded, Ended
    <3>2. Placed(q)' /\ Stopped(q)' /\ Witnessed(q)'
      BY <1>t, <3>1 DEF Good, Placed, Stopped, Witnessed
    <3>3. Thrifty(q)'
      BY <1>t, <3>1 DEF Good, Thrifty, Cheapest
    <3>4. Recorded(q)'
      BY <3>1 DEF Recorded, Ended
    <3> QED BY <3>2, <3>3, <3>4 DEF Good
  <2> QED BY <2>1, <2>2
<1>9. ASSUME NEW r \in Requests, Record(r) PROVE Good(q)'
  <2>1. CASE r # q
    BY <1>t, <1>9, <2>1, Untouched DEF TypeOK, Record
  <2>2. CASE r = q
    <3>1. /\ pc[q] = "recording" /\ events[q] = <<>> /\ Tells(q, UsageEvent(q))
          /\ pc'[q] \in {"returned", "raised"}
          /\ selected'[q] = selected[q] /\ fallback'[q] = fallback[q]
          /\ primary'[q] = primary[q] /\ budget'[q] = budget[q] /\ offered'[q] = offered[q]
          /\ enabled' = enabled /\ seen'[q] = seen[q]
      BY <1>t, <1>9, <2>2 DEF TypeOK, Record, Good, Recorded, Ended
    <3>2. events'[q] = <<>> \/ events'[q] = <<UsageEvent(q)>>
      BY <1>t, <1>9, <2>2, <3>1 DEF TypeOK, Record
    <3>3. Placed(q)' /\ Stopped(q)' /\ Witnessed(q)'
      BY <1>t, <3>1 DEF Good, Placed, Stopped, Witnessed
    <3>4. Thrifty(q)'
      BY <1>t, <3>1 DEF Good, Thrifty, Cheapest
    <3>5. Recorded(q)'
      <4>1. CASE events'[q] = <<>>
        BY <3>1, <4>1 DEF Recorded, Ended
      <4>2. CASE events'[q] = <<UsageEvent(q)>>
        <5>1. Len(events'[q]) = 1 /\ events'[q][1] = UsageEvent(q)
          BY <4>2
        <5>2. Tells(q, events[q][1])'
          BY <3>1, <5>1 DEF Tells
        <5> QED BY <3>1, <5>1, <5>2 DEF Recorded, Ended
      <4> QED BY <3>2, <4>1, <4>2
    <3> QED BY <3>3, <3>4, <3>5 DEF Good
  <2> QED BY <2>1, <2>2
<1>10. CASE SetEnabled
  <2>1. /\ seen'[q] = IF pc[q] = "idle" THEN {} ELSE seen[q] \cup enabled'
        /\ UNCHANGED <<pc, budget, offered, selected, primary, fallback, outcome, events>>
    BY <1>10 DEF SetEnabled
  <2>2. Placed(q)' /\ Stopped(q)' /\ Witnessed(q)'
    BY <1>t, <2>1 DEF Good, Placed, Stopped, Witnessed
  <2>3. Thrifty(q)'
    BY <1>t, <2>1 DEF Good, Thrifty, Cheapest
  <2>4. Recorded(q)'
    BY <1>t, <2>1 DEF Good, Recorded, Ended, Tells, UsageEvent, Status
  <2> QED BY <2>2, <2>3, <2>4 DEF Good
<1>11. CASE ChangePolicy
  BY <1>t, <1>11, Untouched DEF ChangePolicy
<1>12. CASE UNCHANGED vars
  BY <1>t, <1>12, Untouched DEF vars
<1> QED
  BY <1>1, <1>2, <1>3, <1>4, <1>5, <1>6, <1>7, <1>8, <1>9, <1>10, <1>11, <1>12
  DEF Next, Step

(***************************************************************************)
(* The invariant is inductive.                                             *)
(***************************************************************************)
THEOREM OrchestratorInvariant == Spec => []IInv
<1>1. IInv /\ [Next]_vars => IInv'
  BY StepTypeOK, StepGood DEF IInv
<1> QED BY InitIInv, <1>1, PTL DEF Spec

(***************************************************************************)
(* Every reachable state is well typed.                                    *)
(***************************************************************************)
THEOREM OrchestratorTypes == Spec => []TypeOK
<1>1. IInv => TypeOK
  BY DEF IInv
<1> QED BY OrchestratorInvariant, <1>1, PTL

(***************************************************************************)
(* A blocked execution never asks a model.                                 *)
(***************************************************************************)
THEOREM BlocksCostNothing == Spec => []BlockedCostsNothing
<1>1. IInv => BlockedCostsNothing
  BY DEF IInv, Good, Stopped, BlockedCostsNothing
<1> QED BY OrchestratorInvariant, <1>1, PTL

(***************************************************************************)
(* A model disabled all through a request is never asked in it.            *)
(***************************************************************************)
THEOREM DisabledModelsRest == Spec => []AskedModelsWereEnabled
<1>1. IInv => AskedModelsWereEnabled
  BY DEF IInv, Good, Witnessed, AskedModelsWereEnabled
<1> QED BY OrchestratorInvariant, <1>1, PTL

(***************************************************************************)
(* A fallback is another model than the first, which was asked before it.  *)
(***************************************************************************)
THEOREM FallbacksDiffer == Spec => []FallbackIsAnother
<1>1. IInv => FallbackIsAnother
  BY DEF IInv, Good, Placed, FallbackIsAnother
<1> QED BY OrchestratorInvariant, <1>1, PTL

(***************************************************************************)
(* A downgraded execution first asks the cheapest candidate of its plan.   *)
(***************************************************************************)
THEOREM DowngradesAreCheapest == Spec => []DowngradeIsCheapest
<1>1. IInv => DowngradeIsCheapest
  BY DEF IInv, Good, Thrifty, Cheapest, DowngradeIsCheapest
<1> QED BY OrchestratorInvariant, <1>1, PTL

(***************************************************************************)
(* At most one usage event is written, at the end.                         *)
(***************************************************************************)
THEOREM RecordsOnce == Spec => []RecordedOnce
<1>1. IInv => RecordedOnce
  <2> SUFFICES ASSUME IInv, NEW r \in Requests
               PROVE  Len(events[r]) <= 1 /\ (events[r] # <<>> => Ended(r))
    BY DEF RecordedOnce
  <2>1. Recorded(r)
    BY DEF IInv, Good
  <2>2. CASE events[r] = <<>>
    BY <2>2
  <2>3. CASE events[r] # <<>>
    <3>1. Len(events[r]) = 1 /\ Ended(r)
      BY <2>1, <2>3 DEF Recorded
    <3> QED BY <3>1
  <2> QED BY <2>2, <2>3
<1> QED BY OrchestratorInvariant, <1>1, PTL

(***************************************************************************)
(* A usage event tells what ran.                                           *)
(***************************************************************************)
THEOREM EventsTellWhatRan == Spec => []EventTellsWhatRan
<1>1. IInv => EventTellsWhatRan
  <2> SUFFICES ASSUME IInv, NEW r \in Requests, NEW i \in 1..Len(events[r])
               PROVE  Tells(r, events[r][i])
    BY DEF EventTellsWhatRan, Tells
  <2>1. Recorded(r)
    BY DEF IInv, Good
  <2>2. events[r] # <<>>
    OBVIOUS
  <2>3. Len(events[r]) = 1 /\ Tells(r, events[r][1])
    BY <2>1, <2>2, Zenon DEF Recorded
  <2>4. i = 1
    BY <2>3
  <2> QED BY <2>3, <2>4
<1> QED BY OrchestratorInvariant, <1>1, PTL
=============================================================================

--------------------------- MODULE ExecutionProofs ---------------------------
(****************************************************************************)
(* What an execution may consume and run, and what it leaves behind.         *)
(*                                                                           *)
(* First ExecutionLimits, for every value of the ceilings, every registry    *)
(* and every order of calls.  The ceiling of the tokens granted is inductive *)
(* only with two facts about the counter: it never falls below what was      *)
(* granted, and it is past the ceiling once a consumption has been refused.  *)
(*                                                                           *)
(* Then Workflows, for any executions and jobs.  What a property reads off   *)
(* the shared log about one execution is a count or an order of places that  *)
(* no step keeps by itself; what is inductive is its whole story: for each   *)
(* phase, which events the log has of it, once each, which is first and      *)
(* which last, what is recorded for it and what it returned.                 *)
(****************************************************************************)
EXTENDS Workflows, ExecutionLimits, SumsProofs

-----------------------------------------------------------------------------
(* The limits of an execution.                                             *)

USE LimitsAssumption

(* What a refusal leaves behind.                                             *)
RefusalIsCounted == overdrawn => ~Fits(used.tokens)

LimitsInv == LimitsTypeOK /\ CeilingsHold /\ RefusalIsCounted /\ RunsByItsRow

(* More tokens never fit where fewer did not.                                *)
LEMMA FitsDownwards ==
    \A a, b \in Nat : a <= b /\ Fits(b) => Fits(a)
BY SMT DEF Fits

LEMMA LimitsInitInv == LimitsInit => LimitsInv
<1> SUFFICES ASSUME LimitsInit PROVE LimitsInv
    OBVIOUS
<1>1. LimitsTypeOK
    BY DEF LimitsInit, LimitsTypeOK, Zero
<1>2. CeilingsHold
    BY DEF LimitsInit, CeilingsHold, Zero, Fits
<1>3. RefusalIsCounted /\ RunsByItsRow
    BY DEF LimitsInit, RefusalIsCounted, RunsByItsRow
<1> QED
    BY <1>1, <1>2, <1>3 DEF LimitsInv

LEMMA LimitsStepInv == LimitsInv /\ [LimitsNext]_limitVars => LimitsInv' /\ (overdrawn => granted'.tokens = granted.tokens)
<1> SUFFICES ASSUME LimitsInv, [LimitsNext]_limitVars
             PROVE  LimitsInv' /\ (overdrawn => granted'.tokens = granted.tokens)
    OBVIOUS
<1> USE DEF LimitsInv
<1>1. CASE ConsumeIteration
    <2> USE <1>1 DEF ConsumeIteration
    <2>1. LimitsTypeOK'
        BY DEF LimitsTypeOK
    <2>2. CeilingsHold'
        BY DEF LimitsTypeOK, CeilingsHold, IsExpired, Fits
    <2>3. RefusalIsCounted' /\ RunsByItsRow'
        BY DEF LimitsTypeOK, RefusalIsCounted, RunsByItsRow, Fits
    <2> QED
        BY <2>1, <2>2, <2>3 DEF LimitsTypeOK
<1>2. ASSUME NEW count \in Counts, ConsumeToolCall(count)
      PROVE  LimitsInv' /\ (overdrawn => granted'.tokens = granted.tokens)
    <2> USE <1>2 DEF ConsumeToolCall
    <2>1. LimitsTypeOK'
        BY DEF LimitsTypeOK
    <2>2. CeilingsHold'
        BY DEF LimitsTypeOK, CeilingsHold, Fits
    <2>3. RefusalIsCounted' /\ RunsByItsRow'
        BY DEF LimitsTypeOK, RefusalIsCounted, RunsByItsRow, Fits
    <2> QED
        BY <2>1, <2>2, <2>3 DEF LimitsTypeOK
<1>3. ASSUME NEW count \in Counts, ConsumeTokens(count)
      PROVE  LimitsInv' /\ (overdrawn => granted'.tokens = granted.tokens)
    <2> DEFINE total == used.tokens + count
    <2>1. /\ total \in Nat /\ used.tokens \in Nat /\ granted.tokens \in Nat
          /\ count \in Nat /\ used.tokens <= total
        BY DEF LimitsTypeOK
    <2>2. /\ used' = [used EXCEPT !.tokens = total]
          /\ granted' = IF Fits(total) THEN [granted EXCEPT !.tokens = @ + count] ELSE granted
          /\ overdrawn' = (overdrawn \/ ~Fits(total))
          /\ UNCHANGED <<now, approved, authorized, lastStep>>
        BY <1>3 DEF ConsumeTokens
    <2>3. overdrawn => ~Fits(total)
        BY <2>1, FitsDownwards DEF RefusalIsCounted
    <2>4. /\ granted'.tokens \in Nat
          /\ granted'.tokens <= total
          /\ Fits(granted'.tokens)
        <3>1. CASE Fits(total)
            <4>1. granted'.tokens = granted.tokens + count
                BY <2>2, <3>1 DEF LimitsTypeOK
            <4>2. granted.tokens + count <= total
                BY <2>1 DEF CeilingsHold
            <4> QED
                BY <2>1, <3>1, <4>1, <4>2, FitsDownwards
        <3>2. CASE ~Fits(total)
            BY <2>1, <2>2, <3>2 DEF CeilingsHold
        <3> QED
            BY <3>1, <3>2
    <2>5. LimitsTypeOK'
        <3> HIDE DEF total
        <3>1. overdrawn' \in BOOLEAN
            BY <2>2
        <3>2. granted' \in [iterations : Nat, tool_calls : Nat, tokens : Nat]
            BY <2>1, <2>2 DEF LimitsTypeOK
        <3> QED
            BY <2>1, <2>2, <3>1, <3>2 DEF LimitsTypeOK
    <2>6. CeilingsHold'
        <3> HIDE DEF total
        <3>1. /\ granted'.iterations = granted.iterations
              /\ granted'.tool_calls = granted.tool_calls
            BY <2>2 DEF LimitsTypeOK
        <3>2. /\ used'.iterations = used.iterations
              /\ used'.tool_calls = used.tool_calls
              /\ used'.tokens = total
            BY <2>2 DEF LimitsTypeOK
        <3> QED
            BY <2>1, <2>2, <2>4, <3>1, <3>2 DEF CeilingsHold, Fits
    <2>7. RefusalIsCounted'
        <3> HIDE DEF total
        <3>1. used'.tokens = total
            BY <2>2 DEF LimitsTypeOK
        <3>2. overdrawn' => ~Fits(total)
            BY <2>2, <2>3
        <3> QED
            BY <3>1, <3>2 DEF RefusalIsCounted, Fits
    <2>8. RunsByItsRow'
        BY <2>2 DEF RunsByItsRow
    <2>9. overdrawn => granted'.tokens = granted.tokens
        BY <2>2, <2>3
    <2> QED
        BY <2>5, <2>6, <2>7, <2>8, <2>9
<1>4. ASSUME NEW name \in Names, NEW parameters \in SUBSET Parameters, Authorize(name, parameters)
      PROVE  LimitsInv' /\ (overdrawn => granted'.tokens = granted.tokens)
    <2>1. /\ authorized' = authorized \cup {name}
          /\ UNCHANGED <<used, now, approved, granted, lastStep, overdrawn>>
          /\ MayRun(name, parameters)
        BY <1>4 DEF Authorize
    <2> DEFINE row == Registry[name]
    <2>2. /\ name \in DOMAIN Registry
          /\ row.enabled
          /\ row.risk \in {"LOW", "MEDIUM"} \/ name \in approved
        BY <2>1 DEF MayRun, FromRecord, KnownRisks, NeedsApproval
    <2>6. row.roles # Garbled /\ Held \cap row.roles # {}
        <3>1. Held \cap (DecodeList(row.roles) \cap KnownRoles) # {}
            BY <2>1 DEF MayRun, FromRecord
        <3> QED
            BY <3>1 DEF DecodeList
    <2>7. WorkloadType = Unset \/ row.workloads \in {{}, Garbled} \/ WorkloadType \in row.workloads
        <3> DEFINE listed == IF DecodeList(row.workloads) = {} THEN Unset ELSE row.workloads
        <3>1. listed # Unset /\ WorkloadType # Unset => WorkloadType \in listed
            BY <2>1 DEF MayRun, FromRecord
        <3>2. CASE DecodeList(row.workloads) = {}
            BY <3>2 DEF DecodeList
        <3>3. CASE DecodeList(row.workloads) # {}
            <4>1. listed = row.workloads /\ listed # Unset
                BY <2>2, <3>3, LimitsAssumption DEF DecodeList
            <4> QED
                BY <3>1, <4>1
        <3> QED
            BY <3>2, <3>3
    <2>3. RunsByItsRow'
        BY <2>1, <2>2, <2>6, <2>7 DEF RunsByItsRow
    <2>4. LimitsTypeOK'
        BY <2>1 DEF LimitsTypeOK
    <2>5. CeilingsHold' /\ RefusalIsCounted'
        BY <2>1 DEF CeilingsHold, RefusalIsCounted, Fits
    <2> QED
        BY <2>1, <2>3, <2>4, <2>5
<1>5. ASSUME NEW name \in Names, Approve(name)
      PROVE  LimitsInv' /\ (overdrawn => granted'.tokens = granted.tokens)
    <2> USE <1>5 DEF Approve
    <2>1. LimitsTypeOK' /\ RunsByItsRow'
        BY DEF LimitsTypeOK, RunsByItsRow
    <2>2. CeilingsHold' /\ RefusalIsCounted'
        BY DEF CeilingsHold, RefusalIsCounted, Fits
    <2> QED
        BY <2>1, <2>2
<1>6. CASE Tick
    <2> USE <1>6 DEF Tick
    <2>1. LimitsTypeOK' /\ RunsByItsRow'
        BY DEF LimitsTypeOK, RunsByItsRow
    <2>2. CeilingsHold' /\ RefusalIsCounted'
        BY DEF CeilingsHold, RefusalIsCounted, Fits
    <2> QED
        BY <2>1, <2>2
<1>7. CASE UNCHANGED limitVars
    <2> USE <1>7 DEF limitVars
    <2>1. LimitsTypeOK' /\ RunsByItsRow'
        BY DEF LimitsTypeOK, RunsByItsRow
    <2>2. CeilingsHold' /\ RefusalIsCounted'
        BY DEF CeilingsHold, RefusalIsCounted, Fits
    <2> QED
        BY <2>1, <2>2
<1> QED
    BY <1>1, <1>2, <1>3, <1>4, <1>5, <1>6, <1>7 DEF LimitsNext

(* The invariant of the budget and of the guard.                             *)
THEOREM LimitsInvariant == LimitsSpec => []LimitsInv
<1>1. LimitsInv /\ [LimitsNext]_limitVars => LimitsInv'
    BY LimitsStepInv
<1> QED
    BY LimitsInitInv, <1>1, PTL DEF LimitsSpec

(* Whatever is called in whatever order, nothing beyond a ceiling is granted,*)
(* no step begins after the deadline, and the counters agree.                *)
THEOREM CeilingsHoldAlways == LimitsSpec => []CeilingsHold
<1>1. LimitsInv => CeilingsHold
    BY DEF LimitsInv
<1> QED
    BY LimitsInvariant, <1>1, PTL

(* A tool runs only for a role its row names and, unless the row names no    *)
(* workload or cannot be read, for a workload it names; one whose risk is    *)
(* not known to be low or medium, only after a human approved it.            *)
THEOREM RunsByItsRowAlways == LimitsSpec => []RunsByItsRow
<1>1. LimitsInv => RunsByItsRow
    BY DEF LimitsInv
<1> QED
    BY LimitsInvariant, <1>1, PTL

(* After one refusal of tokens no consumption of tokens is granted.          *)
THEOREM RefusedTokensStayRefusedAlways == LimitsSpec => RefusedTokensStayRefused
<1>1. LimitsInv /\ [LimitsNext]_limitVars => (overdrawn => granted'.tokens = granted.tokens)
    BY LimitsStepInv
<1>2. LimitsInv /\ [LimitsNext]_limitVars => [overdrawn => granted'.tokens = granted.tokens]_limitVars
    BY <1>1
<1> QED
    BY LimitsInvariant, <1>2, PTL DEF LimitsSpec, RefusedTokensStayRefused

-----------------------------------------------------------------------------
(* The stories of the workflows.                                           *)

HIDE LimitsAssumption
USE MaintenanceAssumption, SupplyPlanAssumption, WorkflowsAssumption

-----------------------------------------------------------------------------
(* What a sequence of event types says.                                    *)

Telling == {"workflow.started", "workflow.completed", "workflow.failed",
            "llm.call_started", "llm.call_completed", "cost.recorded"}

EventTypes == Telling \cup {"workflow.step_completed"}

Places(types, t) == {i \in DOMAIN types : types[i] = t}

\* The types of said occur once each, and none of the others that tell.
Says(types, said) ==
  \A t \in Telling : IF t \in said THEN \E i : Places(types, t) = {i} ELSE Places(types, t) = {}

LEMMA Concatenation ==
  ASSUME NEW S, NEW a \in Seq(S), NEW b \in Seq(S)
  PROVE  /\ a \o b \in Seq(S) /\ Len(a \o b) = Len(a) + Len(b)
         /\ Len(a) \in Nat /\ Len(b) \in Nat
         /\ DOMAIN a = 1..Len(a) /\ DOMAIN b = 1..Len(b) /\ DOMAIN (a \o b) = 1..(Len(a) + Len(b))
         /\ \A k \in 1..(Len(a) + Len(b)) : (a \o b)[k] = IF k <= Len(a) THEN a[k] ELSE b[k - Len(a)]
  OBVIOUS

LEMMA Joined ==
  ASSUME NEW a \in Seq(EventTypes), NEW b \in Seq(EventTypes), NEW s, NEW more, Says(a, s), Says(b, more),
         s \cap more = {}, a # << >>, b # << >>
  PROVE  /\ a \o b \in Seq(EventTypes) /\ a \o b # << >>
         /\ Says(a \o b, s \cup more)
         /\ (a \o b)[1] = a[1]
         /\ (a \o b)[Len(a \o b)] = b[Len(b)]
<1> DEFINE n == Len(a)
           c == a \o b
<1>1. /\ c \in Seq(EventTypes) /\ Len(c) = n + Len(b) /\ n \in Nat \ {0} /\ Len(b) \in Nat \ {0}
      /\ \A i \in 1..Len(c) : c[i] = IF i <= n THEN a[i] ELSE b[i - n]
  OBVIOUS
<1>2. ASSUME NEW t PROVE Places(c, t) = Places(a, t) \cup {n + i : i \in Places(b, t)}
  <2>1. ASSUME NEW k \in Places(c, t) PROVE k \in Places(a, t) \cup {n + i : i \in Places(b, t)}
    <3>1. k \in 1..Len(c) /\ c[k] = t
      BY <1>1 DEF Places
    <3>2. CASE k <= n
      BY <1>1, <3>1, <3>2 DEF Places
    <3>3. CASE ~(k <= n)
      <4>1. k - n \in 1..Len(b) /\ b[k - n] = t /\ k = n + (k - n)
        BY <1>1, <3>1, <3>3
      <4> QED
        BY <4>1 DEF Places
    <3> QED
      BY <3>2, <3>3
  <2>2. Places(a, t) \subseteq Places(c, t)
    BY <1>1 DEF Places
  <2>3. ASSUME NEW i \in Places(b, t) PROVE n + i \in Places(c, t)
    <3>1. i \in 1..Len(b) /\ b[i] = t
      BY DEF Places
    <3>2. n + i \in 1..Len(c) /\ ~(n + i <= n) /\ (n + i) - n = i
      BY <1>1, <3>1
    <3> QED
      BY <1>1, <3>1, <3>2 DEF Places
  <2> QED
    BY <2>1, <2>2, <2>3
<1>3. Says(c, s \cup more)
  <2> SUFFICES ASSUME NEW t \in Telling
               PROVE  IF t \in s \cup more THEN \E i : Places(c, t) = {i} ELSE Places(c, t) = {}
    BY DEF Says
  <2>1. CASE t \in s
    <3>1. Places(b, t) = {} /\ \E i : Places(a, t) = {i}
      BY <2>1 DEF Says
    <3>2. Places(c, t) = Places(a, t)
      BY <1>2, <3>1
    <3> QED
      BY <2>1, <3>1, <3>2
  <2>2. CASE t \in more
    <3>1. Places(a, t) = {} /\ \E i : Places(b, t) = {i}
      BY <2>2 DEF Says
    <3>2. PICK i : Places(b, t) = {i}
      BY <3>1
    <3>3. Places(c, t) = {n + i}
      BY <1>2, <3>1, <3>2
    <3> QED
      BY <2>2, <3>3
  <2>3. CASE t \notin s \cup more
    <3>1. Places(b, t) = {} /\ Places(a, t) = {}
      BY <2>3 DEF Says
    <3> QED
      BY <1>2, <2>3, <3>1
  <2> QED
    BY <2>1, <2>2, <2>3
<1> QED
  BY <1>1, <1>3

\* The sequences the workflows emit.
LEMMA Emitted ==
  /\ Begun \in Seq(EventTypes) /\ Begun # << >> /\ Begun[1] = "workflow.started"
  /\ Says(Begun, {"workflow.started"})
  /\ Says(<<"workflow.failed">>, {"workflow.failed"})
  /\ Says(<<"workflow.step_completed">>, {})
  /\ Says(<<"workflow.step_completed", "workflow.step_completed">>, {})
  /\ Says(<<"workflow.step_completed", "workflow.failed">>, {"workflow.failed"})
  /\ Says(<<"llm.call_started">>, {"llm.call_started"})
  /\ Says(<<"llm.call_completed", "cost.recorded">>, {"llm.call_completed", "cost.recorded"})
  /\ Says(<<"workflow.completed">>, {"workflow.completed"})
  /\ Says(<<"workflow.step_completed", "workflow.completed">>, {"workflow.completed"})
<1>1. ASSUME NEW x, x \in Telling PROVE Says(<<x>>, {x})
  <2>1. \A t : Places(<<x>>, t) = IF x = t THEN {1} ELSE {}
    BY DEF Places
  <2> QED
    BY <1>1, <2>1 DEF Says
<1>2. ASSUME NEW x, NEW y, x \notin Telling, y \in Telling
      PROVE  Says(<<x, y>>, {y})
  <2>1. \A t : Places(<<x, y>>, t) = (IF x = t THEN {1} ELSE {}) \cup (IF y = t THEN {2} ELSE {})
    BY DEF Places
  <2>2. \A t \in Telling : Places(<<x, y>>, t) = IF y = t THEN {2} ELSE {}
    BY <1>2, <2>1
  <2> QED
    BY <2>2 DEF Says
<1>3. ASSUME NEW x, NEW y, x \in Telling, y \notin Telling
      PROVE  Says(<<x, y>>, {x})
  <2>1. \A t : Places(<<x, y>>, t) = (IF x = t THEN {1} ELSE {}) \cup (IF y = t THEN {2} ELSE {})
    BY DEF Places
  <2>2. \A t \in Telling : Places(<<x, y>>, t) = IF x = t THEN {1} ELSE {}
    BY <1>3, <2>1
  <2> QED
    BY <2>2 DEF Says
<1>4. ASSUME NEW x, NEW y, x \in Telling, y \in Telling, x # y
      PROVE  Says(<<x, y>>, {x, y})
  <2>1. \A t : Places(<<x, y>>, t) = (IF x = t THEN {1} ELSE {}) \cup (IF y = t THEN {2} ELSE {})
    BY DEF Places
  <2>2. \A t \in Telling : Places(<<x, y>>, t) =
                            IF x = t THEN {1} ELSE IF y = t THEN {2} ELSE {}
    BY <1>4, <2>1
  <2> QED
    BY <2>2 DEF Says
<1>5. ASSUME NEW x, NEW y, x \notin Telling, y \notin Telling
      PROVE  Says(<<x, y>>, {}) /\ Says(<<x>>, {})
  <2>1. \A t : Places(<<x, y>>, t) = (IF x = t THEN {1} ELSE {}) \cup (IF y = t THEN {2} ELSE {})
    BY DEF Places
  <2>2. \A t : Places(<<x>>, t) = IF x = t THEN {1} ELSE {}
    BY DEF Places
  <2>3. \A t \in Telling : Places(<<x, y>>, t) = {} /\ Places(<<x>>, t) = {}
    BY <1>5, <2>1, <2>2
  <2> QED
    BY <2>3 DEF Says
<1>6. /\ "workflow.step_completed" \notin Telling
      /\ "workflow.started" \in Telling /\ "workflow.failed" \in Telling
      /\ "workflow.completed" \in Telling /\ "llm.call_started" \in Telling
      /\ "llm.call_completed" \in Telling /\ "cost.recorded" \in Telling
  BY DEF Telling
<1> USE DEF EventTypes
<1>7. /\ Begun \in Seq(EventTypes) /\ Begun # << >> /\ Begun[1] = "workflow.started"
      /\ Says(Begun, {"workflow.started"})
  <2>1. Says(Begun, {"workflow.started"})
    BY <1>3, <1>6 DEF Begun
  <2> QED
    BY <1>6, <2>1 DEF Begun
<1>8. /\ Says(<<"workflow.step_completed">>, {})
      /\ Says(<<"workflow.step_completed", "workflow.step_completed">>, {})
      /\ Says(<<"workflow.step_completed", "workflow.failed">>, {"workflow.failed"})
      /\ Says(<<"workflow.step_completed", "workflow.completed">>, {"workflow.completed"})
  BY <1>2, <1>5, <1>6
<1>9. /\ Says(<<"workflow.failed">>, {"workflow.failed"})
      /\ Says(<<"llm.call_started">>, {"llm.call_started"})
      /\ Says(<<"workflow.completed">>, {"workflow.completed"})
  BY <1>1, <1>6
<1>10. Says(<<"llm.call_completed", "cost.recorded">>, {"llm.call_completed", "cost.recorded"})
  BY <1>4, <1>6
<1> QED
  BY <1>7, <1>8, <1>9, <1>10

LEMMA AnalysedTells ==
  ASSUME NEW j
  PROVE  /\ Analysed(j) \in Seq(EventTypes) /\ Analysed(j) # << >>
         /\ Analysed(j)[1] = "workflow.started"
         /\ Says(Analysed(j), {"workflow.started"})
<1> DEFINE s == {"workflow.started"}
<1>1. ASSUME NEW b \in Seq(EventTypes), b # << >>, Says(b, {})
      PROVE  /\ Begun \o b \in Seq(EventTypes) /\ Begun \o b # << >>
             /\ (Begun \o b)[1] = "workflow.started"
             /\ Says(Begun \o b, s)
  <2>1. Says(Begun \o b, s \cup {})
    BY <1>1, Emitted, Joined
  <2> QED
    BY <1>1, <2>1, Emitted, Joined
<1> HIDE DEF s
<1>2. LET b == <<"workflow.step_completed", "workflow.step_completed">>
      IN  b \in Seq(EventTypes) /\ b # << >> /\ Says(b, {})
  BY Emitted DEF EventTypes
<1>3. LET b == <<"workflow.step_completed">>
      IN  b \in Seq(EventTypes) /\ b # << >> /\ Says(b, {})
  BY Emitted DEF EventTypes
<1> QED
  BY <1>1, <1>2, <1>3 DEF Analysed, s

LEMMA ClassifiedTells ==
  ASSUME NEW j
  PROVE  /\ Classified(j) \in Seq(EventTypes) /\ Classified(j) # << >>
         /\ Classified(j)[Len(Classified(j))] = "workflow.completed"
         /\ Says(Classified(j), {"workflow.completed"})
<1>1. LET b == <<"workflow.completed">>
      IN  /\ b \in Seq(EventTypes) /\ b # << >> /\ b[Len(b)] = "workflow.completed"
          /\ Says(b, {"workflow.completed"})
  BY Emitted DEF EventTypes, Telling
<1>2. LET b == <<"workflow.step_completed", "workflow.completed">>
      IN  /\ b \in Seq(EventTypes) /\ b # << >> /\ b[Len(b)] = "workflow.completed"
          /\ Says(b, {"workflow.completed"})
  BY Emitted DEF EventTypes, Telling
<1> QED
  BY <1>1, <1>2 DEF Classified

-----------------------------------------------------------------------------
(* What the shared log says.                                               *)

Log == Seq(Executions \X EventTypes)

LEMMA Emitting ==
  ASSUME events \in Log, NEW e \in Executions, NEW types \in Seq(EventTypes), Emit(e, types)
  PROVE  /\ events' \in Log
         /\ Own(e)' = Own(e) \cup {Len(events) + i : i \in DOMAIN types}
         /\ \A t : At(e, t)' = At(e, t) \cup {Len(events) + i : i \in Places(types, t)}
         /\ \A f \in Executions \ {e} : Own(f)' = Own(f) /\ \A t : At(f, t)' = At(f, t)
         /\ \A k \in DOMAIN events : k \in DOMAIN events' /\ events'[k] = events[k]
         /\ \A i \in DOMAIN types : events'[Len(events) + i] = <<e, types[i]>>
<1> DEFINE n == Len(events)
           added == [k \in DOMAIN types |-> <<e, types[k]>>]
<1>1. /\ added \in Log /\ Len(added) = Len(types) /\ Len(types) \in Nat /\ DOMAIN types = 1..Len(types)
      /\ \A i \in DOMAIN types : added[i] = <<e, types[i]>>
  BY DEF Log
<1> HIDE DEF added
<1>2. /\ events' \in Log /\ Len(events') = n + Len(types) /\ n \in Nat
      /\ DOMAIN events = 1..n /\ DOMAIN events' = 1..(n + Len(types))
      /\ \A k \in 1..n : events'[k] = events[k]
      /\ \A i \in DOMAIN types : events'[n + i] = <<e, types[i]>>
  <2>1. events' = events \o added
    BY DEF Emit, added
  <2>2. /\ events' \in Log /\ Len(events') = n + Len(types) /\ n \in Nat
        /\ DOMAIN events = 1..n /\ DOMAIN events' = 1..(n + Len(types))
        /\ \A k \in 1..(n + Len(types)) : events'[k] = IF k <= n THEN events[k] ELSE added[k - n]
    <3>1. events \in Seq(Executions \X EventTypes) /\ added \in Seq(Executions \X EventTypes)
      BY <1>1 DEF Log
    <3>2. /\ events \o added \in Log /\ Len(events \o added) = n + Len(added)
          /\ n \in Nat /\ DOMAIN events = 1..n /\ DOMAIN (events \o added) = 1..(n + Len(added))
          /\ \A k \in 1..(n + Len(added)) :
                (events \o added)[k] = IF k <= n THEN events[k] ELSE added[k - n]
      BY ONLY <3>1, Concatenation DEF Log
    <3> QED
      BY ONLY <1>1, <2>1, <3>2
  <2>3. \A k \in 1..n : events'[k] = events[k]
    BY <1>1, <2>2
  <2>4. ASSUME NEW i \in DOMAIN types PROVE events'[n + i] = <<e, types[i]>>
    <3>1. n + i \in 1..(n + Len(types)) /\ ~(n + i <= n) /\ (n + i) - n = i
      BY <1>1, <2>2
    <3> QED
      BY <1>1, <2>2, <3>1
  <2> QED
    BY <2>2, <2>3, <2>4
<1>3. ASSUME NEW k PROVE k \in DOMAIN events' <=>
                           k \in DOMAIN events \/ \E i \in DOMAIN types : k = n + i
  <2>1. ASSUME k \in DOMAIN events', k \notin DOMAIN events
        PROVE  \E i \in DOMAIN types : k = n + i
    <3>1. k - n \in DOMAIN types /\ k = n + (k - n)
      BY <1>1, <1>2, <2>1
    <3> QED
      BY <3>1
  <2> QED
    BY <1>1, <1>2, <2>1
<1> HIDE DEF n
<1>4. Own(e)' = Own(e) \cup {n + i : i \in DOMAIN types}
  <2>1. ASSUME NEW i \in DOMAIN types PROVE events'[n + i][1] = e
    BY <1>2
  <2> QED
    BY <1>2, <1>3, <2>1 DEF Own
<1>5. ASSUME NEW t PROVE At(e, t)' = At(e, t) \cup {n + i : i \in Places(types, t)}
  <2>1. ASSUME NEW i \in DOMAIN types PROVE events'[n + i] = <<e, t>> <=> i \in Places(types, t)
    BY <1>2 DEF Places
  <2>2. Places(types, t) \subseteq DOMAIN types
    BY DEF Places
  <2> QED
    BY <1>2, <1>3, <2>1, <2>2 DEF At
<1>6. ASSUME NEW f \in Executions \ {e} PROVE Own(f)' = Own(f) /\ \A t : At(f, t)' = At(f, t)
  <2>1. ASSUME NEW i \in DOMAIN types PROVE events'[n + i][1] = e /\ \A t : events'[n + i] # <<f, t>>
    BY <1>2
  <2> QED
    BY <1>2, <1>3, <2>1 DEF Own, At
<1> QED
  BY <1>2, <1>3, <1>4, <1>5, <1>6 DEF n

LEMMA Silent ==
  ASSUME UNCHANGED events
  PROVE  \A f : Own(f)' = Own(f) /\ \A t : At(f, t)' = At(f, t)
  BY DEF Own, At

\* The log says once each of said about e, and nothing else that tells.
Tells(e, said) ==
  \A t \in Telling : IF t \in said THEN \E k : At(e, t) = {k} ELSE At(e, t) = {}

\* What it says first, and last.
StartsFirst(e) == \E k \in At(e, "workflow.started") : \A l \in Own(e) : k <= l
LastSaid(e, t) == \E k \in At(e, t) : \A l \in Own(e) : l <= k

LEMMA GoesOn ==
  ASSUME events \in Log, NEW e \in Executions, NEW types \in Seq(EventTypes), types # << >>,
         Emit(e, types), NEW said, NEW more, Says(types, more), Tells(e, said), said \cap more = {}
  PROVE  /\ Tells(e, said \cup more)'
         /\ StartsFirst(e) => StartsFirst(e)'
         /\ \A t : types[Len(types)] = t => LastSaid(e, t)'
<1> DEFINE n == Len(events)
<1>1. /\ n \in Nat /\ DOMAIN events = 1..n
      /\ Len(types) \in Nat \ {0} /\ DOMAIN types = 1..Len(types)
  BY DEF Log
<1>2. /\ Own(e)' = Own(e) \cup {n + i : i \in DOMAIN types}
      /\ \A t : At(e, t)' = At(e, t) \cup {n + i : i \in Places(types, t)}
  BY Emitting
<1> HIDE DEF n
<1>3. Own(e) \subseteq 1..n /\ \A t : At(e, t) \subseteq Own(e)
  BY <1>1 DEF Own, At
<1>4. Tells(e, said \cup more)'
  <2> SUFFICES ASSUME NEW t \in Telling
               PROVE  IF t \in said \cup more THEN \E k : At(e, t)' = {k} ELSE At(e, t)' = {}
    BY DEF Tells
  <2>1. CASE t \in more
    <3>1. At(e, t) = {} /\ \E i : Places(types, t) = {i}
      BY <2>1 DEF Says, Tells
    <3>2. PICK i : Places(types, t) = {i}
      BY <3>1
    <3>3. At(e, t)' = {n + i}
      BY <1>2, <3>1, <3>2
    <3> QED
      BY <2>1, <3>3
  <2>2. CASE t \notin more
    <3>1. Places(types, t) = {}
      BY <2>2 DEF Says
    <3>2. At(e, t)' = At(e, t)
      <4>1. {n + i : i \in Places(types, t)} = {}
        BY <3>1
      <4>2. At(e, t)' = At(e, t) \cup {n + i : i \in Places(types, t)}
        BY <1>2
      <4> QED
        BY ONLY <4>1, <4>2
    <3> QED
      BY <2>2, <3>2 DEF Tells
  <2> QED
    BY <2>1, <2>2
<1>5. ASSUME StartsFirst(e) PROVE StartsFirst(e)'
  <2>1. PICK k \in At(e, "workflow.started") : \A l \in Own(e) : k <= l
    BY <1>5 DEF StartsFirst
  <2>2. k \in At(e, "workflow.started")' /\ k \in 1..n
    BY <1>2, <1>3, <2>1
  <2>3. \A l \in Own(e)' : k <= l
    BY <1>1, <1>2, <2>1, <2>2
  <2> QED
    BY <2>2, <2>3 DEF StartsFirst
<1>6. LastSaid(e, types[Len(types)])'
  <2> DEFINE last == Len(types)
  <2>1. n + last \in At(e, types[last])'
    BY <1>1, <1>2 DEF Places
  <2>2. \A l \in Own(e)' : l <= n + last
    BY <1>1, <1>2, <1>3
  <2> QED
    BY <2>1, <2>2 DEF LastSaid
<1> QED
  BY <1>4, <1>5, <1>6

LEMMA SetsOff ==
  ASSUME events \in Log, NEW e \in Executions, NEW types \in Seq(EventTypes), types # << >>,
         Emit(e, types), NEW said, Says(types, said), Own(e) = {}
  PROVE  /\ Tells(e, said)'
         /\ types[1] = "workflow.started" => StartsFirst(e)'
         /\ \A t : types[Len(types)] = t => LastSaid(e, t)'
         /\ Len(types) = 1 => \E k : Own(e)' = {k}
<1> DEFINE n == Len(events)
<1>1. n \in Nat /\ Len(types) \in Nat \ {0} /\ DOMAIN types = 1..Len(types)
  BY DEF Log
<1>2. Tells(e, {})
  BY DEF Tells, At, Own
<1>3. Tells(e, {} \cup said)' /\ \A t : types[Len(types)] = t => LastSaid(e, t)'
  BY <1>2, GoesOn
<1>4. Tells(e, said)'
  <2>1. {} \cup said = said
    OBVIOUS
  <2> QED
    BY <1>3, <2>1
<1>5. /\ Own(e)' = {n + i : i \in DOMAIN types}
      /\ \A t : At(e, t)' = At(e, t) \cup {n + i : i \in Places(types, t)}
  BY Emitting
<1> HIDE DEF n
<1>6. ASSUME types[1] = "workflow.started" PROVE StartsFirst(e)'
  <2>1. n + 1 \in At(e, "workflow.started")'
    BY <1>1, <1>5, <1>6 DEF Places
  <2>2. \A l \in Own(e)' : n + 1 <= l
    BY <1>1, <1>5
  <2> QED
    BY <2>1, <2>2 DEF StartsFirst
<1>7. ASSUME Len(types) = 1 PROVE Own(e)' = {n + 1}
  BY <1>1, <1>5, <1>7
<1> QED
  BY <1>3, <1>4, <1>6, <1>7

-----------------------------------------------------------------------------
(* The story of an execution at each of its phases.                        *)

Runs(j) == j \in Jobs /\ j.kind \in WorkflowTypes /\ IsValid(j) /\ ~Raises(j)

Asked == {"workflow.started", "llm.call_started"}
Explained == Asked \cup {"llm.call_completed", "cost.recorded", "workflow.completed"}

Uncosted(e) == Recorded(e) = {} /\ output[e] = Nothing

Story(e) ==
  /\ phase[e] = "new" => Own(e) = {} /\ Uncosted(e)
  /\ phase[e] \in {"asking", "cancelled"} =>
       /\ Runs(job[e]) /\ IsComplex(job[e]) /\ Uncosted(e)
       /\ StartsFirst(e) /\ Tells(e, Asked)
  /\ phase[e] = "completed" =>
       /\ Runs(job[e]) /\ StartsFirst(e) /\ LastSaid(e, "workflow.completed")
       /\ \/ /\ Recorded(e) = {} /\ output[e] = Output(job[e], FALSE)
             /\ Tells(e, {"workflow.started", "workflow.completed"})
          \/ /\ \E k : Recorded(e) = {k}
             /\ IsComplex(job[e]) /\ output[e] = Output(job[e], TRUE)
             /\ Tells(e, Explained)
  /\ phase[e] = "failed" =>
       /\ Uncosted(e) /\ \E k : Own(e) = {k}
       /\ LastSaid(e, "workflow.failed") /\ Tells(e, {"workflow.failed"})
  /\ phase[e] = "raised" =>
       /\ Uncosted(e)
       /\ job[e].kind \notin WorkflowTypes => Own(e) = {}
       /\ job[e].kind \in WorkflowTypes =>
            /\ StartsFirst(e) /\ LastSaid(e, "workflow.failed")
            /\ \/ Tells(e, {"workflow.started", "workflow.failed"})
               \/ IsComplex(job[e]) /\ Tells(e, Asked \cup {"workflow.failed"})

Phases == {"new", "asking", "completed", "failed", "raised", "cancelled"}

Shared ==
  /\ events \in Log /\ records \in Seq(Executions)
  /\ job \in [Executions -> Jobs \cup {Nothing}]
  /\ phase \in [Executions -> Phases]
  /\ DOMAIN output = Executions

StoryInv == Shared /\ \A e \in Executions : Story(e)

LEMMA StoryInit == Init => StoryInv
<1> SUFFICES ASSUME Init PROVE StoryInv
  OBVIOUS
<1>1. Shared
  BY DEF Init, Shared, Log, Phases
<1>2. ASSUME NEW e \in Executions PROVE Story(e)
  BY DEF Init, Story, Own, Recorded, Uncosted
<1> QED
  BY <1>1, <1>2 DEF StoryInv

\* An execution nothing is done to keeps its story.
LEMMA Kept ==
  ASSUME NEW f, Story(f), phase'[f] = phase[f], job'[f] = job[f], output'[f] = output[f],
         Recorded(f)' = Recorded(f), Own(f)' = Own(f), \A t : At(f, t)' = At(f, t)
  PROVE  Story(f)'
<1>1. \A said : Tells(f, said)' <=> Tells(f, said)
  BY DEF Tells
<1>2. /\ StartsFirst(f)' <=> StartsFirst(f)
      /\ \A t : LastSaid(f, t)' <=> LastSaid(f, t)
  BY DEF StartsFirst, LastSaid
<1>3. Uncosted(f)' <=> Uncosted(f)
  BY DEF Uncosted
<1> QED
  BY <1>1, <1>2, <1>3 DEF Story

\* The others, when an execution emits.
LEMMA OthersKept ==
  ASSUME StoryInv, NEW e \in Executions, NEW types \in Seq(EventTypes), Emit(e, types),
         NEW f \in Executions \ {e}, phase'[f] = phase[f], job'[f] = job[f],
         output'[f] = output[f], Recorded(f)' = Recorded(f)
  PROVE  Story(f)'
<1>1. Own(f)' = Own(f) /\ \A t : At(f, t)' = At(f, t)
  BY Emitting DEF StoryInv, Shared
<1> QED
  BY <1>1, Kept DEF StoryInv

\* The first step of an execution, which emits types and leaves it in phase p
\* with output r.
LEMMA Beginning ==
  ASSUME StoryInv, NEW e \in Executions, NEW j \in Jobs, NEW p \in Phases, Begin(e, j, p),
         NEW types \in Seq(EventTypes), types # << >>, Emit(e, types),
         NEW said, Says(types, said), UNCHANGED records,
         DOMAIN output' = Executions, \A f \in Executions \ {e} : output'[f] = output[f]
  PROVE  /\ Shared'
         /\ \A f \in Executions \ {e} : Story(f)'
         /\ job'[e] = j /\ phase'[e] = p /\ Recorded(e)' = {} /\ output[e] = Nothing
         /\ Tells(e, said)'
         /\ types[1] = "workflow.started" => StartsFirst(e)'
         /\ \A t : types[Len(types)] = t => LastSaid(e, t)'
         /\ Len(types) = 1 => \E k : Own(e)' = {k}
<1>1. /\ phase[e] = "new" /\ job'[e] = j /\ phase'[e] = p
      /\ \A f \in Executions \ {e} : phase'[f] = phase[f] /\ job'[f] = job[f]
      /\ job' \in [Executions -> Jobs \cup {Nothing}] /\ phase' \in [Executions -> Phases]
  BY DEF Begin, StoryInv, Shared
<1>2. Own(e) = {} /\ Recorded(e) = {} /\ output[e] = Nothing
  BY <1>1 DEF StoryInv, Story, Uncosted
<1>3. \A f : Recorded(f)' = Recorded(f)
  BY DEF Recorded
<1>4. Shared'
  BY <1>1, Emitting DEF StoryInv, Shared
<1>5. ASSUME NEW f \in Executions \ {e} PROVE Story(f)'
  BY <1>1, <1>3, OthersKept
<1> QED
  BY <1>1, <1>2, <1>3, <1>4, <1>5, SetsOff DEF StoryInv, Shared

\* The last step of one that waits for its model, in the same terms.
LEMMA Resuming ==
  ASSUME StoryInv, NEW e \in Executions, phase[e] = "asking", NEW p \in Phases,
         phase' = [phase EXCEPT ![e] = p], UNCHANGED job,
         NEW types \in Seq(EventTypes), types # << >>, Emit(e, types),
         NEW more, Says(types, more), Asked \cap more = {},
         records' \in Seq(Executions), \A f \in Executions \ {e} : Recorded(f)' = Recorded(f),
         DOMAIN output' = Executions, \A f \in Executions \ {e} : output'[f] = output[f]
  PROVE  /\ Shared'
         /\ \A f \in Executions \ {e} : Story(f)'
         /\ phase'[e] = p /\ Runs(job[e]) /\ IsComplex(job[e]) /\ Uncosted(e)
         /\ StartsFirst(e)' /\ Tells(e, Asked \cup more)' /\ \A t : types[Len(types)] = t => LastSaid(e, t)'
<1>1. /\ phase'[e] = p /\ \A f \in Executions \ {e} : phase'[f] = phase[f] /\ job'[f] = job[f]
      /\ phase' \in [Executions -> Phases]
  BY DEF StoryInv, Shared
<1>2. Runs(job[e]) /\ IsComplex(job[e]) /\ Uncosted(e) /\ StartsFirst(e) /\ Tells(e, Asked)
  BY DEF StoryInv, Story
<1>3. Shared'
  BY <1>1, Emitting DEF StoryInv, Shared
<1>4. ASSUME NEW f \in Executions \ {e} PROVE Story(f)'
  BY <1>1, OthersKept
<1>5. StartsFirst(e)' /\ Tells(e, Asked \cup more)' /\ \A t : types[Len(types)] = t => LastSaid(e, t)'
  BY <1>2, GoesOn DEF StoryInv, Shared
<1> QED
  BY <1>1, <1>2, <1>3, <1>4, <1>5

LEMMA RefuseUnknownStory ==
  ASSUME StoryInv, NEW e \in Executions, NEW j \in Jobs, RefuseUnknown(e, j)
  PROVE  StoryInv'
<1>1. /\ phase[e] = "new" /\ j.kind \notin WorkflowTypes /\ job' = [job EXCEPT ![e] = j]
      /\ phase' = [phase EXCEPT ![e] = "raised"] /\ UNCHANGED <<events, records, output>>
  BY DEF RefuseUnknown, Begin
<1>2. Shared'
  BY <1>1 DEF StoryInv, Shared, Phases
<1>3. \A f : /\ Own(f)' = Own(f) /\ \A t : At(f, t)' = At(f, t)
             /\ Recorded(f)' = Recorded(f)
  BY <1>1, Silent DEF Recorded
<1>4. ASSUME NEW f \in Executions \ {e} PROVE Story(f)'
  BY <1>1, <1>3, Kept DEF StoryInv, Shared
<1>5. Story(e)'
  <2>1. job'[e] = j /\ phase'[e] = "raised" /\ output'[e] = output[e]
    BY <1>1 DEF StoryInv, Shared
  <2>2. Own(e) = {} /\ Uncosted(e)
    BY <1>1 DEF StoryInv, Story
  <2> QED
    BY <1>1, <1>3, <2>1, <2>2 DEF Story, Uncosted
<1> QED
  BY <1>2, <1>4, <1>5 DEF StoryInv

LEMMA RefuseInvalidStory ==
  ASSUME StoryInv, NEW e \in Executions, NEW j \in Jobs, RefuseInvalid(e, j)
  PROVE  StoryInv'
<1>0. PICK types : types = <<"workflow.failed">>
  OBVIOUS
<1>1. Begin(e, j, "failed") /\ Emit(e, types) /\ UNCHANGED <<records, output>>
  BY <1>0 DEF RefuseInvalid
<1>2. /\ types \in Seq(EventTypes) /\ types # << >> /\ Len(types) = 1
      /\ types[Len(types)] = "workflow.failed" /\ Says(types, {"workflow.failed"})
  BY <1>0, Emitted DEF EventTypes, Telling
<1>3. /\ Shared'
      /\ \A f \in Executions \ {e} : Story(f)'
      /\ phase'[e] = "failed" /\ Recorded(e)' = {} /\ output[e] = Nothing
      /\ Tells(e, {"workflow.failed"})' /\ LastSaid(e, "workflow.failed")'
      /\ \E k : Own(e)' = {k}
  <2>1. /\ e \in Executions /\ j \in Jobs /\ "failed" \in Phases
        /\ DOMAIN output' = Executions /\ \A f \in Executions \ {e} : output'[f] = output[f]
    BY <1>1 DEF Phases, StoryInv, Shared
  <2> QED
    <3>1. Shared' /\ \A f \in Executions \ {e} : Story(f)'
      BY ONLY StoryInv, <1>1, <1>2, <2>1, Beginning
    <3>2. phase'[e] = "failed" /\ Recorded(e)' = {} /\ output[e] = Nothing
      BY ONLY StoryInv, <1>1, <1>2, <2>1, Beginning
    <3>3. Tells(e, {"workflow.failed"})'
      BY ONLY StoryInv, <1>1, <1>2, <2>1, Beginning
    <3>4. LastSaid(e, "workflow.failed")'
      BY ONLY StoryInv, <1>1, <1>2, <2>1, Beginning
    <3>5. \E k : Own(e)' = {k}
      BY ONLY StoryInv, <1>1, <1>2, <2>1, Beginning
    <3> QED
      BY <3>1, <3>2, <3>3, <3>4, <3>5
<1>4. Story(e)'
  BY <1>1, <1>3 DEF Story, Uncosted
<1> QED
  BY <1>3, <1>4 DEF StoryInv

LEMMA FailAnalysisStory ==
  ASSUME StoryInv, NEW e \in Executions, NEW j \in Jobs, FailAnalysis(e, j)
  PROVE  StoryInv'
<1>0. PICK rest, types, said : /\ rest = <<"workflow.step_completed", "workflow.failed">>
                               /\ types = Begun \o rest
                               /\ said = {"workflow.started", "workflow.failed"}
  OBVIOUS
<1>1. /\ Begin(e, j, "raised") /\ Emit(e, types) /\ UNCHANGED <<records, output>>
      /\ j.kind \in WorkflowTypes
  BY <1>0 DEF FailAnalysis
<1>2. /\ rest \in Seq(EventTypes) /\ rest # << >> /\ rest[Len(rest)] = "workflow.failed"
      /\ Says(rest, {"workflow.failed"})
  BY <1>0, Emitted DEF EventTypes, Telling
<1>3. /\ types \in Seq(EventTypes) /\ types # << >> /\ types[1] = "workflow.started"
      /\ types[Len(types)] = "workflow.failed"
      /\ Says(types, {"workflow.started"} \cup {"workflow.failed"})
  <2>1. types = Begun \o rest /\ {"workflow.started"} \cap {"workflow.failed"} = {}
    BY <1>0
  <2> QED
    BY ONLY <1>2, <2>1, Emitted, Joined
<1>4. said = {"workflow.started"} \cup {"workflow.failed"}
  BY <1>0
<1>5. /\ Shared'
      /\ \A f \in Executions \ {e} : Story(f)'
      /\ job'[e] = j /\ phase'[e] = "raised" /\ Recorded(e)' = {} /\ output[e] = Nothing
      /\ Tells(e, said)' /\ StartsFirst(e)' /\ LastSaid(e, "workflow.failed")'
  BY <1>1, <1>3, <1>4, Beginning DEF Phases, StoryInv, Shared
<1>6. Story(e)'
  BY <1>0, <1>1, <1>5 DEF Story, Uncosted
<1> QED
  BY <1>5, <1>6 DEF StoryInv

LEMMA RunToEndStory ==
  ASSUME StoryInv, NEW e \in Executions, NEW j \in Jobs, RunToEnd(e, j)
  PROVE  StoryInv'
<1>0. PICK types, said : /\ types = Analysed(j) \o Classified(j)
                         /\ said = {"workflow.started", "workflow.completed"}
  OBVIOUS
<1>1. /\ Begin(e, j, "completed") /\ Emit(e, types) /\ UNCHANGED records
      /\ output' = [output EXCEPT ![e] = Output(j, FALSE)] /\ Runs(j)
  BY <1>0 DEF RunToEnd, Runs
<1>2. /\ types \in Seq(EventTypes) /\ types # << >> /\ types[1] = "workflow.started"
      /\ types[Len(types)] = "workflow.completed"
      /\ Says(types, {"workflow.started"} \cup {"workflow.completed"})
  <2>1. types = Analysed(j) \o Classified(j) /\ {"workflow.started"} \cap {"workflow.completed"} = {}
    BY <1>0
  <2> QED
    BY ONLY <2>1, AnalysedTells, ClassifiedTells, Joined
<1>3. said = {"workflow.started"} \cup {"workflow.completed"}
  BY <1>0
<1>4. /\ Shared'
      /\ \A f \in Executions \ {e} : Story(f)'
      /\ job'[e] = j /\ phase'[e] = "completed" /\ Recorded(e)' = {}
      /\ Tells(e, said)' /\ StartsFirst(e)' /\ LastSaid(e, "workflow.completed")'
  <2>1. /\ e \in Executions /\ j \in Jobs /\ "completed" \in Phases
        /\ DOMAIN output' = Executions /\ \A f \in Executions \ {e} : output'[f] = output[f]
    BY <1>1 DEF Phases, StoryInv, Shared
  <2>2. /\ types \in Seq(EventTypes) /\ types # << >> /\ types[1] = "workflow.started"
        /\ types[Len(types)] = "workflow.completed" /\ Says(types, said)
        /\ Begin(e, j, "completed") /\ Emit(e, types) /\ UNCHANGED records
    BY <1>1, <1>2, <1>3
  <2>3. Shared' /\ \A f \in Executions \ {e} : Story(f)'
    BY ONLY StoryInv, <2>1, <2>2, Beginning
  <2>4. job'[e] = j /\ phase'[e] = "completed" /\ Recorded(e)' = {}
    BY ONLY StoryInv, <2>1, <2>2, Beginning
  <2>5. Tells(e, said)' /\ StartsFirst(e)'
    BY ONLY StoryInv, <2>1, <2>2, Beginning
  <2>6. LastSaid(e, "workflow.completed")'
    BY ONLY StoryInv, <2>1, <2>2, Beginning
  <2> QED
    BY <2>3, <2>4, <2>5, <2>6
<1>5. output'[e] = Output(j, FALSE)
  BY <1>1 DEF StoryInv, Shared
<1>6. Story(e)'
  BY <1>0, <1>1, <1>4, <1>5 DEF Story
<1> QED
  BY <1>4, <1>6 DEF StoryInv

LEMMA AskModelStory ==
  ASSUME StoryInv, NEW e \in Executions, NEW j \in Jobs, AskModel(e, j)
  PROVE  StoryInv'
<1>0. PICK rest, types : rest = <<"llm.call_started">> /\ types = Analysed(j) \o rest
  OBVIOUS
<1>1. /\ Begin(e, j, "asking") /\ Emit(e, types) /\ UNCHANGED <<records, output>>
      /\ Runs(j) /\ IsComplex(j)
  BY <1>0 DEF AskModel, Runs
<1>2. rest \in Seq(EventTypes) /\ rest # << >> /\ Says(rest, {"llm.call_started"})
  BY <1>0, Emitted DEF EventTypes, Telling
<1>3. /\ types \in Seq(EventTypes) /\ types # << >> /\ types[1] = "workflow.started"
      /\ Says(types, {"workflow.started"} \cup {"llm.call_started"})
  <2>1. types = Analysed(j) \o rest /\ {"workflow.started"} \cap {"llm.call_started"} = {}
    BY <1>0
  <2> QED
    <3>1. /\ Analysed(j) \in Seq(EventTypes) /\ Analysed(j) # << >>
          /\ Analysed(j)[1] = "workflow.started" /\ Says(Analysed(j), {"workflow.started"})
      BY AnalysedTells
    <3> QED
      BY ONLY <1>2, <2>1, <3>1, Joined
<1>4. Asked = {"workflow.started"} \cup {"llm.call_started"}
  BY DEF Asked
<1>5. /\ Shared'
      /\ \A f \in Executions \ {e} : Story(f)'
      /\ job'[e] = j /\ phase'[e] = "asking" /\ Recorded(e)' = {} /\ output[e] = Nothing
      /\ Tells(e, Asked)' /\ StartsFirst(e)'
  BY <1>1, <1>3, <1>4, Beginning DEF Phases, StoryInv, Shared
<1>6. Story(e)'
  BY <1>1, <1>5 DEF Story, Uncosted
<1> QED
  BY <1>5, <1>6 DEF StoryInv

LEMMA AnswerStory ==
  ASSUME StoryInv, NEW e \in Executions, Answer(e)
  PROVE  StoryInv'
<1>0. PICK first, types, more : /\ first = <<"llm.call_completed", "cost.recorded">>
                                /\ types = first \o Classified(job[e])
                                /\ more = {"llm.call_completed", "cost.recorded", "workflow.completed"}
  OBVIOUS
<1>1. /\ phase[e] = "asking" /\ Emit(e, types) /\ records' = Append(records, e)
      /\ output' = [output EXCEPT ![e] = Output(job[e], TRUE)]
      /\ phase' = [phase EXCEPT ![e] = "completed"] /\ UNCHANGED job
  BY <1>0 DEF Answer
<1>2. /\ first \in Seq(EventTypes) /\ first # << >>
      /\ Says(first, {"llm.call_completed", "cost.recorded"})
  BY <1>0, Emitted DEF EventTypes, Telling
<1>3. /\ types \in Seq(EventTypes) /\ types # << >> /\ types[Len(types)] = "workflow.completed"
      /\ Says(types, {"llm.call_completed", "cost.recorded"} \cup {"workflow.completed"})
  <2>1. /\ types = first \o Classified(job[e])
        /\ {"llm.call_completed", "cost.recorded"} \cap {"workflow.completed"} = {}
    BY <1>0
  <2> QED
    BY ONLY <1>2, <2>1, ClassifiedTells, Joined
<1>4. /\ more = {"llm.call_completed", "cost.recorded"} \cup {"workflow.completed"}
      /\ Asked \cap more = {} /\ Asked \cup more = Explained
  BY <1>0 DEF Asked, Explained
<1>5. /\ records \in Seq(Executions) /\ records' \in Seq(Executions)
      /\ DOMAIN records = 1..Len(records) /\ Len(records) \in Nat
      /\ DOMAIN records' = 1..(Len(records) + 1)
      /\ \A k \in DOMAIN records : records'[k] = records[k]
      /\ records'[Len(records) + 1] = e
  BY <1>1 DEF StoryInv, Shared
<1>6. /\ Recorded(e)' = Recorded(e) \cup {Len(records) + 1}
      /\ \A f \in Executions \ {e} : Recorded(f)' = Recorded(f)
  BY <1>5 DEF Recorded
<1>7. /\ DOMAIN output' = Executions /\ output'[e] = Output(job[e], TRUE)
      /\ \A f \in Executions \ {e} : output'[f] = output[f]
  BY <1>1 DEF StoryInv, Shared
<1>8. /\ Shared'
      /\ \A f \in Executions \ {e} : Story(f)'
      /\ phase'[e] = "completed" /\ Runs(job[e]) /\ IsComplex(job[e]) /\ Uncosted(e)
      /\ StartsFirst(e)' /\ Tells(e, Explained)' /\ LastSaid(e, "workflow.completed")'
  <2>1. /\ "completed" \in Phases /\ e \in Executions /\ phase[e] = "asking"
        /\ phase' = [phase EXCEPT ![e] = "completed"] /\ UNCHANGED job
        /\ types \in Seq(EventTypes) /\ types # << >> /\ Emit(e, types)
        /\ Says(types, more) /\ Asked \cap more = {} /\ types[Len(types)] = "workflow.completed"
        /\ records' \in Seq(Executions) /\ \A f \in Executions \ {e} : Recorded(f)' = Recorded(f)
        /\ DOMAIN output' = Executions /\ \A f \in Executions \ {e} : output'[f] = output[f]
    BY <1>1, <1>3, <1>4, <1>5, <1>6, <1>7 DEF Phases
  <2>2. Shared' /\ \A f \in Executions \ {e} : Story(f)'
    BY ONLY StoryInv, <2>1, Resuming
  <2>3. phase'[e] = "completed" /\ Runs(job[e]) /\ IsComplex(job[e]) /\ Uncosted(e)
    BY ONLY StoryInv, <2>1, Resuming
  <2>4. StartsFirst(e)' /\ Tells(e, Asked \cup more)'
    BY ONLY StoryInv, <2>1, Resuming
  <2>5. LastSaid(e, "workflow.completed")'
    BY ONLY StoryInv, <2>1, Resuming
  <2> QED
    BY <1>4, <2>2, <2>3, <2>4, <2>5
<1>9. Story(e)'
  <2>1. Recorded(e)' = {Len(records) + 1}
    BY <1>6, <1>8 DEF Uncosted
  <2> QED
    BY <1>1, <1>7, <1>8, <2>1 DEF Story
<1> QED
  BY <1>8, <1>9 DEF StoryInv

LEMMA GatewayFailsStory ==
  ASSUME StoryInv, NEW e \in Executions, GatewayFails(e)
  PROVE  StoryInv'
<1>0. PICK types : types = <<"workflow.failed">>
  OBVIOUS
<1>1. /\ phase[e] = "asking" /\ Emit(e, types) /\ UNCHANGED <<job, records, output>>
      /\ phase' = [phase EXCEPT ![e] = "raised"]
  BY <1>0 DEF GatewayFails
<1>2. /\ types \in Seq(EventTypes) /\ types # << >>
      /\ types[Len(types)] = "workflow.failed" /\ Says(types, {"workflow.failed"})
  BY <1>0, Emitted DEF EventTypes, Telling
<1>3. Asked \cap {"workflow.failed"} = {} /\ \A f : Recorded(f)' = Recorded(f)
  BY <1>1 DEF Asked, Recorded
<1>4. /\ Shared'
      /\ \A f \in Executions \ {e} : Story(f)'
      /\ phase'[e] = "raised" /\ Runs(job[e]) /\ IsComplex(job[e]) /\ Uncosted(e)
      /\ StartsFirst(e)' /\ Tells(e, Asked \cup {"workflow.failed"})' /\ LastSaid(e, "workflow.failed")'
  <2>1. /\ "raised" \in Phases /\ e \in Executions /\ records' \in Seq(Executions)
        /\ DOMAIN output' = Executions /\ \A f \in Executions \ {e} : output'[f] = output[f]
    BY <1>1 DEF Phases, StoryInv, Shared
  <2> QED
    <3>1. Shared' /\ \A f \in Executions \ {e} : Story(f)'
      BY ONLY StoryInv, <1>1, <1>2, <1>3, <2>1, Resuming
    <3>2. phase'[e] = "raised" /\ Runs(job[e]) /\ IsComplex(job[e]) /\ Uncosted(e)
      BY ONLY StoryInv, <1>1, <1>2, <1>3, <2>1, Resuming
    <3>3. StartsFirst(e)' /\ Tells(e, Asked \cup {"workflow.failed"})'
      BY ONLY StoryInv, <1>1, <1>2, <1>3, <2>1, Resuming
    <3>4. LastSaid(e, "workflow.failed")'
      BY ONLY StoryInv, <1>1, <1>2, <1>3, <2>1, Resuming
    <3> QED
      BY <3>1, <3>2, <3>3, <3>4
<1>5. Story(e)'
  BY <1>1, <1>3, <1>4 DEF Story, Uncosted, Runs
<1> QED
  BY <1>4, <1>5 DEF StoryInv

LEMMA CancelStory ==
  ASSUME StoryInv, NEW e \in Executions, Cancel(e)
  PROVE  StoryInv'
<1>1. /\ phase[e] = "asking" /\ phase' = [phase EXCEPT ![e] = "cancelled"]
      /\ UNCHANGED <<job, events, records, output>>
  BY DEF Cancel
<1>2. Shared' /\ phase'[e] = "cancelled"
  BY <1>1 DEF StoryInv, Shared, Phases
<1>3. \A f : /\ Own(f)' = Own(f) /\ \A t : At(f, t)' = At(f, t)
             /\ Recorded(f)' = Recorded(f)
  BY <1>1, Silent DEF Recorded
<1>4. ASSUME NEW f \in Executions \ {e} PROVE Story(f)'
  BY <1>1, <1>3, Kept DEF StoryInv, Shared
<1>5. Story(e)'
  <2>1. Runs(job[e]) /\ IsComplex(job[e]) /\ Uncosted(e) /\ StartsFirst(e) /\ Tells(e, Asked)
    BY <1>1 DEF StoryInv, Story
  <2>2. StartsFirst(e)' /\ Tells(e, Asked)' /\ Uncosted(e)'
    BY <1>1, <1>3, <2>1 DEF StartsFirst, Tells, Uncosted
  <2> QED
    BY <1>1, <1>2, <2>1, <2>2 DEF Story
<1> QED
  BY <1>2, <1>4, <1>5 DEF StoryInv

LEMMA StoryStep == StoryInv /\ [Next]_vars => StoryInv'
<1> SUFFICES ASSUME StoryInv, [Next]_vars PROVE StoryInv'
  OBVIOUS
<1>1. CASE UNCHANGED vars
  <2>1. \A f : /\ Own(f)' = Own(f) /\ \A t : At(f, t)' = At(f, t)
               /\ Recorded(f)' = Recorded(f)
    BY <1>1, Silent DEF Recorded, vars
  <2>2. ASSUME NEW f \in Executions PROVE Story(f)'
    BY <1>1, <2>1, Kept DEF StoryInv, vars
  <2> QED
    BY <1>1, <2>2 DEF StoryInv, Shared, vars
<1>2. CASE Next
  BY <1>2, RefuseUnknownStory, RefuseInvalidStory, FailAnalysisStory, RunToEndStory,
     AskModelStory, AnswerStory, GatewayFailsStory, CancelStory DEF Next
<1> QED
  BY <1>1, <1>2

(***************************************************************************)
(* Every execution has the story of its phase, in every reachable state.   *)
(***************************************************************************)
THEOREM StoryInvariant == Spec => []StoryInv
  BY StoryInit, StoryStep, PTL DEF Spec

-----------------------------------------------------------------------------
(* What the stories say.                                                   *)

LEMMA CountTold ==
  ASSUME NEW e, NEW said, Tells(e, said), NEW t \in Telling
  PROVE  Said(e, t) = IF t \in said THEN 1 ELSE 0
<1>1. CASE t \in said
  <2>1. PICK k : At(e, t) = {k}
    BY <1>1 DEF Tells
  <2> QED
    BY <1>1, <2>1, FS_Singleton DEF Said
<1>2. CASE t \notin said
  <2>1. At(e, t) = {}
    BY <1>2 DEF Tells
  <2> QED
    BY <1>2, <2>1, FS_EmptySet DEF Said
<1> QED
  BY <1>1, <1>2

LEMMA NothingTold ==
  ASSUME NEW e, Own(e) = {}
  PROVE  /\ Cardinality(Own(e)) = 0
         /\ \A t : Said(e, t) = 0
<1>1. \A t : At(e, t) = {}
  BY DEF At, Own
<1> QED
  BY <1>1, FS_EmptySet DEF Said

LEMMA EndsAreTold ==
  ASSUME Shared, NEW e \in Executions, NEW k \in Own(e), events[k][2] \in Ends
  PROVE  k \in At(e, "workflow.completed") \/ k \in At(e, "workflow.failed")
<1>1. events[k] \in Executions \X EventTypes /\ events[k][1] = e /\ k \in DOMAIN events
  BY DEF Shared, Log, Own
<1>2. events[k] = <<e, events[k][2]>>
  BY <1>1
<1> QED
  BY <1>1, <1>2 DEF At, Ends

\* The one end of an execution is its last event.
LEMMA EndIsLast ==
  ASSUME Shared, NEW e \in Executions, NEW said, Tells(e, said), NEW t \in Ends,
         said \cap Ends = {t}, LastSaid(e, t)
  PROVE  /\ \A k \in Own(e) : events[k][2] \in Ends => \A l \in Own(e) : l <= k
         /\ \E k \in Own(e) : events[k][2] \in Ends
<1>1. Ends \subseteq Telling
  BY DEF Ends, Telling
<1>2. PICK k : At(e, t) = {k}
  BY <1>1 DEF Tells
<1>3. \A l \in Own(e) : l <= k
  BY <1>2 DEF LastSaid
<1>4. ASSUME NEW l \in Own(e), events[l][2] \in Ends PROVE l = k
  <2>1. PICK u \in Ends : l \in At(e, u)
    BY <1>4, EndsAreTold DEF Ends
  <2>2. u \in said
    BY <1>1, <2>1 DEF Tells
  <2> QED
    BY <1>2, <2>1, <2>2
<1>5. k \in Own(e) /\ events[k][2] \in Ends
  <2>1. k \in DOMAIN events /\ events[k] = <<e, t>>
    BY <1>2 DEF At
  <2> QED
    BY <2>1 DEF Own
<1> QED
  BY <1>3, <1>4, <1>5

LEMMA NoEnd ==
  ASSUME Shared, NEW e \in Executions, NEW said, Tells(e, said), said \cap Ends = {}
  PROVE  \A k \in Own(e) : events[k][2] \notin Ends
<1>1. Ends \subseteq Telling /\ "workflow.completed" \in Ends /\ "workflow.failed" \in Ends
  BY DEF Ends, Telling
<1>2. At(e, "workflow.completed") = {} /\ At(e, "workflow.failed") = {}
  BY <1>1 DEF Tells
<1> QED
  BY <1>2, EndsAreTold

LEMMA OutputsTell ==
  ASSUME NEW j, NEW answered \in BOOLEAN
  PROVE  /\ Output(j, answered) # Nothing
         /\ Output(j, answered).quality = IF answered THEN "ESTIMATED" ELSE "ACTUAL"
<1>1. Plan(j.plan, answered).quality = IF answered THEN "ESTIMATED" ELSE "ACTUAL"
  BY DEF Plan
<1>2. Recommendation(j.readings, answered).quality = IF answered THEN "ESTIMATED" ELSE "ACTUAL"
  BY DEF Recommendation
<1>3. "quality" \in DOMAIN Plan(j.plan, answered) /\ "quality" \in DOMAIN Recommendation(j.readings, answered)
  BY DEF Plan, Recommendation
<1>4. "quality" \notin DOMAIN Nothing
  BY DEF Nothing
<1> QED
  BY <1>1, <1>2, <1>3, <1>4 DEF Output

\* Whose story says what: the events an execution of each phase has told.
LEMMA WhatIsTold ==
  ASSUME StoryInv, NEW e \in Executions
  PROVE  \/ /\ Own(e) = {} /\ Uncosted(e) /\ ~HasEnded(e)
            /\ phase[e] \in {"new", "raised"}
         \/ /\ phase[e] \in {"asking", "cancelled"} /\ Uncosted(e)
            /\ IsComplex(job[e]) /\ Runs(job[e])
            /\ StartsFirst(e) /\ Tells(e, Asked)
         \/ /\ phase[e] = "completed" /\ Recorded(e) = {} /\ output[e] = Output(job[e], FALSE)
            /\ Runs(job[e])
            /\ StartsFirst(e) /\ LastSaid(e, "workflow.completed")
            /\ Tells(e, {"workflow.started", "workflow.completed"})
         \/ /\ phase[e] = "completed" /\ (\E k : Recorded(e) = {k}) /\ output[e] = Output(job[e], TRUE)
            /\ IsComplex(job[e]) /\ Runs(job[e])
            /\ StartsFirst(e) /\ LastSaid(e, "workflow.completed") /\ Tells(e, Explained)
         \/ /\ phase[e] = "failed" /\ Uncosted(e) /\ \E k : Own(e) = {k}
            /\ LastSaid(e, "workflow.failed") /\ Tells(e, {"workflow.failed"})
         \/ /\ phase[e] = "raised" /\ HasEnded(e) /\ Uncosted(e)
            /\ StartsFirst(e) /\ LastSaid(e, "workflow.failed")
            /\ Tells(e, {"workflow.started", "workflow.failed"})
         \/ /\ phase[e] = "raised" /\ HasEnded(e) /\ Uncosted(e) /\ IsComplex(job[e])
            /\ StartsFirst(e) /\ LastSaid(e, "workflow.failed")
            /\ Tells(e, Asked \cup {"workflow.failed"})
<1>1. phase[e] \in Phases /\ Story(e)
  BY DEF StoryInv, Shared
<1>2. CASE phase[e] = "new"
  BY <1>1, <1>2 DEF Story, HasEnded
<1>3. CASE phase[e] \in {"asking", "cancelled"}
  BY <1>1, <1>3 DEF Story
<1>4. CASE phase[e] = "completed"
  BY <1>1, <1>4 DEF Story
<1>5. CASE phase[e] = "failed"
  BY <1>1, <1>5 DEF Story
<1>6. CASE phase[e] = "raised"
  BY <1>1, <1>6 DEF Story, HasEnded
<1> QED
  BY <1>1, <1>2, <1>3, <1>4, <1>5, <1>6 DEF Phases

\* A well-formed story: OneEnding of one execution.
EndsOnce(e) ==
  /\ \A k \in Own(e) : events[k][2] \in Ends => HasEnded(e) /\ \A l \in Own(e) : l <= k
  /\ HasEnded(e) => \E k \in Own(e) : events[k][2] \in Ends
  /\ output[e] # Nothing <=> Said(e, "workflow.completed") = 1
  /\ Cardinality(Own(e)) > 1 => \E k \in At(e, "workflow.started") : \A l \in Own(e) : k <= l
  /\ Said(e, "workflow.started") <= 1

LEMMA StoryEndsOnce == ASSUME StoryInv, NEW e \in Executions PROVE EndsOnce(e)
<1> USE DEF EndsOnce
<1>1. /\ Shared
      /\ "workflow.completed" \in Telling /\ "workflow.started" \in Telling
      /\ Output(job[e], TRUE) # Nothing /\ Output(job[e], FALSE) # Nothing
      /\ StartsFirst(e) => \E k \in At(e, "workflow.started") : \A l \in Own(e) : k <= l
  BY OutputsTell DEF StoryInv, Telling, StartsFirst
<1>2. CASE Own(e) = {} /\ Uncosted(e) /\ ~HasEnded(e)
  <2>1. /\ Cardinality(Own(e)) = 0
        /\ Said(e, "workflow.completed") = 0 /\ Said(e, "workflow.started") = 0
    BY <1>2, NothingTold
  <2>2. ~(Cardinality(Own(e)) > 1) /\ Said(e, "workflow.completed") # 1 /\ Said(e, "workflow.started") <= 1
    BY <2>1
  <2> QED
    BY <1>2, <2>2 DEF Uncosted
<1>3. CASE phase[e] \in {"asking", "cancelled"} /\ Uncosted(e) /\ StartsFirst(e) /\ Tells(e, Asked)
  <2>1. Asked \cap Ends = {} /\ "workflow.started" \in Asked /\ "workflow.completed" \notin Asked
    BY DEF Asked, Ends
  <2>2. \A k \in Own(e) : events[k][2] \notin Ends
    BY <1>1, <1>3, <2>1, NoEnd
  <2>3. Said(e, "workflow.started") = 1 /\ Said(e, "workflow.completed") = 0
    BY <1>1, <1>3, <2>1, CountTold
  <2>4. ~HasEnded(e)
    BY <1>3 DEF HasEnded
  <2> QED
    BY <1>1, <1>3, <2>2, <2>3, <2>4 DEF Uncosted
<1>4. ASSUME phase[e] = "completed", NEW said, Tells(e, said), StartsFirst(e),
             LastSaid(e, "workflow.completed"), said \cap Ends = {"workflow.completed"},
             "workflow.started" \in said, output[e] # Nothing
      PROVE  EndsOnce(e)
  <2>1. "workflow.completed" \in Ends /\ HasEnded(e)
    BY <1>4 DEF Ends, HasEnded
  <2>2. Said(e, "workflow.started") = 1 /\ Said(e, "workflow.completed") = 1
    BY <1>1, <1>4, CountTold
  <2>3. /\ \A k \in Own(e) : events[k][2] \in Ends => \A l \in Own(e) : l <= k
        /\ \E k \in Own(e) : events[k][2] \in Ends
    BY <1>1, <1>4, <2>1, EndIsLast
  <2> QED
    BY <1>1, <1>4, <2>1, <2>2, <2>3
<1>5. ASSUME HasEnded(e), NEW said, Tells(e, said), LastSaid(e, "workflow.failed"),
             said \cap Ends = {"workflow.failed"}, Uncosted(e),
             StartsFirst(e) \/ \E k : Own(e) = {k}
      PROVE  EndsOnce(e)
  <2>1. "workflow.completed" \in Ends /\ "workflow.failed" \in Ends /\ "workflow.completed" \notin said
    BY <1>5 DEF Ends
  <2>2. Said(e, "workflow.started") \in {0, 1} /\ Said(e, "workflow.completed") = 0
    BY <1>1, <1>5, <2>1, CountTold
  <2>3. /\ \A k \in Own(e) : events[k][2] \in Ends => \A l \in Own(e) : l <= k
        /\ \E k \in Own(e) : events[k][2] \in Ends
    BY <1>1, <1>5, <2>1, EndIsLast
  <2>4. StartsFirst(e) \/ Cardinality(Own(e)) = 1
    BY <1>5, FS_Singleton
  <2> QED
    BY <1>1, <1>5, <2>2, <2>3, <2>4 DEF Uncosted
<1>6. /\ {"workflow.started", "workflow.completed"} \cap Ends = {"workflow.completed"}
      /\ Explained \cap Ends = {"workflow.completed"} /\ "workflow.started" \in Explained
      /\ {"workflow.failed"} \cap Ends = {"workflow.failed"}
      /\ {"workflow.started", "workflow.failed"} \cap Ends = {"workflow.failed"}
      /\ (Asked \cup {"workflow.failed"}) \cap Ends = {"workflow.failed"}
  BY DEF Explained, Asked, Ends
<1>7. phase[e] = "failed" => HasEnded(e)
  BY DEF HasEnded
<1> HIDE DEF EndsOnce
<1> QED
  BY <1>1, <1>2, <1>3, <1>4, <1>5, <1>6, <1>7, WhatIsTold

(***************************************************************************)
(* In the shared log, each execution that returned or raised has one end,  *)
(* its last event, completed exactly when it returned an output, and what  *)
(* started did so first, for any executions and jobs.                      *)
(***************************************************************************)
THEOREM OneEndingHolds == Spec => []OneEnding
<1>1. StoryInv => OneEnding
  BY StoryEndsOnce DEF OneEnding, EndsOnce
<1> QED
  BY <1>1, StoryInvariant, PTL

LEMMA StoryIsCosted == StoryInv => PaidCallsAreRecorded
<1> SUFFICES ASSUME StoryInv, NEW e \in Executions
             PROVE  LET recorded == Cardinality(Recorded(e))
                    IN  /\ recorded = Said(e, "llm.call_completed")
                        /\ recorded = Said(e, "cost.recorded")
                        /\ Said(e, "llm.call_started") > recorded =>
                                phase[e] \in {"asking", "raised", "cancelled"}
  BY DEF PaidCallsAreRecorded
<1> DEFINE answered == "llm.call_completed"
           costed == "cost.recorded"
           asked == "llm.call_started"
<1>1. answered \in Telling /\ costed \in Telling /\ asked \in Telling
  BY DEF Telling
<1> HIDE DEF answered, costed, asked
<1>2. ASSUME Recorded(e) = {}, NEW said, Tells(e, said), answered \notin said, costed \notin said,
             asked \notin said \/ phase[e] \in {"asking", "raised", "cancelled"}
      PROVE  /\ Cardinality(Recorded(e)) = Said(e, answered)
             /\ Cardinality(Recorded(e)) = Said(e, costed)
             /\ Said(e, asked) > Cardinality(Recorded(e)) => phase[e] \in {"asking", "raised", "cancelled"}
  <2>1. Said(e, answered) = 0 /\ Said(e, costed) = 0 /\ (asked \notin said => Said(e, asked) = 0)
    BY <1>1, <1>2, CountTold
  <2>2. Cardinality(Recorded(e)) = 0
    BY <1>2, FS_EmptySet
  <2> QED
    BY <1>2, <2>1, <2>2
<1>3. ASSUME NEW k, Recorded(e) = {k}, Tells(e, Explained)
      PROVE  /\ Cardinality(Recorded(e)) = Said(e, answered)
             /\ Cardinality(Recorded(e)) = Said(e, costed)
             /\ Said(e, asked) > Cardinality(Recorded(e)) => phase[e] \in {"asking", "raised", "cancelled"}
  <2>1. answered \in Explained /\ costed \in Explained /\ asked \in Explained
    BY DEF Explained, Asked, answered, costed, asked
  <2>2. Said(e, answered) = 1 /\ Said(e, costed) = 1 /\ Said(e, asked) = 1
    BY <1>1, <1>3, <2>1, CountTold
  <2>3. Cardinality(Recorded(e)) = 1
    BY <1>3, FS_Singleton
  <2> QED
    BY <2>2, <2>3
<1>4. ASSUME Own(e) = {}, Recorded(e) = {}
      PROVE  /\ Cardinality(Recorded(e)) = Said(e, answered)
             /\ Cardinality(Recorded(e)) = Said(e, costed)
             /\ Said(e, asked) > Cardinality(Recorded(e)) => phase[e] \in {"asking", "raised", "cancelled"}
  BY <1>4, NothingTold, FS_EmptySet
<1>5. /\ answered \notin Asked /\ costed \notin Asked
      /\ answered \notin {"workflow.started", "workflow.completed"}
      /\ costed \notin {"workflow.started", "workflow.completed"}
      /\ asked \notin {"workflow.started", "workflow.completed"}
      /\ answered \notin {"workflow.failed"} /\ costed \notin {"workflow.failed"}
      /\ asked \notin {"workflow.failed"}
      /\ answered \notin {"workflow.started", "workflow.failed"}
      /\ costed \notin {"workflow.started", "workflow.failed"}
      /\ answered \notin Asked \cup {"workflow.failed"}
      /\ costed \notin Asked \cup {"workflow.failed"}
  BY DEF Asked, answered, costed, asked
<1>6. /\ Cardinality(Recorded(e)) = Said(e, answered)
      /\ Cardinality(Recorded(e)) = Said(e, costed)
      /\ Said(e, asked) > Cardinality(Recorded(e)) => phase[e] \in {"asking", "raised", "cancelled"}
  BY <1>2, <1>3, <1>4, <1>5, WhatIsTold DEF Uncosted
<1> QED
  BY <1>6 DEF answered, costed, asked

(***************************************************************************)
(* Every answer is costed once, under the execution that asked for it.     *)
(***************************************************************************)
THEOREM PaidCallsAreRecordedHolds == Spec => []PaidCallsAreRecorded
  BY StoryIsCosted, StoryInvariant, PTL

-----------------------------------------------------------------------------
(* What the rules decide.                                                  *)

\* Two or more of a finite set are two different ones.
LEMMA TwoOfThem ==
  ASSUME NEW S, IsFiniteSet(S), Cardinality(S) >= 2
  PROVE  \E a, b \in S : a # b
<1> SUFFICES ASSUME \A a, b \in S : a = b PROVE FALSE
  OBVIOUS
<1>1. S # {}
  BY FS_EmptySet
<1>2. PICK a \in S : TRUE
  BY <1>1
<1>3. S = {a}
  BY <1>2
<1> QED
  BY <1>3, FS_Singleton

LEMMA AnomaliesAreRead ==
  ASSUME NEW readings, NEW m, m \in AnomalousMetrics(readings)
  PROVE  m \in DOMAIN readings \cap Metrics /\ IsAnomalous(readings, m) /\ readings[m] # Unreadable
  BY DEF AnomalousMetrics, IsAnomalous, Missing, Reading

LEMMA StoryIsMarked == StoryInv => InferenceIsMarked
<1> SUFFICES ASSUME StoryInv, NEW e \in Executions
             PROVE  /\ output[e] # Nothing =>
                          (output[e].quality = "ACTUAL" <=> Said(e, "llm.call_completed") = 0)
                    /\ Said(e, "llm.call_started") > 0 /\ job[e].kind = "predictive_maintenance" =>
                          \E m, n \in DOMAIN job[e].readings \cap Metrics :
                              /\ m # n /\ IsAnomalous(job[e].readings, m)
                              /\ IsAnomalous(job[e].readings, n)
  BY DEF InferenceIsMarked
<1>1. "llm.call_completed" \in Telling /\ "llm.call_started" \in Telling
  BY DEF Telling
<1>2. /\ "llm.call_completed" \in Explained
      /\ "llm.call_completed" \notin {"workflow.started", "workflow.completed"}
      /\ "llm.call_started" \notin {"workflow.started", "workflow.completed"}
      /\ "llm.call_started" \notin {"workflow.failed"}
      /\ "llm.call_started" \notin {"workflow.started", "workflow.failed"}
  BY DEF Explained
<1>3. output[e] # Nothing => (output[e].quality = "ACTUAL" <=> Said(e, "llm.call_completed") = 0)
  <2>1. ASSUME output[e] = Output(job[e], FALSE), Tells(e, {"workflow.started", "workflow.completed"})
        PROVE  output[e].quality = "ACTUAL" /\ Said(e, "llm.call_completed") = 0
    BY <1>1, <1>2, <2>1, CountTold, OutputsTell
  <2>2. ASSUME output[e] = Output(job[e], TRUE), Tells(e, Explained)
        PROVE  output[e].quality # "ACTUAL" /\ Said(e, "llm.call_completed") # 0
    <3>1. output[e].quality = "ESTIMATED" /\ Said(e, "llm.call_completed") = 1
      BY <1>1, <1>2, <2>2, CountTold, OutputsTell
    <3> QED
      BY <3>1
  <2>3. \/ output[e] = Nothing
        \/ output[e] = Output(job[e], FALSE) /\ Tells(e, {"workflow.started", "workflow.completed"})
        \/ output[e] = Output(job[e], TRUE) /\ Tells(e, Explained)
    BY WhatIsTold DEF Uncosted
  <2> QED
    BY ONLY <2>1, <2>2, <2>3
<1>4. Said(e, "llm.call_started") > 0 => IsComplex(job[e])
  <2>1. ASSUME NEW said, Tells(e, said), "llm.call_started" \notin said
        PROVE  Said(e, "llm.call_started") = 0
    BY <1>1, <2>1, CountTold
  <2>2. Own(e) = {} => Said(e, "llm.call_started") = 0
    BY NothingTold
  <2>3. IsComplex(job[e]) \/ Said(e, "llm.call_started") = 0
    BY <1>2, <2>1, <2>2, WhatIsTold
  <2> QED
    BY <2>3
<1>5. ASSUME IsComplex(job[e]), job[e].kind = "predictive_maintenance"
      PROVE  \E m, n \in DOMAIN job[e].readings \cap Metrics :
                 /\ m # n /\ IsAnomalous(job[e].readings, m) /\ IsAnomalous(job[e].readings, n)
  <2> DEFINE S == AnomalousMetrics(job[e].readings)
  <2>1. Cardinality(S) >= 2
    BY <1>5 DEF IsComplex, NeedsRootCause, ComplexAnomalyThreshold
  <2>2. IsFiniteSet(S)
    BY FS_Subset DEF AnomalousMetrics
  <2> HIDE DEF S
  <2>3. PICK m, n \in S : m # n
    BY <2>1, <2>2, TwoOfThem
  <2> QED
    BY <2>3, AnomaliesAreRead DEF S
<1> QED
  BY <1>3, <1>4, <1>5

(***************************************************************************)
(* A recommendation is called measured exactly when no model answered for  *)
(* it, and no model is asked about a machine with fewer than two metrics   *)
(* out of their range.                                                     *)
(***************************************************************************)
THEOREM InferenceIsMarkedHolds == Spec => []InferenceIsMarked
  BY StoryIsMarked, StoryInvariant, PTL

-----------------------------------------------------------------------------
(* A machine with a reading out of its range is in critical risk: what is  *)
(* anomalous uses up its threshold.                                        *)

LEMMA Quotient ==
  ASSUME NEW a \in Nat, NEW b \in Nat \ {0}, NEW c \in Nat, a >= c * b
  PROVE  a \div b >= c
<1> DEFINE q == a \div b
<1>1. q \in Int /\ a < b * q + b
  BY SMT
<1> HIDE DEF q
<1>2. SUFFICES ASSUME q + 1 <= c PROVE FALSE
  BY <1>1 DEF q
<1>3. b * (q + 1) <= b * c
  BY <1>1, <1>2, SMT
<1> QED
  BY <1>1, <1>3, SMT

LEMMA BeyondItsLimit ==
  ASSUME NEW d \in Nat, NEW limit \in Nat \ {0}
  PROVE  /\ (d * 200000 + limit) \div (2 * limit) \in Int
         /\ d * 10 > limit => (d * 200000 + limit) \div (2 * limit) >= 10000
<1>1. d * 200000 + limit \in Nat /\ 2 * limit \in Nat \ {0}
  OBVIOUS
<1>2. d * 10 > limit => d * 200000 + limit >= 10000 * (2 * limit)
  OBVIOUS
<1>3. d * 10 > limit => (d * 200000 + limit) \div (2 * limit) >= 10000
  BY <1>1, <1>2, Quotient
<1> QED
  BY <1>1, <1>3

LEMMA AnomalyIsCritical ==
  ASSUME NEW readings, \A m \in DOMAIN readings : readings[m] \in Int \cup {Unreadable},
         AnomalousMetrics(readings) # {}
  PROVE  ClassifyRisk(readings) = "critical"
<1> DEFINE n == Cardinality(AnomalousMetrics(readings))
           shares == {Normalised(readings, m) : m \in Metrics \ Missing(readings)}
<1>1. n \in Nat /\ n > 0
  <2>1. IsFiniteSet(AnomalousMetrics(readings))
    BY FS_Subset DEF AnomalousMetrics
  <2> QED
    BY <2>1, FS_EmptySet, FS_CardinalityType
<1>2. ASSUME NEW m \in Metrics \ Missing(readings)
      PROVE  /\ Normalised(readings, m) \in Int
             /\ IsAnomalous(readings, m) => Normalised(readings, m) >= 10000
  <2> DEFINE limit == NormalRange[m].std * NormalRange[m].threshold
             d == Distance(readings, m)
  <2>1. NormalRange[m].std \in Int /\ NormalRange[m].mean \in Int /\ NormalRange[m].threshold \in Nat \ {0}
    OBVIOUS
  <2>2. readings[m] \in Int
    BY DEF Missing, Reading
  <2>3. d \in Nat
    BY <2>1, <2>2 DEF Distance
  <2>4. limit \in Int /\ (NormalRange[m].std > 0 => limit > 0)
    BY <2>1
  <2> HIDE DEF limit, d
  <2>5. Normalised(readings, m) = IF limit <= 0 THEN 0 ELSE (d * 200000 + limit) \div (2 * limit)
    BY DEF Normalised, limit, d
  <2>6. IsAnomalous(readings, m) => NormalRange[m].std > 0 /\ d * 10 > limit
    BY DEF IsAnomalous, limit, d
  <2>7. limit > 0 => limit \in Nat \ {0}
    BY <2>4
  <2>8. ASSUME limit > 0
        PROVE  /\ (d * 200000 + limit) \div (2 * limit) \in Int
               /\ d * 10 > limit => (d * 200000 + limit) \div (2 * limit) >= 10000
    BY <2>3, <2>7, <2>8, BeyondItsLimit
  <2>9. CASE limit > 0
    <3>1. Normalised(readings, m) = (d * 200000 + limit) \div (2 * limit)
      BY <2>4, <2>5, <2>9
    <3> QED
      BY <2>6, <2>8, <2>9, <3>1
  <2>10. CASE ~(limit > 0)
    BY <2>4, <2>5, <2>6, <2>10
  <2> QED
    BY <2>9, <2>10
<1> DEFINE use == [m \in Metrics \ Missing(readings) |-> Normalised(readings, m)]
           most == {0} \cup shares
<1>3. Max(most) \in Int /\ \A m \in Metrics \ Missing(readings) : Normalised(readings, m) <= Max(most)
  <2>1. IsFiniteSet(Metrics \ Missing(readings))
    BY FS_Subset
  <2>2. /\ \A m \in Metrics \ Missing(readings) : use[m] \in Int
        /\ most = {0} \cup {use[m] : m \in Metrics \ Missing(readings)}
    BY <1>2
  <2>3. Max(most) \in Int /\ \A m \in Metrics \ Missing(readings) : use[m] <= Max(most)
    <3> HIDE DEF use, most
    <3> QED
      BY <2>1, <2>2, LargestOf
  <2> HIDE DEF most
  <2> QED
    BY <2>3
<1>4. PICK m \in Metrics \ Missing(readings) : Normalised(readings, m) >= 10000
  <2>1. PICK m \in AnomalousMetrics(readings) : TRUE
    OBVIOUS
  <2>2. m \in Metrics \ Missing(readings) /\ IsAnomalous(readings, m)
    BY DEF AnomalousMetrics, IsAnomalous
  <2> QED
    BY <1>2, <2>2
<1> HIDE DEF most
<1>5. Max(most) \in Int /\ Max(most) >= 10000
  BY <1>2, <1>3, <1>4
<1>6. AnomalyScore(readings) = 10000
  <2> DEFINE x == Max(most)
  <2>1. AnomalyScore(readings) = Min({10000, x})
    BY DEF AnomalyScore, most
  <2> HIDE DEF x
  <2>2. x \in Int /\ x >= 10000
    BY <1>5 DEF x
  <2>3. Min({10000, x}) = 10000
    BY <2>2, SMT DEF Min
  <2> QED
    BY <2>1, <2>3
<1> HIDE DEF n
<1> QED
  BY <1>1, <1>6 DEF ClassifyRisk, CriticalRiskAnomalyScore, HighRiskAnomalyScore, n

-----------------------------------------------------------------------------
(* A plan of a proper input has a price, and what it buys has a supplier.  *)

LEMMA Cut ==
  ASSUME NEW S, NEW s \in Seq(S), NEW m \in 0..Len(s)
  PROVE  DOMAIN SubSeq(s, 1, m) = 1..m /\ \A k \in 1..m : SubSeq(s, 1, m)[k] = s[k]
<1>1. \A k \in 1..m : s[k] \in S
  OBVIOUS
<1>2. SubSeq(s, 1, m) = [k \in 1..m |-> s[k]]
  BY SMT
<1> QED
  BY <1>2

LEMMA Prefix ==
  ASSUME NEW s, IsSequence(s), NEW n \in Nat \ {0}, NEW t, t = First(n, s)
  PROVE  /\ IsFiniteSet(DOMAIN t) /\ DOMAIN t \subseteq Int /\ DOMAIN t \subseteq DOMAIN s
         /\ \A k \in DOMAIN t : t[k] = s[k]
         /\ s # << >> => DOMAIN t # {}
<1> DEFINE l == Len(s)
           m == Min({n, l})
<1>1. s \in Seq({s[k] : k \in DOMAIN s})
  BY DEF IsSequence
<1>2. l \in Nat /\ DOMAIN s = 1..l /\ (s # << >> => l # 0)
  BY <1>1
<1>3. m \in 0..l /\ (l # 0 => m # 0)
  <2> HIDE DEF l
  <2> QED
    BY <1>2, SMT DEF Min
<1> HIDE DEF m
<1>4. t = SubSeq(s, 1, m)
  BY DEF m, First
<1>5. DOMAIN t = 1..m /\ \A k \in 1..m : t[k] = s[k]
  <2>1. m \in 0..Len(s)
    BY <1>3
  <2> QED
    BY ONLY <1>1, <1>4, <2>1, Cut
<1>6. IsFiniteSet(1..m)
  BY <1>2, <1>3, FS_Interval
<1> HIDE DEF l
<1>7. 1..m \subseteq 1..l /\ 1..m \subseteq Int /\ (l # 0 => 1..m # {})
  <2>1. m \in Int /\ l \in Int /\ m <= l /\ (l # 0 => 1 <= m)
    BY <1>2, <1>3
  <2>2. l # 0 => 1 \in 1..m
    BY <2>1
  <2> QED
    BY ONLY <2>1, <2>2
<1>8. \A k \in DOMAIN t : t[k] = s[k]
  BY <1>5
<1> QED
  BY ONLY <1>2, <1>5, <1>6, <1>7, <1>8

\* The sort has a first: of those with the greatest merit, the earliest.
LEMMA BestIsOne ==
  ASSUME NEW merit, NEW P, P = DOMAIN merit, IsFiniteSet(P), P \subseteq Int, P # {},
         \A k \in P : merit[k] \in Int
  PROVE  Best(merit) \in P
<1>1. PICK top \in P : \A k \in P : merit[k] <= merit[top]
  BY LargestBy
<1> DEFINE R == {k \in P : merit[k] = merit[top]}
           early == [k \in R |-> 0 - k]
<1>2. IsFiniteSet(R) /\ R # {} /\ \A k \in R : early[k] \in Int
  BY FS_Subset
<1>3. PICK k \in R : \A l \in R : early[l] <= early[k]
  <2> HIDE DEF R, early
  <2> QED
    BY <1>2, LargestBy
<1>4. ASSUME NEW l \in R PROVE k <= l
  <2>1. early[l] <= early[k] /\ early[l] = 0 - l /\ early[k] = 0 - k /\ k \in Int /\ l \in Int
    BY <1>3
  <2> HIDE DEF early
  <2> QED
    BY <2>1
<1>5. \A l \in P : \/ merit[k] > merit[l]
                   \/ merit[k] = merit[l] /\ k <= l
  <2> TAKE l \in P
  <2>1. merit[l] \in Int /\ merit[k] \in Int /\ merit[l] <= merit[k]
    BY <1>1, <1>3
  <2>2. merit[l] = merit[k] => k <= l
    BY <1>3, <1>4
  <2> DEFINE a == merit[l]
             b == merit[k]
  <2> HIDE DEF a, b
  <2>3. b > a \/ b = a
    BY <2>1 DEF a, b
  <2> QED
    BY <2>2, <2>3, Zenon DEF a, b
<1> QED
  BY <1>5 DEF Best

LEMMA NoneBelowZero == \A x \in Int : Max({0, x}) \in Int
  BY SMT DEF Max

LEMMA ShortageIsInt ==
  ASSUME NEW p, IsInput(p), NEW i \in Items(p)
  PROVE  Shortage(p, i) \in Int /\ Net(p, i) \in Int /\ OrderQuantity(p, i) \in Int
<1>1. p.inventory[i].current \in Int /\ p.inventory[i].safety \in Int
  BY DEF IsInput, Items
<1>2. Demand(p, i) \in Int
  BY DEF IsInput, Demand
<1>3. Net(p, i) \in Int
  BY <1>1, <1>2 DEF Net
<1>4. \A x \in Int : Max({0, x}) \in Int
  BY NoneBelowZero
<1>5. Shortage(p, i) \in Int
  BY <1>1, <1>3, <1>4 DEF Shortage
<1> QED
  BY <1>1, <1>3, <1>5 DEF OrderQuantity

LEMMA SelectedIsPriced ==
  ASSUME NEW p, IsInput(p), ~AnalysisRaises(p), NEW i \in Supplied(p)
  PROVE  SelectedSupplier(p, i).price \in Int /\ SelectedSupplier(p, i).risk \in Int
<1> DEFINE t == Suppliers(p)
           P == Candidates(p, i)
<1>1. /\ IsFiniteSet(DOMAIN t) /\ DOMAIN t \subseteq Int /\ DOMAIN t \subseteq DOMAIN p.suppliers
      /\ \A k \in DOMAIN t : t[k] = p.suppliers[k]
  <2>1. IsSequence(p.suppliers) /\ t = First(SupplierBound, p.suppliers)
    BY DEF IsInput, Suppliers
  <2>2. SupplierBound \in Nat \ {0}
    OBVIOUS
  <2> HIDE DEF t
  <2> QED
    BY ONLY <2>1, <2>2, Prefix
<1>3. P \subseteq DOMAIN t /\ P # {} /\ i \in Items(p)
  BY DEF Candidates, Supplied
<1>2. \A k \in DOMAIN t : /\ t[k].price \in IntOrNone /\ t[k].risk \in IntOrNone
                          /\ t[k].merit[i] \in Int
  BY <1>1, <1>3 DEF IsInput, Items
<1>4. \A k \in P : t[k].price # None /\ t[k].risk # None
  BY <1>3 DEF AnalysisRaises
<1>5. IsFiniteSet(P)
  BY <1>1, <1>3, FS_Subset
<1> DEFINE merit == [k \in P |-> t[k].merit[i]]
<1>6. SelectedSupplier(p, i) = t[Best(merit)]
  BY DEF SelectedSupplier
<1>7. P = DOMAIN merit /\ \A k \in P : merit[k] = t[k].merit[i]
  OBVIOUS
<1> HIDE DEF t, P, merit
<1>8. \A k \in P : merit[k] \in Int
  BY <1>2, <1>3, <1>7
<1>9. P \subseteq Int
  BY <1>1, <1>3
<1>10. Best(merit) \in P
  BY ONLY <1>3, <1>5, <1>7, <1>8, <1>9, BestIsOne
<1> QED
  BY <1>2, <1>3, <1>4, <1>6, <1>10 DEF IntOrNone

LEMMA RouteIsPriced ==
  ASSUME NEW p, IsInput(p), ~AnalysisRaises(p), p.routes # << >>
  PROVE  SelectedRoute(p).cost \in Int
<1> DEFINE t == Routes(p)
<1>1. /\ IsFiniteSet(DOMAIN t) /\ DOMAIN t \subseteq Int /\ DOMAIN t \subseteq DOMAIN p.routes
      /\ DOMAIN t # {} /\ \A k \in DOMAIN t : t[k] = p.routes[k]
  <2>1. IsSequence(p.routes) /\ p.routes # << >> /\ t = First(RouteBound, p.routes)
    BY DEF IsInput, Routes
  <2>2. RouteBound \in Nat \ {0}
    OBVIOUS
  <2> HIDE DEF t
  <2> QED
    BY ONLY <2>1, <2>2, Prefix
<1>2. \A k \in DOMAIN t : t[k].cost \in IntOrNone /\ t[k].merit \in Int
  BY <1>1 DEF IsInput
<1>3. \A k \in DOMAIN t : t[k].cost # None
  BY DEF AnalysisRaises
<1> DEFINE P == DOMAIN t
           merit == [k \in P |-> t[k].merit]
<1>4. SelectedRoute(p) = t[Best(merit)]
  BY DEF SelectedRoute
<1>5. P = DOMAIN merit /\ \A k \in P : merit[k] = t[k].merit
  OBVIOUS
<1>6. /\ IsFiniteSet(P) /\ P \subseteq Int /\ P # {}
      /\ \A k \in P : t[k].cost \in IntOrNone /\ t[k].cost # None /\ t[k].merit \in Int
  BY <1>1, <1>2, <1>3
<1> HIDE DEF t, P, merit
<1>7. \A k \in P : merit[k] \in Int
  BY <1>5, <1>6
<1>8. Best(merit) \in P
  BY ONLY <1>5, <1>6, <1>7, BestIsOne
<1> QED
  BY <1>4, <1>6, <1>8 DEF IntOrNone

LEMMA PlanIsPriced ==
  ASSUME NEW p, IsInput(p), ~AnalysisRaises(p), p.routes # << >>
  PROVE  /\ LandedCost(p) \in Int /\ TotalShortage(p) \in Int
         /\ Cardinality(StockoutItems(p)) \in Nat
         /\ MaxSupplierRisk(p) \in Int
         /\ \A i \in Supplied(p) : SelectedSupplier(p, i).risk <= MaxSupplierRisk(p)
<1>1. /\ IsFiniteSet(StockoutItems(p)) /\ StockoutItems(p) \subseteq Items(p)
      /\ IsFiniteSet(Supplied(p)) /\ Supplied(p) \subseteq Items(p)
  <2>1. IsFiniteSet(Items(p))
    BY DEF IsInput, Items
  <2>2. StockoutItems(p) \subseteq Items(p) /\ Supplied(p) \subseteq Items(p)
    BY DEF StockoutItems, Supplied
  <2> QED
    BY <2>1, <2>2, FS_Subset
<1>2. TotalShortage(p) \in Int
  <2> DEFINE f == [i \in StockoutItems(p) |-> Shortage(p, i)]
  <2>1. \A i \in StockoutItems(p) : f[i] \in Int
    BY <1>1, ShortageIsInt
  <2> HIDE DEF f
  <2>2. SumOver(f, StockoutItems(p)) \in Int
    BY <1>1, <2>1, SumIsInt
  <2> QED
    BY <2>2 DEF TotalShortage, f
<1>3. LandedCost(p) \in Int
  <2> DEFINE f == [i \in Supplied(p) |-> PurchaseCost(p, i)]
             g == [i \in StockoutItems(p) |-> OrderQuantity(p, i)]
  <2>0. \A x \in Int : Max({0, x}) \in Int
    BY NoneBelowZero
  <2>1. \A i \in Supplied(p) : f[i] \in Int
    <3> TAKE i \in Supplied(p)
    <3>1. SelectedSupplier(p, i).price \in Int /\ Max({0, OrderQuantity(p, i)}) \in Int
      BY <1>1, <2>0, SelectedIsPriced, ShortageIsInt
    <3>2. PurchaseCost(p, i) \in Int
      BY <3>1 DEF PurchaseCost
    <3> QED
      BY <3>2
  <2>2. \A i \in StockoutItems(p) : g[i] \in Int
    BY <1>1, ShortageIsInt
  <2> HIDE DEF f, g
  <2>3. SumOver(f, Supplied(p)) \in Int /\ SumOver(g, StockoutItems(p)) \in Int
    BY <1>1, <2>1, <2>2, SumIsInt
  <2>4. SelectedRoute(p).cost \in Int
    BY RouteIsPriced
  <2>5. /\ ProcurementCost(p) = SumOver(f, Supplied(p))
        /\ LogisticsCost(p) = SelectedRoute(p).cost * Max({0, SumOver(g, StockoutItems(p))})
    BY DEF ProcurementCost, LogisticsCost, TotalOrdered, f, g
  <2>6. Max({0, SumOver(g, StockoutItems(p))}) \in Int
    BY <2>0, <2>3
  <2> QED
    BY <2>3, <2>4, <2>5, <2>6 DEF LandedCost
<1>4. Cardinality(StockoutItems(p)) \in Nat
  BY <1>1, FS_CardinalityType
<1>5. /\ MaxSupplierRisk(p) \in Int
      /\ \A i \in Supplied(p) : SelectedSupplier(p, i).risk <= MaxSupplierRisk(p)
  <2> DEFINE f == [i \in Supplied(p) |-> SelectedSupplier(p, i).risk]
             T == {0} \cup {SelectedSupplier(p, i).risk : i \in Supplied(p)}
  <2>1. \A i \in Supplied(p) : f[i] \in Int /\ f[i] = SelectedSupplier(p, i).risk
    BY SelectedIsPriced
  <2>2. T = {0} \cup {f[i] : i \in Supplied(p)}
    OBVIOUS
  <2>3. MaxSupplierRisk(p) = Max(T)
    BY DEF MaxSupplierRisk
  <2> HIDE DEF f, T
  <2>4. Max(T) \in Int /\ \A i \in Supplied(p) : f[i] <= Max(T)
    BY <1>1, <2>1, <2>2, LargestOf
  <2> QED
    BY <2>1, <2>3, <2>4
<1> QED
  BY <1>2, <1>3, <1>4, <1>5

LEMMA UnapprovedPlan ==
  ASSUME NEW p, IsInput(p), ~AnalysisRaises(p), p.routes # << >>, ~RequiresApproval(p)
  PROVE  /\ p.limit # None => p.limit > 0 /\ LandedCost(p) <= 2 * p.limit
         /\ \A i \in Supplied(p) : SelectedSupplier(p, i).risk < 40
         /\ Cardinality(StockoutItems(p)) < 3
         /\ TotalShortage(p) <= ShortageBound
<1>1. ~(p.limit # None /\ p.limit <= 0)
  BY DEF RequiresApproval, EvaluateRisk, EvaluateBudgetPolicy
<1>2. EvaluateRiskOfAnalysis(p) \notin {"critical", "high"}
  BY DEF RequiresApproval, EvaluateRisk, EvaluateBudgetPolicy
<1>3. /\ ~(Cardinality(StockoutItems(p)) >= 3) /\ ~(TotalShortage(p) > ShortageBound)
      /\ ~(MaxSupplierRisk(p) >= 40) /\ ~BudgetPressure(p)
  BY <1>2 DEF EvaluateRiskOfAnalysis, HighSupplierRisk
<1>4. p.limit \in Int \cup {None}
  BY DEF IsInput, IntOrNone
<1>5. /\ LandedCost(p) \in Int /\ TotalShortage(p) \in Int
      /\ Cardinality(StockoutItems(p)) \in Nat /\ MaxSupplierRisk(p) \in Int
      /\ \A i \in Supplied(p) : SelectedSupplier(p, i).risk \in Int
                                /\ SelectedSupplier(p, i).risk <= MaxSupplierRisk(p)
  BY PlanIsPriced, SelectedIsPriced
<1>6. p.limit # None => p.limit > 0 /\ LandedCost(p) <= 2 * p.limit
  BY <1>1, <1>3, <1>4, <1>5 DEF BudgetPressure
<1>7. \A i \in Supplied(p) : SelectedSupplier(p, i).risk < 40
  BY <1>3, <1>5
<1> QED
  BY <1>3, <1>5, <1>6, <1>7

LEMMA StoryIsBounded == StoryInv => UnapprovedIsBounded
<1> SUFFICES ASSUME StoryInv, NEW e \in Executions,
                    output[e] # Nothing, ~output[e].requires_approval
             PROVE  IF job[e].kind = "predictive_maintenance"
                    THEN AnomalousMetrics(job[e].readings) = {}
                    ELSE LET p == job[e].plan
                         IN  /\ p.limit # None => p.limit > 0 /\ LandedCost(p) <= 2 * p.limit
                             /\ \A i \in Supplied(p) : SelectedSupplier(p, i).risk < 40
                             /\ Cardinality(StockoutItems(p)) < 3
                             /\ TotalShortage(p) <= ShortageBound
  BY DEF UnapprovedIsBounded
<1> DEFINE j == job[e]
<1>1. j \in Jobs /\ Runs(j) /\ \E a \in BOOLEAN : output[e] = Output(j, a)
  <2>1. Story(e) /\ phase[e] \in Phases
    BY DEF StoryInv, Shared
  <2>2. phase[e] = "completed"
    BY <2>1 DEF Story, Phases, Uncosted
  <2> QED
    BY <2>1, <2>2 DEF Story, Runs
<1> HIDE DEF j
<1>2. CASE j.kind = "predictive_maintenance"
  <2>1. PICK a \in BOOLEAN : output[e] = Recommendation(j.readings, a)
    BY <1>1, <1>2 DEF Output
  <2>2. ClassifyRisk(j.readings) # "critical"
    <3>1. Recommendation(j.readings, a).requires_approval
            = (ClassifyRisk(j.readings) \in {"critical", "high"})
      BY DEF Recommendation
    <3> QED
      BY <2>1, <3>1, Zenon
  <2>3. \A m \in DOMAIN j.readings : j.readings[m] \in Int \cup {Unreadable}
    BY <1>1, <1>2
  <2>4. AnomalousMetrics(j.readings) = {}
    BY <2>2, <2>3, AnomalyIsCritical
  <2> QED
    BY <1>2, <2>4 DEF j
<1>3. CASE j.kind # "predictive_maintenance"
  <2>1. j.kind = "supply_chain"
    BY <1>1, <1>3 DEF Runs, WorkflowTypes
  <2>2. PICK a \in BOOLEAN : output[e] = Plan(j.plan, a)
    BY <1>1, <2>1 DEF Output
  <2>3. ~RequiresApproval(j.plan)
    BY <2>2 DEF Plan
  <2>4. IsInput(j.plan) /\ ~AnalysisRaises(j.plan) /\ j.plan.routes # << >>
    BY <1>1, <2>1 DEF Runs, IsValid, Raises
  <2> DEFINE p == j.plan
  <2>5. /\ p.limit # None => p.limit > 0 /\ LandedCost(p) <= 2 * p.limit
        /\ \A i \in Supplied(p) : SelectedSupplier(p, i).risk < 40
        /\ Cardinality(StockoutItems(p)) < 3
        /\ TotalShortage(p) <= ShortageBound
    BY <2>3, <2>4, UnapprovedPlan
  <2> QED
    BY <1>3, <2>5 DEF j
<1> QED
  BY <1>2, <1>3

(***************************************************************************)
(* What goes ahead without an approval is within the bounds of the rules: a *)
(* machine has no reading out of its range, and a plan has a budget that is *)
(* not spent, costs no more than that, buys from no risky supplier and      *)
(* refills fewer than three items, by no more than the bound.               *)
(***************************************************************************)
THEOREM UnapprovedIsBoundedHolds == Spec => []UnapprovedIsBounded
  BY StoryIsBounded, StoryInvariant, PTL
=============================================================================

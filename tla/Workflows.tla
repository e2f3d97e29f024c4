------------------------------ MODULE Workflows ------------------------------
(****************************************************************************)
(* services/execution.py and the two workflows it runs: AIExecutionService   *)
(* executes predictive maintenance and supply chain jobs that share one      *)
(* telemetry sink and one cost tracker, both lists that only grow.           *)
(*                                                                           *)
(* An execution suspends in one place, the call of the model gateway, so it  *)
(* is atomic up to that call and again from its answer on; between the two,  *)
(* the events of other executions enter the log.  The gateway answers,       *)
(* raises, or the caller goes away and the awaiting task is cancelled.       *)
(*                                                                           *)
(* A job has its workflow type, whether the required fields are there, and   *)
(* the readings of a machine or the input of a supply plan.                  *)
(****************************************************************************)
EXTENDS Maintenance, SupplyPlan

CONSTANTS
    Executions,     \* the requests, each with an id of its own
    Jobs            \* the jobs requested

VARIABLES
    job,            \* of an execution: its job, once it began
    phase,          \* "new", "asking", "completed", "failed", "raised", "cancelled"
    events,         \* telemetry: pairs of an execution and an event type
    records,        \* the cost tracker: the executions it recorded a cost for
    output          \* of an execution: what it returned

vars == <<job, phase, events, records, output>>

WorkflowTypes == {"predictive_maintenance", "supply_chain"}

ASSUME WorkflowsAssumption ==
    \A j \in Jobs :
        /\ j.kind = "predictive_maintenance" =>
                \A m \in DOMAIN j.readings : j.readings[m] \in Int \cup {Unreadable}
        /\ j.kind = "supply_chain" => IsInput(j.plan)

Nothing == [type |-> "none"]

(* validate_input; a job of supplies must also name candidates.              *)
IsValid(j) ==
    /\ j.complete
    /\ j.kind = "predictive_maintenance" => DOMAIN j.readings # {}
    /\ j.kind = "supply_chain" => /\ DOMAIN j.plan.inventory # {}
                                  /\ j.plan.suppliers # << >>
                                  /\ j.plan.routes # << >>

(* Only the analysis of supplies can raise.                                  *)
Raises(j) == j.kind = "supply_chain" /\ AnalysisRaises(j.plan)

IsComplex(j) ==
    IF j.kind = "supply_chain" THEN NeedsReasoning(j.plan) ELSE NeedsRootCause(j.readings)

Output(j, answered) ==
    IF j.kind = "supply_chain" THEN Plan(j.plan, answered) ELSE Recommendation(j.readings, answered)

(* The events of the two steps before a model may be asked, and of the step  *)
(* after it, which a machine without anomaly does not reach.                 *)
Begun == <<"workflow.started", "workflow.step_completed">>
Analysed(j) ==
    IF j.kind = "supply_chain"
    THEN Begun \o <<"workflow.step_completed", "workflow.step_completed">>
    ELSE Begun \o <<"workflow.step_completed">>
Classified(j) ==
    IF j.kind = "predictive_maintenance" /\ AnomalousMetrics(j.readings) = {}
    THEN <<"workflow.completed">>
    ELSE <<"workflow.step_completed", "workflow.completed">>

Emit(e, types) == events' = events \o [k \in DOMAIN types |-> <<e, types[k]>>]

----------------------------------------------------------------------------

Init ==
    /\ job = [e \in Executions |-> Nothing]
    /\ phase = [e \in Executions |-> "new"]
    /\ events = << >>
    /\ records = << >>
    /\ output = [e \in Executions |-> Nothing]

Begin(e, j, p) ==
    /\ phase[e] = "new"
    /\ job' = [job EXCEPT ![e] = j]
    /\ phase' = [phase EXCEPT ![e] = p]

(* An unknown workflow type raises before anything is emitted.               *)
RefuseUnknown(e, j) ==
    /\ j.kind \notin WorkflowTypes
    /\ Begin(e, j, "raised")
    /\ UNCHANGED <<events, records, output>>

(* An invalid input is a failed workflow that never started.                 *)
RefuseInvalid(e, j) ==
    /\ j.kind \in WorkflowTypes
    /\ ~IsValid(j)
    /\ Begin(e, j, "failed")
    /\ Emit(e, <<"workflow.failed">>)
    /\ UNCHANGED <<records, output>>

(* A candidate lacking a figure breaks the analysis, after the pre-check.    *)
FailAnalysis(e, j) ==
    /\ j.kind \in WorkflowTypes
    /\ IsValid(j)
    /\ Raises(j)
    /\ Begin(e, j, "raised")
    /\ Emit(e, Begun \o <<"workflow.step_completed", "workflow.failed">>)
    /\ UNCHANGED <<records, output>>

(* What the rules decide alone runs to its end in one go.                    *)
RunToEnd(e, j) ==
    /\ j.kind \in WorkflowTypes
    /\ IsValid(j)
    /\ ~Raises(j)
    /\ ~IsComplex(j)
    /\ Begin(e, j, "completed")
    /\ Emit(e, Analysed(j) \o Classified(j))
    /\ output' = [output EXCEPT ![e] = Output(j, FALSE)]
    /\ UNCHANGED records

AskModel(e, j) ==
    /\ j.kind \in WorkflowTypes
    /\ IsValid(j)
    /\ ~Raises(j)
    /\ IsComplex(j)
    /\ Begin(e, j, "asking")
    /\ Emit(e, Analysed(j) \o <<"llm.call_started">>)
    /\ UNCHANGED <<records, output>>

(* A mutant: an answer whose gateway reports no tokens goes uncosted.         *)
AnswerOfUnreported(e) ==
    /\ phase[e] = "asking"
    /\ \E reported \in BOOLEAN : records' = IF reported THEN Append(records, e) ELSE records
    /\ Emit(e, <<"llm.call_completed", "cost.recorded">> \o Classified(job[e]))
    /\ output' = [output EXCEPT ![e] = Output(job[e], TRUE)]
    /\ phase' = [phase EXCEPT ![e] = "completed"]
    /\ UNCHANGED job

(* The answer is costed, then reported, then used.                           *)
Answer(e) ==
    /\ phase[e] = "asking"
    /\ records' = Append(records, e)
    /\ Emit(e, <<"llm.call_completed", "cost.recorded">> \o Classified(job[e]))
    /\ output' = [output EXCEPT ![e] = Output(job[e], TRUE)]
    /\ phase' = [phase EXCEPT ![e] = "completed"]
    /\ UNCHANGED job

(* A mutant: the exception is handed on before it is reported.               *)
GatewayFailsUnreported(e) ==
    /\ phase[e] = "asking"
    /\ phase' = [phase EXCEPT ![e] = "raised"]
    /\ UNCHANGED <<job, events, records, output>>

(* A gateway that raises ends the workflow; nothing says that the call did.  *)
GatewayFails(e) ==
    /\ phase[e] = "asking"
    /\ Emit(e, <<"workflow.failed">>)
    /\ phase' = [phase EXCEPT ![e] = "raised"]
    /\ UNCHANGED <<job, records, output>>

(* CancelledError is no Exception: the log keeps no end of the execution.    *)
Cancel(e) ==
    /\ phase[e] = "asking"
    /\ phase' = [phase EXCEPT ![e] = "cancelled"]
    /\ UNCHANGED <<job, events, records, output>>

Next ==
    \E e \in Executions :
        \/ \E j \in Jobs : \/ RefuseUnknown(e, j)
                           \/ RefuseInvalid(e, j)
                           \/ FailAnalysis(e, j)
                           \/ RunToEnd(e, j)
                           \/ AskModel(e, j)
        \/ Answer(e)
        \/ GatewayFails(e)
        \/ Cancel(e)

Spec == Init /\ [][Next]_vars

----------------------------------------------------------------------------
(* What the log says of one execution, whatever else it holds: the places of *)
(* its events, and how often it says one of them.                            *)
Own(e) == {k \in DOMAIN events : events[k][1] = e}
At(e, type) == {k \in DOMAIN events : events[k] = <<e, type>>}
Said(e, type) == Cardinality(At(e, type))
Recorded(e) == {k \in DOMAIN records : records[k] = e}
Ends == {"workflow.completed", "workflow.failed"}
HasEnded(e) == \/ phase[e] \in {"completed", "failed"}
               \/ phase[e] = "raised" /\ job[e].kind \in WorkflowTypes

(* In a log shared by every execution, one that returned or raised has one   *)
(* end, the last of its events, which says completed exactly when it         *)
(* returned an output; one that still waits, or was cancelled while it did,  *)
(* has none, and what started did so first (execution.py:97-164).           *)
OneEnding ==
    \A e \in Executions :
        /\ \A k \in Own(e) : events[k][2] \in Ends =>
                HasEnded(e) /\ \A l \in Own(e) : l <= k
        /\ HasEnded(e) => \E k \in Own(e) : events[k][2] \in Ends
        /\ output[e] # Nothing <=> Said(e, "workflow.completed") = 1
        /\ Cardinality(Own(e)) > 1 =>
                \E k \in At(e, "workflow.started") : \A l \in Own(e) : k <= l
        /\ Said(e, "workflow.started") <= 1

(* Every answer of a model is costed once, under the execution that asked,   *)
(* and the tracker agrees with the log; a call without an answer costs       *)
(* nothing, and it is then still under way, or the workflow did not complete *)
(* (predictive_maintenance.py:395-423, supply_chain.py:449-477).             *)
PaidCallsAreRecorded ==
    \A e \in Executions :
        LET recorded == Cardinality(Recorded(e))
        IN  /\ recorded = Said(e, "llm.call_completed")
            /\ recorded = Said(e, "cost.recorded")
            /\ Said(e, "llm.call_started") > recorded =>
                    phase[e] \in {"asking", "raised", "cancelled"}

(* A recommendation is called measured exactly when no model answered for    *)
(* it, and no model is asked about a machine with fewer than two metrics     *)
(* out of their range (predictive_maintenance.py:160-188).                   *)
InferenceIsMarked ==
    \A e \in Executions :
        /\ output[e] # Nothing =>
              (output[e].quality = "ACTUAL" <=> Said(e, "llm.call_completed") = 0)
        /\ Said(e, "llm.call_started") > 0 /\ job[e].kind = "predictive_maintenance" =>
              \E m, n \in DOMAIN job[e].readings \cap Metrics :
                  m # n /\ IsAnomalous(job[e].readings, m) /\ IsAnomalous(job[e].readings, n)

(* What goes ahead without an approval is within the bounds the rules set: a *)
(* machine has no reading out of its range, and a plan has a budget that is  *)
(* not spent, costs no more than that, buys from no risky supplier and       *)
(* refills fewer than three items, by no more than the bound on the shortage *)
(* (supply_chain.py:197-231 and 509-530).  It may hold a critical stockout   *)
(* all the same, as supply_chain.py:19-20 and 56 define it: the code never   *)
(* relates a shortage to the safety stock of its item.                       *)
UnapprovedIsBounded ==
    \A e \in Executions :
        output[e] # Nothing /\ ~output[e].requires_approval =>
            IF job[e].kind = "predictive_maintenance"
            THEN AnomalousMetrics(job[e].readings) = {}
            ELSE LET p == job[e].plan
                 IN  /\ p.limit # None => p.limit > 0 /\ LandedCost(p) <= 2 * p.limit
                     /\ \A i \in Supplied(p) : SelectedSupplier(p, i).risk < 40
                     /\ Cardinality(StockoutItems(p)) < 3
                     /\ TotalShortage(p) <= ShortageBound
=============================================================================

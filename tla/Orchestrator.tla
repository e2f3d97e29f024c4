---------------------------- MODULE Orchestrator ----------------------------
(***************************************************************************)
(* The cost-aware orchestrator (orchestrator/orchestrator.py): one         *)
(* /ai/execute request is planned, asked of a model, possibly asked of a   *)
(* fallback, and recorded by telemetry/recorder.py.  Requests share the    *)
(* model registry and the routing policy in force, which other sessions    *)
(* change at any await.  Steps are cut wherever the code awaits something  *)
(* that can block.                                                         *)
(***************************************************************************)
EXTENDS Integers, Sequences

CONSTANTS
  Requests,   \* executions
  Models,     \* rows of models whose capabilities suit the workload type
  None,       \* no model
  Rated, Quality,   \* models with a quality_score, and the score
  Priced, Cost,     \* models with an input_cost, and the rate
  Timed, Latency,   \* models with a latency_score, and the score
  Name,             \* place of model_name in the alphabet
  Policies,   \* routing policies that may be in force: pinned model, quality floor
  NoPolicy,   \* no routing policy
  Outcomes    \* what the budget evaluator answers

BudgetOutcomes == {"ALLOW", "DOWNGRADE", "REQUIRE_APPROVAL", "BLOCK"}

ASSUME OrchestratorAssumption ==
  /\ None \notin Models
  /\ NoPolicy \notin Policies
  /\ Policies \subseteq [pinned: Models \cup {None}, floor: Nat]
  /\ Outcomes \subseteq BudgetOutcomes
  /\ Quality \in [Models -> Nat] /\ Cost \in [Models -> Nat]
  /\ Latency \in [Models -> Nat] /\ Name \in [Models -> Nat]

VARIABLES
  enabled,   \* models.enabled
  policy,    \* what get_active would return now
  pc,        \* where each execution stands
  budget,    \* plan.budget_status
  read,      \* the routing policy as the plan read it
  offered,   \* the candidates as the plan read them
  selected,  \* plan.selected_model_id
  primary,   \* model of the first gateway call
  fallback,  \* model of the second gateway call
  outcome,   \* what _record is about to be told
  events,    \* usage_events committed for the execution, in order
  seen       \* history: models enabled at some moment since the request came

plan == <<budget, read, offered>>
calls == <<primary, fallback>>
vars == <<enabled, policy, pc, plan, selected, calls, outcome, events, seen>>

Phases == {"idle", "routing", "choosing", "ready", "asking", "failed",
           "asking again", "recording", "returned", "raised"}
RecordOutcomes == {"blocked", "no_model", "error", "success"}
Event == [status: {"SUCCESS", "BLOCKED", "FAILURE"}, model: Models \cup {None}, fallback: BOOLEAN]

TypeOK ==
  /\ enabled \subseteq Models
  /\ policy \in Policies \cup {NoPolicy}
  /\ pc \in [Requests -> Phases]
  /\ budget \in [Requests -> BudgetOutcomes]
  /\ read \in [Requests -> Policies \cup {NoPolicy}]
  /\ offered \in [Requests -> SUBSET Models]
  /\ selected \in [Requests -> Models \cup {None}]
  /\ primary \in [Requests -> Models \cup {None}]
  /\ fallback \in [Requests -> Models \cup {None}]
  /\ outcome \in [Requests -> RecordOutcomes]
  /\ events \in [Requests -> Seq(Event)]
  /\ seen \in [Requests -> SUBSET Models]

Init ==
  /\ enabled \in SUBSET Models
  /\ policy \in Policies \cup {NoPolicy}
  /\ pc = [r \in Requests |-> "idle"]
  /\ budget = [r \in Requests |-> "ALLOW"]
  /\ read = [r \in Requests |-> NoPolicy]
  /\ offered = [r \in Requests |-> {}]
  /\ selected = [r \in Requests |-> None]
  /\ primary = [r \in Requests |-> None]
  /\ fallback = [r \in Requests |-> None]
  /\ outcome = [r \in Requests |-> "error"]
  /\ events = [r \in Requests |-> <<>>]
  /\ seen = [r \in Requests |-> {}]

-----------------------------------------------------------------------------
(* The registry and the order it is searched in.                           *)

Meets(m, floor) == floor = 0 \/ (m \in Rated /\ Quality[m] >= floor)

\* Floor 0 stands for a query without a quality filter.
FindForWorkload(floor) == {m \in enabled : Meets(m, floor)}

\* Mutant: a pinned model is taken whether or not it is a candidate.
CandidatesPinned(p) ==
  IF p = NoPolicy THEN FindForWorkload(0)
  ELSE IF p.pinned # None THEN {p.pinned} ELSE FindForWorkload(p.floor)

Candidates(p) ==
  IF p = NoPolicy THEN FindForWorkload(0)
  ELSE {m \in FindForWorkload(p.floor) : p.pinned \in {None, m}}

\* What is unknown sorts after every known value.
Unknown(known, m)      == IF m \in known THEN 0 ELSE 1
Known(known, value, m) == IF m \in known THEN value[m] ELSE 0

\* Mutant: quality leads under a downgrade too.
SortKeyQualityFirst(m, cheapest) ==
  <<-Known(Rated, Quality, m), Unknown(Priced, m), Known(Priced, Cost, m),
    Unknown(Timed, m), Known(Timed, Latency, m), Name[m]>>

SortKey(m, cheapest) ==
  LET quality == -Known(Rated, Quality, m)
      priced  == Unknown(Priced, m)
      cost    == Known(Priced, Cost, m)
      timed   == Unknown(Timed, m)
      latency == Known(Timed, Latency, m)
  IN  IF cheapest THEN <<priced, cost, quality, timed, latency, Name[m]>>
                  ELSE <<quality, priced, cost, timed, latency, Name[m]>>

Before(a, b) == \E i \in 1..6 : a[i] < b[i] /\ \A j \in 1..(i - 1) : a[j] = b[j]

\* The models sorted() may put first.
SelectModel(S, cheapest) ==
  {m \in S : \A n \in S : ~Before(SortKey(n, cheapest), SortKey(m, cheapest))}

-----------------------------------------------------------------------------
(* One execution.                                                          *)

Goto(r, phase) == pc' = [pc EXCEPT ![r] = phase]

ToRecord(r, o) == Goto(r, "recording") /\ outcome' = [outcome EXCEPT ![r] = o]

\* plan: the budget is evaluated before anything is looked up.
EvaluateBudget(r) ==
  /\ pc[r] = "idle"
  /\ seen' = [seen EXCEPT ![r] = enabled]
  /\ \E o \in Outcomes :
       /\ budget' = [budget EXCEPT ![r] = o]
       /\ IF o = "BLOCK" THEN ToRecord(r, "blocked")
                         ELSE Goto(r, "routing") /\ UNCHANGED outcome
  /\ UNCHANGED <<enabled, policy, read, offered, selected, calls, events>>

\* Mutant: the lookup waits for a policy.
LoadPolicyWaits(r) ==
  /\ pc[r] = "routing"
  /\ policy # NoPolicy
  /\ read' = [read EXCEPT ![r] = policy]
  /\ Goto(r, "choosing")
  /\ UNCHANGED <<enabled, policy, budget, offered, selected, calls, outcome, events, seen>>

\* A failed lookup counts as no policy.
LoadPolicy(r) ==
  /\ pc[r] = "routing"
  /\ \E p \in {policy, NoPolicy} : read' = [read EXCEPT ![r] = p]
  /\ Goto(r, "choosing")
  /\ UNCHANGED <<enabled, policy, budget, offered, selected, calls, outcome, events, seen>>

Choose(r) ==
  /\ pc[r] = "choosing"
  /\ LET S == Candidates(read[r])
     IN  /\ offered' = [offered EXCEPT ![r] = S]
         /\ \/ S = {} /\ ToRecord(r, "no_model") /\ UNCHANGED selected
            \/ /\ \E m \in SelectModel(S, budget[r] = "DOWNGRADE") :
                    selected' = [selected EXCEPT ![r] = m]
               /\ Goto(r, "ready")
               /\ UNCHANGED outcome
  /\ UNCHANGED <<enabled, policy, budget, read, calls, events, seen>>

\* The input guardrails refuse the payload, or the gateway is called.
CheckInput(r) ==
  /\ pc[r] = "ready"
  /\ \/ ToRecord(r, "error") /\ UNCHANGED primary
     \/ /\ primary' = [primary EXCEPT ![r] = selected[r]]
        /\ Goto(r, "asking")
        /\ UNCHANGED outcome
  /\ UNCHANGED <<enabled, policy, plan, selected, fallback, events, seen>>

\* An answer passes the output guardrails, or the gateway reports an error.
PrimaryEnds(r) ==
  /\ pc[r] = "asking"
  /\ \/ ToRecord(r, "success")
     \/ Goto(r, "failed") /\ UNCHANGED outcome
  /\ UNCHANGED <<enabled, policy, plan, selected, calls, events, seen>>

\* _fallback_model: neither the policy's floor nor its pin is passed on.
FallbackModels(r) ==
  SelectModel(FindForWorkload(0) \ {selected[r]}, budget[r] = "DOWNGRADE")

\* Mutant: the failure is recorded before a fallback is tried.
FallBackRecordsFirst(r) ==
  /\ pc[r] = "failed"
  /\ events' = [events EXCEPT ![r] =
                  Append(@, [status |-> "FAILURE", model |-> selected[r], fallback |-> FALSE])]
  /\ \/ FallbackModels(r) = {} /\ ToRecord(r, "error") /\ UNCHANGED fallback
     \/ /\ \E m \in FallbackModels(r) : fallback' = [fallback EXCEPT ![r] = m]
        /\ Goto(r, "asking again")
        /\ UNCHANGED outcome
  /\ UNCHANGED <<enabled, policy, plan, selected, primary, seen>>

FallBack(r) ==
  /\ pc[r] = "failed"
  /\ \/ FallbackModels(r) = {} /\ ToRecord(r, "error") /\ UNCHANGED fallback
     \/ /\ \E m \in FallbackModels(r) : fallback' = [fallback EXCEPT ![r] = m]
        /\ Goto(r, "asking again")
        /\ UNCHANGED outcome
  /\ UNCHANGED <<enabled, policy, plan, selected, primary, events, seen>>

\* Mutant: the plan keeps naming the model that failed.
FallbackAnswersKeepsPlan(r) ==
  /\ pc[r] = "asking again"
  /\ ToRecord(r, "success")
  /\ UNCHANGED <<enabled, policy, plan, selected, calls, events, seen>>

FallbackAnswers(r) ==
  /\ pc[r] = "asking again"
  /\ selected' = [selected EXCEPT ![r] = fallback[r]]
  /\ ToRecord(r, "success")
  /\ UNCHANGED <<enabled, policy, plan, calls, events, seen>>

\* What leaves execute by an exception nobody records: a failed registry
\* query, a cancelled call, a failed fallback, a refused output.
Raise(r) ==
  /\ pc[r] \in {"choosing", "asking", "failed", "asking again"}
  /\ Goto(r, "raised")
  /\ UNCHANGED <<enabled, policy, plan, selected, calls, outcome, events, seen>>

\* A missing model and an error leave the same status.
Status(o) ==
  CASE o = "success" -> "SUCCESS" [] o = "blocked" -> "BLOCKED" [] OTHER -> "FAILURE"

UsageEvent(r) ==
  [status   |-> Status(outcome[r]),
   model    |-> selected[r],
   fallback |-> outcome[r] = "success" /\ fallback[r] # None]

\* The recorder commits in a session of its own, or fails and is ignored.
Record(r) ==
  /\ pc[r] = "recording"
  /\ \/ events' = [events EXCEPT ![r] = Append(@, UsageEvent(r))]
     \/ UNCHANGED events
  /\ Goto(r, IF outcome[r] = "success" THEN "returned" ELSE "raised")
  /\ UNCHANGED <<enabled, policy, plan, selected, calls, outcome, seen>>

-----------------------------------------------------------------------------
(* Other sessions.                                                         *)

SetEnabled ==
  /\ \E m \in Models : enabled' \in {enabled \cup {m}, enabled \ {m}}
  /\ seen' = [r \in Requests |-> IF pc[r] = "idle" THEN {} ELSE seen[r] \cup enabled']
  /\ UNCHANGED <<policy, pc, plan, selected, calls, outcome, events>>

\* An activation or a rollback of the policy lifecycle.
ChangePolicy ==
  /\ policy' \in Policies \cup {NoPolicy}
  /\ UNCHANGED <<enabled, pc, plan, selected, calls, outcome, events, seen>>

Step(r) ==
  \/ EvaluateBudget(r) \/ LoadPolicy(r) \/ Choose(r) \/ CheckInput(r)
  \/ PrimaryEnds(r) \/ FallBack(r) \/ FallbackAnswers(r)
  \/ Raise(r) \/ Record(r)

Next == (\E r \in Requests : Step(r)) \/ SetEnabled \/ ChangePolicy

Spec == Init /\ [][Next]_vars

FairSpec == Spec /\ \A r \in Requests : WF_vars(Step(r))

-----------------------------------------------------------------------------
(* Properties.                                                             *)

Ended(r) == pc[r] \in {"returned", "raised"}

(***************************************************************************)
(* A budget that blocks costs nothing: no model is asked, whatever the     *)
(* other sessions change meanwhile (execute, "before any billable call").  *)
(***************************************************************************)
BlockedCostsNothing ==
  \A r \in Requests : budget[r] = "BLOCK" => primary[r] = None /\ fallback[r] = None

(***************************************************************************)
(* A model that was disabled all through a request is never asked in it,   *)
(* pinned or not, first or as the fallback: "a pinned model that has since *)
(* been disabled must not resurrect itself" (_candidates).                 *)
(***************************************************************************)
AskedModelsWereEnabled ==
  \A r \in Requests : {primary[r], fallback[r]} \subseteq seen[r] \cup {None}

(***************************************************************************)
(* The fallback is a different model, and there is one only after a first. *)
(***************************************************************************)
FallbackIsAnother ==
  \A r \in Requests : fallback[r] # None => primary[r] \notin {None, fallback[r]}

(***************************************************************************)
(* Under a DOWNGRADE the first model asked is priced if any candidate is,  *)
(* and no candidate of the plan is cheaper (_select_model).                *)
(***************************************************************************)
DowngradeIsCheapest ==
  \A r \in Requests :
    budget[r] = "DOWNGRADE" /\ primary[r] # None =>
      \A m \in offered[r] \cap Priced :
        primary[r] \in Priced /\ Cost[primary[r]] <= Cost[m]

(***************************************************************************)
(* An execution leaves at most one usage event, and only when it is over.  *)
(***************************************************************************)
RecordedOnce ==
  \A r \in Requests :
    /\ Len(events[r]) <= 1
    /\ events[r] # <<>> => Ended(r)

(***************************************************************************)
(* The usage event tells what ran: a success names the model that gave the *)
(* answer and whether it was the fallback, a block cost nothing, and a     *)
(* failure after a call names the model that failed (_record).             *)
(***************************************************************************)
EventTellsWhatRan ==
  \A r \in Requests : \A i \in 1..Len(events[r]) :
    LET e == events[r][i]
    IN  /\ e.fallback <=> fallback[r] # None
        /\ e.status = "SUCCESS" =>
             e.model = IF e.fallback THEN fallback[r] ELSE primary[r]
        /\ e.status = "BLOCKED" => primary[r] = None /\ e.model = None
        /\ e.status = "FAILURE" => primary[r] \in {None, e.model}

(***************************************************************************)
(* Every execution ends: it answers or raises, given that gateway calls    *)
(* and queries end.                                                        *)
(***************************************************************************)
Ends == \A r \in Requests : pc[r] # "idle" ~> Ended(r)

-----------------------------------------------------------------------------
(* A claim of a comment that the code does not keep.                       *)

(***************************************************************************)
(* "emit telemetry for every execution, including refusals" (_record): an  *)
(* execution that asked a model does not end without trying to record it.  *)
(***************************************************************************)
EveryExecutionIsRecorded ==
  [][\A r \in Requests : pc[r] # "recording" /\ primary[r] # None => ~Ended(r)']_vars
=============================================================================

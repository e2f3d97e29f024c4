--------------------------- MODULE ExecutionLimits ---------------------------
(****************************************************************************)
(* guardrails/limits.py and guardrails/tool_guard.py: the consumable budget  *)
(* of one execution and the guard of its tools.  Nothing in the application  *)
(* calls them yet, so their caller here is the most general one: it calls    *)
(* any method at any time, goes on after a refusal, and a human may approve  *)
(* a tool between two of its calls.                                          *)
(*                                                                           *)
(* Time is the time since the budget was made.                               *)
(****************************************************************************)
EXTENDS Integers, FiniteSets

CONSTANTS
    MaxIterations, MaxToolCalls, MaxTotalTokens, MaxDuration,
    Registry,       \* the rows of the tools table, by tool name
    Names,          \* the names a model may ask for
    Held,           \* the roles of the principal
    WorkloadType,   \* of the execution, or Unset
    Parameters,     \* the parameters a call may carry
    Counts,         \* how much one call may consume
    Unset,
    Garbled,        \* a serialized list that does not parse
    ClockBound, TokenBound      \* bounds of the instance

ASSUME LimitsAssumption ==
    /\ MaxIterations \in Nat \ {0}
    /\ MaxToolCalls \in Nat
    /\ MaxTotalTokens = Unset \/ MaxTotalTokens \in Nat \ {0}
    /\ MaxDuration \in Nat
    /\ ClockBound \in Nat
    /\ TokenBound \in Nat
    /\ \A c \in Counts : c \in Nat
    /\ Unset \notin Nat
    /\ \A name \in DOMAIN Registry : Registry[name].workloads # Unset

VARIABLES
    used,           \* the counters of the budget
    now,
    approved,       \* the tools a human approved for this execution
    authorized,     \* the tools the guard has let through
    granted,        \* what was consumed without a refusal
    lastStep,       \* when the last iteration began, or Unset
    overdrawn       \* a consumption of tokens has been refused

limitVars == <<used, now, approved, authorized, granted, lastStep, overdrawn>>

Zero == [iterations |-> 0, tool_calls |-> 0, tokens |-> 0]

----------------------------------------------------------------------------
(* The registry.                                                             *)

KnownRoles == {"ADMIN", "FINOPS_MANAGER", "AI_ENGINEER", "PLANT_MANAGER", "ANALYST", "VIEWER"}
KnownRisks == {"LOW", "MEDIUM", "HIGH", "CRITICAL"}
NeedsApproval == {"HIGH", "CRITICAL"}

(* A list that does not parse is an empty one.                               *)
DecodeList(raw) == IF raw = Garbled THEN {} ELSE raw

(* A mutant: a risk level nobody knows is no risk.                           *)
FromRecordTrusting(row) ==
    [roles |-> DecodeList(row.roles) \cap KnownRoles,
     workloads |-> IF DecodeList(row.workloads) = {} THEN Unset ELSE row.workloads,
     risk |-> IF row.risk \in KnownRisks THEN row.risk ELSE "LOW",
     enabled |-> row.enabled,
     parameter_names |-> {}]

(* An unknown role is dropped, and an unknown risk is the highest.  But no   *)
(* workloads means every one, so a list of workloads that does not parse     *)
(* restricts nothing.  Parameters, which no column declares, are none.       *)
FromRecord(row) ==
    [roles |-> DecodeList(row.roles) \cap KnownRoles,
     workloads |-> IF DecodeList(row.workloads) = {} THEN Unset ELSE row.workloads,
     risk |-> IF row.risk \in KnownRisks THEN row.risk ELSE "CRITICAL",
     enabled |-> row.enabled,
     parameter_names |-> {}]

(* The five checks, in order; the order only decides which refusal is told.  *)
MayRun(name, parameters) ==
    /\ name \in DOMAIN Registry
    /\ LET tool == FromRecord(Registry[name])
       IN  /\ tool.enabled
           /\ Held \cap tool.roles # {}
           /\ tool.workloads # Unset /\ WorkloadType # Unset => WorkloadType \in tool.workloads
           /\ parameters \subseteq tool.parameter_names
           /\ tool.risk \in NeedsApproval => name \in approved

----------------------------------------------------------------------------

LimitsInit ==
    /\ used = Zero
    /\ now = 0
    /\ approved = {}
    /\ authorized = {}
    /\ granted = Zero
    /\ lastStep = Unset
    /\ overdrawn = FALSE

IsExpired == now >= MaxDuration

(* A mutant: the ceiling is compared with the count before this step.        *)
ConsumeIterationLate ==
    /\ ~IsExpired
    /\ used.iterations <= MaxIterations
    /\ used' = [used EXCEPT !.iterations = @ + 1]
    /\ granted' = [granted EXCEPT !.iterations = @ + 1]
    /\ lastStep' = now
    /\ UNCHANGED <<now, approved, authorized, overdrawn>>

(* The deadline, then the ceiling; a refused step changes nothing.           *)
ConsumeIteration ==
    /\ ~IsExpired
    /\ used.iterations < MaxIterations
    /\ used' = [used EXCEPT !.iterations = @ + 1]
    /\ granted' = [granted EXCEPT !.iterations = @ + 1]
    /\ lastStep' = now
    /\ UNCHANGED <<now, approved, authorized, overdrawn>>

(* Calls that do not all fit are refused together and not counted.           *)
ConsumeToolCall(count) ==
    /\ used.tool_calls + count <= MaxToolCalls
    /\ used' = [used EXCEPT !.tool_calls = @ + count]
    /\ granted' = [granted EXCEPT !.tool_calls = @ + count]
    /\ UNCHANGED <<now, approved, authorized, lastStep, overdrawn>>

Fits(tokens) == MaxTotalTokens = Unset \/ tokens <= MaxTotalTokens

(* A mutant: the refused tokens are not counted.                             *)
ConsumeTokensThatFit(count) ==
    LET total == used.tokens + count
    IN  /\ total <= TokenBound
        /\ used' = IF Fits(total) THEN [used EXCEPT !.tokens = total] ELSE used
        /\ granted' = IF Fits(total) THEN [granted EXCEPT !.tokens = @ + count] ELSE granted
        /\ overdrawn' = (overdrawn \/ ~Fits(total))
        /\ UNCHANGED <<now, approved, authorized, lastStep>>

(* Tokens are spent by the time they are counted, so they are counted first  *)
(* and refused afterwards: the counter may pass its ceiling.                 *)
ConsumeTokens(count) ==
    LET total == used.tokens + count
    IN  /\ total <= TokenBound
        /\ used' = [used EXCEPT !.tokens = total]
        /\ granted' = IF Fits(total) THEN [granted EXCEPT !.tokens = @ + count] ELSE granted
        /\ overdrawn' = (overdrawn \/ ~Fits(total))
        /\ UNCHANGED <<now, approved, authorized, lastStep>>

Authorize(name, parameters) ==
    /\ MayRun(name, parameters)
    /\ authorized' = authorized \cup {name}
    /\ UNCHANGED <<used, now, approved, granted, lastStep, overdrawn>>

(* External: a row of the approvals table.                                   *)
Approve(name) ==
    /\ name \in DOMAIN Registry
    /\ approved' = approved \cup {name}
    /\ UNCHANGED <<used, now, authorized, granted, lastStep, overdrawn>>

Tick ==
    /\ now < ClockBound
    /\ now' = now + 1
    /\ UNCHANGED <<used, approved, authorized, granted, lastStep, overdrawn>>

LimitsNext ==
    \/ ConsumeIteration
    \/ \E count \in Counts : ConsumeToolCall(count) \/ ConsumeTokens(count)
    \/ \E name \in Names : \/ Approve(name)
                           \/ \E parameters \in SUBSET Parameters : Authorize(name, parameters)
    \/ Tick

LimitsSpec == LimitsInit /\ [][LimitsNext]_limitVars

----------------------------------------------------------------------------

LimitsTypeOK ==
    /\ used \in [iterations : Nat, tool_calls : Nat, tokens : Nat]
    /\ granted \in [iterations : Nat, tool_calls : Nat, tokens : Nat]
    /\ now \in Nat
    /\ lastStep \in Nat \cup {Unset}
    /\ overdrawn \in BOOLEAN
    /\ approved \subseteq Names
    /\ authorized \subseteq Names

(* However the calls are ordered, and whatever the caller does with a        *)
(* refusal, what was granted stays within every ceiling and no step began    *)
(* after the deadline; the counters hide nothing: steps and tool calls are   *)
(* what was granted, and tokens at least that (limits.py:77-153).            *)
CeilingsHold ==
    /\ granted.iterations <= MaxIterations
    /\ granted.tool_calls <= MaxToolCalls
    /\ Fits(granted.tokens)
    /\ lastStep # Unset => lastStep < MaxDuration
    /\ used.iterations = granted.iterations
    /\ used.tool_calls = granted.tool_calls
    /\ used.tokens >= granted.tokens

(* Once tokens were refused, no later and smaller consumption passes: the    *)
(* refused ones were spent and count (limits.py:132-153).                    *)
RefusedTokensStayRefused ==
    [][overdrawn => granted'.tokens = granted.tokens]_limitVars

(* A tool the guard let through is in the registry and enabled; its row names *)
(* a role of the principal; the row names the workload too, unless it names  *)
(* none or cannot be read; and a human approved it unless the row says that  *)
(* its risk is low or medium (tool_guard.py:83-136 and 164-217).             *)
RunsByItsRow ==
    \A name \in authorized :
        /\ name \in DOMAIN Registry
        /\ LET row == Registry[name]
           IN  /\ row.enabled
               /\ row.roles # Garbled /\ Held \cap row.roles # {}
               /\ \/ WorkloadType = Unset
                  \/ row.workloads \in {{}, Garbled}
                  \/ WorkloadType \in row.workloads
               /\ row.risk \in {"LOW", "MEDIUM"} \/ name \in approved
=============================================================================

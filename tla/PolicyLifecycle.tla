--------------------------- MODULE PolicyLifecycle ---------------------------
(***************************************************************************)
(* The routing-policy lifecycle: recommendations are created, decided,     *)
(* applied as a new policy version, and rolled back                        *)
(* (services/policy_lifecycle.py behind api/v1/routes/optimization.py).    *)
(*                                                                         *)
(* One action is one request whose transaction is not interleaved with     *)
(* another's; PolicyRequests splits the requests into their reads and      *)
(* their commit.  A request the code answers with 403, 404 or 409 rolls    *)
(* its session back and is no step here.                                   *)
(***************************************************************************)
EXTENDS Integers, FiniteSets

CONSTANTS
  Recs,                \* ids of optimization_recommendations rows
  SeedIds,             \* ids of the routing_policies rows the seed inserts
  NewIds,              \* uuids still unused: one per version apply can create
  Keys,                \* <<tenant, workload type>> pairs
  KeyOf,               \* key the recommendation's workload resolves to
  SeedRoute,           \* <<key, complexity>> of each seeded policy
  Validated,           \* recommendations with a strategy and a saving >= 0
  LowRisk,             \* recommendations whose risk_level is LOW
  Users,               \* authenticated principals
  Approvers,           \* those holding FINOPS_MANAGER or ADMIN
  AutoApproveLowRisk,  \* auto_approve_low_risk of the service
  MaxDecisions,        \* bound: approve and reject requests in a behaviour
  None                 \* SQL NULL, and Python's None for the principal

PolicyIds    == SeedIds \cup NewIds
Complexities == {"simple", "medium", "complex"}
Live         == {"ACTIVE", "CANARY"}
PolicyStatus == {"ABSENT", "CANARY", "ACTIVE", "SUPERSEDED", "ROLLED_BACK"}
RecStatus    == {"ABSENT", "DRAFT", "PENDING_APPROVAL", "APPROVED",
                 "REJECTED", "APPLIED", "ROLLED_BACK"}
SystemApprover == "system_auto_approver"

ASSUME LifecycleAssumption ==
  /\ None \notin PolicyIds \cup Users \cup Keys \cup {SystemApprover}
  /\ SystemApprover \notin Users
  /\ SeedIds \cap NewIds = {}
  /\ KeyOf \in [Recs -> Keys]
  /\ SeedRoute \in [SeedIds -> Keys \X Complexities]
  /\ \A p, q \in SeedIds : SeedRoute[p] = SeedRoute[q] => p = q
  /\ Validated \subseteq Recs
  /\ LowRisk \subseteq Recs
  /\ Approvers \subseteq Users
  /\ AutoApproveLowRisk \in BOOLEAN
  /\ MaxDecisions \in Nat

VARIABLES
  rec,     \* optimization_recommendations, by id
  policy,  \* routing_policies, by id
  audits,  \* number of audit_events rows the lifecycle has written
  origin,  \* history: the recommendation whose apply created a version
  stray    \* history: a version that was no longer live has been rolled back

vars == <<rec, policy, audits, origin, stray>>

RecRow == [status: RecStatus, approvedBy: Users \cup {None, SystemApprover},
           applied: PolicyIds \cup {None}, superseded: PolicyIds \cup {None}]
PolicyRow == [status: PolicyStatus, key: Keys \cup {None},
              complexity: Complexities \cup {None}, version: Nat,
              approvedBy: Users \cup {None, SystemApprover}]

NewRec(status) == [status |-> status, approvedBy |-> None,
                   applied |-> None, superseded |-> None]
NoPolicy == [status |-> "ABSENT", key |-> None, complexity |-> None,
             version |-> 0, approvedBy |-> None]
SeedPolicy(p) == [status |-> "ACTIVE", key |-> SeedRoute[p][1],
                  complexity |-> SeedRoute[p][2], version |-> 1,
                  approvedBy |-> None]

TypeOK ==
  /\ rec \in [Recs -> RecRow]
  /\ policy \in [PolicyIds -> PolicyRow]
  /\ audits \in Nat
  /\ origin \in [PolicyIds -> Recs \cup {None}]
  /\ stray \in BOOLEAN

-----------------------------------------------------------------------------
(* Reads of the repository.                                                *)

Exists(p) == policy[p].status # "ABSENT"

LiveAt(k, c) == {p \in PolicyIds : /\ policy[p].status \in Live
                                   /\ policy[p].key = k
                                   /\ policy[p].complexity = c}

\* get_active_policy: the live rows that ORDER BY version DESC may return first.
ActiveCandidates(k, c) ==
  {p \in LiveAt(k, c) : \A q \in LiveAt(k, c) : policy[q].version <= policy[p].version}

\* Mutants: a lookup that ignores CANARY, or finds ROLLED_BACK rows too.
SupersedingActiveOnly(k, c) ==
  LET rows == {p \in LiveAt(k, c) : policy[p].status = "ACTIVE"}
  IN  IF rows = {} THEN {None} ELSE rows
SupersedingRolledBackToo(k, c) ==
  LET rows == {p \in PolicyIds : /\ policy[p].status \in Live \cup {"ROLLED_BACK"}
                                 /\ policy[p].key = k /\ policy[p].complexity = c}
  IN  IF rows = {} THEN {None} ELSE rows

Superseding(k, c) ==
  IF LiveAt(k, c) = {} THEN {None} ELSE ActiveCandidates(k, c)

VersionsOf(k) == {policy[p].version : p \in {q \in PolicyIds : Exists(q) /\ policy[q].key = k}}

\* get_latest_version_number: over every complexity, 0 for an empty key.
IsLatestVersion(k, v) ==
  IF VersionsOf(k) = {} THEN v = 0
  ELSE v \in VersionsOf(k) /\ \A w \in VersionsOf(k) : w <= v

-----------------------------------------------------------------------------
(* Requests.                                                               *)

Init ==
  /\ rec \in [Recs -> {NewRec("ABSENT"), NewRec("DRAFT")}]
  /\ policy = [p \in PolicyIds |-> IF p \in SeedIds THEN SeedPolicy(p) ELSE NoPolicy]
  /\ audits = 0
  /\ origin = [p \in PolicyIds |-> None]
  /\ stray = FALSE

\* POST /optimization/analyze
Analyze(r) ==
  /\ rec[r].status = "ABSENT"
  /\ rec' = [rec EXCEPT ![r] = NewRec("PENDING_APPROVAL")]
  /\ UNCHANGED <<policy, audits, origin, stray>>

CanAutoApprove(r) == AutoApproveLowRisk /\ r \in LowRisk
MayDecide(r, u)   == CanAutoApprove(r) \/ u \in Approvers
ApproverName(u)   == IF u = None THEN SystemApprover ELSE u
Decided(row, u, decision) ==
  [row EXCEPT !.status     = decision,
              !.approvedBy = IF decision = "APPROVED" THEN ApproverName(u) ELSE @]

\* POST /optimization/{id}/approve: the row's own status is not looked at.
Decide(r, u, decision) ==
  /\ audits < MaxDecisions
  /\ rec[r].status # "ABSENT"
  /\ MayDecide(r, u)
  /\ rec' = [rec EXCEPT ![r] = Decided(@, u, decision)]
  /\ audits' = audits + 1
  /\ UNCHANGED <<policy, origin, stray>>

ModeStatus(mode) == IF mode = "CANARY" THEN "CANARY" ELSE "ACTIVE"

\* The version apply_policy inserts for recommendation r.
NewVersion(r, mode, v) ==
  [status |-> ModeStatus(mode), key |-> KeyOf[r], complexity |-> "medium",
   version |-> v + 1, approvedBy |-> rec[r].approvedBy]

\* POST /optimization/{id}/apply; p is the fresh uuid, cur the row superseded
\* (or None), v the latest version number.
ApplyWith(r, mode, p, cur, v) ==
  /\ policy' = [q \in PolicyIds |->
                  IF q = p THEN NewVersion(r, mode, v)
                  ELSE IF q = cur THEN [policy[q] EXCEPT !.status = "SUPERSEDED"]
                  ELSE policy[q]]
  /\ rec' = [rec EXCEPT ![r].status = "APPLIED", ![r].applied = p, ![r].superseded = cur]
  /\ origin' = [origin EXCEPT ![p] = r]
  /\ UNCHANGED <<audits, stray>>

Apply(r, mode) ==
  /\ rec[r].status = "APPROVED"
  /\ r \in Validated
  /\ \E p \in NewIds, cur \in Superseding(KeyOf[r], "medium"),
        v \in {0} \cup VersionsOf(KeyOf[r]) :
       /\ ~Exists(p)
       /\ IsLatestVersion(KeyOf[r], v)
       /\ ApplyWith(r, mode, p, cur, v)

\* Mutant: a rollback that restores the predecessor and leaves the applied
\* version live.
RollbackRestoresOnly(r) ==
  /\ rec[r].status = "APPLIED"
  /\ policy' = [q \in PolicyIds |->
                  IF q = rec[r].superseded THEN [policy[q] EXCEPT !.status = "ACTIVE"]
                  ELSE policy[q]]
  /\ rec' = [rec EXCEPT ![r].status = "ROLLED_BACK"]
  /\ stray' = (stray \/ policy[rec[r].applied].status \notin Live)
  /\ UNCHANGED <<audits, origin>>

\* POST /optimization/{id}/rollback
Rollback(r) ==
  /\ rec[r].status = "APPLIED"
  /\ policy' = [q \in PolicyIds |->
                  IF q = rec[r].superseded THEN [policy[q] EXCEPT !.status = "ACTIVE"]
                  ELSE IF q = rec[r].applied THEN [policy[q] EXCEPT !.status = "ROLLED_BACK"]
                  ELSE policy[q]]
  /\ rec' = [rec EXCEPT ![r].status = "ROLLED_BACK"]
  /\ stray' = (stray \/ policy[rec[r].applied].status \notin Live)
  /\ UNCHANGED <<audits, origin>>

Next ==
  \E r \in Recs :
    \/ Analyze(r)
    \/ \E u \in Users \cup {None}, decision \in {"APPROVED", "REJECTED"} : Decide(r, u, decision)
    \/ \E mode \in {"FULL", "CANARY"} : Apply(r, mode)
    \/ Rollback(r)

Spec == Init /\ [][Next]_vars

-----------------------------------------------------------------------------
(* Properties of the lifecycle as it is.                                   *)

(***************************************************************************)
(* The two links a recommendation keeps for its rollback are usable ones:  *)
(* they name rows that exist, on the recommendation's own route, the       *)
(* superseded one an older version, and no two recommendations claim the   *)
(* same applied version (apply_policy, lines 297-299).                     *)
(***************************************************************************)
LinksWellFormed ==
  \A r \in Recs :
    /\ rec[r].applied # None =>
         /\ Exists(rec[r].applied)
         /\ policy[rec[r].applied].key = KeyOf[r]
         /\ policy[rec[r].applied].complexity = "medium"
         /\ origin[rec[r].applied] = r
    /\ rec[r].superseded # None =>
         /\ rec[r].applied # None
         /\ Exists(rec[r].superseded)
         /\ policy[rec[r].superseded].key = KeyOf[r]
         /\ policy[rec[r].superseded].complexity = "medium"
         /\ policy[rec[r].superseded].version < policy[rec[r].applied].version

(***************************************************************************)
(* As long as only versions that are still live are rolled back, a route   *)
(* has at most one live version, whatever mix of re-approvals, canary and  *)
(* full activations came before: apply supersedes the one it replaces.     *)
(***************************************************************************)
OneLiveWhileInOrder ==
  ~stray => \A p, q \in PolicyIds :
              /\ policy[p].status \in Live
              /\ policy[q].status \in Live
              /\ policy[p].key = policy[q].key
              /\ policy[p].complexity = policy[q].complexity
              => p = q

(***************************************************************************)
(* Under the same discipline versions form a stack: what a version that    *)
(* was not rolled back replaced is still SUPERSEDED, and by it alone, so   *)
(* a rollback always has a dormant predecessor to return to.               *)
(***************************************************************************)
StackWhileInOrder ==
  ~stray => \A r \in Recs :
    LET standing(s) == /\ rec[s].superseded # None
                       /\ policy[rec[s].applied].status # "ROLLED_BACK"
    IN  standing(r) =>
          /\ policy[rec[r].superseded].status = "SUPERSEDED"
          /\ \A s \in Recs : standing(s) /\ rec[s].superseded = rec[r].superseded => s = r

(***************************************************************************)
(* A version in the table was approved by someone entitled to: a seed, or  *)
(* created from a recommendation decided by an approver, or by the         *)
(* configured auto-approval of a LOW risk one -- through any sequence of   *)
(* rejections and re-approvals (approve_recommendation, apply_policy).     *)
(***************************************************************************)
VersionsWereApproved ==
  \A p \in NewIds :
    Exists(p) => \/ policy[p].approvedBy \in Approvers
                 \/ /\ AutoApproveLowRisk
                    /\ origin[p] \in LowRisk
                    /\ policy[p].approvedBy # None

(***************************************************************************)
(* A recommendation reported APPLIED has not had its version rolled back:  *)
(* rollback_policy moves both or, on a 409, neither, so it cannot run      *)
(* twice for one activation.  Out-of-order rollbacks do not break this.    *)
(***************************************************************************)
AppliedIsNotRolledBack ==
  \A r \in Recs : rec[r].status = "APPLIED" =>
    /\ rec[r].applied # None
    /\ policy[rec[r].applied].status # "ROLLED_BACK"

(***************************************************************************)
(* Versions are immutable and only grow: a row never disappears or changes *)
(* but for its status, and a row that appears has a version above every    *)
(* version its key already had, of any complexity.                         *)
(***************************************************************************)
VersionsOnlyGrow ==
  [][\A p \in PolicyIds :
       /\ Exists(p) => policy'[p] = [policy[p] EXCEPT !.status = policy'[p].status]
                       /\ policy'[p].status # "ABSENT"
       /\ ~Exists(p) /\ policy'[p].status # "ABSENT" =>
            \A w \in VersionsOf(policy'[p].key) : policy'[p].version > w]_vars

(***************************************************************************)
(* In order, a rollback never brings back a version that had itself been   *)
(* rolled back: ROLLED_BACK is final.                                      *)
(***************************************************************************)
RolledBackIsFinalInOrder ==
  [][~stray' => \A p \in PolicyIds :
       policy[p].status = "ROLLED_BACK" => policy'[p].status = "ROLLED_BACK"]_vars
=============================================================================

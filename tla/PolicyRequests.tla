--------------------------- MODULE PolicyRequests ---------------------------
(***************************************************************************)
(* The same lifecycle with requests that overlap.  A request opens a       *)
(* session (db/session.py), reads rows one await at a time, each read      *)
(* seeing what is then committed, and writes everything it changed in one  *)
(* transaction at the end.  The session emits only the columns whose value *)
(* differs from the one it loaded, by primary key and without a version    *)
(* check, so a commit may overwrite what others did since the read.        *)
(***************************************************************************)
EXTENDS PolicyLifecycle

CONSTANTS
  Requests,      \* HTTP requests the server works on at the same time
  AdmitOverlap   \* FALSE: a request starts only when no other is open

ASSUME RequestAssumption == AdmitOverlap \in BOOLEAN

VARIABLES
  req,     \* what each request has read so far
  stale    \* history: a commit was based on a read that no longer held

requestVars == <<rec, policy, audits, origin, stray, req, stale>>

Phases == {"idle", "decide", "active", "version", "create",
           "applied", "superseded", "restore"}
Verbs  == {"APPROVED", "REJECTED", "FULL", "CANARY", "ROLLBACK"}

Idle == [phase |-> "idle"]
Open == [phase: Phases \ {"idle"}, verb: Verbs, r: Recs, u: Users \cup {None},
         seen: RecRow,                  \* the recommendation as loaded
         cur: PolicyIds \cup {None},    \* the row apply will supersede
         latest: Nat,                   \* get_latest_version_number
         wasApplied: PolicyStatus,      \* status rollback loaded with
         wasSuperseded: PolicyStatus]   \* each of its two rows

RequestsTypeOK ==
  /\ TypeOK
  /\ req \in [Requests -> {Idle} \cup Open]
  /\ stale \in BOOLEAN

RequestsInit ==
  /\ Init
  /\ req = [q \in Requests |-> Idle]
  /\ stale = FALSE

-----------------------------------------------------------------------------
(* Reads.                                                                  *)

IsIdle(q) == req[q].phase = "idle"

\* get_by_id of the recommendation, and the checks made on what it returned.
Begin(q, r, u, verb, phase) ==
  /\ IsIdle(q)
  /\ AdmitOverlap \/ \A other \in Requests : IsIdle(other)
  /\ req' = [req EXCEPT ![q] =
               [phase |-> phase, verb |-> verb, r |-> r, u |-> u, seen |-> rec[r],
                cur |-> None, latest |-> 0,
                wasApplied |-> "ABSENT", wasSuperseded |-> "ABSENT"]]
  /\ UNCHANGED <<rec, policy, audits, origin, stray, stale>>

\* Mutants: the checks on what get_by_id returned are dropped.
BeginDecideUnchecked(q, r, u, decision) ==
  rec[r].status # "ABSENT" /\ Begin(q, r, u, decision, "decide")
BeginApplyUnchecked(q, r, mode) ==
  rec[r].status # "ABSENT" /\ r \in Validated /\ Begin(q, r, None, mode, "active")

BeginDecide(q, r, u, decision) ==
  /\ rec[r].status # "ABSENT"
  /\ MayDecide(r, u)
  /\ Begin(q, r, u, decision, "decide")

BeginApply(q, r, mode) ==
  /\ rec[r].status = "APPROVED"
  /\ r \in Validated
  /\ Begin(q, r, None, mode, "active")

BeginRollback(q, r) ==
  /\ rec[r].status = "APPLIED"
  /\ Begin(q, r, None, "ROLLBACK", "applied")

ReadActive(q) ==
  /\ req[q].phase = "active"
  /\ \E cur \in Superseding(KeyOf[req[q].r], "medium") :
       req' = [req EXCEPT ![q].phase = "version", ![q].cur = cur]
  /\ UNCHANGED <<rec, policy, audits, origin, stray, stale>>

ReadVersion(q) ==
  /\ req[q].phase = "version"
  /\ \E v \in {0} \cup VersionsOf(KeyOf[req[q].r]) :
       /\ IsLatestVersion(KeyOf[req[q].r], v)
       /\ req' = [req EXCEPT ![q].phase = "create", ![q].latest = v]
  /\ UNCHANGED <<rec, policy, audits, origin, stray, stale>>

StatusOf(p) == IF p = None THEN "ABSENT" ELSE policy[p].status

ReadApplied(q) ==
  /\ req[q].phase = "applied"
  /\ req' = [req EXCEPT ![q].phase = "superseded",
                        ![q].wasApplied = StatusOf(req[q].seen.applied)]
  /\ UNCHANGED <<rec, policy, audits, origin, stray, stale>>

ReadSuperseded(q) ==
  /\ req[q].phase = "superseded"
  /\ req' = [req EXCEPT ![q].phase = "restore",
                        ![q].wasSuperseded = StatusOf(req[q].seen.superseded)]
  /\ UNCHANGED <<rec, policy, audits, origin, stray, stale>>

-----------------------------------------------------------------------------
(* Commits.                                                                *)

\* The column's new value: written only when the session saw it change.
Flushed(current, loaded, new) == IF new = loaded THEN current ELSE new

\* Would the request read now what it read then?
Fresh(q) ==
  LET c == req[q] IN
  /\ rec[c.r] = c.seen
  /\ c.phase = "create" => /\ c.cur \in Superseding(KeyOf[c.r], "medium")
                           /\ IsLatestVersion(KeyOf[c.r], c.latest)
  /\ c.phase = "restore" => /\ c.wasApplied = StatusOf(c.seen.applied)
                            /\ c.wasSuperseded = StatusOf(c.seen.superseded)

Close(q) == /\ req' = [req EXCEPT ![q] = Idle]
            /\ stale' = (stale \/ ~Fresh(q))

CommitDecide(q) ==
  LET c   == req[q]
      new == Decided(c.seen, c.u, c.verb)
  IN  /\ c.phase = "decide"
      /\ audits < MaxDecisions
      /\ rec' = [rec EXCEPT
                   ![c.r].status     = Flushed(@, c.seen.status, new.status),
                   ![c.r].approvedBy = Flushed(@, c.seen.approvedBy, new.approvedBy)]
      /\ audits' = audits + 1
      /\ Close(q)
      /\ UNCHANGED <<policy, origin, stray>>

\* The rows apply_policy flushes: the new version p, numbered v, the version it
\* supersedes and the recommendation's links.
InsertVersion(q, p, v) ==
  LET c == req[q] IN
  /\ policy' = [x \in PolicyIds |->
       IF x = p THEN [status |-> ModeStatus(c.verb), key |-> KeyOf[c.r],
                      complexity |-> "medium", version |-> v,
                      approvedBy |-> c.seen.approvedBy]
       ELSE IF x = c.cur THEN [policy[x] EXCEPT !.status = "SUPERSEDED"]
       ELSE policy[x]]
  /\ rec' = [rec EXCEPT
       ![c.r].status     = "APPLIED",
       ![c.r].applied    = p,
       ![c.r].superseded = Flushed(@, c.seen.superseded, c.cur)]
  /\ origin' = [origin EXCEPT ![p] = c.r]
  /\ Close(q)
  /\ UNCHANGED <<audits, stray>>

\* Mutants: the latest number is used again; the insert may replace a row.
CommitApplySameVersion(q) ==
  \E p \in NewIds : ~Exists(p) /\ req[q].phase = "create" /\ InsertVersion(q, p, req[q].latest)
CommitApplyReplacesRow(q) ==
  \E p \in NewIds : req[q].phase = "create" /\ InsertVersion(q, p, req[q].latest + 1)

CommitApply(q) ==
  /\ req[q].phase = "create"
  /\ \E p \in NewIds : ~Exists(p) /\ InsertVersion(q, p, req[q].latest + 1)

CommitRollback(q) ==
  LET c == req[q] IN
  /\ c.phase = "restore"
  /\ policy' = [x \in PolicyIds |->
       IF x = c.seen.superseded
         THEN [policy[x] EXCEPT !.status = Flushed(@, c.wasSuperseded, "ACTIVE")]
       ELSE IF x = c.seen.applied
         THEN [policy[x] EXCEPT !.status = Flushed(@, c.wasApplied, "ROLLED_BACK")]
       ELSE policy[x]]
  /\ rec' = [rec EXCEPT ![c.r].status = "ROLLED_BACK"]
  /\ stray' = (stray \/ StatusOf(c.seen.applied) \notin Live)
  /\ Close(q)
  /\ UNCHANGED <<audits, origin>>

\* The session is rolled back: a lock wait that timed out, a cancelled
\* request, a worker that died.  Nothing it did is visible.
Abort(q) ==
  /\ ~IsIdle(q)
  /\ req' = [req EXCEPT ![q] = Idle]
  /\ UNCHANGED <<rec, policy, audits, origin, stray, stale>>

RequestsNext ==
  \/ \E r \in Recs : Analyze(r) /\ UNCHANGED <<req, stale>>
  \/ \E q \in Requests :
       \/ \E r \in Recs :
            \/ \E u \in Users \cup {None}, decision \in {"APPROVED", "REJECTED"} :
                 BeginDecide(q, r, u, decision)
            \/ \E mode \in {"FULL", "CANARY"} : BeginApply(q, r, mode)
            \/ BeginRollback(q, r)
       \/ ReadActive(q) \/ ReadVersion(q)
       \/ ReadApplied(q) \/ ReadSuperseded(q)
       \/ CommitDecide(q) \/ CommitApply(q) \/ CommitRollback(q)
       \/ Abort(q)

RequestsSpec == RequestsInit /\ [][RequestsNext]_requestVars

-----------------------------------------------------------------------------
(* Properties.                                                             *)

(***************************************************************************)
(* A request whose reads still hold when it commits is one atomic request  *)
(* of PolicyLifecycle, however its reads were interleaved with others.     *)
(***************************************************************************)
FreshCommitsAreAtomic == [][~stale' => [Next]_vars]_requestVars

\* The lifecycle the requests refine: its state is the five tables they share.
Lifecycle == INSTANCE PolicyLifecycle
               WITH rec <- rec, policy <- policy, audits <- audits,
                    origin <- origin, stray <- stray

(***************************************************************************)
(* Requests served one at a time implement the atomic lifecycle.           *)
(***************************************************************************)
ImplementsLifecycle == Lifecycle!Spec

(***************************************************************************)
(* Whatever overlaps, only a version's status ever changes, no version     *)
(* disappears: superseding and rolling back never touch what was decided.  *)
(***************************************************************************)
VersionsAreImmutable ==
  [][\A p \in PolicyIds :
       Exists(p) => /\ policy'[p] = [policy[p] EXCEPT !.status = policy'[p].status]
                    /\ policy'[p].status # "ABSENT"]_requestVars
=============================================================================

---------------------------- MODULE PolicyProofs ----------------------------
(***************************************************************************)
(* Proofs about the policy lifecycle, for every set of recommendations,    *)
(* rows, keys and users: first PolicyLifecycle, where a request is one     *)
(* step, then PolicyRequests, where the reads and commits of requests      *)
(* interleave.                                                             *)
(***************************************************************************)
EXTENDS PolicyRequests, TLAPS

\* What is known of a recommendation that may be applied.
ApprovedByRight ==
  \A r \in Recs : rec[r].status = "APPROVED" =>
    \/ rec[r].approvedBy \in Approvers
    \/ AutoApproveLowRisk /\ r \in LowRisk /\ rec[r].approvedBy # None

\* The inductive invariant.
LifecycleInv ==
  /\ TypeOK
  /\ LinksWellFormed
  /\ OneLiveWhileInOrder
  /\ StackWhileInOrder
  /\ ApprovedByRight
  /\ VersionsWereApproved
  /\ AppliedIsNotRolledBack

-----------------------------------------------------------------------------
(* What the repository's reads return. *)

\* The row apply_policy supersedes is a live row of the route, and None only
\* when the route has none.
LEMMA SupersedingIsLive ==
  ASSUME NEW k, NEW c, NEW cur \in Superseding(k, c)
  PROVE  \/ cur = None /\ LiveAt(k, c) = {}
         \/ cur \in LiveAt(k, c)
  BY DEF Superseding, ActiveCandidates

\* A new row's number is above every number of its key.
LEMMA LatestIsAboveAll ==
  ASSUME TypeOK, NEW k, NEW v \in {0} \cup VersionsOf(k), IsLatestVersion(k, v)
  PROVE  /\ v \in Nat
         /\ \A w \in VersionsOf(k) : w \in Nat /\ w < v + 1
  <1>1. \A w \in VersionsOf(k) : w \in Nat
    BY DEF VersionsOf, TypeOK, PolicyRow
  <1>2. CASE VersionsOf(k) = {}
    BY <1>2
  <1>3. CASE VersionsOf(k) # {}
    BY <1>1, <1>3 DEF IsLatestVersion
  <1> QED BY <1>2, <1>3

-----------------------------------------------------------------------------
(* Each request preserves the invariant. *)

LEMMA InitLifecycleInv == Init => LifecycleInv
  <1> SUFFICES ASSUME Init PROVE LifecycleInv
    OBVIOUS
  <1> USE LifecycleAssumption DEF Init
  <1>1. TypeOK
    <2>1. rec \in [Recs -> RecRow]
      BY DEF RecRow, NewRec, RecStatus
    <2>2. \A p \in SeedIds : SeedPolicy(p) \in PolicyRow
      BY DEF PolicyRow, SeedPolicy, PolicyStatus
    <2>3. NoPolicy \in PolicyRow
      BY DEF PolicyRow, NoPolicy, PolicyStatus
    <2> QED BY <2>1, <2>2, <2>3 DEF TypeOK, PolicyIds
  <1>2. \A r \in Recs : /\ rec[r].applied = None
                        /\ rec[r].superseded = None
                        /\ rec[r].status \in {"ABSENT", "DRAFT"}
    BY DEF NewRec
  <1>3. LinksWellFormed /\ StackWhileInOrder /\ ApprovedByRight /\ AppliedIsNotRolledBack
    BY <1>2 DEF LinksWellFormed, StackWhileInOrder, ApprovedByRight, AppliedIsNotRolledBack
  <1>4. VersionsWereApproved
    BY DEF VersionsWereApproved, Exists, PolicyIds, NoPolicy
  <1>5. OneLiveWhileInOrder
    <2> SUFFICES ASSUME NEW p \in PolicyIds, NEW q \in PolicyIds,
                        policy[p].status \in Live, policy[q].status \in Live,
                        policy[p].key = policy[q].key,
                        policy[p].complexity = policy[q].complexity
                 PROVE  p = q
      BY DEF OneLiveWhileInOrder
    <2>1. p \in SeedIds /\ q \in SeedIds
      BY DEF NoPolicy, Live
    <2>2. SeedRoute[p] = SeedRoute[q]
      BY <2>1 DEF SeedPolicy, PolicyIds
    <2> QED BY <2>1, <2>2
  <1> QED BY <1>1, <1>3, <1>4, <1>5 DEF LifecycleInv

LEMMA AnalyzeLifecycleInv ==
  ASSUME LifecycleInv, NEW r \in Recs, Analyze(r) PROVE LifecycleInv'
  <1> USE LifecycleAssumption DEF LifecycleInv, Analyze
  <1>1. TypeOK'
    BY DEF TypeOK, RecRow, NewRec, RecStatus
  <1>2. \A s \in Recs : rec'[s] = IF s = r THEN NewRec("PENDING_APPROVAL") ELSE rec[s]
    BY DEF TypeOK
  <1>3. /\ rec'[r].applied = None
        /\ rec'[r].superseded = None
        /\ rec'[r].status = "PENDING_APPROVAL"
        /\ \A s \in Recs \ {r} : rec'[s] = rec[s]
    BY <1>2 DEF NewRec
  <1>4. LinksWellFormed' /\ ApprovedByRight' /\ AppliedIsNotRolledBack'
    BY <1>3 DEF LinksWellFormed, ApprovedByRight, AppliedIsNotRolledBack, Exists
  <1>5. OneLiveWhileInOrder' /\ VersionsWereApproved'
    BY DEF OneLiveWhileInOrder, VersionsWereApproved, Exists
  <1>6. StackWhileInOrder'
    BY <1>3 DEF StackWhileInOrder
  <1> QED BY <1>1, <1>4, <1>5, <1>6

LEMMA DecideLifecycleInv ==
  ASSUME LifecycleInv, NEW r \in Recs, NEW u \in Users \cup {None},
         NEW decision \in {"APPROVED", "REJECTED"}, Decide(r, u, decision)
  PROVE  LifecycleInv'
  <1> USE LifecycleAssumption DEF LifecycleInv
  <1>1. /\ ApproverName(u) \in Users \cup {SystemApprover}
        /\ ApproverName(u) # None
        /\ u \in Approvers => ApproverName(u) = u
    BY DEF ApproverName
  <1>2. /\ policy' = policy /\ origin' = origin /\ stray' = stray
        /\ audits' \in Nat
        /\ MayDecide(r, u)
    BY DEF Decide, TypeOK
  <1>3. /\ rec' \in [Recs -> RecRow]
        /\ \A s \in Recs \ {r} : rec'[s] = rec[s]
        /\ rec'[r].applied = rec[r].applied /\ rec'[r].superseded = rec[r].superseded
        /\ rec'[r].status = decision
        /\ decision = "APPROVED" => rec'[r].approvedBy = ApproverName(u)
    <2>1. rec' = [rec EXCEPT ![r] = Decided(rec[r], u, decision)]
      BY DEF Decide
    <2>2. /\ Decided(rec[r], u, decision) \in RecRow
          /\ Decided(rec[r], u, decision).applied = rec[r].applied
          /\ Decided(rec[r], u, decision).superseded = rec[r].superseded
          /\ Decided(rec[r], u, decision).status = decision
          /\ decision = "APPROVED" => Decided(rec[r], u, decision).approvedBy = ApproverName(u)
      <3> DEFINE by == IF decision = "APPROVED" THEN ApproverName(u) ELSE rec[r].approvedBy
      <3>1. Decided(rec[r], u, decision) = [rec[r] EXCEPT !.status = decision, !.approvedBy = by]
        BY DEF Decided
      <3>2. rec[r] \in RecRow /\ by \in Users \cup {None, SystemApprover}
        BY <1>1 DEF TypeOK, RecRow
      <3>3. decision = "APPROVED" => by = ApproverName(u)
        OBVIOUS
      <3> HIDE DEF by
      <3> QED BY <3>1, <3>2, <3>3 DEF RecRow, RecStatus
    <2> HIDE DEF Decided
    <2> QED BY <2>1, <2>2 DEF TypeOK
  <1>4. TypeOK'
    BY <1>2, <1>3 DEF TypeOK
  <1>5. LinksWellFormed' /\ AppliedIsNotRolledBack'
    BY <1>2, <1>3 DEF LinksWellFormed, AppliedIsNotRolledBack, Exists
  <1>6. ApprovedByRight'
    BY <1>1, <1>2, <1>3 DEF ApprovedByRight, MayDecide, CanAutoApprove
  <1>7. OneLiveWhileInOrder' /\ VersionsWereApproved'
    BY <1>2 DEF OneLiveWhileInOrder, VersionsWereApproved, Exists
  <1>8. \A s \in Recs : rec'[s].applied = rec[s].applied /\ rec'[s].superseded = rec[s].superseded
    BY <1>3
  <1>9. StackWhileInOrder'
    BY <1>2, <1>8 DEF StackWhileInOrder
  <1> QED BY <1>4, <1>5, <1>6, <1>7, <1>9

LEMMA ApplyLifecycleInv ==
  ASSUME LifecycleInv, NEW r \in Recs, NEW mode \in {"FULL", "CANARY"}, Apply(r, mode)
  PROVE  LifecycleInv'
  <1> USE LifecycleAssumption DEF LifecycleInv
  <1> PICK p \in NewIds, cur \in Superseding(KeyOf[r], "medium"),
           v \in {0} \cup VersionsOf(KeyOf[r]) :
             /\ ~Exists(p)
             /\ IsLatestVersion(KeyOf[r], v)
             /\ ApplyWith(r, mode, p, cur, v)
    BY DEF Apply
  <1> DEFINE k == KeyOf[r]
  <1>1. /\ rec[r].status = "APPROVED"
        /\ p \in PolicyIds
        /\ k \in Keys
    BY DEF Apply, PolicyIds
  <1>2. v \in Nat /\ \A w \in VersionsOf(k) : w \in Nat /\ w < v + 1
    BY LatestIsAboveAll
  <1>3. \/ cur = None /\ LiveAt(k, "medium") = {}
        \/ /\ cur \in PolicyIds
           /\ policy[cur].status \in Live
           /\ policy[cur].key = k
           /\ policy[cur].complexity = "medium"
           /\ policy[cur].version < v + 1
    <2>1. CASE cur \in LiveAt(k, "medium")
      <3>1. policy[cur].version \in VersionsOf(k)
        BY <2>1 DEF LiveAt, VersionsOf, Exists, Live
      <3> QED BY <2>1, <3>1, <1>2 DEF LiveAt
    <2> QED BY <2>1, SupersedingIsLive
  <1>4. cur # p
    BY <1>1, <1>3 DEF Exists, Live
  <1>5. /\ \A q \in PolicyIds \ {p, cur} : policy'[q] = policy[q]
        /\ policy'[p] = NewVersion(r, mode, v)
        /\ cur \in PolicyIds => policy'[cur] = [policy[cur] EXCEPT !.status = "SUPERSEDED"]
    BY <1>1, <1>4 DEF ApplyWith
  <1>6. /\ \A s \in Recs \ {r} : rec'[s] = rec[s]
        /\ rec'[r] = [rec[r] EXCEPT !.status = "APPLIED", !.applied = p, !.superseded = cur]
    BY DEF ApplyWith, TypeOK, RecRow
  <1>7. /\ origin'[p] = r
        /\ \A q \in PolicyIds \ {p} : origin'[q] = origin[q]
        /\ stray' = stray
    BY <1>1 DEF ApplyWith, TypeOK
  <1>8. /\ rec'[r].status = "APPLIED" /\ rec'[r].applied = p /\ rec'[r].superseded = cur
        /\ rec'[r].approvedBy = rec[r].approvedBy
        /\ rec'[r] \in RecRow
    <2>1. rec[r] \in RecRow /\ cur \in PolicyIds \cup {None}
      BY <1>3 DEF TypeOK
    <2> QED BY <2>1, <1>1, <1>6 DEF RecRow, RecStatus
  <1>9. /\ policy'[p].status \in Live
        /\ policy'[p].key = k /\ policy'[p].complexity = "medium"
        /\ policy'[p].version = v + 1
        /\ policy'[p].approvedBy = rec[r].approvedBy
        /\ policy'[p] \in PolicyRow
    BY <1>1, <1>2, <1>5 DEF NewVersion, ModeStatus, Live, PolicyRow, PolicyStatus,
                            Complexities, TypeOK, RecRow
  <1>10. cur \in PolicyIds => /\ policy'[cur].status = "SUPERSEDED"
                              /\ policy'[cur].key = k
                              /\ policy'[cur].complexity = "medium"
                              /\ policy'[cur].version = policy[cur].version
                              /\ policy'[cur].approvedBy = policy[cur].approvedBy
                              /\ policy'[cur] \in PolicyRow
    BY <1>3, <1>5 DEF TypeOK, PolicyRow, PolicyStatus
  <1>11. TypeOK'
    <2>1. rec' \in [Recs -> RecRow]
      BY <1>6, <1>8 DEF ApplyWith, TypeOK
    <2>2. policy' \in [PolicyIds -> PolicyRow]
      BY <1>5, <1>9, <1>10 DEF ApplyWith, TypeOK
    <2>3. audits' \in Nat /\ origin' \in [PolicyIds -> Recs \cup {None}] /\ stray' \in BOOLEAN
      BY <1>1 DEF ApplyWith, TypeOK
    <2> QED BY <2>1, <2>2, <2>3 DEF TypeOK
  <1>12. \A q \in PolicyIds : Exists(q) =>
           /\ q # p
           /\ policy'[q].status # "ABSENT"
           /\ policy'[q].key = policy[q].key
           /\ policy'[q].complexity = policy[q].complexity
           /\ policy'[q].version = policy[q].version
           /\ policy'[q].approvedBy = policy[q].approvedBy
           /\ origin'[q] = origin[q]
           /\ policy'[q].status = "ROLLED_BACK" => policy[q].status = "ROLLED_BACK"
    BY <1>3, <1>5, <1>7, <1>10 DEF Exists
  <1>13. LinksWellFormed'
    <2> SUFFICES ASSUME NEW s \in Recs
                 PROVE  /\ rec'[s].applied # None =>
                             /\ policy'[rec'[s].applied].status # "ABSENT"
                             /\ policy'[rec'[s].applied].key = KeyOf[s]
                             /\ policy'[rec'[s].applied].complexity = "medium"
                             /\ origin'[rec'[s].applied] = s
                        /\ rec'[s].superseded # None =>
                             /\ rec'[s].applied # None
                             /\ policy'[rec'[s].superseded].status # "ABSENT"
                             /\ policy'[rec'[s].superseded].key = KeyOf[s]
                             /\ policy'[rec'[s].superseded].complexity = "medium"
                             /\ policy'[rec'[s].superseded].version < policy'[rec'[s].applied].version
      BY DEF LinksWellFormed, Exists
    <2>1. CASE s = r
      BY <2>1, <1>1, <1>3, <1>7, <1>8, <1>9, <1>10 DEF Exists, Live
    <2>2. CASE s # r
      <3>1. rec'[s] = rec[s] /\ rec[s].applied \in PolicyIds \cup {None}
                             /\ rec[s].superseded \in PolicyIds \cup {None}
        BY <2>2, <1>6 DEF TypeOK, RecRow
      <3> QED BY <3>1, <1>12 DEF LinksWellFormed, Exists
    <2> QED BY <2>1, <2>2
  <1>14. OneLiveWhileInOrder'
    <2> SUFFICES ASSUME ~stray', NEW a \in PolicyIds, NEW b \in PolicyIds,
                        policy'[a].status \in Live, policy'[b].status \in Live,
                        policy'[a].key = policy'[b].key,
                        policy'[a].complexity = policy'[b].complexity,
                        a # b
                 PROVE  FALSE
      BY DEF OneLiveWhileInOrder
    <2>1. ~stray
      BY <1>7
    <2>2. a # cur /\ b # cur
      BY <1>10 DEF Live
    <2>3. ASSUME NEW x \in PolicyIds, x # p, x # cur,
                 policy'[x].status \in Live, policy'[x].key = k, policy'[x].complexity = "medium"
          PROVE  FALSE
      <3>1. x \in LiveAt(k, "medium")
        BY <2>3, <1>5 DEF LiveAt
      <3> QED BY <3>1, <2>1, <2>3, <1>3 DEF OneLiveWhileInOrder, LiveAt
    <2>4. CASE a = p
      BY <2>2, <2>3, <2>4, <1>9
    <2>5. CASE b = p
      BY <2>2, <2>3, <2>5, <1>9
    <2>6. CASE a # p /\ b # p
      BY <2>1, <2>2, <2>6, <1>5 DEF OneLiveWhileInOrder
    <2> QED BY <2>4, <2>5, <2>6
  <1>15. StackWhileInOrder'
    <2> SUFFICES ASSUME ~stray', NEW s \in Recs, rec'[s].superseded # None,
                        policy'[rec'[s].applied].status # "ROLLED_BACK"
                 PROVE  /\ policy'[rec'[s].superseded].status = "SUPERSEDED"
                        /\ \A t \in Recs : /\ rec'[t].superseded # None
                                           /\ policy'[rec'[t].applied].status # "ROLLED_BACK"
                                           /\ rec'[t].superseded = rec'[s].superseded
                                           => t = s
      BY DEF StackWhileInOrder
    <2>1. ASSUME NEW t \in Recs \ {r}, rec'[t].superseded # None,
                 policy'[rec'[t].applied].status # "ROLLED_BACK"
          PROVE  /\ rec'[t] = rec[t]
                 /\ rec[t].superseded \in PolicyIds
                 /\ policy[rec[t].applied].status # "ROLLED_BACK"
                 /\ policy[rec[t].superseded].status = "SUPERSEDED"
                 /\ rec[t].superseded # cur
                 /\ rec[t].superseded # p
      <3>1. rec'[t] = rec[t] /\ rec[t].superseded \in PolicyIds
        BY <2>1, <1>6 DEF TypeOK, RecRow
      <3>2. rec[t].applied \in PolicyIds /\ Exists(rec[t].applied) /\ Exists(rec[t].superseded)
        BY <2>1, <3>1 DEF TypeOK, RecRow, LinksWellFormed
      <3>3. policy[rec[t].applied].status # "ROLLED_BACK"
        <4>1. CASE rec[t].applied = cur
          BY <4>1, <3>2, <1>3 DEF Live
        <4>2. CASE rec[t].applied # cur
          BY <4>2, <2>1, <3>1, <3>2, <1>5, <1>12
        <4> QED BY <4>1, <4>2
      <3>4. policy[rec[t].superseded].status = "SUPERSEDED"
        BY <2>1, <3>1, <3>3, <1>7 DEF StackWhileInOrder
      <3> QED BY <3>1, <3>2, <3>3, <3>4, <1>3, <1>12 DEF Live
    <2>2. CASE s = r
      BY <2>1, <2>2, <1>3, <1>8, <1>10
    <2>3. CASE s # r
      <3>1. policy'[rec'[s].superseded].status = "SUPERSEDED"
        BY <2>1, <2>3, <1>5
      <3>2. ASSUME NEW t \in Recs, rec'[t].superseded # None,
                   policy'[rec'[t].applied].status # "ROLLED_BACK",
                   rec'[t].superseded = rec'[s].superseded
            PROVE  t = s
        <4>1. t # r
          BY <2>1, <2>3, <3>2, <1>8
        <4> QED BY <2>1, <2>3, <3>2, <4>1, <1>7 DEF StackWhileInOrder
      <3> QED BY <3>1, <3>2
    <2> QED BY <2>2, <2>3
  <1>16. ApprovedByRight'
    BY <1>6, <1>8 DEF ApprovedByRight
  <1>17. VersionsWereApproved'
    <2> SUFFICES ASSUME NEW q \in NewIds, Exists(q)'
                 PROVE  \/ policy'[q].approvedBy \in Approvers
                        \/ /\ AutoApproveLowRisk
                           /\ origin'[q] \in LowRisk
                           /\ policy'[q].approvedBy # None
      BY DEF VersionsWereApproved
    <2>1. CASE q = p
      BY <2>1, <1>1, <1>7, <1>9 DEF ApprovedByRight
    <2>2. CASE q # p
      <3>1. q \in PolicyIds /\ Exists(q)
        BY <2>2, <1>3, <1>5 DEF Exists, PolicyIds, Live
      <3> QED BY <3>1, <1>12 DEF VersionsWereApproved
    <2> QED BY <2>1, <2>2
  <1>18. AppliedIsNotRolledBack'
    <2> SUFFICES ASSUME NEW s \in Recs, rec'[s].status = "APPLIED"
                 PROVE  /\ rec'[s].applied # None
                        /\ policy'[rec'[s].applied].status # "ROLLED_BACK"
      BY DEF AppliedIsNotRolledBack
    <2>1. CASE s = r
      BY <2>1, <1>1, <1>8, <1>9 DEF Live
    <2>2. CASE s # r
      <3>1. rec'[s] = rec[s] /\ rec[s].applied \in PolicyIds /\ Exists(rec[s].applied)
        BY <2>2, <1>6 DEF TypeOK, RecRow, LinksWellFormed, AppliedIsNotRolledBack
      <3> QED BY <3>1, <1>12 DEF AppliedIsNotRolledBack
    <2> QED BY <2>1, <2>2
  <1> QED BY <1>11, <1>13, <1>14, <1>15, <1>16, <1>17, <1>18

LEMMA RollbackLifecycleInv ==
  ASSUME LifecycleInv, NEW r \in Recs, Rollback(r) PROVE LifecycleInv'
  <1> USE LifecycleAssumption DEF LifecycleInv
  <1> DEFINE p == rec[r].applied
             q == rec[r].superseded
  <1>1. /\ rec[r].status = "APPLIED"
        /\ p \in PolicyIds /\ Exists(p) /\ policy[p].status # "ROLLED_BACK"
        /\ policy[p].key = KeyOf[r] /\ policy[p].complexity = "medium"
        /\ origin[p] = r
    BY DEF Rollback, AppliedIsNotRolledBack, LinksWellFormed, TypeOK, RecRow
  <1>2. q \in PolicyIds \cup {None}
    BY DEF TypeOK, RecRow
  <1>3. q # None => /\ q \in PolicyIds /\ Exists(q) /\ q # p
                    /\ policy[q].key = KeyOf[r] /\ policy[q].complexity = "medium"
    <2>1. q # None => /\ Exists(q) /\ policy[q].version < policy[p].version
                      /\ policy[q].key = KeyOf[r] /\ policy[q].complexity = "medium"
      BY DEF LinksWellFormed
    <2>2. policy[p].version \in Nat
      BY <1>1 DEF TypeOK, PolicyRow
    <2> QED BY <1>2, <2>1, <2>2
  <1>4. p # q
    BY <1>1, <1>3
  <1>5. /\ \A x \in PolicyIds \ {p, q} : policy'[x] = policy[x]
        /\ policy'[p] = [policy[p] EXCEPT !.status = "ROLLED_BACK"]
        /\ q \in PolicyIds => policy'[q] = [policy[q] EXCEPT !.status = "ACTIVE"]
        /\ DOMAIN policy' = PolicyIds /\ policy' = [x \in PolicyIds |-> policy'[x]]
    BY <1>1, <1>4 DEF Rollback
  <1>6. /\ policy'[p].status = "ROLLED_BACK"
        /\ q \in PolicyIds => policy'[q].status = "ACTIVE"
        /\ \A x \in PolicyIds :
              /\ policy'[x] \in PolicyRow
              /\ policy'[x].key = policy[x].key
              /\ policy'[x].complexity = policy[x].complexity
              /\ policy'[x].version = policy[x].version
              /\ policy'[x].approvedBy = policy[x].approvedBy
    <2>1. \A x \in PolicyIds : policy[x] \in PolicyRow
      BY DEF TypeOK
    <2> QED BY <1>1, <1>5, <2>1 DEF PolicyRow, PolicyStatus
  <1>7. \A x \in PolicyIds : Exists(x) <=> policy'[x].status # "ABSENT"
    <2> TAKE x \in PolicyIds
    <2>1. CASE x = p
      BY <2>1, <1>1, <1>6 DEF Exists
    <2>2. CASE x = q
      BY <2>2, <1>2, <1>3, <1>6 DEF Exists
    <2>3. CASE x # p /\ x # q
      BY <2>3, <1>5 DEF Exists
    <2> QED BY <2>1, <2>2, <2>3
  <1>8. /\ rec'[r] \in RecRow /\ rec'[r].status = "ROLLED_BACK"
        /\ rec'[r].applied = p /\ rec'[r].superseded = q
        /\ rec'[r].approvedBy = rec[r].approvedBy
        /\ \A s \in Recs \ {r} : rec'[s] = rec[s]
    <2>1. rec[r] \in RecRow
      BY DEF TypeOK
    <2>2. /\ rec'[r] = [rec[r] EXCEPT !.status = "ROLLED_BACK"]
          /\ \A s \in Recs \ {r} : rec'[s] = rec[s]
      BY DEF Rollback, TypeOK
    <2> QED BY <2>1, <2>2 DEF RecRow, RecStatus
  <1>9. origin' = origin /\ audits' = audits
    BY DEF Rollback
  <1>10. ~stray' => ~stray /\ policy[p].status \in Live
    BY DEF Rollback
  <1>11. TypeOK'
    <2>1. rec' \in [Recs -> RecRow]
      BY <1>8 DEF Rollback, TypeOK
    <2>2. policy' \in [PolicyIds -> PolicyRow]
      BY <1>5, <1>6
    <2>3. stray' \in BOOLEAN
      BY DEF Rollback, TypeOK
    <2> QED BY <2>1, <2>2, <2>3, <1>9 DEF TypeOK
  <1>12. \A s \in Recs : /\ rec'[s].applied = rec[s].applied
                         /\ rec'[s].superseded = rec[s].superseded
                         /\ rec[s].applied \in PolicyIds \cup {None}
                         /\ rec[s].superseded \in PolicyIds \cup {None}
                         /\ rec'[s].approvedBy = rec[s].approvedBy
    BY <1>8 DEF TypeOK, RecRow
  <1>13. LinksWellFormed'
    <2> SUFFICES ASSUME NEW s \in Recs
                 PROVE  /\ rec[s].applied # None =>
                             /\ policy'[rec[s].applied].status # "ABSENT"
                             /\ policy'[rec[s].applied].key = KeyOf[s]
                             /\ policy'[rec[s].applied].complexity = "medium"
                             /\ origin[rec[s].applied] = s
                        /\ rec[s].superseded # None =>
                             /\ rec[s].applied # None
                             /\ policy'[rec[s].superseded].status # "ABSENT"
                             /\ policy'[rec[s].superseded].key = KeyOf[s]
                             /\ policy'[rec[s].superseded].complexity = "medium"
                             /\ policy'[rec[s].superseded].version < policy'[rec[s].applied].version
      BY <1>9, <1>12 DEF LinksWellFormed, Exists
    <2> QED BY <1>6, <1>7, <1>12 DEF LinksWellFormed
  <1>14. OneLiveWhileInOrder'
    <2> SUFFICES ASSUME ~stray', NEW a \in PolicyIds, NEW b \in PolicyIds,
                        policy'[a].status \in Live, policy'[b].status \in Live,
                        policy'[a].key = policy'[b].key,
                        policy'[a].complexity = policy'[b].complexity,
                        a # b
                 PROVE  FALSE
      BY DEF OneLiveWhileInOrder
    <2>1. a # p /\ b # p
      BY <1>6 DEF Live
    <2>2. ASSUME NEW x \in PolicyIds, x # p, x # q, policy'[x].status \in Live,
                 policy'[x].key = KeyOf[r], policy'[x].complexity = "medium"
          PROVE  FALSE
      <3>1. policy[x].status \in Live
        BY <2>2, <1>5
      <3> QED BY <3>1, <2>2, <1>1, <1>6, <1>10 DEF OneLiveWhileInOrder
    <2>3. CASE a = q
      BY <2>1, <2>2, <2>3, <1>3, <1>6
    <2>4. CASE b = q
      BY <2>1, <2>2, <2>4, <1>3, <1>6
    <2>5. CASE a # q /\ b # q
      BY <2>1, <2>5, <1>5, <1>10 DEF OneLiveWhileInOrder
    <2> QED BY <2>3, <2>4, <2>5
  <1>15. StackWhileInOrder'
    <2>1. ASSUME ~stray', NEW s \in Recs, rec[s].superseded # None,
                 policy'[rec[s].applied].status # "ROLLED_BACK"
          PROVE  /\ policy[rec[s].applied].status # "ROLLED_BACK"
                 /\ policy[rec[s].superseded].status = "SUPERSEDED"
                 /\ rec[s].superseded # p
                 /\ rec[s].superseded # q
      <3>1. rec[s].applied \in PolicyIds /\ rec[s].superseded \in PolicyIds
        BY <2>1, <1>12 DEF LinksWellFormed
      <3>2. rec[s].applied # p /\ s # r
        BY <2>1, <1>6
      <3>3. policy[rec[s].applied].status # "ROLLED_BACK"
        <4>1. CASE rec[s].applied = q
          <5>1. q # None
            BY <4>1, <3>1
          <5>2. policy[q].status = "SUPERSEDED"
            BY <5>1, <2>1, <1>1, <1>10 DEF StackWhileInOrder
          <5> QED BY <4>1, <5>2
        <4>2. CASE rec[s].applied # q
          BY <4>2, <3>1, <3>2, <2>1, <1>5
        <4> QED BY <4>1, <4>2
      <3>4. policy[rec[s].superseded].status = "SUPERSEDED"
        BY <2>1, <3>3, <1>10 DEF StackWhileInOrder
      <3>5. rec[s].superseded # p
        BY <2>1, <3>4, <1>10 DEF Live
      <3>6. rec[s].superseded # q
        <4>1. ASSUME rec[s].superseded = q PROVE s = r
          <5>1. q # None /\ policy[p].status # "ROLLED_BACK"
            BY <4>1, <2>1, <1>1
          <5> QED BY <4>1, <5>1, <2>1, <3>3, <1>10 DEF StackWhileInOrder
        <4> QED BY <4>1, <3>2
      <3> QED BY <3>3, <3>4, <3>5, <3>6
    <2>2. ASSUME ~stray', NEW s \in Recs, rec[s].superseded # None,
                 policy'[rec[s].applied].status # "ROLLED_BACK"
          PROVE  policy'[rec[s].superseded].status = "SUPERSEDED"
      <3>1. rec[s].superseded \in PolicyIds
        BY <2>2, <1>12
      <3> QED BY <3>1, <2>1, <2>2, <1>5
    <2>3. ASSUME ~stray', NEW s \in Recs, NEW t \in Recs,
                 rec[s].superseded # None, policy'[rec[s].applied].status # "ROLLED_BACK",
                 rec[t].superseded # None, policy'[rec[t].applied].status # "ROLLED_BACK",
                 rec[t].superseded = rec[s].superseded
          PROVE  t = s
      <3>1. policy[rec[s].applied].status # "ROLLED_BACK" /\ policy[rec[t].applied].status # "ROLLED_BACK"
        BY <2>1, <2>3
      <3> QED BY <2>3, <3>1, <1>10 DEF StackWhileInOrder
    <2> QED BY <2>2, <2>3, <1>12 DEF StackWhileInOrder
  <1>16. ApprovedByRight'
    BY <1>8 DEF ApprovedByRight
  <1>17. VersionsWereApproved'
    BY <1>6, <1>7, <1>9 DEF VersionsWereApproved, Exists, PolicyIds
  <1>18. AppliedIsNotRolledBack'
    <2> SUFFICES ASSUME NEW s \in Recs, rec'[s].status = "APPLIED"
                 PROVE  rec[s].applied # None /\ policy'[rec[s].applied].status # "ROLLED_BACK"
      BY <1>12 DEF AppliedIsNotRolledBack
    <2>1. s # r /\ rec[s].status = "APPLIED"
      BY <1>8
    <2>2. /\ rec[s].applied \in PolicyIds
          /\ policy[rec[s].applied].status # "ROLLED_BACK"
          /\ origin[rec[s].applied] = s
      BY <2>1, <1>12 DEF AppliedIsNotRolledBack, LinksWellFormed
    <2>3. rec[s].applied # p
      BY <2>1, <2>2, <1>1
    <2> QED BY <2>2, <2>3, <1>2, <1>5, <1>6
  <1> QED BY <1>11, <1>13, <1>14, <1>15, <1>16, <1>17, <1>18

LEMMA NextLifecycleInv == LifecycleInv /\ [Next]_vars => LifecycleInv'
  <1> SUFFICES ASSUME LifecycleInv, [Next]_vars PROVE LifecycleInv'
    OBVIOUS
  <1>1. CASE UNCHANGED vars
    BY <1>1 DEF vars, LifecycleInv, TypeOK, LinksWellFormed, OneLiveWhileInOrder, StackWhileInOrder,
                ApprovedByRight, VersionsWereApproved, AppliedIsNotRolledBack, Exists
  <1>2. CASE Next
    BY <1>2, AnalyzeLifecycleInv, DecideLifecycleInv, ApplyLifecycleInv, RollbackLifecycleInv DEF Next
  <1> QED BY <1>1, <1>2

-----------------------------------------------------------------------------
(* The theorems. *)

(***************************************************************************)
(* Every reachable state of the lifecycle satisfies the inductive          *)
(* invariant, and so each of its parts below.                              *)
(***************************************************************************)
THEOREM InductiveInvariant == Spec => []LifecycleInv
  BY InitLifecycleInv, NextLifecycleInv, PTL DEF Spec

(***************************************************************************)
(* Type correctness: rows, links, counters and histories keep their types. *)
(***************************************************************************)
THEOREM TypeCorrectness == Spec => []TypeOK
  <1>1. LifecycleInv => TypeOK
    BY DEF LifecycleInv
  <1> QED BY <1>1, InductiveInvariant, PTL

(***************************************************************************)
(* A recommendation's links always name existing versions of its own route *)
(* in increasing order, its applied version being its own creation.        *)
(***************************************************************************)
THEOREM LinksAreWellFormed == Spec => []LinksWellFormed
  <1>1. LifecycleInv => LinksWellFormed
    BY DEF LifecycleInv
  <1> QED BY <1>1, InductiveInvariant, PTL

(***************************************************************************)
(* At most one version of a route is live until a version that is no       *)
(* longer live is rolled back.                                             *)
(***************************************************************************)
THEOREM AtMostOneLive == Spec => []OneLiveWhileInOrder
  <1>1. LifecycleInv => OneLiveWhileInOrder
    BY DEF LifecycleInv
  <1> QED BY <1>1, InductiveInvariant, PTL

(***************************************************************************)
(* Until then versions form a stack: a standing version's predecessor is   *)
(* SUPERSEDED, and by that version only.                                   *)
(***************************************************************************)
THEOREM VersionsFormAStack == Spec => []StackWhileInOrder
  <1>1. LifecycleInv => StackWhileInOrder
    BY DEF LifecycleInv
  <1> QED BY <1>1, InductiveInvariant, PTL

(***************************************************************************)
(* Every version above the seed was approved by an approver or, when the   *)
(* configuration allows it and the risk is LOW, automatically.             *)
(***************************************************************************)
THEOREM EveryVersionApproved == Spec => []VersionsWereApproved
  <1>1. LifecycleInv => VersionsWereApproved
    BY DEF LifecycleInv
  <1> QED BY <1>1, InductiveInvariant, PTL

(***************************************************************************)
(* A recommendation reported APPLIED still has a version that was not      *)
(* rolled back.                                                            *)
(***************************************************************************)
THEOREM AppliedStands == Spec => []AppliedIsNotRolledBack
  <1>1. LifecycleInv => AppliedIsNotRolledBack
    BY DEF LifecycleInv
  <1> QED BY <1>1, InductiveInvariant, PTL

(***************************************************************************)
(* A step never changes a version's content or removes it, and a version   *)
(* it inserts is numbered above every version of its key.                  *)
(***************************************************************************)
THEOREM VersionsGrow == Spec => VersionsOnlyGrow
  <1> DEFINE Grow ==
        \A p \in PolicyIds :
          /\ Exists(p) => policy'[p] = [policy[p] EXCEPT !.status = policy'[p].status]
                          /\ policy'[p].status # "ABSENT"
          /\ ~Exists(p) /\ policy'[p].status # "ABSENT" =>
               \A w \in VersionsOf(policy'[p].key) : policy'[p].version > w
  <1>1. LifecycleInv /\ [Next]_vars => [Grow]_vars
    <2> SUFFICES ASSUME LifecycleInv, Next, NEW x \in PolicyIds
                 PROVE  /\ Exists(x) => /\ policy'[x] = [policy[x] EXCEPT !.status = policy'[x].status]
                                        /\ policy'[x].status # "ABSENT"
                        /\ ~Exists(x) /\ policy'[x].status # "ABSENT" =>
                             \A w \in VersionsOf(policy'[x].key) : policy'[x].version > w
      OBVIOUS
    <2> USE LifecycleAssumption
    <2>1. policy[x] \in PolicyRow
      BY DEF LifecycleInv, TypeOK
    <2>2. CASE policy'[x] = policy[x]
      BY <2>1, <2>2 DEF Exists, PolicyRow
    <2>3. ASSUME NEW r \in Recs, NEW mode \in {"FULL", "CANARY"}, Apply(r, mode),
                 policy'[x] # policy[x]
          PROVE  /\ Exists(x) => /\ policy'[x] = [policy[x] EXCEPT !.status = policy'[x].status]
                                 /\ policy'[x].status # "ABSENT"
                 /\ ~Exists(x) => \A w \in VersionsOf(policy'[x].key) : policy'[x].version > w
      <3> PICK p \in NewIds, cur \in Superseding(KeyOf[r], "medium"),
               v \in {0} \cup VersionsOf(KeyOf[r]) :
                 /\ ~Exists(p)
                 /\ IsLatestVersion(KeyOf[r], v)
                 /\ ApplyWith(r, mode, p, cur, v)
        BY <2>3 DEF Apply
      <3>1. v \in Nat /\ \A w \in VersionsOf(KeyOf[r]) : w \in Nat /\ w < v + 1
        BY LatestIsAboveAll DEF LifecycleInv
      <3>2. cur \in PolicyIds => Exists(cur)
        BY SupersedingIsLive DEF LiveAt, Live, Exists
      <3>3. CASE x = p
        <4>1. policy'[x].key = KeyOf[r] /\ policy'[x].version = v + 1 /\ ~Exists(x)
          BY <3>3 DEF ApplyWith, NewVersion
        <4> QED BY <4>1, <3>1
      <3>4. CASE x # p
        <4>1. x = cur /\ policy'[x] = [policy[x] EXCEPT !.status = "SUPERSEDED"]
          BY <3>4, <2>3 DEF ApplyWith
        <4> QED BY <4>1, <3>2, <2>1 DEF PolicyRow
      <3> QED BY <3>3, <3>4
    <2>4. ASSUME NEW r \in Recs, Rollback(r), policy'[x] # policy[x]
          PROVE  /\ Exists(x)
                 /\ policy'[x] = [policy[x] EXCEPT !.status = policy'[x].status]
                 /\ policy'[x].status # "ABSENT"
      <3>1. /\ x = rec[r].superseded \/ x = rec[r].applied
            /\ \/ policy'[x] = [policy[x] EXCEPT !.status = "ACTIVE"]
               \/ policy'[x] = [policy[x] EXCEPT !.status = "ROLLED_BACK"]
        BY <2>4 DEF Rollback
      <3>2. Exists(x)
        BY <3>1 DEF LifecycleInv, LinksWellFormed
      <3> QED BY <3>1, <3>2, <2>1 DEF PolicyRow
    <2>5. policy' = policy \/ (\E r \in Recs, mode \in {"FULL", "CANARY"} : Apply(r, mode))
                            \/ (\E r \in Recs : Rollback(r))
      BY DEF Next, Analyze, Decide
    <2> QED BY <2>2, <2>3, <2>4, <2>5
  <1> QED BY <1>1, InductiveInvariant, PTL DEF Spec, VersionsOnlyGrow

(***************************************************************************)
(* While rollbacks stay in order no version that was rolled back is ever   *)
(* served again.                                                           *)
(***************************************************************************)
THEOREM RolledBackIsFinal == Spec => RolledBackIsFinalInOrder
  <1> DEFINE Final == ~stray' => \A p \in PolicyIds :
                policy[p].status = "ROLLED_BACK" => policy'[p].status = "ROLLED_BACK"
  <1>1. LifecycleInv /\ [Next]_vars => [Final]_vars
    <2> SUFFICES ASSUME LifecycleInv, Next, ~stray', NEW x \in PolicyIds,
                        policy[x].status = "ROLLED_BACK"
                 PROVE  policy'[x].status = "ROLLED_BACK"
      OBVIOUS
    <2> USE LifecycleAssumption
    <2>1. policy[x] \in PolicyRow
      BY DEF LifecycleInv, TypeOK
    <2>2. ASSUME NEW r \in Recs, NEW mode \in {"FULL", "CANARY"}, Apply(r, mode)
          PROVE  policy'[x] = policy[x]
      <3> PICK p \in NewIds, cur \in Superseding(KeyOf[r], "medium"),
               v \in {0} \cup VersionsOf(KeyOf[r]) :
                 ~Exists(p) /\ ApplyWith(r, mode, p, cur, v)
        BY <2>2 DEF Apply
      <3>1. x # p
        BY DEF Exists
      <3>2. x # cur
        BY SupersedingIsLive DEF LiveAt, Live
      <3> QED BY <3>1, <3>2 DEF ApplyWith
    <2>3. ASSUME NEW r \in Recs, Rollback(r)
          PROVE  policy'[x].status = "ROLLED_BACK"
      <3>1. ~stray /\ policy[rec[r].applied].status # "ROLLED_BACK"
        BY <2>3 DEF Rollback, Live
      <3>2. x # rec[r].superseded
        BY <3>1 DEF LifecycleInv, StackWhileInOrder
      <3>3. x # rec[r].applied
        BY <3>1
      <3> QED BY <2>3, <3>2, <3>3 DEF Rollback
    <2>4. policy' = policy \/ (\E r \in Recs, mode \in {"FULL", "CANARY"} : Apply(r, mode))
                            \/ (\E r \in Recs : Rollback(r))
      BY DEF Next, Analyze, Decide
    <2> QED BY <2>2, <2>3, <2>4
  <1> QED BY <1>1, InductiveInvariant, PTL DEF Spec, RolledBackIsFinalInOrder

-----------------------------------------------------------------------------
(* Requests that overlap. *)

\* A name on row, a state of recommendation r, is that of someone entitled.
ByRight(r, row) ==
  /\ row.approvedBy # None =>
       row.approvedBy \in Approvers \/ (AutoApproveLowRisk /\ r \in LowRisk)
  /\ row.status = "APPROVED" => row.approvedBy # None

\* The links of row name versions that exist.
LinksExist(row) ==
  /\ row.applied # None => Exists(row.applied)
  /\ row.superseded # None => Exists(row.superseded)
  /\ row.status = "APPLIED" => row.applied # None

RowsInOrder == \A r \in Recs : ByRight(r, rec[r]) /\ LinksExist(rec[r])

Applying    == {"active", "version", "create"}
RollingBack == {"applied", "superseded", "restore"}

\* What stays true of what a request has read, until its commit, whatever the
\* others commit meanwhile.
Loaded(q) ==
  LET c == req[q] IN
  /\ c.seen.status # "ABSENT"
  /\ ByRight(c.r, c.seen) /\ LinksExist(c.seen)
  /\ rec[c.r].status # "ABSENT"
  /\ c.seen.approvedBy # None => rec[c.r].approvedBy # None
  /\ c.cur # None => Exists(c.cur)
  /\ c.phase = "decide" => c.verb \in {"APPROVED", "REJECTED"} /\ MayDecide(c.r, c.u)
  /\ c.phase \in Applying =>
       c.verb \in {"FULL", "CANARY"} /\ c.seen.status = "APPROVED" /\ c.r \in Validated
  /\ c.phase \in RollingBack => c.seen.status = "APPLIED"

LoadedInOrder == \A q \in Requests : ~IsIdle(q) => Loaded(q)

RequestInv == /\ RequestsTypeOK
              /\ RowsInOrder
              /\ LoadedInOrder
              /\ VersionsWereApproved

LEMMA OpenRequest ==
  ASSUME RequestsTypeOK, NEW q \in Requests, ~IsIdle(q)
  PROVE  req[q] \in Open
  BY DEF RequestsTypeOK, IsIdle, Idle

\* Rows that exist go on existing, and a name on a recommendation is never
\* taken back, only replaced.
NothingTakenBack ==
  /\ \A x \in PolicyIds : Exists(x) => Exists(x)'
  /\ \A r \in Recs : /\ rec[r].status # "ABSENT" => rec'[r].status # "ABSENT"
                     /\ rec[r].approvedBy # None => rec'[r].approvedBy # None

\* Then what a request has read stays in order while others commit.
LEMMA LoadedStays ==
  ASSUME RequestsTypeOK, NothingTakenBack, NEW q \in Requests,
         ~IsIdle(q), Loaded(q), req'[q] = req[q]
  PROVE  Loaded(q)'
  <1> USE LifecycleAssumption
  <1>1. /\ req[q].r \in Recs
        /\ req[q].cur \in PolicyIds \cup {None}
        /\ req[q].seen.applied \in PolicyIds \cup {None}
        /\ req[q].seen.superseded \in PolicyIds \cup {None}
    BY OpenRequest DEF Open, RecRow
  <1>2. LinksExist(req[q].seen)'
    BY <1>1 DEF LinksExist, Loaded, NothingTakenBack
  <1>3. /\ rec'[req[q].r].status # "ABSENT"
        /\ req[q].seen.approvedBy # None => rec'[req[q].r].approvedBy # None
        /\ req[q].cur # None => Exists(req[q].cur)'
    BY <1>1 DEF Loaded, NothingTakenBack, Exists
  <1>4. ByRight(req[q].r, req[q].seen)'
    BY DEF ByRight, Loaded
  <1> QED BY <1>2, <1>3, <1>4 DEF Loaded

LEMMA RowsStay ==
  ASSUME RequestsTypeOK, NothingTakenBack, RowsInOrder, NEW r \in Recs, rec'[r] = rec[r]
  PROVE  ByRight(r, rec[r])' /\ LinksExist(rec[r])'
  <1>1. /\ rec[r].applied \in PolicyIds \cup {None}
        /\ rec[r].superseded \in PolicyIds \cup {None}
    BY DEF RequestsTypeOK, TypeOK, RecRow
  <1> QED BY <1>1 DEF RowsInOrder, LinksExist, NothingTakenBack, ByRight

LEMMA RequestInitInv == RequestsInit => RequestInv
  <1> SUFFICES ASSUME RequestsInit PROVE RequestInv
    OBVIOUS
  <1>1. LifecycleInv /\ \A r \in Recs : rec[r] \in {NewRec("ABSENT"), NewRec("DRAFT")}
    BY InitLifecycleInv DEF RequestsInit, Init
  <1>2. RequestsTypeOK
    BY <1>1 DEF RequestsInit, RequestsTypeOK, LifecycleInv
  <1>3. RowsInOrder
    BY <1>1 DEF RowsInOrder, ByRight, LinksExist, NewRec
  <1>4. LoadedInOrder
    BY DEF RequestsInit, LoadedInOrder, IsIdle, Idle
  <1>5. VersionsWereApproved
    BY <1>1 DEF LifecycleInv, VersionsWereApproved
  <1> QED BY <1>2, <1>3, <1>4, <1>5 DEF RequestInv

\* A step that leaves the vars alone has to keep the requests in order only.
LEMMA TablesAlone ==
  ASSUME RequestInv, UNCHANGED <<vars, stale>>, NEW q \in Requests,
         req' = [req EXCEPT ![q] = req'[q]],
         req'[q] \in {Idle} \cup Open, ~IsIdle(q)' => Loaded(q)'
  PROVE  RequestInv'
  <1> USE DEF RequestInv, vars
  <1>1. RequestsTypeOK'
    BY DEF RequestsTypeOK, TypeOK
  <1>2. NothingTakenBack
    BY DEF NothingTakenBack, Exists
  <1>3. RowsInOrder'
    BY DEF RowsInOrder, ByRight, LinksExist, Exists
  <1>4. ASSUME NEW p \in Requests \ {q}, ~IsIdle(p)'
        PROVE  Loaded(p)'
    <2>1. req'[p] = req[p]
      BY DEF RequestsTypeOK
    <2>2. ~IsIdle(p)
      BY <1>4, <2>1 DEF IsIdle
    <2> QED BY <1>2, <2>1, <2>2, LoadedStays DEF LoadedInOrder
  <1>5. LoadedInOrder'
    BY <1>4 DEF LoadedInOrder
  <1>6. VersionsWereApproved'
    BY DEF VersionsWereApproved, Exists
  <1> QED BY <1>1, <1>3, <1>5, <1>6

LEMMA BeginInv ==
  ASSUME RequestInv, NEW q \in Requests, NEW r \in Recs, NEW u \in Users \cup {None},
         NEW verb \in Verbs, NEW phase \in {"decide", "active", "applied"},
         Begin(q, r, u, verb, phase),
         rec[r].status # "ABSENT",
         phase = "decide" => verb \in {"APPROVED", "REJECTED"} /\ MayDecide(r, u),
         phase = "active" =>
           verb \in {"FULL", "CANARY"} /\ rec[r].status = "APPROVED" /\ r \in Validated,
         phase = "applied" => rec[r].status = "APPLIED"
  PROVE  RequestInv'
  <1> DEFINE c == [phase |-> phase, verb |-> verb, r |-> r, u |-> u, seen |-> rec[r],
                   cur |-> None, latest |-> 0,
                   wasApplied |-> "ABSENT", wasSuperseded |-> "ABSENT"]
  <1>1. req' = [req EXCEPT ![q] = c] /\ req'[q] = c /\ UNCHANGED <<vars, stale>>
    BY DEF Begin, RequestInv, RequestsTypeOK, vars
  <1>2. c \in Open
    <2>1. rec[r] \in RecRow
      BY DEF RequestInv, RequestsTypeOK, TypeOK
    <2> QED BY <2>1 DEF Open, Phases, PolicyStatus
  <1>3. Loaded(q)'
    <2>1. rec' = rec /\ policy' = policy
      BY <1>1 DEF vars
    <2>2. ByRight(r, rec[r])' /\ LinksExist(rec[r])'
      BY <2>1 DEF RequestInv, RowsInOrder, ByRight, LinksExist, Exists
    <2> QED BY <1>1, <2>1, <2>2 DEF Loaded, Applying, RollingBack, ByRight, LinksExist, Exists
  <1> HIDE DEF c
  <1> QED BY <1>1, <1>2, <1>3, TablesAlone

LEMMA ReadInv ==
  ASSUME RequestInv, NEW q \in Requests,
         ReadActive(q) \/ ReadVersion(q) \/ ReadApplied(q) \/ ReadSuperseded(q)
  PROVE  RequestInv'
  <1> USE LifecycleAssumption
  <1>1. ~IsIdle(q) /\ req[q] \in Open /\ Loaded(q) /\ RequestsTypeOK /\ TypeOK
    BY OpenRequest DEF RequestInv, LoadedInOrder, IsIdle, RequestsTypeOK, ReadActive, ReadVersion,
                       ReadApplied, ReadSuperseded
  <1>2. UNCHANGED <<vars, stale>>
    BY DEF vars, ReadActive, ReadVersion, ReadApplied, ReadSuperseded
  <1>3. ASSUME NEW p \in PolicyIds \cup {None} PROVE StatusOf(p) \in PolicyStatus
    BY <1>1, <1>3 DEF StatusOf, TypeOK, PolicyRow, PolicyStatus
  <1>4. KeyOf[req[q].r] \in Keys /\ req[q].seen \in RecRow
    BY <1>1 DEF Open
  <1>5. \A cur \in Superseding(KeyOf[req[q].r], "medium") :
          cur = None \/ (cur \in PolicyIds /\ Exists(cur))
    <2> TAKE cur \in Superseding(KeyOf[req[q].r], "medium")
    <2>1. cur = None \/ cur \in LiveAt(KeyOf[req[q].r], "medium")
      BY SupersedingIsLive
    <2> QED BY <2>1 DEF LiveAt, Exists, Live
  <1>6. \A v \in {0} \cup VersionsOf(KeyOf[req[q].r]) : v \in Nat
    BY <1>1 DEF VersionsOf, TypeOK, PolicyRow
  <1> DEFINE c == req[q]
             Read(phase, cur, latest, was, was2) ==
               /\ req' = [req EXCEPT ![q] = [c EXCEPT !.phase = phase, !.cur = cur,
                            !.latest = latest, !.wasApplied = was, !.wasSuperseded = was2]]
               /\ cur # None => Exists(cur)
               /\ phase \in Applying <=> c.phase \in Applying
               /\ phase \in RollingBack <=> c.phase \in RollingBack
  <1> HIDE DEF Read
  <1>7. \E phase \in {"version", "create", "superseded", "restore"},
           cur \in PolicyIds \cup {None}, latest \in Nat,
           was \in PolicyStatus, was2 \in PolicyStatus : Read(phase, cur, latest, was, was2)
    <2>0. /\ c.cur \in PolicyIds \cup {None} /\ c.latest \in Nat
          /\ c.wasApplied \in PolicyStatus /\ c.wasSuperseded \in PolicyStatus
          /\ c.cur # None => Exists(c.cur)
      BY <1>1 DEF Open, Loaded
    <2>1. CASE ReadActive(q)
      <3> PICK cur \in Superseding(KeyOf[c.r], "medium") :
            req' = [req EXCEPT ![q].phase = "version", ![q].cur = cur]
        BY <2>1 DEF ReadActive
      <3>1. req' = [req EXCEPT ![q] = [c EXCEPT !.phase = "version", !.cur = cur,
                      !.latest = c.latest, !.wasApplied = c.wasApplied,
                      !.wasSuperseded = c.wasSuperseded]]
        BY <1>1 DEF Open, RequestsTypeOK
      <3>2. cur \in PolicyIds \cup {None} /\ (cur # None => Exists(cur))
        BY <1>5
      <3>3. Read("version", cur, c.latest, c.wasApplied, c.wasSuperseded)
        BY <3>1, <3>2, <2>1 DEF Read, ReadActive, Applying, RollingBack
      <3> QED BY <3>2, <3>3, <2>0
    <2>2. CASE ReadVersion(q)
      <3> PICK v \in {0} \cup VersionsOf(KeyOf[c.r]) :
            req' = [req EXCEPT ![q].phase = "create", ![q].latest = v]
        BY <2>2 DEF ReadVersion
      <3>1. req' = [req EXCEPT ![q] = [c EXCEPT !.phase = "create", !.cur = c.cur,
                      !.latest = v, !.wasApplied = c.wasApplied,
                      !.wasSuperseded = c.wasSuperseded]]
        BY <1>1 DEF Open, RequestsTypeOK
      <3>2. Read("create", c.cur, v, c.wasApplied, c.wasSuperseded)
        BY <3>1, <2>0, <2>2 DEF Read, ReadVersion, Applying, RollingBack
      <3> QED BY <3>2, <2>0, <1>6
    <2>3. CASE ReadApplied(q)
      <3>1. StatusOf(c.seen.applied) \in PolicyStatus
        BY <1>3, <1>4 DEF RecRow
      <3>2. req' = [req EXCEPT ![q] = [c EXCEPT !.phase = "superseded", !.cur = c.cur,
                      !.latest = c.latest, !.wasApplied = StatusOf(c.seen.applied),
                      !.wasSuperseded = c.wasSuperseded]]
        BY <1>1, <2>3 DEF Open, RequestsTypeOK, ReadApplied
      <3>3. Read("superseded", c.cur, c.latest, StatusOf(c.seen.applied), c.wasSuperseded)
        BY <3>2, <2>0, <2>3 DEF Read, ReadApplied, Applying, RollingBack
      <3> QED BY <3>1, <3>3, <2>0
    <2>4. CASE ReadSuperseded(q)
      <3>1. StatusOf(c.seen.superseded) \in PolicyStatus
        BY <1>3, <1>4 DEF RecRow
      <3>2. req' = [req EXCEPT ![q] = [c EXCEPT !.phase = "restore", !.cur = c.cur,
                      !.latest = c.latest, !.wasApplied = c.wasApplied,
                      !.wasSuperseded = StatusOf(c.seen.superseded)]]
        BY <1>1, <2>4 DEF Open, RequestsTypeOK, ReadSuperseded
      <3>3. Read("restore", c.cur, c.latest, c.wasApplied, StatusOf(c.seen.superseded))
        BY <3>2, <2>0, <2>4 DEF Read, ReadSuperseded, Applying, RollingBack
      <3> QED BY <3>1, <3>3, <2>0
    <2> QED BY <2>1, <2>2, <2>3, <2>4
  <1> PICK phase \in {"version", "create", "superseded", "restore"},
           cur \in PolicyIds \cup {None}, latest \in Nat,
           was \in PolicyStatus, was2 \in PolicyStatus : Read(phase, cur, latest, was, was2)
    BY <1>7
  <1>8. /\ req'[q] = [req[q] EXCEPT !.phase = phase, !.cur = cur, !.latest = latest,
                                    !.wasApplied = was, !.wasSuperseded = was2]
        /\ req' = [req EXCEPT ![q] = req'[q]]
    BY <1>1 DEF RequestsTypeOK, Read
  <1>9. /\ req'[q] \in Open
        /\ req'[q].r = req[q].r /\ req'[q].u = req[q].u
        /\ req'[q].verb = req[q].verb /\ req'[q].seen = req[q].seen
        /\ req'[q].phase = phase /\ req'[q].cur = cur
    <2> DEFINE n == [c EXCEPT !.phase = phase, !.cur = cur, !.latest = latest,
                              !.wasApplied = was, !.wasSuperseded = was2]
    <2>1. n \in Open /\ n.r = c.r /\ n.u = c.u /\ n.verb = c.verb /\ n.seen = c.seen
          /\ n.phase = phase /\ n.cur = cur
      BY <1>1 DEF Open, Phases
    <2> QED BY <1>8, <2>1
  <1>10. Loaded(q)'
    <2>1. rec' = rec /\ policy' = policy
      BY <1>2 DEF vars
    <2> QED BY <1>1, <1>9, <2>1 DEF Read, Loaded, ByRight, LinksExist, Exists
  <1> QED BY <1>2, <1>8, <1>9, <1>10, TablesAlone

\* A request that ends leaves the others in order.
LEMMA EndInv ==
  ASSUME RequestInv, NothingTakenBack, NEW q \in Requests, req' = [req EXCEPT ![q] = Idle]
  PROVE  LoadedInOrder' /\ req' \in [Requests -> {Idle} \cup Open]
  <1> USE DEF RequestInv
  <1>1. req'[q] = Idle /\ \A p \in Requests \ {q} : req'[p] = req[p]
    BY DEF RequestsTypeOK
  <1>2. ASSUME NEW p \in Requests, ~IsIdle(p)' PROVE Loaded(p)'
    <2>1. p # q /\ req'[p] = req[p] /\ ~IsIdle(p)
      BY <1>1, <1>2 DEF IsIdle, Idle
    <2> QED BY <2>1, LoadedStays DEF LoadedInOrder
  <1>3. LoadedInOrder'
    BY <1>2 DEF LoadedInOrder
  <1> QED BY <1>3 DEF RequestsTypeOK

LEMMA AbortInv == ASSUME RequestInv, NEW q \in Requests, Abort(q) PROVE RequestInv'
  <1>1. /\ req' = [req EXCEPT ![q] = Idle] /\ req'[q] = Idle
        /\ UNCHANGED <<vars, stale>>
    BY DEF Abort, vars, RequestInv, RequestsTypeOK
  <1>2. IsIdle(q)'
    BY <1>1 DEF IsIdle, Idle
  <1> QED BY <1>1, <1>2, TablesAlone

LEMMA AnalyzeInv ==
  ASSUME RequestInv, NEW r \in Recs, Analyze(r), UNCHANGED <<req, stale>>
  PROVE  RequestInv'
  <1> USE LifecycleAssumption DEF RequestInv, Analyze
  <1>1. RequestsTypeOK'
    BY DEF RequestsTypeOK, TypeOK, RecRow, NewRec, RecStatus
  <1>2. rec'[r] = NewRec("PENDING_APPROVAL") /\ \A s \in Recs \ {r} : rec'[s] = rec[s]
    BY DEF RequestsTypeOK, TypeOK
  <1>3. ASSUME NEW s \in Recs PROVE ByRight(s, rec[s])' /\ LinksExist(rec[s])'
    BY <1>2 DEF RowsInOrder, ByRight, LinksExist, NewRec, Exists
  <1>4. ASSUME NEW q \in Requests, ~IsIdle(q)' PROVE Loaded(q)'
    <2>1. ~IsIdle(q) /\ Loaded(q) /\ req'[q] = req[q]
      BY <1>4 DEF IsIdle, LoadedInOrder
    <2>2. req[q] \in Open
      BY <2>1, OpenRequest
    <2>3. rec'[req[q].r] = rec[req[q].r]
      BY <1>2, <2>1, <2>2 DEF Loaded, Open
    <2> QED BY <2>1, <2>3 DEF Loaded, ByRight, LinksExist, Exists
  <1>5. RowsInOrder' /\ LoadedInOrder'
    BY <1>3, <1>4 DEF RowsInOrder, LoadedInOrder
  <1>6. VersionsWereApproved'
    BY DEF VersionsWereApproved, Exists
  <1> QED BY <1>1, <1>5, <1>6

\* What is known when request q is about to commit.
LEMMA AtCommit ==
  ASSUME RequestInv, NEW q \in Requests, ~IsIdle(q)
  PROVE  /\ req[q] \in Open /\ Loaded(q) /\ req[q].r \in Recs
         /\ req[q].seen \in RecRow /\ req[q].cur \in PolicyIds \cup {None}
         /\ rec[req[q].r] \in RecRow
         /\ ByRight(req[q].r, rec[req[q].r]) /\ LinksExist(rec[req[q].r])
         /\ \A p \in PolicyIds : policy[p] \in PolicyRow
  BY OpenRequest DEF RequestInv, RequestsTypeOK, TypeOK, Open, LoadedInOrder, RowsInOrder

LEMMA CommitDecideInv ==
  ASSUME RequestInv, NEW q \in Requests, CommitDecide(q) PROVE RequestInv'
  <1> USE LifecycleAssumption
  <1>0. ~IsIdle(q)
    BY DEF CommitDecide, IsIdle
  <1> PICK r \in Recs : r = req[q].r
    BY <1>0, AtCommit
  <1> DEFINE c == req[q]
             by == IF c.verb = "APPROVED" THEN ApproverName(c.u) ELSE c.seen.approvedBy
             status == Flushed(rec[r].status, c.seen.status, c.verb)
             name == Flushed(rec[r].approvedBy, c.seen.approvedBy, by)
  <1>1. c.phase = "decide"
    BY DEF CommitDecide
  <1>2. /\ c \in Open /\ Loaded(q) /\ r \in Recs /\ c.seen \in RecRow
        /\ rec[r] \in RecRow /\ ByRight(r, rec[r]) /\ LinksExist(rec[r])
    BY <1>0, AtCommit
  <1>3. /\ c.verb \in {"APPROVED", "REJECTED"} /\ MayDecide(r, c.u)
        /\ c.seen.approvedBy # None => rec[r].approvedBy # None
        /\ ByRight(r, c.seen) /\ rec[r].status # "ABSENT"
        /\ c.u \in Users \cup {None}
    BY <1>1, <1>2 DEF Loaded, Open
  <1>4. /\ Decided(c.seen, c.u, c.verb).status = c.verb
        /\ Decided(c.seen, c.u, c.verb).approvedBy = by
    BY <1>2 DEF Decided, RecRow
  <1>5. /\ rec' = [rec EXCEPT ![r].status = status, ![r].approvedBy = name]
        /\ req' = [req EXCEPT ![q] = Idle]
        /\ audits' = audits + 1
        /\ policy' = policy /\ origin' = origin /\ stray' = stray
        /\ stale' \in BOOLEAN
    BY <1>4 DEF CommitDecide, Close, RequestInv, RequestsTypeOK
  <1>6. /\ status \in {rec[r].status, c.verb}
        /\ name \in {rec[r].approvedBy, by}
        /\ by \in Users \cup {None, SystemApprover}
    BY <1>2, <1>3 DEF Flushed, ApproverName, RecRow
  \* The name is one of someone entitled, and there is one if it says APPROVED.
  <1>7. /\ name # None => name \in Approvers \/ (AutoApproveLowRisk /\ r \in LowRisk)
        /\ rec[r].approvedBy # None => name # None
        /\ status = "APPROVED" => name # None
    <2>1. by # None => by \in Approvers \/ (AutoApproveLowRisk /\ r \in LowRisk)
      BY <1>3 DEF MayDecide, CanAutoApprove, ApproverName, ByRight
    <2>2. c.verb = "APPROVED" => by # None
      BY <1>3 DEF ApproverName
    <2>3. c.seen.approvedBy # None => by # None
      BY <2>2
    <2>4. rec[r].approvedBy # None => name # None
      BY <2>3 DEF Flushed
    <2>5. status = "APPROVED" => name # None
      <3>1. CASE rec[r].status = "APPROVED"
        BY <3>1, <2>4, <1>2 DEF ByRight
      <3>2. CASE rec[r].status # "APPROVED"
        BY <3>2, <1>3, <1>6, <2>2, <2>4 DEF Flushed
      <3> QED BY <3>1, <3>2
    <2> QED BY <2>1, <2>4, <2>5, <1>2, <1>6 DEF ByRight
  <1> HIDE DEF by, status, name
  <1>8. /\ rec'[r] = [rec[r] EXCEPT !.status = status, !.approvedBy = name]
        /\ \A s \in Recs \ {r} : rec'[s] = rec[s]
    BY <1>2, <1>5 DEF RequestInv, RequestsTypeOK, TypeOK
  <1>9. /\ rec'[r] \in RecRow
        /\ rec'[r].status = status /\ rec'[r].approvedBy = name
        /\ rec'[r].applied = rec[r].applied /\ rec'[r].superseded = rec[r].superseded
    <2>1. status \in RecStatus /\ name \in Users \cup {None, SystemApprover}
      BY <1>2, <1>3, <1>6 DEF RecRow, RecStatus
    <2> QED BY <1>2, <1>8, <2>1 DEF RecRow
  <1>10. NothingTakenBack
    BY <1>3, <1>5, <1>6, <1>7, <1>8, <1>9 DEF NothingTakenBack, Exists
  <1>11. LoadedInOrder' /\ req' \in [Requests -> {Idle} \cup Open]
    BY <1>5, <1>10, EndInv
  <1>12. RequestsTypeOK'
    <2>1. rec \in [Recs -> RecRow] /\ audits \in Nat
      BY DEF RequestInv, RequestsTypeOK, TypeOK
    <2>2. \A s \in Recs : rec'[s] \in RecRow
      BY <1>8, <1>9, <2>1
    <2>3. rec' \in [Recs -> RecRow]
      BY <1>5, <2>1, <2>2
    <2>4. audits' \in Nat
      BY <1>5, <2>1
    <2> QED BY <1>5, <1>11, <2>3, <2>4 DEF RequestInv, RequestsTypeOK, TypeOK
  <1>13. ByRight(r, rec[r])' /\ LinksExist(rec[r])'
    <2>1. rec'[r].status = "APPLIED" => rec[r].status = "APPLIED"
      BY <1>3, <1>6, <1>9
    <2> QED BY <2>1, <1>2, <1>5, <1>7, <1>9 DEF ByRight, LinksExist, Exists
  <1>14. RowsInOrder'
    BY <1>8, <1>10, <1>13, RowsStay DEF RequestInv, RowsInOrder
  <1>15. VersionsWereApproved'
    BY <1>5 DEF RequestInv, VersionsWereApproved, Exists
  <1> QED BY <1>11, <1>12, <1>14, <1>15 DEF RequestInv

LEMMA CommitApplyInv ==
  ASSUME RequestInv, NEW q \in Requests, CommitApply(q) PROVE RequestInv'
  <1> USE LifecycleAssumption
  <1>0. ~IsIdle(q)
    BY DEF CommitApply, IsIdle
  <1> PICK r \in Recs : r = req[q].r
    BY <1>0, AtCommit
  <1> DEFINE c == req[q]
  <1>1. c.phase = "create"
    BY DEF CommitApply
  <1>2. PICK p \in NewIds : ~Exists(p) /\ InsertVersion(q, p, c.latest + 1)
    BY DEF CommitApply
  <1>3. /\ c \in Open /\ Loaded(q) /\ r \in Recs /\ c.seen \in RecRow
        /\ rec[r] \in RecRow /\ ByRight(r, rec[r]) /\ LinksExist(rec[r])
        /\ c.cur \in PolicyIds \cup {None}
        /\ \A x \in PolicyIds : policy[x] \in PolicyRow
    BY <1>0, AtCommit
  <1>4. /\ c.cur # None => Exists(c.cur)
        /\ c.verb \in {"FULL", "CANARY"} /\ c.seen.status = "APPROVED"
        /\ ByRight(r, c.seen) /\ LinksExist(c.seen)
        /\ c.latest \in Nat /\ KeyOf[r] \in Keys
    BY <1>1, <1>3 DEF Loaded, Applying, Open
  <1>5. p \in PolicyIds /\ c.cur # p
    BY <1>2, <1>4 DEF PolicyIds
  <1> DEFINE new == [status |-> ModeStatus(c.verb), key |-> KeyOf[r],
                     complexity |-> "medium", version |-> c.latest + 1,
                     approvedBy |-> c.seen.approvedBy]
  <1> PICK link : link = Flushed(rec[r].superseded, c.seen.superseded, c.cur)
    OBVIOUS
  <1>6. /\ new \in PolicyRow /\ new.status \in Live /\ new.approvedBy = c.seen.approvedBy
        /\ link \in {rec[r].superseded, c.cur}
    BY <1>3, <1>4 DEF PolicyRow, RecRow, ModeStatus, PolicyStatus, Live, Flushed,
                      Complexities
  <1>7. /\ policy' = [x \in PolicyIds |->
              IF x = p THEN new
              ELSE IF x = c.cur THEN [policy[x] EXCEPT !.status = "SUPERSEDED"] ELSE policy[x]]
        /\ rec' = [rec EXCEPT ![r].status = "APPLIED", ![r].applied = p, ![r].superseded = link]
        /\ origin' = [origin EXCEPT ![p] = r]
        /\ req' = [req EXCEPT ![q] = Idle]
        /\ audits' = audits /\ stray' = stray
        /\ stale' \in BOOLEAN
    BY <1>2 DEF InsertVersion, Close, RequestInv, RequestsTypeOK
  <1> HIDE DEF new
  <1>8. /\ policy'[p] = new
        /\ \A x \in PolicyIds \ {p} :
             \/ policy'[x] = policy[x]
             \/ x = c.cur /\ policy'[x] = [policy[x] EXCEPT !.status = "SUPERSEDED"]
    BY <1>5, <1>7
  <1>9. /\ policy' \in [PolicyIds -> PolicyRow]
        /\ \A x \in PolicyIds \ {p} : /\ Exists(x)' <=> Exists(x)
                                      /\ policy'[x].approvedBy = policy[x].approvedBy
        /\ Exists(p)'
    <2>1. ASSUME NEW x \in PolicyIds \ {p}
          PROVE  /\ policy'[x] \in PolicyRow
                 /\ policy'[x].status # "ABSENT" <=> policy[x].status # "ABSENT"
                 /\ policy'[x].approvedBy = policy[x].approvedBy
      <3>1. policy[x] \in PolicyRow
        BY <1>3
      <3>2. CASE x = c.cur /\ policy'[x] = [policy[x] EXCEPT !.status = "SUPERSEDED"]
        <4>1. policy[x].status # "ABSENT"
          BY <1>3, <1>4, <3>2 DEF Exists
        <4> QED BY <3>1, <3>2, <4>1 DEF PolicyRow, PolicyStatus
      <3> QED BY <1>8, <3>1, <3>2
    <2>2. policy'[p] \in PolicyRow /\ policy'[p].status # "ABSENT"
      BY <1>6, <1>8 DEF Live
    <2>3. \A x \in PolicyIds : policy'[x] \in PolicyRow
      BY <2>1, <2>2
    <2>4. DOMAIN policy' = PolicyIds /\ policy' = [x \in PolicyIds |-> policy'[x]]
      BY <1>7
    <2> QED BY <2>1, <2>2, <2>3, <2>4 DEF Exists
  <1>10. /\ rec'[r] = [rec[r] EXCEPT !.status = "APPLIED", !.applied = p, !.superseded = link]
         /\ \A s \in Recs \ {r} : rec'[s] = rec[s]
    BY <1>3, <1>7 DEF RequestInv, RequestsTypeOK, TypeOK
  <1>11. /\ rec'[r] \in RecRow
         /\ rec'[r].status = "APPLIED" /\ rec'[r].approvedBy = rec[r].approvedBy
         /\ rec'[r].applied = p /\ rec'[r].superseded = link
    BY <1>3, <1>5, <1>6, <1>10 DEF RecRow, RecStatus
  <1>12. NothingTakenBack
    BY <1>9, <1>10, <1>11 DEF NothingTakenBack
  <1>13. LoadedInOrder' /\ req' \in [Requests -> {Idle} \cup Open]
    BY <1>7, <1>12, EndInv
  <1>14. RequestsTypeOK'
    <2>1. origin' \in [PolicyIds -> Recs \cup {None}] /\ rec' \in [Recs -> RecRow]
      BY <1>3, <1>5, <1>7, <1>11 DEF RequestInv, RequestsTypeOK, TypeOK
    <2> QED BY <2>1, <1>7, <1>9, <1>13 DEF RequestInv, RequestsTypeOK, TypeOK
  <1>15. ByRight(r, rec[r])' /\ LinksExist(rec[r])'
    <2>1. rec[r].superseded # None => Exists(rec[r].superseded)
      BY <1>3 DEF LinksExist
    <2>2. link # None => link \in PolicyIds /\ Exists(link)
      BY <1>3, <1>4, <1>6, <2>1 DEF RecRow
    <2>3. link # None => Exists(link)'
      BY <2>2, <1>12 DEF NothingTakenBack, Exists
    <2>4. ByRight(r, rec[r])'
      BY <1>3, <1>11 DEF ByRight
    <2>5. p # None
      BY <1>5
    <2> QED BY <1>9, <1>11, <2>3, <2>4, <2>5 DEF LinksExist, Exists
  <1>16. RowsInOrder'
    BY <1>10, <1>12, <1>15, RowsStay DEF RequestInv, RowsInOrder
  <1>17. VersionsWereApproved'
    <2>1. ASSUME NEW x \in NewIds, x # p, Exists(x)'
          PROVE  \/ policy'[x].approvedBy \in Approvers
                 \/ AutoApproveLowRisk /\ origin'[x] \in LowRisk /\ policy'[x].approvedBy # None
      <3>1. x \in PolicyIds \ {p}
        BY <2>1 DEF PolicyIds
      <3>2. Exists(x) /\ policy'[x].approvedBy = policy[x].approvedBy
        BY <2>1, <3>1, <1>9
      <3>3. origin'[x] = origin[x]
        BY <3>1, <1>7 DEF RequestInv, RequestsTypeOK, TypeOK
      <3> QED BY <3>2, <3>3 DEF RequestInv, VersionsWereApproved
    <2>2. \/ policy'[p].approvedBy \in Approvers
          \/ AutoApproveLowRisk /\ origin'[p] \in LowRisk /\ policy'[p].approvedBy # None
      <3>1. policy'[p].approvedBy = c.seen.approvedBy /\ origin'[p] = r
        BY <1>5, <1>6, <1>7, <1>8 DEF RequestInv, RequestsTypeOK, TypeOK
      <3> QED BY <3>1, <1>4 DEF ByRight
    <2> QED BY <2>1, <2>2 DEF VersionsWereApproved
  <1> QED BY <1>13, <1>14, <1>16, <1>17 DEF RequestInv

LEMMA CommitRollbackInv ==
  ASSUME RequestInv, NEW q \in Requests, CommitRollback(q) PROVE RequestInv'
  <1> USE LifecycleAssumption
  <1>0. ~IsIdle(q)
    BY DEF CommitRollback, IsIdle
  <1> PICK r \in Recs : r = req[q].r
    BY <1>0, AtCommit
  <1> DEFINE c == req[q]
  <1>1. /\ c \in Open /\ Loaded(q) /\ c.seen \in RecRow
        /\ rec[r] \in RecRow /\ ByRight(r, rec[r]) /\ LinksExist(rec[r])
        /\ \A x \in PolicyIds : policy[x] \in PolicyRow
    BY <1>0, AtCommit
  <1>2. /\ c.phase = "restore" /\ c.seen.status = "APPLIED" /\ LinksExist(c.seen)
        /\ rec[r].status # "ABSENT"
    BY <1>1 DEF CommitRollback, Loaded, RollingBack
  <1>3. c.seen.applied # None /\ Exists(c.seen.applied)
    BY <1>2 DEF LinksExist
  <1>4. /\ rec' = [rec EXCEPT ![r].status = "ROLLED_BACK"]
        /\ req' = [req EXCEPT ![q] = Idle]
        /\ audits' = audits /\ origin' = origin
        /\ stray' \in BOOLEAN /\ stale' \in BOOLEAN
        /\ DOMAIN policy' = PolicyIds
        /\ policy' = [x \in PolicyIds |-> policy'[x]]
    BY DEF CommitRollback, Close, RequestInv, RequestsTypeOK, TypeOK
  \* A version's status moves from one that is there to one that is there.
  <1>5. ASSUME NEW x \in PolicyIds
        PROVE  /\ policy'[x] \in PolicyRow
               /\ Exists(x)' <=> Exists(x)
               /\ policy'[x].approvedBy = policy[x].approvedBy
    <2>1. policy[x] \in PolicyRow
      BY <1>1
    <2>2. \/ policy'[x] = policy[x]
          \/ /\ x \in {c.seen.superseded, c.seen.applied}
             /\ \E s \in {policy[x].status, "ACTIVE", "ROLLED_BACK"} :
                  policy'[x] = [policy[x] EXCEPT !.status = s]
      BY DEF CommitRollback, Flushed
    <2>3. CASE x \in {c.seen.superseded, c.seen.applied}
      <3>1. policy[x].status # "ABSENT"
        BY <1>2, <2>3 DEF LinksExist, Exists
      <3> QED BY <2>1, <2>2, <3>1 DEF PolicyRow, PolicyStatus, Exists
    <2> QED BY <2>1, <2>2, <2>3 DEF Exists
  <1>6. /\ rec'[r] = [rec[r] EXCEPT !.status = "ROLLED_BACK"]
        /\ \A s \in Recs \ {r} : rec'[s] = rec[s]
    BY <1>4 DEF RequestInv, RequestsTypeOK, TypeOK
  <1>7. /\ rec'[r] \in RecRow
        /\ rec'[r].status = "ROLLED_BACK" /\ rec'[r].approvedBy = rec[r].approvedBy
        /\ rec'[r].applied = rec[r].applied /\ rec'[r].superseded = rec[r].superseded
    BY <1>1, <1>6 DEF RecRow, RecStatus
  <1>8. NothingTakenBack
    BY <1>5, <1>6, <1>7 DEF NothingTakenBack
  <1>9. LoadedInOrder' /\ req' \in [Requests -> {Idle} \cup Open]
    BY <1>4, <1>8, EndInv
  <1>10. RequestsTypeOK'
    <2>1. rec' \in [Recs -> RecRow] /\ policy' \in [PolicyIds -> PolicyRow]
      BY <1>4, <1>5, <1>7 DEF RequestInv, RequestsTypeOK, TypeOK
    <2> QED BY <1>4, <1>9, <2>1 DEF RequestInv, RequestsTypeOK, TypeOK
  <1>11. ByRight(r, rec[r])' /\ LinksExist(rec[r])'
    <2>1. ByRight(r, rec[r])'
      BY <1>1, <1>7 DEF ByRight
    <2>2. /\ rec[r].applied # None => policy'[rec[r].applied].status # "ABSENT"
          /\ rec[r].superseded # None => policy'[rec[r].superseded].status # "ABSENT"
      BY <1>1, <1>5 DEF LinksExist, RecRow, Exists
    <2> QED BY <1>7, <2>1, <2>2 DEF LinksExist, Exists
  <1>12. RowsInOrder'
    BY <1>6, <1>8, <1>11, RowsStay DEF RequestInv, RowsInOrder
  <1>13. VersionsWereApproved'
    BY <1>4, <1>5 DEF RequestInv, VersionsWereApproved, PolicyIds
  <1> QED BY <1>9, <1>10, <1>12, <1>13 DEF RequestInv

LEMMA NextRequestInv == RequestInv /\ [RequestsNext]_requestVars => RequestInv'
  <1> SUFFICES ASSUME RequestInv, [RequestsNext]_requestVars PROVE RequestInv'
    OBVIOUS
  <1>1. CASE UNCHANGED requestVars
    <2>1. UNCHANGED <<rec, policy, audits, origin, stray, req, stale>>
      BY <1>1 DEF requestVars
    <2>2. RequestsTypeOK' /\ RowsInOrder' /\ VersionsWereApproved'
      BY <2>1 DEF RequestInv, RequestsTypeOK, TypeOK, RowsInOrder, ByRight, LinksExist, Exists,
                  VersionsWereApproved
    <2>3. LoadedInOrder'
      BY <2>1 DEF RequestInv, LoadedInOrder, Loaded, IsIdle, ByRight, LinksExist, Exists
    <2> QED BY <2>2, <2>3 DEF RequestInv
  <1>2. ASSUME NEW r \in Recs, Analyze(r), UNCHANGED <<req, stale>> PROVE RequestInv'
    BY <1>2, AnalyzeInv
  <1>3. ASSUME NEW q \in Requests, NEW r \in Recs, NEW u \in Users \cup {None},
               NEW decision \in {"APPROVED", "REJECTED"}, BeginDecide(q, r, u, decision)
        PROVE  RequestInv'
    BY <1>3, BeginInv DEF BeginDecide, Verbs
  <1>4. ASSUME NEW q \in Requests, NEW r \in Recs, NEW mode \in {"FULL", "CANARY"},
               BeginApply(q, r, mode)
        PROVE  RequestInv'
    BY <1>4, BeginInv DEF BeginApply, Verbs
  <1>5. ASSUME NEW q \in Requests, NEW r \in Recs, BeginRollback(q, r) PROVE RequestInv'
    BY <1>5, BeginInv DEF BeginRollback, Verbs
  <1>6. ASSUME NEW q \in Requests,
               \/ ReadActive(q) \/ ReadVersion(q) \/ ReadApplied(q) \/ ReadSuperseded(q)
               \/ CommitDecide(q) \/ CommitApply(q) \/ CommitRollback(q) \/ Abort(q)
        PROVE  RequestInv'
    BY <1>6, ReadInv, CommitDecideInv, CommitApplyInv, CommitRollbackInv, AbortInv
  <1> QED BY <1>1, <1>2, <1>3, <1>4, <1>5, <1>6 DEF RequestsNext

-----------------------------------------------------------------------------
(* A commit whose reads still hold is a request of the lifecycle. *)

LEMMA FreshDecide ==
  ASSUME RequestInv, NEW q \in Requests, CommitDecide(q), Fresh(q)
  PROVE  Next
  <1>0. ~IsIdle(q)
    BY DEF CommitDecide, IsIdle
  <1> DEFINE c == req[q]
             r == req[q].r
             new == Decided(rec[r], c.u, c.verb)
  <1>1. /\ c \in Open /\ Loaded(q) /\ r \in Recs /\ rec[r] \in RecRow
    BY <1>0, AtCommit
  <1>2. c.phase = "decide" /\ rec[r] = c.seen
    BY DEF CommitDecide, Fresh
  <1>3. /\ c.u \in Users \cup {None} /\ c.verb \in {"APPROVED", "REJECTED"}
        /\ MayDecide(r, c.u) /\ rec[r].status # "ABSENT"
    BY <1>1, <1>2 DEF Loaded, Open
  <1>4. /\ Flushed(rec[r].status, c.seen.status, new.status) = new.status
        /\ Flushed(rec[r].approvedBy, c.seen.approvedBy, new.approvedBy) = new.approvedBy
    BY <1>2 DEF Flushed
  <1>5. [rec[r] EXCEPT !.status = new.status, !.approvedBy = new.approvedBy] = new
    BY <1>1 DEF Decided, RecRow
  <1>6. rec' = [rec EXCEPT ![r].status = new.status, ![r].approvedBy = new.approvedBy]
    BY <1>2, <1>4 DEF CommitDecide
  <1>7. rec' = [rec EXCEPT ![r] = new]
    <2> HIDE DEF new
    <2> QED BY <1>1, <1>5, <1>6 DEF RequestInv, RequestsTypeOK, TypeOK
  <1>8. Decide(r, c.u, c.verb)
    BY <1>3, <1>7 DEF Decide, CommitDecide
  <1> QED BY <1>1, <1>3, <1>8 DEF Next

LEMMA FreshApply ==
  ASSUME RequestInv, NEW q \in Requests, CommitApply(q), Fresh(q)
  PROVE  Next
  <1>0. ~IsIdle(q)
    BY DEF CommitApply, IsIdle
  <1> DEFINE c == req[q]
             r == req[q].r
  <1>1. c \in Open /\ Loaded(q) /\ r \in Recs /\ rec[r] \in RecRow
    BY <1>0, AtCommit
  <1>2. c.phase = "create"
    BY DEF CommitApply
  <1>3. /\ rec[r] = c.seen
        /\ c.cur \in Superseding(KeyOf[r], "medium")
        /\ IsLatestVersion(KeyOf[r], c.latest)
    BY <1>2 DEF Fresh
  <1>4. /\ c.verb \in {"FULL", "CANARY"} /\ c.seen.status = "APPROVED" /\ r \in Validated
    BY <1>1, <1>2 DEF Loaded, Applying
  <1>5. c.latest \in {0} \cup VersionsOf(KeyOf[r])
    BY <1>3 DEF IsLatestVersion
  <1>6. PICK p \in NewIds : ~Exists(p) /\ InsertVersion(q, p, c.latest + 1)
    BY DEF CommitApply
  <1>7. Flushed(rec[r].superseded, c.seen.superseded, c.cur) = c.cur
    BY <1>3 DEF Flushed
  <1>8. ApplyWith(r, c.verb, p, c.cur, c.latest)
    BY <1>3, <1>6, <1>7 DEF InsertVersion, ApplyWith, NewVersion
  <1>9. Apply(r, c.verb)
    BY <1>3, <1>4, <1>5, <1>6, <1>8 DEF Apply
  <1> QED BY <1>1, <1>4, <1>9 DEF Next

LEMMA FreshRollback ==
  ASSUME RequestInv, NEW q \in Requests, CommitRollback(q), Fresh(q)
  PROVE  Next
  <1> USE LifecycleAssumption
  <1>0. ~IsIdle(q)
    BY DEF CommitRollback, IsIdle
  <1> DEFINE c == req[q]
             r == req[q].r
  <1>1. c \in Open /\ Loaded(q) /\ r \in Recs /\ c.seen \in RecRow
    BY <1>0, AtCommit
  <1>2. c.phase = "restore"
    BY DEF CommitRollback
  <1>3. /\ rec[r] = c.seen /\ c.seen.status = "APPLIED" /\ c.seen.applied # None
        /\ c.wasApplied = StatusOf(c.seen.applied)
        /\ c.wasSuperseded = StatusOf(c.seen.superseded)
    BY <1>1, <1>2 DEF Fresh, Loaded, LinksExist, RollingBack
  <1>4. /\ StatusOf(c.seen.applied) = policy[c.seen.applied].status
        /\ \A x \in PolicyIds : x = c.seen.superseded =>
             StatusOf(c.seen.superseded) = policy[x].status
    BY <1>3 DEF StatusOf
  <1>5. policy' = [x \in PolicyIds |->
          IF x = rec[r].superseded THEN [policy[x] EXCEPT !.status = "ACTIVE"]
          ELSE IF x = rec[r].applied THEN [policy[x] EXCEPT !.status = "ROLLED_BACK"]
          ELSE policy[x]]
    <2>1. \A x \in PolicyIds :
            /\ x = c.seen.superseded => Flushed(policy[x].status, c.wasSuperseded, "ACTIVE") = "ACTIVE"
            /\ x = c.seen.applied =>
                 Flushed(policy[x].status, c.wasApplied, "ROLLED_BACK") = "ROLLED_BACK"
      BY <1>3, <1>4 DEF Flushed
    <2>2. policy' = [x \in PolicyIds |->
            IF x = c.seen.superseded
              THEN [policy[x] EXCEPT !.status = Flushed(policy[x].status, c.wasSuperseded, "ACTIVE")]
            ELSE IF x = c.seen.applied
              THEN [policy[x] EXCEPT !.status = Flushed(policy[x].status, c.wasApplied, "ROLLED_BACK")]
            ELSE policy[x]]
      BY DEF CommitRollback
    <2> QED BY <1>3, <2>1, <2>2
  <1>6. Rollback(r)
    BY <1>3, <1>4, <1>5 DEF CommitRollback, Rollback
  <1> QED BY <1>1, <1>6 DEF Next

\* Every other step of a request leaves the vars alone.
LEMMA TablesMoveAtCommit ==
  ASSUME RequestsNext
  PROVE  \/ UNCHANGED vars
         \/ Next
         \/ \E q \in Requests : /\ CommitDecide(q) \/ CommitApply(q) \/ CommitRollback(q)
                                /\ Close(q)
  <1>1. ASSUME NEW r \in Recs, Analyze(r) PROVE Next
    BY <1>1 DEF Next
  <1>2. ASSUME NEW q \in Requests, NEW r \in Recs, NEW u, NEW verb, NEW phase,
               Begin(q, r, u, verb, phase)
        PROVE  UNCHANGED vars
    BY <1>2 DEF Begin, vars
  <1>3. ASSUME NEW q \in Requests,
               ReadActive(q) \/ ReadVersion(q) \/ ReadApplied(q) \/ ReadSuperseded(q) \/ Abort(q)
        PROVE  UNCHANGED vars
    BY <1>3 DEF ReadActive, ReadVersion, ReadApplied, ReadSuperseded, Abort, vars
  <1>4. ASSUME NEW q \in Requests, CommitDecide(q) \/ CommitApply(q) \/ CommitRollback(q)
        PROVE  Close(q)
    BY <1>4 DEF CommitDecide, CommitApply, CommitRollback, InsertVersion
  <1> QED BY <1>1, <1>2, <1>3, <1>4 DEF RequestsNext, BeginDecide, BeginApply, BeginRollback

LEMMA FreshCommit ==
  ASSUME RequestInv, RequestsNext, ~stale' PROVE [Next]_vars
  <1>1. ASSUME NEW q \in Requests, Close(q) PROVE Fresh(q)
    BY <1>1 DEF Close
  <1> QED BY <1>1, TablesMoveAtCommit, FreshDecide, FreshApply, FreshRollback

LEMMA VersionsKept ==
  ASSUME RequestInv, RequestsNext, NEW p \in PolicyIds, Exists(p)
  PROVE  /\ policy'[p] = [policy[p] EXCEPT !.status = policy'[p].status]
         /\ policy'[p].status # "ABSENT"
  <1>1. policy[p] \in PolicyRow /\ policy[p].status # "ABSENT"
    BY DEF RequestInv, RequestsTypeOK, TypeOK, Exists
  <1>2. CASE policy'[p] = policy[p]
    BY <1>1, <1>2 DEF PolicyRow
  <1>3. ASSUME NEW q \in Requests, CommitApply(q)
        PROVE  policy'[p] = policy[p] \/ policy'[p] = [policy[p] EXCEPT !.status = "SUPERSEDED"]
    <2> PICK n \in NewIds : ~Exists(n) /\ InsertVersion(q, n, req[q].latest + 1)
      BY <1>3 DEF CommitApply
    <2>1. p # n
      OBVIOUS
    <2> QED BY <2>1 DEF InsertVersion
  <1>4. ASSUME NEW q \in Requests, CommitRollback(q)
        PROVE  \E s \in {policy[p].status, "ACTIVE", "ROLLED_BACK"} :
                 policy'[p] = policy[p] \/ policy'[p] = [policy[p] EXCEPT !.status = s]
    BY <1>4 DEF CommitRollback, Flushed
  <1>5. \/ policy' = policy
        \/ \E q \in Requests : CommitApply(q) \/ CommitRollback(q)
    BY DEF RequestsNext, Analyze, BeginDecide, BeginApply, BeginRollback, Begin, ReadActive,
           ReadVersion, ReadApplied, ReadSuperseded, CommitDecide, Abort
  <1> QED BY <1>1, <1>2, <1>3, <1>4, <1>5 DEF PolicyRow

-----------------------------------------------------------------------------
(* Requests served one at a time. *)

\* What a request has read so far is still what it would read.
Current(q) ==
  LET c == req[q] IN
  /\ rec[c.r] = c.seen
  /\ c.phase \in {"version", "create"} => c.cur \in Superseding(KeyOf[c.r], "medium")
  /\ c.phase = "create" => IsLatestVersion(KeyOf[c.r], c.latest)
  /\ c.phase \in {"superseded", "restore"} => c.wasApplied = StatusOf(c.seen.applied)
  /\ c.phase = "restore" => c.wasSuperseded = StatusOf(c.seen.superseded)

\* No request is overtaken.
SerialInv ==
  \A q \in Requests : ~IsIdle(q) => /\ Current(q)
                                    /\ \A other \in Requests \ {q} : IsIdle(other)

\* What the reads of the versions return, as long as no version changes.
LEMMA SameReads ==
  ASSUME policy' = policy, NEW CONSTANT k, NEW CONSTANT v, NEW CONSTANT p
  PROVE  /\ Superseding(k, "medium")' = Superseding(k, "medium")
         /\ IsLatestVersion(k, v)' <=> IsLatestVersion(k, v)
         /\ StatusOf(p)' = StatusOf(p)
  <1>1. LiveAt(k, "medium")' = LiveAt(k, "medium")
    BY DEF LiveAt
  <1>2. ActiveCandidates(k, "medium")' = ActiveCandidates(k, "medium")
    BY <1>1 DEF ActiveCandidates
  <1>3. VersionsOf(k)' = VersionsOf(k)
    BY DEF VersionsOf, Exists
  <1>4. Superseding(k, "medium")' = Superseding(k, "medium")
    BY <1>1, <1>2 DEF Superseding
  <1>5. IsLatestVersion(k, v)' <=> IsLatestVersion(k, v)
    BY <1>3 DEF IsLatestVersion
  <1>6. StatusOf(p)' = StatusOf(p)
    BY DEF StatusOf
  <1> QED BY <1>4, <1>5, <1>6

LEMMA CurrentStays ==
  ASSUME NEW CONSTANT q, Current(q), req'[q] = req[q], policy' = policy,
         rec'[req[q].r] = rec[req[q].r]
  PROVE  Current(q)'
  <1> PICK c : c = req[q]
    OBVIOUS
  <1> PICK k : k = KeyOf[c.r]
    OBVIOUS
  <1>1. c.phase \in {"version", "create"} => c.cur \in Superseding(k, "medium")'
    BY SameReads DEF Current
  <1>2. c.phase = "create" => IsLatestVersion(k, c.latest)'
    BY SameReads DEF Current
  <1>3. /\ c.phase \in {"superseded", "restore"} => c.wasApplied = StatusOf(c.seen.applied)'
        /\ c.phase = "restore" => c.wasSuperseded = StatusOf(c.seen.superseded)'
    BY SameReads DEF Current
  <1> QED BY <1>1, <1>2, <1>3 DEF Current

LEMMA SerialInit == RequestsInit => SerialInv
  BY DEF RequestsInit, SerialInv, IsIdle, Idle

LEMMA SerialBegin ==
  ASSUME RequestInv, ~AdmitOverlap, NEW q \in Requests, NEW r \in Recs, NEW u, NEW verb,
         NEW phase \in {"decide", "active", "applied"}, Begin(q, r, u, verb, phase)
  PROVE  SerialInv'
  <1>1. /\ req'[q].phase = phase /\ req'[q].r = r /\ req'[q].seen = rec[r]
        /\ rec' = rec /\ policy' = policy
        /\ \A p \in Requests \ {q} : IsIdle(p)'
    BY DEF Begin, RequestInv, RequestsTypeOK, IsIdle
  <1>2. Current(q)'
    BY <1>1 DEF Current
  <1> QED BY <1>1, <1>2 DEF SerialInv

LEMMA SerialRead ==
  ASSUME RequestInv, SerialInv, NEW q \in Requests,
         ReadActive(q) \/ ReadVersion(q) \/ ReadApplied(q) \/ ReadSuperseded(q)
  PROVE  SerialInv'
  <1>1. ~IsIdle(q) /\ Current(q) /\ req[q] \in Open /\ \A p \in Requests \ {q} : IsIdle(p)
    <2>1. ~IsIdle(q)
      BY DEF IsIdle, ReadActive, ReadVersion, ReadApplied, ReadSuperseded
    <2> QED BY <2>1, OpenRequest DEF SerialInv, RequestInv
  <1>2. rec' = rec /\ policy' = policy /\ req \in [Requests -> {Idle} \cup Open]
    BY DEF ReadActive, ReadVersion, ReadApplied, ReadSuperseded, RequestInv, RequestsTypeOK
  <1>3. Current(q)' /\ \A p \in Requests \ {q} : req'[p] = req[p]
    <2>1. CASE ReadActive(q)
      <3> PICK cur \in Superseding(KeyOf[req[q].r], "medium") :
            req' = [req EXCEPT ![q].phase = "version", ![q].cur = cur]
        BY <2>1 DEF ReadActive
      <3>1. /\ req'[q].phase = "version" /\ req'[q].cur = cur
            /\ req'[q].r = req[q].r /\ req'[q].seen = req[q].seen
            /\ \A p \in Requests \ {q} : req'[p] = req[p]
        BY <1>1, <1>2 DEF Open
      <3>2. req'[q].cur \in Superseding(KeyOf[req[q].r], "medium")'
        BY <1>2, <3>1 DEF Superseding, LiveAt, ActiveCandidates
      <3> QED BY <1>1, <1>2, <3>1, <3>2 DEF Current
    <2>2. CASE ReadVersion(q)
      <3> PICK v \in {0} \cup VersionsOf(KeyOf[req[q].r]) :
            /\ IsLatestVersion(KeyOf[req[q].r], v)
            /\ req' = [req EXCEPT ![q].phase = "create", ![q].latest = v]
        BY <2>2 DEF ReadVersion
      <3>1. /\ req'[q].phase = "create" /\ req'[q].latest = v /\ req'[q].cur = req[q].cur
            /\ req'[q].r = req[q].r /\ req'[q].seen = req[q].seen
            /\ \A p \in Requests \ {q} : req'[p] = req[p]
        BY <1>1, <1>2 DEF Open
      <3>2. req[q].cur \in Superseding(KeyOf[req[q].r], "medium")
        BY <1>1, <2>2 DEF Current, ReadVersion
      <3>3. req'[q].cur \in Superseding(KeyOf[req[q].r], "medium")'
        BY <1>2, <3>1, <3>2 DEF Superseding, LiveAt, ActiveCandidates
      <3>4. IsLatestVersion(KeyOf[req[q].r], req[q].latest)'
        <4> PICK k : k = KeyOf[req[q].r]
          OBVIOUS
        <4>1. IsLatestVersion(k, v)'
          BY <1>2, SameReads
        <4> QED BY <3>1, <4>1
      <3> QED BY <1>1, <1>2, <3>1, <3>3, <3>4 DEF Current
    <2>3. CASE ReadApplied(q)
      <3>1. /\ req'[q].phase = "superseded" /\ req'[q].wasApplied = StatusOf(req[q].seen.applied)
            /\ req'[q].r = req[q].r /\ req'[q].seen = req[q].seen
            /\ \A p \in Requests \ {q} : req'[p] = req[p]
        BY <1>1, <1>2, <2>3 DEF Open, ReadApplied
      <3> QED BY <1>1, <1>2, <3>1 DEF Current, StatusOf
    <2>4. CASE ReadSuperseded(q)
      <3>1. /\ req'[q].phase = "restore"
            /\ req'[q].wasSuperseded = StatusOf(req[q].seen.superseded)
            /\ req'[q].wasApplied = req[q].wasApplied
            /\ req'[q].r = req[q].r /\ req'[q].seen = req[q].seen
            /\ \A p \in Requests \ {q} : req'[p] = req[p]
        BY <1>1, <1>2, <2>4 DEF Open, ReadSuperseded
      <3> QED BY <1>1, <1>2, <2>4, <3>1 DEF Current, StatusOf, ReadSuperseded
    <2> QED BY <2>1, <2>2, <2>3, <2>4
  <1> QED BY <1>1, <1>3 DEF SerialInv, IsIdle

LEMMA SerialEnd ==
  ASSUME RequestInv, SerialInv, NEW q \in Requests, ~IsIdle(q), req' = [req EXCEPT ![q] = Idle]
  PROVE  SerialInv'
  BY DEF RequestInv, RequestsTypeOK, SerialInv, IsIdle, Idle

\* An analysis inserts a row that no request has read.
LEMMA SerialAnalyze ==
  ASSUME RequestInv, SerialInv, NEW r \in Recs, Analyze(r), UNCHANGED <<req, stale>>
  PROVE  SerialInv'
  <1> SUFFICES ASSUME NEW q \in Requests, ~IsIdle(q)'
               PROVE  Current(q)' /\ \A other \in Requests \ {q} : IsIdle(other)'
    BY DEF SerialInv
  <1>1. ~IsIdle(q) /\ Current(q) /\ \A other \in Requests \ {q} : IsIdle(other)
    BY DEF SerialInv, IsIdle
  <1>2. req[q].r \in Recs /\ rec[req[q].r].status # "ABSENT"
    BY <1>1, AtCommit DEF Loaded
  <1>3. rec'[req[q].r] = rec[req[q].r] /\ policy' = policy /\ req' = req
    BY <1>2 DEF Analyze, RequestInv, RequestsTypeOK, TypeOK
  <1>4. Current(q)'
    BY <1>1, <1>3, CurrentStays
  <1> QED BY <1>1, <1>3, <1>4 DEF IsIdle

LEMMA NextSerialInv ==
  ASSUME ~AdmitOverlap PROVE RequestInv /\ SerialInv /\ [RequestsNext]_requestVars => SerialInv'
  <1> SUFFICES ASSUME RequestInv, SerialInv, [RequestsNext]_requestVars PROVE SerialInv'
    OBVIOUS
  <1>1. CASE UNCHANGED requestVars
    <2>1. rec' = rec /\ policy' = policy /\ req' = req
      BY <1>1 DEF requestVars
    <2>2. ASSUME NEW q \in Requests, ~IsIdle(q) PROVE Current(q)'
      BY <2>1, <2>2, CurrentStays DEF SerialInv
    <2> QED BY <2>1, <2>2 DEF SerialInv, IsIdle
  <1>2. ASSUME NEW r \in Recs, Analyze(r), UNCHANGED <<req, stale>> PROVE SerialInv'
    BY <1>2, SerialAnalyze
  <1>3. ASSUME NEW q \in Requests, NEW r \in Recs, NEW u, NEW verb,
               NEW phase \in {"decide", "active", "applied"}, Begin(q, r, u, verb, phase)
        PROVE  SerialInv'
    BY <1>3, SerialBegin
  <1>4. ASSUME NEW q \in Requests,
               ReadActive(q) \/ ReadVersion(q) \/ ReadApplied(q) \/ ReadSuperseded(q)
        PROVE  SerialInv'
    BY <1>4, SerialRead
  <1>5. ASSUME NEW q \in Requests,
               CommitDecide(q) \/ CommitApply(q) \/ CommitRollback(q) \/ Abort(q)
        PROVE  SerialInv'
    <2>1. ~IsIdle(q) /\ req' = [req EXCEPT ![q] = Idle]
      BY <1>5 DEF CommitDecide, CommitApply, CommitRollback, InsertVersion, Abort, Close, IsIdle
    <2> QED BY <2>1, SerialEnd
  <1> QED BY <1>1, <1>2, <1>3, <1>4, <1>5 DEF RequestsNext, BeginDecide, BeginApply, BeginRollback

\* Then every step is one of the lifecycle, or leaves its vars alone.
LEMMA SerialStep ==
  ASSUME RequestInv, SerialInv, RequestsNext PROVE [Next]_vars
  <1>1. ASSUME NEW q \in Requests, CommitDecide(q) \/ CommitApply(q) \/ CommitRollback(q)
        PROVE  Fresh(q)
    <2>1. ~IsIdle(q)
      BY <1>1 DEF CommitDecide, CommitApply, CommitRollback, IsIdle
    <2> QED BY <2>1 DEF SerialInv, Current, Fresh
  <1> QED BY <1>1, TablesMoveAtCommit, FreshDecide, FreshApply, FreshRollback
          DEF vars

\* The instance the refinement names is the lifecycle itself.
LEMMA LifecycleIsTheSame ==
  /\ Lifecycle!Init <=> Init
  /\ [Lifecycle!Next]_Lifecycle!vars <=> [Next]_vars
  <1>1. Lifecycle!Init <=> Init
    BY DEF Lifecycle!Init, Init, Lifecycle!NewRec, NewRec, Lifecycle!PolicyIds, PolicyIds,
           Lifecycle!SeedPolicy, SeedPolicy, Lifecycle!NoPolicy, NoPolicy
  <1>2. UNCHANGED Lifecycle!vars <=> UNCHANGED vars
    BY DEF Lifecycle!vars, vars
  <1>3. ASSUME NEW r \in Recs PROVE Lifecycle!Analyze(r) <=> Analyze(r)
    BY DEF Lifecycle!Analyze, Analyze, Lifecycle!NewRec, NewRec
  <1>4. ASSUME NEW r \in Recs, NEW u, NEW decision
        PROVE  Lifecycle!Decide(r, u, decision) <=> Decide(r, u, decision)
    BY DEF Lifecycle!Decide, Decide, Lifecycle!MayDecide, MayDecide, Lifecycle!CanAutoApprove,
           CanAutoApprove, Lifecycle!Decided, Decided, Lifecycle!ApproverName, ApproverName,
           Lifecycle!SystemApprover, SystemApprover
  <1>5. ASSUME NEW r \in Recs, NEW mode PROVE Lifecycle!Apply(r, mode) <=> Apply(r, mode)
    BY DEF Lifecycle!Apply, Apply, Lifecycle!Superseding, Superseding, Lifecycle!LiveAt, LiveAt,
           Lifecycle!Live, Live, Lifecycle!ActiveCandidates, ActiveCandidates,
           Lifecycle!VersionsOf, VersionsOf, Lifecycle!Exists, Exists,
           Lifecycle!IsLatestVersion, IsLatestVersion, Lifecycle!ApplyWith, ApplyWith,
           Lifecycle!NewVersion, NewVersion, Lifecycle!ModeStatus, ModeStatus,
           Lifecycle!PolicyIds, PolicyIds
  <1>6. ASSUME NEW r \in Recs PROVE Lifecycle!Rollback(r) <=> Rollback(r)
    BY DEF Lifecycle!Rollback, Rollback, Lifecycle!PolicyIds, PolicyIds, Lifecycle!Live, Live
  <1> QED BY <1>1, <1>2, <1>3, <1>4, <1>5, <1>6 DEF Lifecycle!Next, Next

-----------------------------------------------------------------------------
(* The theorems about requests. *)

(***************************************************************************)
(* Every reachable state, overlap admitted or not, satisfies the inductive *)
(* invariant: types, the approvals and links of every row, and what each   *)
(* open request has read.                                                  *)
(***************************************************************************)
THEOREM RequestsInductiveInvariant == RequestsSpec => []RequestInv
  BY RequestInitInv, NextRequestInv, PTL DEF RequestsSpec

(***************************************************************************)
(* Type correctness of the requests: rows, links and what each has read.   *)
(***************************************************************************)
THEOREM RequestsTypeCorrectness == RequestsSpec => []RequestsTypeOK
  <1>1. RequestInv => RequestsTypeOK
    BY DEF RequestInv
  <1> QED BY <1>1, RequestsInductiveInvariant, PTL

(***************************************************************************)
(* However requests overlap, whatever a commit overwrites, no version gets *)
(* into the table but by someone entitled to approve it.                   *)
(***************************************************************************)
THEOREM OverlapNeedsApproval == RequestsSpec => []VersionsWereApproved
  <1>1. RequestInv => VersionsWereApproved
    BY DEF RequestInv
  <1> QED BY <1>1, RequestsInductiveInvariant, PTL

(***************************************************************************)
(* However requests overlap, a version once written keeps its content and  *)
(* stays in the table: a commit changes its status and nothing else.       *)
(***************************************************************************)
THEOREM OverlapKeepsVersions == RequestsSpec => VersionsAreImmutable
  <1> DEFINE Kept ==
        \A p \in PolicyIds :
          Exists(p) => /\ policy'[p] = [policy[p] EXCEPT !.status = policy'[p].status]
                       /\ policy'[p].status # "ABSENT"
  <1>1. RequestInv /\ [RequestsNext]_requestVars => [Kept]_requestVars
    BY VersionsKept
  <1> QED BY <1>1, RequestsInductiveInvariant, PTL DEF RequestsSpec, VersionsAreImmutable

(***************************************************************************)
(* A request whose reads still hold when it commits is one atomic request  *)
(* of the lifecycle, whatever ran between its reads.                       *)
(***************************************************************************)
THEOREM FreshCommitsAreRequests == RequestsSpec => FreshCommitsAreAtomic
  <1>1. RequestInv /\ [RequestsNext]_requestVars => [~stale' => [Next]_vars]_requestVars
    BY FreshCommit
  <1> QED BY <1>1, RequestsInductiveInvariant, PTL DEF RequestsSpec, FreshCommitsAreAtomic

(***************************************************************************)
(* Requests served one at a time, each in its several steps and with       *)
(* analyses in between, implement the atomic lifecycle.                    *)
(***************************************************************************)
THEOREM SerialRequestsRefine == ~AdmitOverlap => (RequestsSpec => ImplementsLifecycle)
  <1> SUFFICES ASSUME ~AdmitOverlap PROVE RequestsSpec => ImplementsLifecycle
    OBVIOUS
  <1>1. RequestsInit => Init
    BY DEF RequestsInit
  <1>2. RequestInv /\ SerialInv /\ [RequestsNext]_requestVars => [Next]_vars
    <2>1. UNCHANGED requestVars => UNCHANGED vars
      BY DEF requestVars, vars
    <2> QED BY <2>1, SerialStep
  <1>3. RequestsSpec => []SerialInv
    BY SerialInit, NextSerialInv, RequestsInductiveInvariant, PTL DEF RequestsSpec
  <1>4. RequestsSpec => Spec
    BY <1>1, <1>2, <1>3, RequestsInductiveInvariant, PTL DEF RequestsSpec, Spec
  <1> QED BY <1>4, LifecycleIsTheSame, PTL DEF Spec, ImplementsLifecycle, Lifecycle!Spec

(***************************************************************************)
(* So one at a time, at most one version of a route is live until a        *)
(* version that is no longer live is rolled back; overlap can break this.  *)
(***************************************************************************)
THEOREM SerialRequestsKeepOneLive ==
  ~AdmitOverlap => (RequestsSpec => []OneLiveWhileInOrder)
  <1> SUFFICES ASSUME ~AdmitOverlap PROVE RequestsSpec => []OneLiveWhileInOrder
    OBVIOUS
  <1>1. RequestsSpec => Spec
    BY SerialRequestsRefine, LifecycleIsTheSame, PTL DEF Spec, ImplementsLifecycle, Lifecycle!Spec
  <1> QED BY <1>1, AtMostOneLive, PTL
=============================================================================

---------------------------- MODULE AccessProofs ----------------------------
(***************************************************************************)
(* Proofs about the way of a request to its handler, for any tokens, rows, *)
(* limits and windows: a query sees what the record check allows, and the  *)
(* limiter keeps its ceiling and its word.                                 *)
(***************************************************************************)
EXTENDS Access, TLAPS

-----------------------------------------------------------------------------
(* The scope of a query and the check of a record.                          *)

(***************************************************************************)
(* The claims of a token give a principal of its tenant whose assignments  *)
(* are well scoped.                                                        *)
(***************************************************************************)
LEMMA ClaimsAreWellScoped ==
  ASSUME NEW token \in Tokens, token.tenant # None
  PROVE  WellScoped(PrincipalOf(token)) /\ PrincipalOf(token).tenant \in Tenants
<1>1. token.tenant \in Tenants /\ token.roles \subseteq Entry
  BY TokenAssumption
<1>2. token.tenant # None
  OBVIOUS
<1>3. ASSUME NEW e \in token.roles, e.shape = "scoped" => e.type \in ScopeTypes /\ e.id # None
      PROVE  LET a == Parsed(e, token.tenant)
             IN /\ a.type \in ScopeTypes
                /\ a.id # None
                /\ a.type = "PLANT" => a.id \in Plants
                /\ a.type = "DEPARTMENT" => a.id \in Departments
  <2>1. CASE e.shape = "name"
    BY <1>1, <1>2, <2>1 DEF Parsed, ScopeTypes
  <2>2. CASE e.shape # "name"
    <3>1. e \in Entry /\ e.shape = "scoped"
      BY <1>1, <2>2 DEF Entry
    <3> QED
      BY <1>3, <2>2, <3>1 DEF Parsed, Entry, ScopeTypes
  <2> QED
    BY <2>1, <2>2
<1>4. \A a \in Assignments(token.roles, token.tenant) :
         \E e \in token.roles : /\ e.shape = "scoped" => e.type \in ScopeTypes /\ e.id # None
                                /\ a = Parsed(e, token.tenant)
  BY DEF Assignments
<1> QED
  BY <1>1, <1>3, <1>4 DEF WellScoped, PrincipalOf

LEMMA BranchesAreTyped ==
  ASSUME NEW p, NEW permission, WellScoped(p)
  PROVE  Branches(p, permission) \subseteq Branch
BY DEF Branches, BranchOf, Branch, TenantWide, Granting, WellScoped

(***************************************************************************)
(* A branch covers a row of the tenant exactly when the assignment it      *)
(* stands for does.                                                        *)
(***************************************************************************)
LEMMA BranchOfCovers ==
  ASSUME NEW p, WellScoped(p), NEW a \in p.assignments, NEW row, row.tenant = p.tenant,
         a.type = "TENANT" => a.id = p.tenant
  PROVE  BranchCovers(BranchOf(a), row) <=> AssignmentCovers(a, row)
BY DEF BranchCovers, BranchOf, AssignmentCovers, WellScoped, ScopeTypes

(***************************************************************************)
(* The unnarrowed union covers exactly what some granting assignment does. *)
(***************************************************************************)
LEMMA BranchesCover ==
  ASSUME NEW p, NEW permission, WellScoped(p), NEW row, row.tenant = p.tenant
  PROVE  (\E b \in Branches(p, permission) : BranchCovers(b, row))
            <=> \E a \in Granting(p, permission) : AssignmentCovers(a, row)
<1> DEFINE usable == {a \in Granting(p, permission) : a.type = "TENANT" => a.id = p.tenant}
<1>1. \A a \in usable : /\ a \in p.assignments
                        /\ a.type = "TENANT" => a.id = p.tenant
  BY DEF Granting
<1>2. \A a \in usable : BranchCovers(BranchOf(a), row) <=> AssignmentCovers(a, row)
  BY <1>1, BranchOfCovers
<1>3. \A a \in Granting(p, permission) : AssignmentCovers(a, row) => a \in usable
  BY DEF Granting, AssignmentCovers, WellScoped
<1>4. BranchCovers(TenantWide, row)
  BY DEF BranchCovers, TenantWide
<1>5. (\E b \in Branches(p, permission) : BranchCovers(b, row))
         <=> \E a \in usable : BranchCovers(BranchOf(a), row)
  BY <1>4 DEF Branches
<1> QED
  BY <1>2, <1>3, <1>5

(***************************************************************************)
(* A row of the tenant is covered by the resolved scope exactly when its   *)
(* record check passes and it is of the plant and department asked for.    *)
(***************************************************************************)
LEMMA ResolvedCovers ==
  ASSUME NEW p, NEW permission, WellScoped(p), NEW row, row.tenant = p.tenant,
         NEW plant \in Plants \union {None}, NEW department \in Departments \union {None}
  PROVE  (\E b \in Resolve(p, permission, plant, department) : BranchCovers(b, row))
            <=> /\ CanAccess(p, row, permission)
                /\ plant \in {None, row.plant}
                /\ department \in {None, row.department}
<1> DEFINE all == Branches(p, permission)
           ofPlant == IF plant = None THEN all ELSE NarrowedToPlant(all, plant)
<1>1. all \subseteq Branch /\ ofPlant \subseteq Branch
  <2>1. all \subseteq Branch
    BY BranchesAreTyped
  <2>2. CASE plant = None
    BY <2>1, <2>2
  <2>3. CASE plant # None
    BY <2>1, <2>3 DEF NarrowedToPlant, Branch
  <2> QED
    BY <2>1, <2>2, <2>3
<1>2. (\E b \in all : BranchCovers(b, row)) <=> CanAccess(p, row, permission)
  BY BranchesCover DEF CanAccess, RecordStatus
<1>3. (\E b \in ofPlant : BranchCovers(b, row))
         <=> plant \in {None, row.plant} /\ \E b \in all : BranchCovers(b, row)
  <2>1. CASE plant = None
    BY <2>1
  <2>2. CASE plant # None
    <3>1. (\E b \in {[b EXCEPT !.plant = plant] : b \in {x \in all : x.plant \in {None, plant}}} :
              BranchCovers(b, row))
             <=> row.plant = plant /\ \E b \in all : BranchCovers(b, row)
      <4>1. \A b \in all : b.plant \in {None, plant} =>
               (BranchCovers([b EXCEPT !.plant = plant], row)
                  <=> row.plant = plant /\ BranchCovers(b, row))
        BY <1>1, <2>2 DEF Branch, BranchCovers
      <4>2. \A b \in all : row.plant = plant /\ BranchCovers(b, row) => b.plant \in {None, plant}
        BY DEF BranchCovers
      <4> DEFINE kept == {x \in all : x.plant \in {None, plant}}
                 Pinned(b) == [b EXCEPT !.plant = plant]
      <4>3. (\E b \in {Pinned(x) : x \in kept} : BranchCovers(b, row))
               <=> \E x \in kept : BranchCovers(Pinned(x), row)
        OBVIOUS
      <4>4. \A x \in kept : BranchCovers(Pinned(x), row)
                             <=> row.plant = plant /\ BranchCovers(x, row)
        BY <4>1
      <4>5. (\E x \in kept : BranchCovers(Pinned(x), row))
               <=> row.plant = plant /\ \E b \in all : BranchCovers(b, row)
        <5> HIDE DEF Pinned, all
        <5> QED BY <4>2, <4>4
      <4> QED
        BY <4>3, <4>5
    <3> QED
      BY <2>2, <3>1 DEF NarrowedToPlant
  <2> QED
    BY <2>1, <2>2
<1>4. (\E b \in Resolve(p, permission, plant, department) : BranchCovers(b, row))
         <=> department \in {None, row.department} /\ \E b \in ofPlant : BranchCovers(b, row)
  <2>1. CASE department = None
    BY <2>1 DEF Resolve
  <2>2. CASE department # None
    <3>1. \A b \in ofPlant : b.department \in {None, department} =>
             (BranchCovers([b EXCEPT !.department = department], row)
                <=> row.department = department /\ BranchCovers(b, row))
      BY <1>1, <2>2 DEF Branch, BranchCovers
    <3>2. \A b \in ofPlant : row.department = department /\ BranchCovers(b, row)
                                => b.department \in {None, department}
      BY DEF BranchCovers
    <3>3. Resolve(p, permission, plant, department) = NarrowedToDepartment(ofPlant, department)
      BY <2>2 DEF Resolve
    <3> DEFINE kept == {x \in ofPlant : x.department \in {None, department}}
               Pinned(b) == [b EXCEPT !.department = department]
    <3>4. (\E b \in {Pinned(x) : x \in kept} : BranchCovers(b, row))
             <=> \E x \in kept : BranchCovers(Pinned(x), row)
      OBVIOUS
    <3>5. \A x \in kept : BranchCovers(Pinned(x), row)
                           <=> row.department = department /\ BranchCovers(x, row)
      BY <3>1
    <3>6. (\E x \in kept : BranchCovers(Pinned(x), row))
             <=> row.department = department /\ \E b \in ofPlant : BranchCovers(b, row)
      <4> HIDE DEF Pinned, ofPlant
      <4> QED BY <3>2, <3>5
    <3> QED
      BY <2>2, <3>3, <3>4, <3>6 DEF NarrowedToDepartment
  <2> QED
    BY <2>1, <2>2
<1> QED
  BY <1>2, <1>3, <1>4

(***************************************************************************)
(* A stored row survives the query's predicate exactly when the record     *)
(* check would let the same caller touch it, narrowed to what was asked.   *)
(***************************************************************************)
THEOREM FilterAgreesWithRecordCheck ==
  ASSUME NEW p, NEW permission, WellScoped(p), NEW row,
         NEW plant \in Plants \union {None}, NEW department \in Departments \union {None}
  PROVE  Selects(p.tenant, Resolve(p, permission, plant, department), row)
            <=> /\ CanAccess(p, row, permission)
                /\ plant \in {None, row.plant}
                /\ department \in {None, row.department}
<1> DEFINE B == Resolve(p, permission, plant, department)
<1>1. CASE row.tenant # p.tenant
  BY <1>1 DEF Selects, CanAccess, RecordStatus
<1>2. CASE row.tenant = p.tenant
  <2>1. BranchCovers(TenantWide, row)
    BY DEF BranchCovers, TenantWide
  <2>2. Selects(p.tenant, B, row) <=> \E b \in B : BranchCovers(b, row)
    BY <1>2, <2>1 DEF Selects
  <2> QED
    BY <1>2, <2>2, ResolvedCovers
<1> QED
  BY <1>1, <1>2

(***************************************************************************)
(* A query is refused exactly when no ownership whatever is both within    *)
(* the caller's reach and in the plant and department asked for.           *)
(***************************************************************************)
THEOREM RefusedExactlyOutOfReach ==
  ASSUME NEW p, NEW permission, WellScoped(p), p.tenant \in Tenants,
         NEW plant \in Plants \union {None}, NEW department \in Departments \union {None}
  PROVE  Resolve(p, permission, plant, department) = {}
            <=> ~\E r \in Ownership :
                    /\ CanAccess(p, r, permission)
                    /\ plant \in {None, r.plant}
                    /\ department \in {None, r.department}
<1> DEFINE B == Resolve(p, permission, plant, department)
<1>1. B \subseteq Branch
  <2>1. Branches(p, permission) \subseteq Branch
    BY BranchesAreTyped
  <2> QED
    BY <2>1 DEF Resolve, NarrowedToPlant, NarrowedToDepartment, Branch
<1>2. ASSUME NEW b \in B
      PROVE  \E r \in Ownership : r.tenant = p.tenant /\ BranchCovers(b, r)
  <2> DEFINE r == [tenant |-> p.tenant, plant |-> b.plant, department |-> b.department]
  <2>1. r \in Ownership /\ r.tenant = p.tenant /\ BranchCovers(b, r)
    BY <1>1, <1>2 DEF Ownership, Branch, BranchCovers
  <2> QED
    BY <2>1
<1>3. ASSUME NEW r \in Ownership, r.tenant = p.tenant
      PROVE  (\E b \in B : BranchCovers(b, r))
                <=> /\ CanAccess(p, r, permission)
                    /\ plant \in {None, r.plant}
                    /\ department \in {None, r.department}
  BY <1>3, ResolvedCovers
<1>4. \A r : CanAccess(p, r, permission) => r.tenant = p.tenant
  BY DEF CanAccess, RecordStatus
<1> HIDE DEF B
<1> QED
  BY <1>2, <1>3, <1>4 DEF B

-----------------------------------------------------------------------------
(* The rate limiter.                                                        *)

(***************************************************************************)
(* What a key's deque is: the last admissions of the caller, at most       *)
(* max_requests of them, everything before them out of the window; a       *)
(* promise is the instant its oldest entry leaves the window.              *)
(***************************************************************************)
CounterInv(k) ==
    LET h == hits[Joined(k)]
        g == granted[k]
    IN /\ Len(h) <= Len(g)
       /\ Len(h) <= MaxRequests
       /\ \A i \in 1..Len(h) : h[i] = g[Len(g) - Len(h) + i]
       /\ \A i \in 1..Len(g) - Len(h) : g[i] <= now - Window
       /\ \A i \in 1..Len(g) : i + MaxRequests <= Len(g) => g[i + MaxRequests] - g[i] >= Window
       /\ told[k] # None => Len(h) = MaxRequests /\ told[k] = h[1] + Window

LimiterInv == TypeOK /\ \A k \in Callers : CounterInv(k)

(***************************************************************************)
(* What popping leaves of a deque.                                         *)
(***************************************************************************)
LEMMA Popped ==
  ASSUME NEW q \in Seq(Nat), NEW n \in 0..Len(q)
  PROVE  LET recent == SubSeq(q, n + 1, Len(q))
         IN /\ recent \in Seq(Nat)
            /\ Len(recent) = Len(q) - n
            /\ \A i \in 1..Len(recent) : recent[i] = q[n + i]
<1> DEFINE recent == SubSeq(q, n + 1, Len(q))
<1>1. n + 1 \in Nat /\ Len(q) \in Nat /\ n \in Nat
  OBVIOUS
<1>2. recent \in Seq(Nat)
  BY <1>1
<1>3. Len(recent) = Len(q) - n
  BY <1>1
<1>4. \A i \in 1..Len(q) - n : recent[i] = q[n + i]
  BY <1>1
<1> HIDE DEF recent
<1>5. \A i \in 1..Len(recent) : recent[i] = q[n + i]
  BY <1>3, <1>4
<1> QED
  BY <1>2, <1>3, <1>5 DEF recent

LEMMA Appended ==
  ASSUME NEW q \in Seq(Nat), NEW t \in Nat
  PROVE  /\ Append(q, t) \in Seq(Nat)
         /\ Len(q) \in Nat
         /\ Len(Append(q, t)) = Len(q) + 1
         /\ Append(q, t)[Len(q) + 1] = t
         /\ \A i \in 1..Len(q) : Append(q, t)[i] = q[i] /\ q[i] \in Nat
OBVIOUS

LEMMA CallerIsAKey ==
  ASSUME NEW token \in Tokens, NEW permission, Authorized(token, permission)
  PROVE  /\ token.tenant # None
         /\ CallerOf(token) \in Callers
         /\ RateLimitKey(token) = Joined(CallerOf(token))
BY TokenAssumption DEF Authorized, TokenFault, CallerOf, RateLimitKey, Callers

(***************************************************************************)
(* Every caller has a counter, which no other caller shares.               *)
(***************************************************************************)
LEMMA OwnKey ==
  ASSUME NEW c \in Callers
  PROVE  /\ Joined(c) \in Keys
         /\ \A d \in Callers : d # c => Joined(d) # Joined(c)
BY KeyAssumption DEF Keys

(***************************************************************************)
(* One check of the limiter, for the deque h and the admissions g of the   *)
(* key: refusing keeps the counter's invariant.                            *)
(***************************************************************************)
LEMMA RefusalKeepsCounter ==
  ASSUME LimiterInv, NEW k \in Callers, NEW n \in 0..Len(hits[Joined(k)]), Pops(hits[Joined(k)], n),
         NEW recent, recent = SubSeq(hits[Joined(k)], n + 1, Len(hits[Joined(k)])),
         Len(recent) >= MaxRequests
  PROVE  n = 0 /\ recent = hits[Joined(k)] /\ Len(recent) = MaxRequests
         /\ recent[1] \in Nat /\ recent[1] > now - Window
<1>1. hits[Joined(k)] \in Seq(Nat) /\ now \in Nat /\ Len(hits[Joined(k)]) <= MaxRequests
  BY OwnKey DEF LimiterInv, TypeOK, CounterInv
<1>2. Len(recent) = Len(hits[Joined(k)]) - n /\ \A i \in 1..Len(recent) : recent[i] = hits[Joined(k)][n + i]
  BY <1>1, Popped
<1>3. n = 0 /\ Len(recent) = MaxRequests
  BY <1>1, <1>2, LimitAssumption
<1>4. recent = hits[Joined(k)]
  BY <1>1, <1>3
<1>5. recent[1] \in Nat /\ ~Outside(hits[Joined(k)][1])
  BY <1>1, <1>3, <1>4, LimitAssumption DEF Pops
<1> QED
  BY <1>1, <1>3, <1>4, <1>5, LimitAssumption DEF Outside

(***************************************************************************)
(* Admitting keeps it too: with fewer than max_requests left, whatever is  *)
(* max_requests places back has left the window.                           *)
(***************************************************************************)
LEMMA AdmissionKeepsCounter ==
  ASSUME LimiterInv, NEW k \in Callers, NEW n \in 0..Len(hits[Joined(k)]), Pops(hits[Joined(k)], n),
         Len(SubSeq(hits[Joined(k)], n + 1, Len(hits[Joined(k)]))) < MaxRequests
  PROVE  LET h == Append(SubSeq(hits[Joined(k)], n + 1, Len(hits[Joined(k)])), now)
             g == Append(granted[k], now)
         IN /\ h \in Seq(Nat) /\ g \in Seq(Nat)
            /\ Len(h) <= Len(g)
            /\ Len(h) <= MaxRequests
            /\ \A i \in 1..Len(h) : h[i] = g[Len(g) - Len(h) + i]
            /\ \A i \in 1..Len(g) - Len(h) : g[i] <= now - Window
            /\ \A i \in 1..Len(g) : i + MaxRequests <= Len(g) => g[i + MaxRequests] - g[i] >= Window
<1> DEFINE q == hits[Joined(k)]
           o == granted[k]
           lq == Len(q)
           lo == Len(o)
           recent == SubSeq(q, n + 1, lq)
           h == Append(recent, now)
           g == Append(o, now)
<1>1. q \in Seq(Nat) /\ o \in Seq(Nat) /\ now \in Nat /\ n \in 0..lq
  BY OwnKey DEF LimiterInv, TypeOK
<1>2. /\ lq <= lo
      /\ \A i \in 1..lq : q[i] = o[(lo - lq) + i]
      /\ \A i \in 1..(lo - lq) : o[i] <= now - Window
      /\ \A i \in 1..lo : i + MaxRequests <= lo => o[i + MaxRequests] - o[i] >= Window
  BY DEF LimiterInv, CounterInv
<1>3. recent \in Seq(Nat) /\ Len(recent) = lq - n
      /\ \A i \in 1..Len(recent) : recent[i] = q[n + i]
  BY <1>1, Popped
<1>4. /\ g \in Seq(Nat) /\ lo \in Nat
      /\ Len(g) = lo + 1 /\ g[lo + 1] = now
      /\ \A i \in 1..lo : g[i] = o[i] /\ o[i] \in Nat
  BY <1>1, Appended
<1>5. /\ h \in Seq(Nat) /\ lq \in Nat
      /\ Len(h) = Len(recent) + 1 /\ h[Len(recent) + 1] = now
      /\ \A i \in 1..Len(recent) : h[i] = recent[i]
  BY <1>1, <1>3, Appended
<1>6. \A i \in 1..n : q[i] <= now - Window
  BY DEF Pops, Outside
<1>7. MaxRequests \in Nat /\ MaxRequests >= 1 /\ Window \in Nat
  BY LimitAssumption
<1>8. n \in 0..lq /\ lq - n < MaxRequests
  BY <1>1, <1>3
<1>9. Len(h) = lq - n + 1 /\ h[lq - n + 1] = now /\ \A i \in 1..(lq - n) : h[i] = q[n + i]
  BY <1>3, <1>5
<1>10. lq <= lo /\ lq \in Nat /\ lo \in Nat /\ Len(g) = lo + 1 /\ Len(h) = lq - n + 1
  BY <1>2, <1>4, <1>5, <1>9
<1> HIDE DEF h, g, recent, lq, lo, q, o
<1>11. Len(g) - Len(h) = lo - lq + n /\ Len(h) <= Len(g) /\ Len(h) <= MaxRequests
  BY <1>7, <1>8, <1>10
<1>12. ASSUME NEW i \in 1..(lo - lq + n)
       PROVE  i \in 1..lo /\ o[i] <= now - Window
  <2>1. CASE i <= lo - lq
    BY <1>2, <1>8, <1>10, <2>1
  <2>2. CASE i > lo - lq
    <3>1. i - (lo - lq) \in 1..n /\ i - (lo - lq) \in 1..lq /\ (lo - lq) + (i - (lo - lq)) = i
          /\ i \in 1..lo
      BY <1>8, <1>10, <2>2
    <3>2. q[i - (lo - lq)] = o[i]
      BY <1>2, <3>1
    <3> QED
      BY <1>6, <3>1, <3>2
  <2> QED
    BY <1>8, <1>10, <2>1, <2>2
<1>13. ASSUME NEW i \in 1..(lq - n + 1)
       PROVE  h[i] = g[lo - lq + n + i]
  <2>1. CASE i = lq - n + 1
    <3>1. lo - lq + n + i = lo + 1
      BY <1>8, <1>10, <2>1
    <3> QED
      BY <1>4, <1>9, <2>1, <3>1
  <2>2. CASE i # lq - n + 1
    <3>1. i \in 1..(lq - n) /\ n + i \in 1..lq /\ lo - lq + n + i \in 1..lo
          /\ (lo - lq) + (n + i) = lo - lq + n + i
      BY <1>8, <1>10, <2>2
    <3>2. h[i] = q[n + i] /\ q[n + i] = o[lo - lq + n + i]
      BY <1>2, <1>9, <3>1
    <3> QED
      BY <1>4, <3>1, <3>2
  <2> QED
    BY <2>1, <2>2
<1>14. ASSUME NEW i \in 1..(lo + 1), i + MaxRequests <= lo + 1
       PROVE  g[i + MaxRequests] - g[i] >= Window
  <2>1. CASE i + MaxRequests <= lo
    <3>1. i \in 1..lo /\ i + MaxRequests \in 1..lo
      BY <1>7, <1>10, <2>1
    <3> QED
      BY <1>2, <1>4, <2>1, <3>1
  <2>2. CASE i + MaxRequests = lo + 1
    <3>1. i \in 1..(lo - lq + n) /\ i \in 1..lo
      BY <1>7, <1>8, <1>10, <2>2
    <3>2. o[i] <= now - Window /\ o[i] \in Nat /\ g[i] = o[i] /\ g[i + MaxRequests] = now
      BY <1>4, <1>12, <2>2, <3>1
    <3> QED
      BY <1>1, <1>7, <3>2
  <2> QED
    BY <1>7, <1>10, <1>14, <2>1, <2>2
<1>15. \A i \in 1..Len(h) : h[i] = g[Len(g) - Len(h) + i]
  BY <1>10, <1>11, <1>13
<1>16. \A i \in 1..Len(g) - Len(h) : g[i] <= now - Window
  BY <1>4, <1>11, <1>12
<1>17. \A i \in 1..Len(g) : i + MaxRequests <= Len(g) => g[i + MaxRequests] - g[i] >= Window
  BY <1>10, <1>14
<1> QED
  BY <1>4, <1>5, <1>11, <1>15, <1>16, <1>17 DEF h, g, recent, lq, lo, q, o

(***************************************************************************)
(* Counters left alone stay what they are while time passes.               *)
(***************************************************************************)
LEMMA TimeKeepsCounters ==
  ASSUME LimiterInv, now' \in Nat, now' >= now, UNCHANGED <<hits, granted, told>>
  PROVE  LimiterInv'
<1>1. TypeOK'
  BY DEF LimiterInv, TypeOK
<1>2. ASSUME NEW k \in Callers
      PROVE  CounterInv(k)'
  <2>1. now \in Nat /\ granted[k] \in Seq(Nat) /\ hits[Joined(k)] \in Seq(Nat)
    BY OwnKey DEF LimiterInv, TypeOK
  <2>2. \A i \in 1..Len(granted[k]) - Len(hits[Joined(k)]) : granted[k][i] <= now - Window
    BY DEF LimiterInv, CounterInv
  <2>3. \A i \in 1..Len(granted[k]) - Len(hits[Joined(k)]) : granted[k][i] <= now' - Window
    <3>1. ASSUME NEW i \in 1..Len(granted[k]) - Len(hits[Joined(k)])
          PROVE  granted[k][i] <= now' - Window
      <4>1. granted[k][i] \in Nat
        BY <2>1
      <4>2. granted[k][i] <= now - Window
        BY <2>2
      <4> QED
        BY <2>1, <4>1, <4>2, LimitAssumption
    <3> QED
      BY <3>1
  <2>4. CounterInv(k)
    BY DEF LimiterInv
  <2> QED
    BY <2>3, <2>4 DEF CounterInv
<1> QED
  BY <1>1, <1>2 DEF LimiterInv

LEMMA ClearKeepsCounters ==
  ASSUME LimiterInv, NEW keys, Clear(keys)
  PROVE  LimiterInv'
<1>1. TypeOK'
  BY DEF LimiterInv, TypeOK, Clear
<1>2. ASSUME NEW k \in Callers
      PROVE  CounterInv(k)'
  <2>1. CASE Joined(k) \in keys
    <3>1. hits'[Joined(k)] = <<>> /\ granted'[k] = <<>> /\ told'[k] = None
      BY <2>1, OwnKey DEF Clear
    <3> QED
      BY <3>1, LimitAssumption DEF CounterInv
  <2>2. CASE Joined(k) \notin keys
    <3>1. hits'[Joined(k)] = hits[Joined(k)] /\ granted'[k] = granted[k] /\ told'[k] = told[k] /\ now' = now
      BY <2>2, OwnKey DEF Clear
    <3> QED
      BY <3>1 DEF CounterInv, LimiterInv
  <2> QED
    BY <2>1, <2>2
<1> QED
  BY <1>1, <1>2 DEF LimiterInv

(***************************************************************************)
(* What one execution request does to the counter of its caller.           *)
(***************************************************************************)
LEMMA ExecuteStep ==
  ASSUME LimiterInv, NEW token \in Tokens, Execute(token)
  PROVE  /\ LimiterInv'
         /\ answer'.kind = "limited" =>
              answer'.caller \in Callers /\ RefusedOnlyWhenFull'
         /\ answer'.kind \in {"limited", "admitted"}
         /\ \A k \in Callers : told[k] # None =>
              /\ told'[k] \in {told[k], None}
              /\ granted'[k] \notin {granted[k], <<>>} => now >= told[k]
<1> DEFINE c == CallerOf(token)
<1>1. c \in Callers /\ RateLimitKey(token) = Joined(c)
  BY CallerIsAKey DEF Execute
<1>2. PICK n \in 0..Len(hits[Joined(c)]) :
        /\ Pops(hits[Joined(c)], n)
        /\ LET recent == SubSeq(hits[Joined(c)], n + 1, Len(hits[Joined(c)]))
           IN IF Len(recent) >= MaxRequests
              THEN /\ hits' = [hits EXCEPT ![Joined(c)] = recent]
                   /\ told' = [told EXCEPT ![c] = recent[1] + Window]
                   /\ answer' = [kind |-> "limited", caller |-> c,
                                 retryAfter |-> recent[1] + Window - now]
                   /\ UNCHANGED granted
              ELSE /\ hits' = [hits EXCEPT ![Joined(c)] = Append(recent, now)]
                   /\ granted' = [granted EXCEPT ![c] = Append(@, now)]
                   /\ told' = [told EXCEPT ![c] = None]
                   /\ answer' = [kind |-> "admitted", caller |-> c]
  BY <1>1 DEF Execute
<1>3. now' = now /\ now \in Nat
  BY DEF Execute, LimiterInv, TypeOK
<1> HIDE DEF c
<1> DEFINE recent == SubSeq(hits[Joined(c)], n + 1, Len(hits[Joined(c)]))
<1>4. TypeOK /\ \A k \in Callers : CounterInv(k)
  BY DEF LimiterInv
<1>5. hits[Joined(c)] \in Seq(Nat) /\ granted[c] \in Seq(Nat) /\ recent \in Seq(Nat)
      /\ Len(recent) = Len(hits[Joined(c)]) - n
      /\ \A i \in 1..Len(recent) : recent[i] = hits[Joined(c)][n + i]
  BY <1>1, <1>4, OwnKey, Popped DEF TypeOK
<1>6. MaxRequests \in Nat /\ MaxRequests >= 1 /\ Window \in Nat /\ Window >= 1
  BY LimitAssumption
<1>7. CASE Len(recent) >= MaxRequests
  <2>1. /\ n = 0 /\ recent = hits[Joined(c)] /\ Len(recent) = MaxRequests
        /\ recent[1] \in Nat /\ recent[1] > now - Window
    BY <1>1, <1>2, <1>7, RefusalKeepsCounter
  <2>2. /\ hits' = [hits EXCEPT ![Joined(c)] = recent]
        /\ told' = [told EXCEPT ![c] = recent[1] + Window]
        /\ answer' = [kind |-> "limited", caller |-> c,
                      retryAfter |-> recent[1] + Window - now]
        /\ granted' = granted
    BY <1>2, <1>7
  <2> HIDE DEF recent
  <2>3. hits' = hits
    BY <1>4, <2>1, <2>2 DEF TypeOK
  <2>4. TypeOK'
    <3>1. recent[1] + Window \in Nat
      BY <1>6, <2>1
    <3>2. told' \in [Callers -> Nat \union {None}]
      BY <1>1, <1>4, <2>2, <3>1 DEF TypeOK
    <3> QED
      BY <1>3, <1>4, <2>2, <2>3, <3>2 DEF TypeOK
  <2>5. told'[c] = hits[Joined(c)][1] + Window /\ \A k \in Callers \ {c} : told'[k] = told[k]
    BY <1>1, <1>4, <2>1, <2>2 DEF TypeOK
  <2>6. ASSUME NEW k \in Callers
        PROVE  CounterInv(k)'
    <3>1. CounterInv(k)
      BY <1>4
    <3>2. CASE k = c
      <4>1. /\ hits'[Joined(k)] = hits[Joined(k)] /\ granted'[k] = granted[k] /\ now' = now
            /\ told'[k] = hits[Joined(k)][1] + Window
            /\ Len(hits[Joined(k)]) = MaxRequests
        BY <1>3, <2>1, <2>2, <2>3, <2>5, <3>2
      <4> QED
        BY <3>1, <4>1 DEF CounterInv
    <3>3. CASE k # c
      BY <1>3, <2>2, <2>3, <2>5, <3>1, <3>3 DEF CounterInv
    <3> QED
      BY <3>2, <3>3
  <2>7. LimiterInv'
    BY <2>4, <2>6 DEF LimiterInv
  <2>8. answer'.kind = "limited" /\ answer'.caller = c
        /\ answer'.retryAfter = recent[1] + Window - now
    BY <2>2
  <2>9. RefusedOnlyWhenFull'
    <3>1. /\ Len(hits[Joined(c)]) <= Len(granted[c])
          /\ \A i \in 1..Len(hits[Joined(c)]) : hits[Joined(c)][i] = granted[c][Len(granted[c]) - Len(hits[Joined(c)]) + i]
      BY <1>1, <1>4 DEF CounterInv
    <3>2. Len(granted[c]) \in Nat /\ Len(hits[Joined(c)]) = MaxRequests
      BY <1>5, <2>1
    <3>3. 1 \in 1..Len(hits[Joined(c)])
      BY <1>6, <3>2
    <3>4. hits[Joined(c)][1] = granted[c][Len(granted[c]) - MaxRequests + 1]
      BY <3>1, <3>2, <3>3
    <3>5. Len(granted[c]) - MaxRequests + 1 >= 1
      BY <1>6, <3>1, <3>2
    <3>6. recent[1] + Window - now > 0
      BY <1>3, <1>6, <2>1
    <3> QED
      BY <1>3, <2>1, <2>2, <2>8, <3>4, <3>5, <3>6 DEF RefusedOnlyWhenFull
  <2>10. ASSUME NEW k \in Callers, told[k] # None
         PROVE  told'[k] \in {told[k], None} /\ granted'[k] = granted[k]
    <3>1. CASE k = c
      BY <1>4, <2>2, <2>5, <2>10, <3>1 DEF CounterInv
    <3>2. CASE k # c
      BY <2>2, <2>5, <3>2
    <3> QED
      BY <3>1, <3>2
  <2> QED
    BY <1>1, <2>7, <2>8, <2>9, <2>10
<1>8. CASE Len(recent) < MaxRequests
  <2>1. LET h == Append(recent, now)
            g == Append(granted[c], now)
        IN /\ h \in Seq(Nat) /\ g \in Seq(Nat)
           /\ Len(h) <= Len(g)
           /\ Len(h) <= MaxRequests
           /\ \A i \in 1..Len(h) : h[i] = g[Len(g) - Len(h) + i]
           /\ \A i \in 1..Len(g) - Len(h) : g[i] <= now - Window
           /\ \A i \in 1..Len(g) : i + MaxRequests <= Len(g) => g[i + MaxRequests] - g[i] >= Window
    BY <1>1, <1>2, <1>8, AdmissionKeepsCounter
  <2>2. ~(Len(recent) >= MaxRequests)
    BY <1>5, <1>6, <1>8
  <2>3. /\ hits' = [hits EXCEPT ![Joined(c)] = Append(recent, now)]
        /\ granted' = [granted EXCEPT ![c] = Append(granted[c], now)]
        /\ told' = [told EXCEPT ![c] = None]
        /\ answer' = [kind |-> "admitted", caller |-> c]
    BY <1>2, <2>2
  <2> DEFINE h == Append(recent, now)
             g == Append(granted[c], now)
  <2>4. /\ hits' = [hits EXCEPT ![Joined(c)] = h] /\ granted' = [granted EXCEPT ![c] = g]
        /\ h \in Seq(Nat) /\ g \in Seq(Nat)
    BY <2>1, <2>3
  <2> HIDE DEF h, g
  <2>5. TypeOK'
    BY <1>1, <1>3, <1>4, <2>3, <2>4 DEF TypeOK
  <2>6. /\ hits'[Joined(c)] = h /\ granted'[c] = g /\ told'[c] = None
        /\ \A k \in Callers \ {c} : hits'[Joined(k)] = hits[Joined(k)] /\ granted'[k] = granted[k] /\ told'[k] = told[k]
    BY <1>1, <1>4, <2>3, <2>4, OwnKey DEF TypeOK
  <2>7. ASSUME NEW k \in Callers
        PROVE  CounterInv(k)'
    <3>1. CASE k = c
      BY <1>3, <2>1, <2>6, <3>1 DEF CounterInv, h, g
    <3>2. CASE k # c
      <4>1. /\ hits'[Joined(k)] = hits[Joined(k)] /\ granted'[k] = granted[k]
            /\ told'[k] = told[k] /\ now' = now /\ CounterInv(k)
        BY <1>3, <1>4, <2>6, <3>2
      <4> QED
        BY <4>1 DEF CounterInv
    <3> QED
      BY <3>1, <3>2
  <2>8. ASSUME told[c] # None
        PROVE  now >= told[c]
    <3>1. Len(hits[Joined(c)]) = MaxRequests /\ told[c] = hits[Joined(c)][1] + Window
      BY <1>1, <1>4, <2>8 DEF CounterInv
    <3>2. n >= 1 /\ 1 \in 1..n /\ 1 \in 1..Len(hits[Joined(c)])
      BY <1>5, <1>6, <1>8, <3>1
    <3>3. Outside(hits[Joined(c)][1])
      BY <1>2, <3>2 DEF Pops
    <3>4. hits[Joined(c)][1] \in Nat
      BY <1>5, <3>2
    <3> QED
      BY <1>3, <1>6, <3>1, <3>3, <3>4 DEF Outside
  <2>9. ASSUME NEW k \in Callers, told[k] # None
        PROVE  /\ told'[k] \in {told[k], None}
               /\ granted'[k] \notin {granted[k], <<>>} => now >= told[k]
    <3>1. CASE k = c
      BY <2>6, <2>8, <2>9, <3>1
    <3>2. CASE k # c
      BY <2>6, <3>2
    <3> QED
      BY <3>1, <3>2
  <2>10. answer'.kind = "admitted"
    BY <2>3
  <2> QED
    BY <2>5, <2>7, <2>9, <2>10 DEF LimiterInv
<1> QED
  BY <1>5, <1>6, <1>7, <1>8

(***************************************************************************)
(* The response waiting to go out says what the properties claim of it.    *)
(***************************************************************************)
AnswerInv ==
    /\ answer.kind = "limited" => answer.caller \in Callers
    /\ RefusedOnlyWhenFull
    /\ QuerySeesWhatRecordsAllow
    /\ RefusedIsOutOfReach

AccessInv == LimiterInv /\ AnswerInv

LEMMA QueryAnswers ==
  ASSUME NEW token \in Tokens, NEW permission,
         NEW plant \in Plants \union {None}, NEW department \in Departments \union {None},
         Query(token, permission, plant, department)
  PROVE  AnswerInv'
<1> DEFINE p == PrincipalOf(token)
           B == Resolve(p, permission, plant, department)
<1>1. token.tenant # None
  BY TokenAssumption DEF Query, TokenFault
<1>2. WellScoped(p) /\ p.tenant \in Tenants
  BY <1>1, ClaimsAreWellScoped
<1>3. answer' = [kind |-> "query", token |-> token, permission |-> permission,
                 plant |-> plant, department |-> department,
                 status |-> IF B = {} THEN "403" ELSE "200",
                 rows |-> IF B = {} THEN {} ELSE {r \in Rows : Selects(p.tenant, B, r)}]
  BY DEF Query
<1>4. \A r : Selects(p.tenant, B, r)
                <=> /\ CanAccess(p, r, permission)
                    /\ plant \in {None, r.plant}
                    /\ department \in {None, r.department}
  BY <1>2, FilterAgreesWithRecordCheck
<1>5. B = {} <=> ~\E r \in Ownership :
                     /\ CanAccess(p, r, permission)
                     /\ plant \in {None, r.plant}
                     /\ department \in {None, r.department}
  BY <1>2, RefusedExactlyOutOfReach
<1> HIDE DEF B
<1>6. /\ answer'.kind = "query" /\ answer'.token = token /\ answer'.permission = permission
      /\ answer'.plant = plant /\ answer'.department = department
      /\ answer'.status = (IF B = {} THEN "403" ELSE "200")
      /\ answer'.rows = (IF B = {} THEN {} ELSE {r \in Rows : Selects(p.tenant, B, r)})
  BY <1>3
<1> HIDE DEF p
<1>7. answer'.rows = {r \in Rows : /\ CanAccess(p, r, permission)
                                   /\ plant \in {None, r.plant}
                                   /\ department \in {None, r.department}}
  <2>1. CASE B = {}
    BY <1>5, <1>6, <2>1, RowAssumption
  <2>2. CASE B # {}
    BY <1>4, <1>6, <2>2
  <2> QED
    BY <2>1, <2>2
<1>8. QuerySeesWhatRecordsAllow'
  BY <1>6, <1>7 DEF QuerySeesWhatRecordsAllow, p
<1>9. RefusedIsOutOfReach'
  BY <1>5, <1>6 DEF RefusedIsOutOfReach, p
<1>10. RefusedOnlyWhenFull' /\ answer'.kind # "limited"
  BY <1>6 DEF RefusedOnlyWhenFull
<1> QED
  BY <1>8, <1>9, <1>10 DEF AnswerInv

(***************************************************************************)
(* A response of another kind is bound by nothing.                         *)
(***************************************************************************)
LEMMA OtherAnswers ==
  ASSUME answer'.kind \notin {"limited", "query"}
  PROVE  AnswerInv'
BY DEF AnswerInv, RefusedOnlyWhenFull, QuerySeesWhatRecordsAllow, RefusedIsOutOfReach

(***************************************************************************)
(* The promise of a retry instant over one step.                           *)
(***************************************************************************)
Promise ==
    \A k \in Callers : told[k] # None =>
        /\ told'[k] \in {told[k], None}
        /\ granted'[k] \notin {granted[k], <<>>} => now >= told[k]

LEMMA AccessStep ==
  ASSUME AccessInv, [Next]_vars
  PROVE  AccessInv' /\ Promise
<1> USE DEF AccessInv
<1>1. ASSUME NEW token \in Tokens, Execute(token)
      PROVE  AccessInv' /\ Promise
  <2>1. /\ LimiterInv' /\ Promise
        /\ answer'.kind = "limited" => answer'.caller \in Callers /\ RefusedOnlyWhenFull'
        /\ answer'.kind \in {"limited", "admitted"}
    BY <1>1, ExecuteStep DEF Promise
  <2>2. AnswerInv'
    <3>1. CASE answer'.kind = "admitted"
      BY <3>1, OtherAnswers
    <3>2. CASE answer'.kind = "limited"
      BY <2>1, <3>2 DEF AnswerInv, QuerySeesWhatRecordsAllow, RefusedIsOutOfReach
    <3> QED
      BY <2>1, <3>1, <3>2
  <2> QED
    BY <2>1, <2>2
<1>2. ASSUME UNCHANGED <<now, hits, granted, told>>
      PROVE  LimiterInv' /\ Promise
  <2>1. now \in Nat /\ now' = now
    BY <1>2 DEF LimiterInv, TypeOK
  <2>2. LimiterInv'
    BY <1>2, <2>1, TimeKeepsCounters
  <2> QED
    BY <1>2, <2>2 DEF Promise
<1>3. ASSUME NEW token \in Tokens, NEW permission, Refuse(token, permission)
      PROVE  AccessInv' /\ Promise
  <2>1. answer'.kind = "denied"
    BY <1>3 DEF Refuse
  <2> QED
    BY <1>2, <1>3, <2>1, OtherAnswers DEF Refuse
<1>4. ASSUME NEW token \in Tokens, NEW permission, NEW plant \in Plants \union {None},
             NEW department \in Departments \union {None},
             Query(token, permission, plant, department)
      PROVE  AccessInv' /\ Promise
  <2>1. AnswerInv'
    BY <1>4, QueryAnswers
  <2> QED
    BY <1>2, <1>4, <2>1 DEF Query
<1>5. ASSUME NEW token \in Tokens, NEW permission, NEW row, Touch(token, permission, row)
      PROVE  AccessInv' /\ Promise
  <2>1. answer'.kind = "record"
    BY <1>5 DEF Touch
  <2> QED
    BY <1>2, <1>5, <2>1, OtherAnswers DEF Touch
<1>6. ASSUME NEW keys, Clear(keys), answer = NoAnswer
      PROVE  AccessInv' /\ Promise
  <2>1. LimiterInv'
    BY <1>6, ClearKeepsCounters
  <2>2. answer'.kind = "none"
    BY <1>6 DEF Clear, NoAnswer
  <2>3. Promise
    BY <1>6 DEF Clear, Promise
  <2> QED
    BY <2>1, <2>2, <2>3, OtherAnswers
<1>7. ASSUME Tick, answer = NoAnswer
      PROVE  AccessInv' /\ Promise
  <2>1. now' \in Nat /\ now' >= now /\ UNCHANGED <<hits, granted, told>>
    BY <1>7 DEF Tick, LimiterInv, TypeOK
  <2>2. LimiterInv'
    BY <2>1, TimeKeepsCounters
  <2>3. answer'.kind = "none"
    BY <1>7 DEF Tick, NoAnswer
  <2> QED
    BY <2>1, <2>2, <2>3, OtherAnswers DEF Promise
<1>8. ASSUME Respond
      PROVE  AccessInv' /\ Promise
  <2>1. answer'.kind = "none"
    BY <1>8 DEF Respond, NoAnswer
  <2> QED
    BY <1>2, <1>8, <2>1, OtherAnswers DEF Respond
<1>9. CASE UNCHANGED vars
  <2>1. UNCHANGED <<now, hits, granted, told>> /\ answer' = answer
    BY <1>9 DEF vars
  <2>2. AnswerInv'
    BY <2>1 DEF AnswerInv, RefusedOnlyWhenFull, QuerySeesWhatRecordsAllow, RefusedIsOutOfReach
  <2> QED
    BY <1>2, <2>1, <2>2
<1>10. CASE Next
  <2>1. ASSUME NEW token \in Tokens, Handle(token)
        PROVE  AccessInv' /\ Promise
    BY <1>1, <1>3, <1>4, <1>5, <2>1 DEF Handle
  <2> QED
    BY <1>6, <1>7, <1>8, <1>10, <2>1 DEF Next
<1> QED
  BY <1>9, <1>10

LEMMA AccessInit == Init => AccessInv
<1> SUFFICES ASSUME Init PROVE AccessInv
  OBVIOUS
<1>1. TypeOK
  BY DEF Init, TypeOK
<1>2. ASSUME NEW k \in Callers
      PROVE  CounterInv(k)
  <2>1. hits[Joined(k)] = <<>> /\ granted[k] = <<>> /\ told[k] = None
    BY OwnKey DEF Init
  <2> QED
    BY <2>1, LimitAssumption DEF CounterInv
<1>3. answer.kind = "none"
  BY DEF Init, NoAnswer
<1>4. AnswerInv
  BY <1>3 DEF AnswerInv, RefusedOnlyWhenFull, QuerySeesWhatRecordsAllow, RefusedIsOutOfReach
<1> QED
  BY <1>1, <1>2, <1>4 DEF AccessInv, LimiterInv

(***************************************************************************)
(* The invariant of the counters and of the response holds throughout.     *)
(***************************************************************************)
THEOREM AccessInvariant == Spec => []AccessInv
<1>1. AccessInv /\ [Next]_vars => AccessInv'
  BY AccessStep
<1> QED
  BY AccessInit, <1>1, PTL DEF Spec

(***************************************************************************)
(* The clock, the deques and the histories are of their types.             *)
(***************************************************************************)
THEOREM TypeOKHolds == Spec => []TypeOK
<1>1. AccessInv => TypeOK
  BY DEF AccessInv, LimiterInv
<1> QED
  BY AccessInvariant, <1>1, PTL

(***************************************************************************)
(* However a window is placed, no caller is admitted more than the maximum *)
(* number of times in it.                                                  *)
(***************************************************************************)
THEOREM WindowNeverOverfullHolds == Spec => []WindowNeverOverfull
<1>1. AccessInv => WindowNeverOverfull
  BY DEF AccessInv, LimiterInv, CounterInv, WindowNeverOverfull
<1> QED
  BY AccessInvariant, <1>1, PTL

(***************************************************************************)
(* A refusal is due to the caller's own admissions and tells the delay     *)
(* after which the oldest of them leaves the window.                       *)
(***************************************************************************)
THEOREM RefusedOnlyWhenFullHolds == Spec => []RefusedOnlyWhenFull
<1>1. AccessInv => RefusedOnlyWhenFull
  BY DEF AccessInv, AnswerInv
<1> QED
  BY AccessInvariant, <1>1, PTL

(***************************************************************************)
(* A query returns what the record check allows.                           *)
(***************************************************************************)
THEOREM QuerySeesWhatRecordsAllowHolds == Spec => []QuerySeesWhatRecordsAllow
<1>1. AccessInv => QuerySeesWhatRecordsAllow
  BY DEF AccessInv, AnswerInv
<1> QED
  BY AccessInvariant, <1>1, PTL

(***************************************************************************)
(* A query is refused exactly when nothing could match.                    *)
(***************************************************************************)
THEOREM RefusedIsOutOfReachHolds == Spec => []RefusedIsOutOfReach
<1>1. AccessInv => RefusedIsOutOfReach
  BY DEF AccessInv, AnswerInv
<1> QED
  BY AccessInvariant, <1>1, PTL

(***************************************************************************)
(* The instant a refused caller is told stands, and it is not admitted     *)
(* before it.                                                              *)
(***************************************************************************)
THEOREM PromisedInstantStandsHolds == Spec => PromisedInstantStands
<1> DEFINE Stands == \A k \in Callers : told[k] # None =>
                       /\ told'[k] \in {told[k], None}
                       /\ granted'[k] \notin {granted[k], <<>>} => now >= told[k]
<1>1. AccessInv /\ [Next]_vars => [Stands]_vars
  BY AccessStep DEF Promise
<1> QED
  BY AccessInvariant, <1>1, PTL DEF PromisedInstantStands, Spec
=============================================================================

------------------------------- MODULE Scope -------------------------------
(***************************************************************************)
(* Who may do what, and to which rows (backend/app/security): the roles a  *)
(* token's claims grant, the permissions of a role, the check made on a    *)
(* loaded record (authorization.py) and the constraint put on a collection *)
(* query (scope.py, turned into SQL by repositories/scope_filter.py).      *)
(*                                                                         *)
(* A principal is [subject, tenant, assignments], an assignment            *)
(* [role, type, id], the ownership of a row [tenant, plant, department]    *)
(* and a branch of a query's constraint [plant, department]; None is the   *)
(* absent plant or department.                                             *)
(***************************************************************************)
CONSTANTS Tenants, Subjects, Plants, Departments, None

ASSUME NoneAssumption == None \notin Tenants \union Plants \union Departments

Roles == {"ADMIN", "FINOPS_MANAGER", "AI_ENGINEER", "PLANT_MANAGER", "ANALYST", "VIEWER"}

ScopeTypes == {"TENANT", "PLANT", "DEPARTMENT"}

ReadOnly ==
    {"cost:read", "budget:read", "forecast:read", "anomaly:read", "optimization:read",
     "model:read", "workload:read", "organization:read", "policy:read"}

Permissions ==
    ReadOnly \union {"ai:execute", "budget:manage", "optimization:analyze",
                     "optimization:approve", "optimization:apply", "model:manage",
                     "approval:read", "approval:decide", "audit:read"}

\* ROLE_PERMISSIONS: every role reads; the rest is granted role by role.
PermissionsOf(role) ==
    CASE role = "ADMIN" -> Permissions
      [] role = "FINOPS_MANAGER" ->
           ReadOnly \union {"budget:manage", "optimization:analyze", "optimization:approve",
                            "approval:read", "approval:decide", "audit:read"}
      [] role = "AI_ENGINEER" ->
           ReadOnly \union {"ai:execute", "model:manage", "optimization:analyze",
                            "optimization:apply", "approval:read"}
      [] role = "PLANT_MANAGER" ->
           ReadOnly \union {"ai:execute", "approval:read", "approval:decide"}
      [] role = "ANALYST" -> ReadOnly \union {"optimization:analyze", "approval:read"}
      [] role = "VIEWER" -> ReadOnly
      [] OTHER -> {}

Ownership ==
    [tenant: Tenants, plant: Plants \union {None}, department: Departments \union {None}]

Branch == [plant: Plants \union {None}, department: Departments \union {None}]

-----------------------------------------------------------------------------
(* The claims of a token: an entry of the roles claim is a bare role name,  *)
(* which holds over the token's tenant, or names a role with its scope. An  *)
(* entry with an unknown role or scope type, or without an id, is dropped.  *)

\* The entries that the claims of the environment hold: what they name, they
\* name of the right kind.
Entry ==
    {e \in [shape: {"name"}, role: STRING]
             \union [shape: {"scoped"}, role: STRING, type: STRING,
                     id: Tenants \union Plants \union Departments \union {None}] :
        e.shape = "scoped" =>
            /\ e.type = "PLANT" => e.id \in Plants \union {None}
            /\ e.type = "DEPARTMENT" => e.id \in Departments \union {None}}

Parsed(entry, tenant) ==
    IF entry.shape = "name"
    THEN [role |-> entry.role, type |-> "TENANT", id |-> tenant]
    ELSE [role |-> entry.role, type |-> entry.type, id |-> entry.id]

Assignments(entries, tenant) ==
    {Parsed(e, tenant) : e \in {x \in entries :
         /\ x.role \in Roles
         /\ x.shape = "scoped" => x.type \in ScopeTypes /\ x.id # None}}

\* Every assignment names a scope of a known type and an id of that type.
WellScoped(p) ==
    \A a \in p.assignments :
        /\ a.type \in ScopeTypes
        /\ a.id # None
        /\ a.type = "PLANT" => a.id \in Plants
        /\ a.type = "DEPARTMENT" => a.id \in Departments

-----------------------------------------------------------------------------
(* The record check: tenant, then permission, then scope.                   *)

Granting(p, permission) == {a \in p.assignments : permission \in PermissionsOf(a.role)}

HasPermission(p, permission) == Granting(p, permission) # {}

AssignmentCovers(a, row) ==
    \/ a.type = "TENANT" /\ a.id = row.tenant
    \/ a.type = "PLANT" /\ row.plant # None /\ a.id = row.plant
    \/ a.type = "DEPARTMENT" /\ row.department # None /\ a.id = row.department

\* The status a handler answers with when it must touch this very row.
RecordStatus(p, row, permission) ==
    IF row.tenant # p.tenant THEN "404"
    ELSE IF \E a \in Granting(p, permission) : AssignmentCovers(a, row) THEN "200" ELSE "403"

CanAccess(p, row, permission) == RecordStatus(p, row, permission) = "200"

-----------------------------------------------------------------------------
(* The constraint of a query: a union of branches. A refusal (403) is the   *)
(* empty union, which the code raises and never returns.                    *)

TenantWide == [plant |-> None, department |-> None]

BranchOf(a) ==
    [plant |-> IF a.type = "PLANT" THEN a.id ELSE None,
     department |-> IF a.type = "DEPARTMENT" THEN a.id ELSE None]

\* A tenant assignment that names another tenant contributes nothing, and a
\* tenant-wide branch absorbs the others.
Branches(p, permission) ==
    LET usable == {a \in Granting(p, permission) : a.type = "TENANT" => a.id = p.tenant}
        branches == {BranchOf(a) : a \in usable}
    IN IF TenantWide \in branches THEN {TenantWide} ELSE branches

NarrowedToPinnedPlant(branches, plant) == {b \in branches : b.plant = plant}

NarrowedToPlant(branches, plant) ==
    {[b EXCEPT !.plant = plant] : b \in {x \in branches : x.plant \in {None, plant}}}

NarrowedToDepartment(branches, department) ==
    {[b EXCEPT !.department = department] :
        b \in {x \in branches : x.department \in {None, department}}}

\* Filters given by the client only narrow.
Resolve(p, permission, plant, department) ==
    LET all == Branches(p, permission)
        ofPlant == IF plant = None THEN all ELSE NarrowedToPlant(all, plant)
    IN IF department = None THEN ofPlant ELSE NarrowedToDepartment(ofPlant, department)

\* ScopeConstraint.covers.
BranchCovers(b, row) ==
    /\ b.plant = None \/ row.plant = b.plant
    /\ b.department = None \/ row.department = b.department

ScopeCovers(tenant, branches, row) ==
    \E b \in branches : row.tenant = tenant /\ BranchCovers(b, row)

\* Flattened: the branches collapsed into one set of plants and one of
\* departments, both required.
SelectsFlattened(tenant, branches, row) ==
    LET plants == {b.plant : b \in branches}
        departments == {b.department : b \in branches}
    IN /\ row.tenant = tenant
       /\ None \in plants \/ row.plant \in plants
       /\ None \in departments \/ row.department \in departments
\* The SQL predicate: a tenant-wide branch makes the tenant the only condition.
Selects(tenant, branches, row) ==
    /\ row.tenant = tenant
    /\ TenantWide \in branches \/ \E b \in branches : BranchCovers(b, row)
=============================================================================

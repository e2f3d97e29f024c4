------------------------------ MODULE MCAccess ------------------------------
EXTENDS Access

\* Two tenants that name a subject alike, two plants and two departments.
MCTenants == {"t1", "t2"}
MCSubjects == {"s"}
\* The name of the second tenant begins as the first one's and holds a ':'.
MCPartsOf == [t1 |-> <<"t1">>, t2 |-> <<"t1", "eu">>, s |-> <<"s">>]
MCPlants == {"p1", "p2"}
MCDepartments == {"d1", "d2"}

Held(role, type, id) == [shape |-> "scoped", role |-> role, type |-> type, id |-> id]

Issued(tenant, iat, exp, roles) ==
    [signed |-> TRUE, sub |-> "s", tenant |-> tenant, roles |-> roles, iat |-> iat, exp |-> exp]

\* A whole tenant; a plant and a department of another one, with a permission
\* on the second only; a tenant that is not the token's; malformed entries.
MCTokens ==
    {Issued("t1", 0, 2, {[shape |-> "name", role |-> "AI_ENGINEER"]}),
     Issued("t1", 0, 9, {Held("PLANT_MANAGER", "PLANT", "p1"), Held("ANALYST", "DEPARTMENT", "d2")}),
     Issued("t2", 0, 9, {Held("AI_ENGINEER", "PLANT", "p2"), Held("VIEWER", "PLANT", "p1"),
                      Held("VIEWER", "TENANT", "t1")}),
     Issued("t2", 1, 9, {Held("VIEWER", "TENANT", "t1"), Held("ANALYST", "REGION", "p1"),
                      Held("ANALYST", "PLANT", None), [shape |-> "name", role |-> "ROOT"]})}

MCAsked == {"cost:read", "optimization:analyze"}

MCRows ==
    {[tenant |-> t, plant |-> p, department |-> d] :
        t \in MCTenants, p \in {None, "p1", "p2"}, d \in {None, "d1", "d2"}}
=============================================================================

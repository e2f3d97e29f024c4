-------------------------- MODULE MCExecutionLimits --------------------------
(****************************************************************************)
(* A registry with a tool of each kind that is decided differently: of high  *)
(* risk and for one workload, of an unknown risk, disabled, of another       *)
(* workload, for a role nobody knows, with workloads and with roles that do  *)
(* not parse; the model may also ask for one that is not there.              *)
(****************************************************************************)
EXTENDS ExecutionLimits

Row(roles, workloads, risk, enabled) ==
    [roles |-> roles, workloads |-> workloads, risk |-> risk, enabled |-> enabled]

MCRegistry ==
    [order |-> Row({"VIEWER", "ANALYST"}, {"supply_chain"}, "HIGH", TRUE),
     legacy |-> Row({"ANALYST"}, {}, "SEVERE", TRUE),
     off |-> Row({"ANALYST"}, {}, "LOW", FALSE),
     tune |-> Row({"ANALYST"}, {"quality_check"}, "LOW", TRUE),
     gone |-> Row({"INTERN"}, {}, "LOW", TRUE),
     torn |-> Row({"ANALYST"}, Garbled, "LOW", TRUE),
     blank |-> Row(Garbled, {}, "LOW", TRUE)]

MCNames == {"order", "legacy", "off", "tune", "gone", "torn", "blank", "absent"}
=============================================================================

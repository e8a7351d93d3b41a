---------------------------- MODULE PlanHistory -----------------------------
(***************************************************************************)
(* What the Deployment Plan of one Machine Profile promises its readers:   *)
(* an append-only history.  The plan at revision n is the evidence of its  *)
(* first n completed steps, and the only change it ever undergoes is that  *)
(* the active step is completed.                                           *)
(*                                                                         *)
(*   crates/nvstraps-deploy/src/lib.rs       DeploymentPlan                *)
(*   crates/nvstraps-deploy/src/workflow.rs  DeploymentWorkflow            *)
(***************************************************************************)
EXTENDS Naturals, Sequences

CONSTANTS Evidence,   \* the values a step may be completed with
          StepCount,  \* the number of steps of the plan
          NoPlan      \* no plan was stored yet

VARIABLE plan

Init == plan = NoPlan

\* DeploymentPlan::for_profile: revision 0, the first step ready.
Create ==
    /\ plan = NoPlan
    /\ plan' = <<>>

\* DeploymentPlan::complete: the active step takes its evidence, the next one
\* becomes ready and the revision grows by one.
Complete ==
    /\ plan # NoPlan
    /\ Len(plan) < StepCount
    /\ \E value \in Evidence : plan' = Append(plan, value)

Next == Create \/ Complete

Spec == Init /\ [][Next]_plan

=============================================================================

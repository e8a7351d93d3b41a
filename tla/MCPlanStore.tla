---------------------------- MODULE MCPlanStore -----------------------------
(***************************************************************************)
(* Instances of PlanStore: a plan of three steps completed with one of two *)
(* values, for one client and for two clients.                             *)
(***************************************************************************)
EXTENDS PlanStore

CONSTANTS c1, c2, v1, v2

TwoClients == {c1, c2}
TwoValues == {v1, v2}

=============================================================================

------------------------ MODULE MCDeploymentWorkflow ------------------------
(***************************************************************************)
(* Instances of DeploymentWorkflow.                                        *)
(***************************************************************************)
EXTENDS DeploymentWorkflow

OneAddress == {"low"}
TwoAddresses == {"low", "high"}

SafeDisturbances ==
    {"crash", "spareBoot", "errorBoot", "otherBoot", "reflash", "rebalance",
     "clockBack"}

Nothing == {}

=============================================================================

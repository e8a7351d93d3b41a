-------------------------- MODULE MCExternalRoute --------------------------
(***************************************************************************)
(* Instances of ExternalRoute: two states of the hardware, two versions of *)
(* Windows Boot Manager, one other boot entry.                             *)
(***************************************************************************)
EXTENDS ExternalRoute

CONSTANTS m1, m2, w1, w2

TwoMachines == {m1, m2}
TwoManagers == {w1, w2}
OneForeign == {1}
Nobody == {}
Everything ==
    {"abort", "spareBoot", "loaderFails", "receiptTorn", "managerUpdated",
     "machineChanged", "secureBootChanged"}
SomeDatabases == {{}, {"diagnostic"}, {"certificate"}}

=============================================================================

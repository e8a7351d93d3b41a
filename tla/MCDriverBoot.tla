---------------------------- MODULE MCDriverBoot ----------------------------
(***************************************************************************)
(* Two GPUs behind two root ports; the firmware numbers their buses in two *)
(* ways, or the cards trade places.                                        *)
(***************************************************************************)
EXTENDS DriverBoot, TLC

CONSTANTS g1, g2, b1, b2, s1, s2

TwoGpus == {g1, g2}
TwoBridges == {b1, b2}
TwoBuses == {1, 2}
TwoSetups == {s1, s2}

Straight == (1 :> b1) @@ (2 :> b2)
Crossed == (1 :> b2) @@ (2 :> b1)

ThreeTopologies ==
    {[bus |-> (g1 :> 1) @@ (g2 :> 2), above |-> Straight],
     [bus |-> (g1 :> 2) @@ (g2 :> 1), above |-> Crossed],
     [bus |-> (g1 :> 2) @@ (g2 :> 1), above |-> Straight]}

Rules(first, second, scope, target, guard) ==
    [rules |-> (g1 :> first) @@ (g2 :> second), scope |-> scope,
     target |-> target, guard |-> guard, override |-> TRUE]

SomeDrafts ==
    {Rules("size", "size", "device", "gpu", TRUE),
     Rules("size", "excluded", "location", "disabled", FALSE),
     Rules("none", "none", "device", "disabled", TRUE)}

=============================================================================

---------------------------- MODULE MCArtifacts -----------------------------
(***************************************************************************)
(* Instances of Artifacts: two processes, and three versions that differ   *)
(* in the driver, or in the injector and the catalog of board patches.     *)
(***************************************************************************)
EXTENDS Artifacts

CONSTANTS c1, c2, d1, d2, i1, i2, p1, p2

TwoClients == {c1, c2}

FirstRelease == [driver |-> d1, injector |-> i1, catalog |-> p1]

ThreeReleases ==
    {FirstRelease,
     [driver |-> d2, injector |-> i1, catalog |-> p1],
     [driver |-> d1, injector |-> i2, catalog |-> p2]}

Text(words) == [words |-> words, padded |-> FALSE]

OneGpu == <<[device |-> 0, bar0Base |-> 1, bar0Top |-> 2]>>

Route == [note |-> Text("route"), safe |-> TRUE, established |-> TRUE]

Recovery(method) == [method |-> method, established |-> TRUE, note |-> Text("recovery")]

\* A board that needs patches, with a driver in each of its DXE domains.
LegacyRequest ==
    [name |-> Text("name"), board |-> "legacy", patches |-> p1,
     recovery |-> Recovery("externalSpiProgrammer"),
     policy |-> "patchEveryDxeDomain", install |-> Route]

\* The same with a later catalog or with white space around its name, and requests
\* that are refused.
SomeRequests ==
    {LegacyRequest,
     [LegacyRequest EXCEPT !.patches = p2],
     [LegacyRequest EXCEPT !.name.padded = TRUE],
     [LegacyRequest EXCEPT !.recovery = Recovery("dualBios")],
     [LegacyRequest EXCEPT !.patches = None]}

\* A native board with USB flashback, stored before there was a target policy.
NativeProfile ==
    LET request == [LegacyRequest EXCEPT !.board = "native", !.patches = None,
                                         !.recovery = Recovery("usbFlashback")]
        p == [create_with_options(request, OneGpu, Original) EXCEPT
                 !.schema = 3, !.policy = "requireUnique"]
    IN  [p EXCEPT !.id = id_of(p)]

EarlierProfiles == {NativeProfile}

=============================================================================

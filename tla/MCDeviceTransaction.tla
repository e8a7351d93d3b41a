------------------------ MODULE MCDeviceTransaction ------------------------
(***************************************************************************)
(* Small instances of DeviceTransaction for TLC.                           *)
(***************************************************************************)
EXTENDS DeviceTransaction

\* Decoding off, memory decoding on, and everything on.
MCInitialCommands == {{}, {"memory"}, Command}

Straps(p1, p2, e) == [set0 |-> [part |-> p1, enable |-> e],
                      set1 |-> [part |-> p2, enable |-> e]]

\* Unprogrammed straps, the split of selector 3, and the other split of 3.
MCInitialStraps == {Straps(0, 0, FALSE), Straps(2, 1, TRUE), Straps(3, 0, FALSE)}

\* Nothing, one side of each threshold of target_parts, and the largest.
MCRequests == {0, 2, 3, 9, 10}

=============================================================================

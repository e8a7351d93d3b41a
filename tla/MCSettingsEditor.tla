--------------------------- MODULE MCSettingsEditor ---------------------------
(***************************************************************************)
(* An instance of SettingsEditor: two GPUs of one model, which the list    *)
(* names, or one of them beside a Turing GPU the list does not name.       *)
(***************************************************************************)
EXTENDS SettingsEditor, MCBarInspection

Gpu(device, slot, listed) ==
    [device |-> device, subsystem |-> 1, slot |-> slot, turing |-> TRUE,
     listed |-> listed, bar0 |-> slot, bridge |-> slot, expanded |-> FALSE]

Listed(slot) == Gpu(1, slot, 6)

TwoListed == <<Listed(1), Listed(2)>>
OneUnlisted == <<Listed(1), [Gpu(2, 3, Null) EXCEPT !.bar0 = 0]>>

MCSizes == {Null, 7}

MCMachines == {TwoListed, OneUnlisted}

Rule(scope, slot, size, mask) ==
    [scope |-> scope, device |-> 1,
     subsystem |-> IF scope = "device" THEN Wild ELSE 1, slot |-> slot,
     size |-> size, mask |-> mask]

Settings(mode, rules) == [DEFAULT_DRAFT EXCEPT !.mode = mode, !.rules = rules]

\* A rule for the board before one for the model, with a mask override; a rule
\* for the model and one for a slot, which may be empty.
Broad == Settings(1, <<Rule("subsystem", Wild, 7, "allow"), Rule("device", Wild, 5, "none")>>)
Both == Settings(0, <<Rule("device", Wild, 7, "none"),
                      Rule("location", 2, EXCLUDED_SELECTOR, "none")>>)

MCFiles == {Broad}

MCVariables == {Absent, Garbage, Rules(Both)}

=============================================================================

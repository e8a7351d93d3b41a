--------------------------- MODULE DriverSession ---------------------------
(***************************************************************************)
(* One switch, or the undo, of the games page down to the calls of NVIDIA's *)
(* driver (src-tauri/src/nvidia_profiles: nvapi.rs with drs.rs, policy.rs, *)
(* undo.rs, and change of mod.rs), as operators on the driver's database.  *)
(* ProfileUndo has a command as a few steps on plain values; here it is a  *)
(* list of writes of typed values, a setting may be inherited, and NVIDIA's *)
(* own values can be lost.                                                 *)
(*                                                                         *)
(* A database has the user's and NVIDIA's values by profile and setting.  A *)
(* session is a copy of it that is saved whole or dropped.  What a call     *)
(* does to it is the driver's: drs.rs says what a delete removes, fake.rs,  *)
(* the driver of the tests, where a value is found.                        *)
(***************************************************************************)
EXTENDS Naturals, SequencesExt

CONSTANTS None

Game == "game"
GlobalProfile == "all games"
Profiles == {Game, GlobalProfile}

REBAR_SETTING_IDS == <<"app", "enable", "options", "size">>

Ids == Range(REBAR_SETTING_IDS)

-----------------------------------------------------------------------------
(* Values and settings.                                                    *)

Dword(n) == [type |-> "dword", n |-> n]
Qword(n) == [Dword(n) EXCEPT !.type = "qword"]
Binary(n) == [Dword(n) EXCEPT !.type = "binary"]
Text == [Dword(0) EXCEPT !.type = "text"]

\* StoredValue::of and write_value: what can be written back.
Stored(value) == value.type # "text"

\* A driver has a version, and accessors of its own or not.
app_setting_supported(driver) == driver.version >= 61656
qword_size_limit(driver) == driver.version >= 61000

\* The driver's own accessors are taken where there are any.  The public ones
\* know these settings before R445 only.
resolve(driver) == IF driver.own THEN "driver" ELSE "public"

Known(driver) == resolve(driver) = "driver" \/ driver.version < 44500

DefaultOf(driver, id) ==
    CASE id = "app" /\ app_setting_supported(driver) -> Dword(1)
      [] id = "enable" -> Dword(0)
      [] OTHER -> None

Carries(s, p, id) == s.user[p][id] # None \/ s.nvidia[p][id] # None

ValueOf(s, p, id) ==
    IF s.user[p][id] # None THEN s.user[p][id] ELSE s.nvidia[p][id]

Inherited(location, value) ==
    [location |-> location, current_predefined |-> FALSE, predefined |-> FALSE,
     value |-> value]

setting(driver, s, p, id) ==
    CASE ~Known(driver) -> None
      [] Known(driver) /\ Carries(s, p, id) ->
            [location |-> "profile", current_predefined |-> s.user[p][id] = None,
             predefined |-> s.nvidia[p][id] # None, value |-> ValueOf(s, p, id)]
      [] Known(driver) /\ ~Carries(s, p, id) /\ Carries(s, GlobalProfile, id) ->
            Inherited("global", ValueOf(s, GlobalProfile, id))
      [] OTHER -> IF DefaultOf(driver, id) = None THEN None
                  ELSE Inherited("default", DefaultOf(driver, id))

rebar_settings(driver, s, p) == [id \in Ids |-> setting(driver, s, p, id)]

own(found) == found # None /\ found.location = "profile"
user_set(found) == own(found) /\ ~found.current_predefined
nvidia_value(found) == own(found) /\ found.predefined

\* What is set on this PC is taken as it is; a value of NVIDIA's, which may be
\* masked, only when it is allowed.
decoded_dword(found, allowed) ==
    CASE found.value.type # "dword" -> None
      [] found.value.n \in allowed \/ ~found.current_predefined -> found.value.n
      [] OTHER -> None

\* rebar_state: is Resizable BAR on.
rebar_on(driver, settings) ==
    LET app == IF app_setting_supported(driver) /\ settings["app"] # None
               THEN decoded_dword(settings["app"], 0 .. 2) ELSE None
        enable == settings["enable"]
    IN  IF app \in {0, 2} THEN app = 2
        ELSE enable # None /\ decoded_dword(enable, {0, 1}) \notin {None, 0}

On(driver, s, p) == rebar_on(driver, rebar_settings(driver, s, p))

-----------------------------------------------------------------------------
(* The writes.                                                             *)

Write(call, id, value) == [call |-> call, id |-> id, value |-> value]
Set(id, value) == Write("set", id, value)

Some(condition, write) == IF condition THEN <<write>> ELSE <<>>

\* A size limit has the type the driver uses for it: the inherited one before
\* there was a fixed one.
size_limit_value(driver, inherited) ==
    CASE qword_size_limit(driver) -> Qword(1)
      [] OTHER -> IF inherited = None \/ inherited.value.type = "text" THEN None
                  ELSE [inherited.value EXCEPT !.n = 1]

turn_on(driver, settings) ==
    LET size == size_limit_value(driver, settings["size"])
    IN  Some(app_setting_supported(driver), Set("app", Dword(2)))
        \o <<Set("enable", Dword(1))>>
        \o Some(~own(settings["options"]), Set("options", Dword(1)))
        \o Some(~own(settings["size"]) /\ size # None, Set("size", size))

clear_write(id, found) ==
    Write(IF found.predefined THEN "restore" ELSE "delete", id, None)

clear(settings) ==
    LET Clear(id, ours) ==
            LET found == settings[id]
            IN  Some(user_set(found) /\ (ours = {} \/ found.value \in ours),
                     clear_write(id, found))
    IN  Clear("app", {}) \o Clear("enable", {}) \o Clear("options", {Dword(1)})
        \o Clear("size", {Dword(1), Qword(1), Binary(1)})

force_off(driver, settings) ==
    IF ~rebar_on(driver, settings) THEN <<>>
    ELSE Some(app_setting_supported(driver), Set("app", Dword(0)))
         \o <<Set("enable", Dword(0))>>

\* A call on a session; None is how the driver says no.
set_setting(driver, s, p, id, value) ==
    IF ~Known(driver) \/ ~Stored(value) THEN None
    ELSE [s EXCEPT !.user[p][id] = value]

\* A delete takes NVIDIA's value along; nothing to delete is no failure.
delete_setting(driver, s, p, id) ==
    IF ~Known(driver) THEN s
    ELSE [s EXCEPT !.user[p][id] = None, !.nvidia[p][id] = None]

restore_setting(driver, s, p, id) ==
    IF ~Known(driver) \/ s.nvidia[p][id] = None THEN None
    ELSE [s EXCEPT !.user[p][id] = None]

apply_one(driver, s, p, write) ==
    CASE write.call = "set" -> set_setting(driver, s, p, write.id, write.value)
      [] write.call = "delete" -> delete_setting(driver, s, p, write.id)
      [] write.call = "restore" -> restore_setting(driver, s, p, write.id)

\* One after the other; what the driver refuses ends the command.
apply(driver, s, p, writes) ==
    FoldLeft(LAMBDA t, write : IF t = None THEN None ELSE apply_one(driver, t, p, write),
             s, writes)

-----------------------------------------------------------------------------
(* The record and the two commands.                                        *)

record(settings) ==
    [values |-> [id \in Ids |-> IF user_set(settings[id]) /\ Stored(settings[id].value)
                                THEN settings[id].value ELSE None],
     nvidia |-> {id \in Ids : nvidia_value(settings[id])},
     unrestorable |-> {id \in Ids : user_set(settings[id]) /\ ~Stored(settings[id].value)}]

\* The result of a command, and the database and the record it leaves.
End(result, db, original) == [result |-> result, db |-> db, original |-> original]

\* The session a switch is about to save.
staged(driver, db, p, on) ==
    LET settings == rebar_settings(driver, db, p)
        cleared == apply(driver, db, p, clear(settings))
    IN  CASE on -> apply(driver, db, p, turn_on(driver, settings))
          [] ~on -> IF cleared = None THEN None
                    ELSE apply(driver, cleared, p,
                               force_off(driver, rebar_settings(driver, cleared, p)))

\* change: the settings are recorded, unless they are already; the writes are
\* applied to a session that must read as asked before it is saved, and is
\* read back in a new one.  A call that fails before the record, on the way to
\* the save or after it ends the command.
change(driver, db, original, p, on, fails) ==
    LET recorded == IF original # None THEN original
                    ELSE record(rebar_settings(driver, db, p))
        session == staged(driver, db, p, on)
        saved == session # None /\ On(driver, session, p) = on
    IN  CASE fails = "read" -> End("failed", db, original)
          [] fails = "write" -> End("failed", db, recorded)
          [] fails \notin {"read", "write"} /\ saved ->
                End(IF fails = "read back" THEN "failed" ELSE "done", session, recorded)
          [] OTHER -> End(IF session = None THEN "refused" ELSE "mismatch", db, recorded)

\* What the undo does for one setting: skip it, set it, restore it, delete it.
put_back(driver, s, p, original, id) ==
    CASE id \in original.unrestorable -> s
      [] id \notin original.unrestorable /\ original.values[id] # None ->
            set_setting(driver, s, p, id, original.values[id])
      [] OTHER -> IF id \in original.nvidia \/ nvidia_value(setting(driver, s, p, id))
                  THEN restore_setting(driver, s, p, id)
                  ELSE delete_setting(driver, s, p, id)

\* The comparison with a new session.
matches(driver, s, p, original) ==
    \A id \in Ids \ original.unrestorable :
        LET found == setting(driver, s, p, id)
            actual == IF user_set(found) /\ Stored(found.value) THEN found.value ELSE None
        IN  /\ original.values[id] = actual
            /\ \/ original.values[id] # None \/ id \notin original.nvidia
               \/ found # None /\ found.current_predefined

\* undo, for a profile that was recorded.
undo(driver, db, original, p, fails) ==
    LET session == FoldLeft(LAMBDA s, id : IF s = None THEN None
                                           ELSE put_back(driver, s, p, original, id),
                            db, REBAR_SETTING_IDS)
        result == IF fails = "read back" THEN "failed"
                  ELSE IF matches(driver, session, p, original) THEN "done" ELSE "mismatch"
    IN  CASE fails \in {"read", "write"} -> End("failed", db, original)
          [] fails \notin {"read", "write"} /\ session = None -> End("refused", db, original)
          [] OTHER -> End(result, session, original)

=============================================================================

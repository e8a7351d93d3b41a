---------------------------- MODULE SettingsEditor ----------------------------
(***************************************************************************)
(* The BAR settings page, the commands it calls and the firmware variable  *)
(* they read and write.                                                    *)
(*                                                                         *)
(*   src/configuration-workspace/use-configuration-workspace.ts            *)
(*   src/guided/bar-settings.tsx           the page                        *)
(*   src-tauri/src/app.rs                  snapshot, validation, save      *)
(*   src-tauri/src/bar_settings_commands.rs, bar_settings.rs               *)
(*                                         the save bound to two tokens    *)
(*   src-tauri/src/settings_snapshot.rs    the settings file               *)
(*                                                                         *)
(* The page sends a command and goes on; the backend runs the commands one *)
(* at a time, on the main thread; the answers reach the page in any order. *)
(* So a call is pending, then answered, then gone.  A save is the command  *)
(* that reads and writes in turn, and is run in steps, one for each access *)
(* that another program or Windows may come before; the state of the       *)
(* backend changes at its end.  The other commands are one step.  A        *)
(* snapshot enumerates the GPUs and then reads the variable: one change    *)
(* between the two is one before it or after it.  Validation and the       *)
(* settings file read the state of the backend only, and are answered as   *)
(* they are sent.                                                          *)
(*                                                                         *)
(* The tokens are digests of what they stand for, and modelled by it.  A   *)
(* new draft clears the report and restarts the timer of the validation in *)
(* the same step, as React's effects do before the next input.             *)
(***************************************************************************)
EXTENDS SizeSelection

CONSTANTS Machine,       \* the GPUs of the computer
          Machines,      \* the GPUs that may be enumerated later
          Sizes,       \* the sizes chosen; Null is automatic
          Variables,     \* what other programs may leave in the variable
          Files,         \* drafts a settings file may hold
          MaxInputs,     \* bound: inputs of the operator
          MaxMishaps,    \* bound: failures and changes by others
          Absent, Garbage, Unreadable,
          NoSnapshot, NoReport, NoRestore, NoFile, NoSave

VARIABLES
    variable,    \* the configuration variable: Absent, Garbage or a configuration
    machine,     \* the GPUs enumerate_gpus finds
    observed,    \* the driver left its status in this boot
    elevated,    \* the process may access firmware variables
    backend,     \* AppState: devices, config and whether firmware is accessible
    saving,      \* the save that is running: its call, the GPUs it enumerated
                 \* and the step it has done
    snap,        \* the last snapshot
    draft,       \* the settings edited
    baseline,    \* the settings last read or saved
    report,      \* the validation report of the draft
    timer,       \* the draft waits to be validated
    busy,
    path,        \* the save being confirmed
    receipt,     \* the page says that the settings were saved
    restore,     \* what the expansion switch brings back
    file,        \* the settings file
    calls,       \* the commands under way
    inputs, mishaps,
    undisturbed, \* history: the variable and the GPUs changed by saves that
                 \* succeeded only
    overtaken    \* history: another program wrote the variable after the save
                 \* that is running compared it

env == <<machine, observed, elevated>>
page == <<snap, draft, baseline, report, timer, busy, path, receipt, restore>>
app == <<backend, saving>>
history == <<undisturbed, overtaken>>
vars == <<variable, env, app, page, file, calls, inputs, mishaps, history>>

dirty == draft # baseline

-----------------------------------------------------------------------------
(* The commands. *)

\* Config::encode and Config::decode.
encode(config) == IF is_driver_configured(config) THEN config ELSE Absent

decode(raw) == IF raw = Absent THEN Rules(DEFAULT_DRAFT) ELSE raw

\* What topology_token and windows_reports_expanded_turing_aperture read.
topology(devices) ==
    [i \in DOMAIN devices |->
        <<devices[i].device, devices[i].subsystem, devices[i].slot,
          devices[i].bridge, devices[i].bar0>>]

expanded(devices) ==
    \E i \in DOMAIN devices : devices[i].turing /\ devices[i].expanded

\* The configuration refresh_snapshot keeps: none when it is invalid or cannot
\* be read.
ReadConfig == IF ~elevated \/ variable = Garbage THEN Unreadable ELSE decode(variable)

\* SystemSnapshot and assess_driver_runtime.
Snapshot ==
    [config |-> IF ReadConfig = Unreadable THEN Unreadable
                ELSE draft_from_config(ReadConfig),
     token |-> IF elevated THEN variable ELSE Unreadable,
     topology |-> topology(machine),
     devices |-> machine,
     available |-> (elevated /\ observed) \/ expanded(machine),
     accessible |-> elevated]

\* validation_report_for.
Valid(d) == validate_draft(d, backend.devices)

Report(d) ==
    [draft |-> d, valid |-> Valid(d),
     changed |->
        IF backend.config = Unreadable THEN TRUE
        ELSE IF Valid(d)
        THEN encode(config_from_draft(d, backend.devices)) # encode(backend.config)
        ELSE draft_from_config(backend.config) # d]

Pending(kind) == {c \in calls : c.kind = kind /\ c.answer = "none"}

Answered(c, answer) == calls' = (calls \ {c}) \cup {[c EXCEPT !.answer = answer]}

AnsweredWith(c, answer, value) ==
    calls' = (calls \ {c}) \cup {[c EXCEPT !.answer = answer, !.value = value]}

Mishap == mishaps < MaxMishaps /\ mishaps' = mishaps + 1

\* get_system_snapshot and refresh_system.
RunSnapshot(c) ==
    \/ /\ AnsweredWith(c, "ok", Snapshot)
       /\ backend' = [devices |-> machine, config |-> ReadConfig,
                      accessible |-> elevated]
       /\ UNCHANGED mishaps
    \/ /\ Mishap                                    \* enumerate_gpus fails
       /\ Answered(c, "error")
       /\ UNCHANGED backend

RunLoad(c) ==
    /\ saving = NoSave
    /\ RunSnapshot(c)
    /\ UNCHANGED <<variable, env, saving, page, file, inputs, history>>

Saving(c, devices, step) == [call |-> c, devices |-> devices, step |-> step]

At(step) == saving # NoSave /\ saving.step = step

Refused == saving' = NoSave /\ Answered(saving.call, "error")

\* The start of save_bar_settings and save_config: the status of the driver is
\* read, by the former, and the GPUs are enumerated.
StartSave(c) ==
    /\ saving = NoSave
    /\ \/ /\ c.path = "settings" => elevated
          /\ saving' = Saving(c, machine, "enumerated")
          /\ UNCHANGED <<calls, mishaps>>
       \/ /\ IF c.path = "settings" /\ ~elevated THEN UNCHANGED mishaps ELSE Mishap
          /\ Answered(c, "error")
          /\ UNCHANGED saving
    /\ UNCHANGED <<variable, env, backend, page, file, inputs, history>>

\* Faulty variant: only the topology is compared.
require_write_preconditions_Topology(c, devices) ==
    /\ observed \/ expanded(devices)
    /\ c.topology = topology(devices)

require_write_preconditions(c, devices) ==
    /\ observed \/ expanded(devices)
    /\ c.topology = topology(devices)
    /\ c.token = variable

\* The rest of the check of save_bar_settings: the variable is read and both
\* tokens are compared.
CompareSave ==
    /\ At("enumerated")
    /\ saving.call.path = "settings"
    /\ \/ /\ require_write_preconditions(saving.call, saving.devices)
          /\ saving' = Saving(saving.call, saving.devices, "compared")
          /\ UNCHANGED <<calls, mishaps>>
       \/ /\ IF require_write_preconditions(saving.call, saving.devices) THEN Mishap
             ELSE UNCHANGED mishaps
          /\ Refused
    /\ UNCHANGED <<variable, env, backend, page, file, inputs, history>>

\* save_config_for_devices_inner up to the write, for the GPUs enumerated before.
WriteSave ==
    /\ \/ At("compared")
       \/ At("enumerated") /\ saving.call.path = "configure"
    /\ LET written == encode(config_from_draft(saving.call.value, saving.devices))
           writes == backend.accessible /\ Writable(saving.call.value, saving.devices)
       IN  \/ /\ writes
              /\ variable' = written
              /\ saving' = Saving(saving.call, saving.devices, "written")
              /\ UNCHANGED <<calls, mishaps>>
           \/ /\ IF writes THEN Mishap ELSE UNCHANGED mishaps
              /\ Refused
              /\ UNCHANGED variable
    /\ overtaken' = FALSE
    /\ UNCHANGED <<env, backend, page, file, inputs, undisturbed>>

\* Its readback; and the reading for the receipt of save_bar_settings, which may
\* still fail when the state of the backend is that of the save.
ReadBackSave ==
    /\ At("written")
    /\ LET c == saving.call
           config == config_from_draft(c.value, saving.devices)
       IN  \/ /\ variable = encode(config)
              /\ saving' = NoSave
              /\ backend' = [backend EXCEPT !.devices = saving.devices, !.config = config]
              /\ \/ Answered(c, "ok") /\ UNCHANGED <<mishaps, undisturbed>>
                 \/ /\ c.path = "settings" /\ Mishap
                    /\ Answered(c, "error")
                    /\ undisturbed' = FALSE
           \/ /\ IF variable = encode(config) THEN Mishap ELSE UNCHANGED mishaps
              /\ Refused
              /\ undisturbed' = FALSE
              /\ UNCHANGED backend
    /\ UNCHANGED <<variable, env, page, file, inputs, overtaken>>

Run ==
    \/ \E c \in Pending("load") \cup Pending("refresh") : RunLoad(c)
    \/ \E c \in Pending("save") : StartSave(c)
    \/ CompareSave \/ WriteSave \/ ReadBackSave

-----------------------------------------------------------------------------
(* The page. *)

Call(kind, value) ==
    [kind |-> kind, value |-> value, answer |-> "none", current |-> TRUE,
     path |-> "none", token |-> Unreadable, topology |-> <<>>, id |-> 0]

\* createRequestGenerationGuard: a new request makes the earlier ones stale.
Outdate(kinds, all) ==
    {IF c.kind \in kinds THEN [c EXCEPT !.current = FALSE] ELSE c : c \in all}

Loading == {"load", "refresh"}

\* A new draft or snapshot: the report goes and the timer starts over.
Show(newSnap, newDraft, newBaseline) ==
    /\ snap' = newSnap /\ draft' = newDraft /\ baseline' = newBaseline
    /\ report' = NoReport
    /\ timer' = (newSnap # NoSnapshot /\ newDraft # newBaseline)

\* load: on start, by the operator's menu, or by another page that sees a
\* change; the operator is asked before edits are discarded.
Load ==
    /\ calls' = Outdate(Loading, calls) \cup {Call("load", Unreadable)}
    /\ busy' = TRUE
    /\ UNCHANGED <<variable, env, app, snap, draft, baseline, report, timer,
                   path, receipt, restore, file, mishaps, history>>

Input ==
    /\ inputs < MaxInputs
    /\ inputs' = inputs + 1

Refresh == Input /\ snap # NoSnapshot /\ ~busy /\ path = "none" /\ Load

\* Without a snapshot the application shows one button, Try again.
TryAgain ==
    /\ snap = NoSnapshot /\ ~busy
    /\ Load
    /\ UNCHANGED inputs

LoadByOtherPage == Input /\ snap # NoSnapshot /\ path = "none" /\ ~dirty /\ Load

Answers(kind) == {c \in calls : c.kind = kind /\ c.answer # "none"}

\* Faulty variant: the answer is taken without asking the guard.
LoadAnswer_Unguarded(c) ==
    /\ c \in Answers("load")
    /\ calls' = Outdate({"validate"}, calls \ {c})
    /\ busy' = FALSE
    /\ IF c.answer = "ok"
       THEN LET read == IF c.value.config = Unreadable THEN DEFAULT_DRAFT
                        ELSE c.value.config
            IN  Show(c.value, read, read) /\ restore' = NoRestore
       ELSE UNCHANGED <<snap, draft, baseline, report, timer, restore>>
    /\ UNCHANGED <<variable, env, app, path, receipt, file, inputs, mishaps,
                   history>>

LoadAnswer(c) ==
    /\ c \in Answers("load")
    /\ busy' = (busy /\ ~c.current)
    /\ IF c.current /\ c.answer = "ok"
       THEN LET read == IF c.value.config = Unreadable THEN DEFAULT_DRAFT
                        ELSE c.value.config
            IN  /\ Show(c.value, read, read) /\ restore' = NoRestore
                /\ calls' = Outdate({"validate"}, calls \ {c})
       ELSE /\ calls' = calls \ {c}
            /\ UNCHANGED <<snap, draft, baseline, report, timer, restore>>
    /\ UNCHANGED <<variable, env, app, path, receipt, file, inputs, mishaps,
                   history>>

\* The timer of the validation fires.  validate_config: config_from_draft may
\* still fail for a valid draft, and then there is no report.
Checked(kind, d, value) ==
    [Call(kind, value) EXCEPT !.answer =
        IF Valid(d) /\ ~Writable(d, backend.devices) THEN "error" ELSE "ok"]

Validate ==
    /\ timer
    /\ timer' = FALSE
    /\ calls' = calls \cup {Checked("validate", draft, Report(draft))}
    /\ UNCHANGED <<variable, env, app, snap, draft, baseline, report, busy,
                   path, receipt, restore, file, inputs, mishaps, history>>

ValidateAnswer(c) ==
    /\ c \in Answers("validate")
    /\ calls' = calls \ {c}
    /\ report' = IF c.current /\ c.answer = "ok" THEN c.value ELSE report
    /\ UNCHANGED <<variable, env, app, snap, draft, baseline, timer, busy,
                   path, receipt, restore, file, inputs, mishaps, history>>

savePath == IF snap.available THEN "settings" ELSE "configure"

\* The editor is shown.
loaded ==
    /\ snap # NoSnapshot
    /\ savePath = "configure" \/ (snap.config # Unreadable /\ snap.token # Unreadable)

Editable == loaded /\ ~busy /\ path = "none"

SetDraft(newDraft, newRestore) ==
    /\ Input
    /\ Show(snap, newDraft, baseline)
    /\ restore' = newRestore
    /\ calls' = Outdate({"validate"}, calls)
    /\ UNCHANGED <<variable, env, app, busy, path, receipt, file, mishaps, history>>

\* GpuSizeRow.
Choose(gpu, choice) ==
    /\ Editable /\ expansionOn(draft) /\ gpu.turing
    /\ choice # gpuChoice(draft, gpu)
    /\ SetDraft(applyGpuChoice(draft, gpu, choice, snap.devices), restore)

\* The expansion switch.
Switch ==
    /\ Editable
    /\ LET on == ~expansionOn(draft) IN
       SetDraft(withExpansion(draft, on, restore, NoRestore, baseline),
                IF on THEN NoRestore ELSE draft)

\* AdvancedSettings: the two switches of the mode, the motherboard size, the
\* other flags, and the removal of a rule for no GPU of this computer.
Advanced(newDraft) ==
    /\ Editable /\ expansionOn(draft)
    /\ SetDraft(newDraft, restore)

SetMode(mode) ==
    /\ mode # draft.mode
    /\ draft.mode = 0 => mode = 2
    /\ mode = 0 => draft.target # 0 \/ \E i \in DOMAIN draft.rules : Expands(draft.rules[i])
    /\ Advanced([draft EXCEPT !.mode = mode])

SetTarget == Advanced([draft EXCEPT !.target = 32 - @])

SetOptions ==
    Advanced([draft EXCEPT !.options = IF @ = "default" THEN "changed" ELSE "default"])

RemoveRule ==
    \E i \in otherRules(draft, Turing(snap.devices)) :
        Advanced([draft EXCEPT !.rules = RemoveAt(@, i)])

Revert == Editable /\ dirty /\ SetDraft(baseline, NoRestore)

\* The page is left and opened again.
Leave ==
    /\ Input
    /\ restore # NoRestore
    /\ restore' = NoRestore
    /\ UNCHANGED <<variable, env, app, snap, draft, baseline, report, timer,
                   busy, path, receipt, file, calls, mishaps, history>>

canSave ==
    /\ Editable /\ dirty /\ snap.accessible
    /\ report # NoReport /\ report.valid /\ report.changed
    /\ hasOperationalConfiguration(baseline) \/ hasOperationalConfiguration(draft)

\* openSaveConfirmation, and Close.
OpenConfirmation ==
    /\ canSave
    /\ path' = savePath
    /\ UNCHANGED <<variable, env, app, snap, draft, baseline, report, timer,
                   busy, receipt, restore, file, calls, inputs, mishaps, history>>

Close ==
    /\ Input
    /\ path # "none"
    /\ path' = "none"
    /\ UNCHANGED <<variable, env, app, snap, draft, baseline, report, timer,
                   busy, receipt, restore, file, calls, mishaps, history>>

\* save: the settings path sends the tokens of the snapshot on the page.  Two
\* saves are two calls, also when they say the same.
Save ==
    /\ Input
    /\ path # "none"
    /\ path' = "none"
    /\ busy' = TRUE
    /\ calls' = calls \cup
          {[kind |-> "save", value |-> draft, answer |-> "none", current |-> TRUE,
            path |-> path, token |-> snap.token, topology |-> snap.topology,
            id |-> inputs']}
    /\ UNCHANGED <<variable, env, app, snap, draft, baseline, report, timer,
                   receipt, restore, file, mishaps, history>>

\* The answer of the save; a success is followed by a refresh.
SaveAnswer(c) ==
    /\ c \in Answers("save")
    /\ IF c.answer = "ok"
       THEN /\ Show(snap, c.value, c.value)
            /\ receipt' = TRUE /\ restore' = NoRestore
            /\ calls' = Outdate(Loading \cup {"validate"}, calls \ {c})
                          \cup {Call("refresh", c.value)}
            /\ UNCHANGED busy
       ELSE /\ busy' = FALSE
            /\ calls' = calls \ {c}
            /\ UNCHANGED <<snap, draft, baseline, report, timer, receipt, restore>>
    /\ UNCHANGED <<variable, env, app, path, file, inputs, mishaps, history>>

\* The answer of that refresh.  Its save ends here, whoever is loading now.
RefreshAnswer(c) ==
    /\ c \in Answers("refresh")
    /\ busy' = FALSE
    /\ IF c.current /\ c.answer = "ok"
       THEN LET read == IF c.value.config = Unreadable THEN baseline
                        ELSE c.value.config
            IN  /\ Show(c.value, read, read) /\ restore' = NoRestore
                /\ calls' = Outdate({"validate"}, calls \ {c})
       ELSE /\ calls' = calls \ {c}
            /\ UNCHANGED <<snap, draft, baseline, report, timer, restore>>
    /\ UNCHANGED <<variable, env, app, path, receipt, file, inputs, mishaps,
                   history>>

\* exportSettings and export_bar_settings_snapshot: the configuration the
\* backend last read.
Export ==
    /\ Input /\ Editable /\ snap.config # Unreadable
    /\ busy' = TRUE
    /\ IF backend.config = Unreadable
       THEN /\ calls' = calls \cup {[Call("export", Unreadable) EXCEPT !.answer = "error"]}
            /\ UNCHANGED file
       ELSE /\ calls' = calls \cup {[Call("export", Unreadable) EXCEPT !.answer = "ok"]}
            /\ file' = draft_from_config(backend.config)
    /\ UNCHANGED <<variable, env, app, snap, draft, baseline, report, timer,
                   path, receipt, restore, mishaps, history>>

\* importSettings and inspect_bar_settings_snapshot.
Import ==
    /\ Input /\ Editable
    /\ busy' = TRUE
    /\ \E content \in (Files \cup {file}) \ {NoFile} :
          calls' = calls \cup {Checked("import", content, content)}
    /\ UNCHANGED <<variable, env, app, snap, draft, baseline, report, timer,
                   path, receipt, restore, file, mishaps, history>>

FileAnswer(c) ==
    /\ c \in Answers("export") \cup Answers("import")
    /\ busy' = FALSE
    /\ IF c.kind = "import" /\ c.answer = "ok"
       THEN /\ Show(snap, c.value, baseline)
            /\ calls' = Outdate({"validate"}, calls \ {c})
       ELSE /\ calls' = calls \ {c}
            /\ UNCHANGED <<snap, draft, baseline, report, timer>>
    /\ restore' = IF c.answer = "ok" THEN NoRestore ELSE restore
    /\ UNCHANGED <<variable, env, app, path, receipt, file, inputs, mishaps,
                   history>>

Reply ==
    \/ \E c \in calls : LoadAnswer(c) \/ ValidateAnswer(c) \/ SaveAnswer(c)
    \/ \E c \in calls : RefreshAnswer(c) \/ FileAnswer(c)

-----------------------------------------------------------------------------
(* The others. *)

\* The guided installation saves the preset in this process.
SavePreset ==
    /\ Mishap
    /\ backend.accessible /\ Turing(machine) # <<>>
    /\ LET preset == recommend_deployment_config(machine)
           config == config_from_draft(preset, machine)
       IN  /\ Writable(preset, machine)
           /\ variable' = encode(config)
           /\ backend' = [backend EXCEPT !.devices = machine, !.config = config]
    /\ undisturbed' = FALSE
    /\ UNCHANGED <<env, saving, page, file, calls, inputs, overtaken>>

\* Faulty variant: its command is an async one, and may run beside a save.
SaveByInstall_Async == SavePreset

SaveByInstall == saving = NoSave /\ SavePreset

\* Another program writes the variable; a GPU is moved or gets another BAR0.
ChangeByOthers ==
    /\ Mishap
    /\ \/ /\ variable' \in Variables \ {variable}
          /\ overtaken' = At("compared")
          /\ UNCHANGED machine
       \/ machine' \in Machines \ {machine} /\ UNCHANGED <<variable, overtaken>>
    /\ undisturbed' = FALSE
    /\ UNCHANGED <<observed, elevated, app, page, file, calls, inputs>>

Init ==
    /\ variable \in Variables
    /\ machine = Machine
    /\ elevated \in BOOLEAN
    /\ observed \in IF elevated THEN BOOLEAN ELSE {TRUE}
    /\ backend = [devices |-> <<>>, config |-> Unreadable, accessible |-> FALSE]
    /\ saving = NoSave
    /\ snap = NoSnapshot
    /\ draft = DEFAULT_DRAFT /\ baseline = DEFAULT_DRAFT
    /\ report = NoReport /\ timer = FALSE
    /\ busy = TRUE /\ path = "none"
    /\ receipt = FALSE /\ restore = NoRestore
    /\ file = NoFile
    /\ calls = {Call("load", Unreadable)}
    /\ inputs = 0 /\ mishaps = 0
    /\ undisturbed = TRUE /\ overtaken = FALSE

Operator ==
    \/ Refresh \/ Switch \/ SetTarget \/ SetOptions \/ RemoveRule \/ Revert
    \/ \E mode \in 0 .. 2 : SetMode(mode)
    \/ snap # NoSnapshot /\ \E i \in DOMAIN snap.devices, size \in Sizes :
            Choose(snap.devices[i], size)
    \/ Leave \/ OpenConfirmation \/ Close \/ Save \/ Export \/ Import

Next ==
    \/ Run \/ Reply \/ Validate \/ TryAgain
    \/ Operator \/ LoadByOtherPage
    \/ SaveByInstall \/ ChangeByOthers

Spec == Init /\ [][Next]_vars

-----------------------------------------------------------------------------

\* The size the driver would give a GPU, as the page writes it.
Driven(config, gpu) ==
    LET size == lookup_bar_size(config, gpu)
    IN  IF size = Null THEN EXCLUDED_SELECTOR ELSE size

ShownGpus == IF snap = NoSnapshot THEN {} ELSE Range(Turing(snap.devices))

\* Whatever rules a draft has come to hold, by edits, a file or another program,
\* the size the page shows for a GPU is the one the driver's lookup finds.  (No
\* rule in Variables has a location without a board: the page takes such a rule
\* for one of no GPU, the driver for one of every GPU of the model.)
ShowsWhatTheDriverDoes ==
    \A gpu \in ShownGpus : Shown(draft, gpu) = Driven(Rules(draft), gpu)

\* Choosing a size changes that GPU only: every other GPU keeps its size, all
\* keep their mask override, and a valid draft stays valid.
ChoiceIsThatGpuOnly ==
    Editable =>
        \A gpu \in ShownGpus, size \in Sizes :
            LET chosen == applyGpuChoice(draft, gpu, size, snap.devices) IN
            /\ \A other \in Range(snap.devices) :
                  /\ other # gpu => lookup_bar_size(Rules(chosen), other)
                                      = lookup_bar_size(Rules(draft), other)
                  /\ lookup_bar_size_mask_override(Rules(chosen), other)
                       = lookup_bar_size_mask_override(Rules(draft), other)
            /\ lookup_bar_size(Rules(chosen), gpu)
                 = IF size = Null THEN automaticSelector(draft, gpu) ELSE size
            /\ validate_draft(draft, snap.devices) => validate_draft(chosen, snap.devices)

\* Between the comparison of a save on the settings path and its write nothing
\* of this application comes in: what the write replaces is the configuration the
\* page had read when the save was confirmed, never a preset the installation or
\* another save of the page stored since.  Another program that writes in between
\* is not noticed.  The addresses stored are those of the GPUs the page had read.
ReplacesWhatWasRead ==
    [][(At("compared") /\ At("written")') =>
          /\ topology(saving.devices) = saving.call.topology
          /\ overtaken \/ variable = saving.call.token]_vars

\* Once it says so and nothing is under way, the settings on the page are the
\* saved ones: the driver will give every GPU the size the page shows.
SavedAsShown ==
    (receipt /\ ~dirty /\ calls = {} /\ undisturbed) =>
        \A gpu \in ShownGpus : Shown(draft, gpu) = Driven(decode(variable), gpu)

=============================================================================

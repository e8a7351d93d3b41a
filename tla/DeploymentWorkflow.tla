------------------------- MODULE DeploymentWorkflow -------------------------
(***************************************************************************)
(* The guided deployment: the commands of the application that complete    *)
(* the steps of the Deployment Plan, the machine they observe, and the     *)
(* operator who flashes, configures and reboots it.                        *)
(*                                                                         *)
(*   src-tauri/src/deployment.rs           profile, preflight, preparation *)
(*   src-tauri/src/deployment_workflow.rs  attestation, driver and reboot  *)
(*                                         verification, configuration     *)
(*   src-tauri/src/reboot.rs               the restarts it asks for        *)
(*   src-tauri/src/resizable_bar*          the aperture evidence           *)
(*   crates/nvstraps-deploy/src/lib.rs     the plan, identity comparison   *)
(*                                                                         *)
(* A command loads the plan, compares the machine with the latest pinned   *)
(* identity, and then acts and records in steps of its own; the process    *)
(* may die and the record may fail between any two of them.  One process   *)
(* records at a time, for which PlanStore shows that saving a revision is  *)
(* the atomic append used here.                                            *)
(*                                                                         *)
(* Time is counted in boots: each boot happens at a later clock value, and *)
(* the boot time the application computes is the clock minus the uptime,   *)
(* so that setting the clock moves it as well.                             *)
(***************************************************************************)
EXTENDS Integers, Sequences, FiniteSets

CONSTANTS LegacyBoard,       \* the profile's board path is LegacyAbove4g
          EarlierDriver,     \* the installed firmware carries a driver already
          Bar0,              \* the addresses BAR0 may have
          Turing,            \* the pinned GPUs the driver sets up
          Native,            \* the pinned GPUs with a Resizable BAR of their own
          NotAvailable,      \* a value nvidia-smi does not know
          Disturbances,      \* what may go wrong, see Disturb
          MaxDisturbances,   \* bound: how often something goes wrong
          NoPlan, NoIdentity, NoCommand, NoPreview, NoConfig

Gpus == Turing \cup Native

ASSUME WorkflowAssumption ==
    /\ LegacyBoard \in BOOLEAN
    /\ EarlierDriver \in BOOLEAN
    /\ NoConfig \notin Bar0
    /\ Turing # {}
    /\ NotAvailable \notin Nat
    /\ MaxDisturbances \in Nat

VARIABLES
    \* The store.
    profile,         \* MachineProfile::identity
    plan,            \* the evidence of the completed steps
    \* The application.
    cmd,             \* the command in progress
    preview,         \* the manual step and revision shown to the operator
    \* The machine.
    rom,             \* the firmware in the flash chip
    running,         \* the firmware of the current boot
    newRevision,     \* the patched image reports another BIOS version
    setup,           \* the firmware setup values are in force
    bar0,            \* the address of the GPU's BAR0
    place,           \* the board and the slots the devices are in
    status,          \* the volatile driver status variable
    config,          \* the BAR0 the saved configuration was made for
    clock,           \* the wall clock
    bootedAt,        \* the wall clock minus the uptime
    \* History.
    witnessed,       \* the completed steps whose claim was then true
    rebooted,        \* the machine was booted since a configuration was saved
    disturbances     \* how many disturbances there were

store == <<profile, plan, witnessed>>
machine == <<rom, running, newRevision, setup, bar0, place, status, config,
             clock, bootedAt>>
vars == <<store, cmd, preview, machine, rebooted, disturbances>>

-----------------------------------------------------------------------------

\* DeploymentPlan::build.
Steps ==
    <<"VerifyProfile", "ConfirmRecovery", "PreserveOriginalFirmware",
      "PrepareRustDriver">>
    \o (IF LegacyBoard THEN <<"ApplyLegacyBoardPatches">> ELSE <<>>)
    \o <<"VerifyPatchedArtifact", "FlashWithVendorRoute",
         "ConfigureFirmwareSetup", "RebootAfterFirmware",
         "VerifyDriverLoaded", "WriteNvstrapsConfiguration",
         "RebootAfterConfiguration", "VerifyResizableBar",
         "ConfigureNvidiaApplications">>

Complete == plan # NoPlan /\ Len(plan) = Len(Steps)

\* active_step, is_step_completed and completed_evidence.
Active == IF plan = NoPlan \/ Complete THEN "none" ELSE Steps[Len(plan) + 1]

IndexOf(step) == CHOOSE i \in DOMAIN Steps : Steps[i] = step

completed(step) == plan # NoPlan /\ Len(plan) >= IndexOf(step)

evidence(step) == plan[IndexOf(step)]

Provisioning == {"VerifyProfile", "ConfirmRecovery", "PreserveOriginalFirmware"}
Preparation == {"PrepareRustDriver", "ApplyLegacyBoardPatches",
                "VerifyPatchedArtifact"}
Manual == {"FlashWithVendorRoute", "ConfigureFirmwareSetup",
           "ConfigureNvidiaApplications"}
Restarts == {"setupReboot", "configurationReboot"}

Firmware == {"current", "patched"}

\* The value of the status variable: none, unconfigured, PCI Resizable BAR
\* configured, and an EFI error (DriverStatus::code).
Missing == 0
Unconfigured == 40
PciConfigured == 120
EfiError == 170

HasDriver(firmware) == firmware = "patched" \/ EarlierDriver

Bios(firmware) == IF newRevision THEN firmware ELSE "current"

Identity == [bios: Firmware, bar0: Bar0, place: {"pinned", "other"}]

\* collect_machine_identity.
Current == [bios |-> Bios(running), bar0 |-> bar0, place |-> place]

ASSUME NoIdentityAssumption == NoIdentity \notin Identity

Evidence == [time: Int, identity: Identity \cup {NoIdentity}]

Fact == [time |-> 0, identity |-> NoIdentity]

Commands ==
    [name: {"provision", "prepare", "confirm", "driver", "config", "reboot",
            "observe"},
     stage: {"loaded", "checked", "written"},
     identity: Identity,
     time: Int]

TypeOK ==
    /\ profile \in Identity \cup {NoIdentity}
    /\ plan = NoPlan \/ (plan \in Seq(Evidence) /\ Len(plan) <= Len(Steps))
    /\ cmd = NoCommand \/ cmd \in Commands
    /\ preview = NoPreview
       \/ preview \in [step: Manual \cup Restarts, revision: 0 .. Len(Steps)]
    /\ rom \in Firmware /\ running \in Firmware
    /\ newRevision \in BOOLEAN /\ setup \in BOOLEAN
    /\ bar0 \in Bar0 /\ place \in {"pinned", "other"}
    /\ status \in {Missing, Unconfigured, PciConfigured, EfiError}
    /\ config \in Bar0 \cup {NoConfig}
    /\ clock \in Int /\ bootedAt \in Int
    /\ witnessed \subseteq {Steps[i] : i \in DOMAIN Steps}
    /\ rebooted \in BOOLEAN
    /\ disturbances \in 0 .. MaxDisturbances

Init ==
    /\ profile = NoIdentity
    /\ plan = NoPlan
    /\ cmd = NoCommand
    /\ preview = NoPreview
    /\ rom = "current" /\ running = "current"
    /\ newRevision \in BOOLEAN
    /\ setup \in BOOLEAN
    /\ bar0 \in Bar0
    /\ place = "pinned"
    /\ status = IF EarlierDriver THEN Unconfigured ELSE Missing
    /\ config = NoConfig
    /\ clock = 1 /\ bootedAt = 1
    /\ witnessed = {}
    /\ rebooted = TRUE
    /\ disturbances = 0

-----------------------------------------------------------------------------

\* latest_boot_observation, or the profile before there is one.
LatestIdentity ==
    IF completed("RebootAfterConfiguration")
    THEN evidence("RebootAfterConfiguration").identity
    ELSE IF completed("RebootAfterFirmware")
    THEN evidence("RebootAfterFirmware").identity
    ELSE profile

\* compare_exact, compare_allowing_bar0_relocation and
\* compare_allowing_firmware_transition.
exact(expected) == Current = expected
allowing_bar0_relocation(expected) ==
    Current.bios = expected.bios /\ Current.place = expected.place
allowing_firmware_transition(expected) == Current.place = expected.place

\* Faulty variant: the handoffs accept another machine.
Preflight_AnyMachine ==
    CASE Active \in {"FlashWithVendorRoute", "ConfigureFirmwareSetup",
                     "RebootAfterFirmware"} -> TRUE
      [] Active = "RebootAfterConfiguration"
            -> allowing_bar0_relocation(LatestIdentity)
      [] OTHER -> exact(LatestIdentity)

\* deployment_identity_comparison.
Preflight ==
    CASE Active \in {"FlashWithVendorRoute", "ConfigureFirmwareSetup",
                     "RebootAfterFirmware"}
            -> allowing_firmware_transition(LatestIdentity)
      [] Active = "RebootAfterConfiguration"
            -> allowing_bar0_relocation(LatestIdentity)
      [] OTHER -> exact(LatestIdentity)

Command(name, stage, time) ==
    [name |-> name, stage |-> stage, identity |-> Current, time |-> time]

\* load_exact_deployment, and the plan's active step is one the command is for.
\* A command that is refused changes nothing.
exact_deployment(steps) ==
    /\ cmd = NoCommand
    /\ plan # NoPlan
    /\ Active \in steps
    /\ Preflight

load_exact(name, steps) ==
    /\ exact_deployment(steps)
    /\ cmd' = Command(name, "loaded", 0)
    /\ UNCHANGED <<store, preview, machine, rebooted, disturbances>>

Busy(name, stage) == cmd # NoCommand /\ cmd.name = name /\ cmd.stage = stage

\* Current_bar_size as Windows enumerates it: the legacy window or more.
Legacy == 1
Expanded == 2

current_bar_size(gpu) ==
    IF (gpu \in Turing /\ status = PciConfigured) \/ (gpu \in Native /\ setup)
    THEN Expanded ELSE Legacy

\* What the completion of a step claims of the machine at that moment.
Witness(step) ==
    CASE step = "RebootAfterFirmware" -> running = "patched"
      [] step = "RebootAfterConfiguration" -> rebooted
      [] step = "VerifyResizableBar"
            -> \A gpu \in Gpus : current_bar_size(gpu) = Expanded
      [] OTHER -> TRUE

\* DeploymentWorkflow::record_step for the active step.
record_step(value) ==
    /\ plan' = Append(plan, value)
    /\ witnessed' = witnessed \cup {step \in {Active} : Witness(step)}
    /\ UNCHANGED <<profile, preview, machine, rebooted, disturbances>>

Return == cmd' = NoCommand

-----------------------------------------------------------------------------

(***************************************************************************)
(* create_profile_command and provision_profile: pin the identity, store   *)
(* revision 0, record the three provisioning steps.  A repeated call with  *)
(* the same machine resumes; another machine gets another profile.         *)
(***************************************************************************)
CreateProfile ==
    /\ cmd = NoCommand
    /\ \/ profile = NoIdentity
       \/ profile = Current /\ (plan = NoPlan \/ Active \in Provisioning)
    /\ profile' = Current
    /\ cmd' = Command("provision", "loaded", 0)
    /\ UNCHANGED <<plan, witnessed, preview, machine, rebooted, disturbances>>

ProvisionPlan ==
    /\ Busy("provision", "loaded")
    /\ plan = NoPlan
    /\ plan' = <<>>
    /\ UNCHANGED <<profile, witnessed, cmd, preview, machine, rebooted,
                   disturbances>>

ProvisionStep ==
    /\ Busy("provision", "loaded")
    /\ Active \in Provisioning
    /\ record_step(Fact)
    /\ IF Active = "PreserveOriginalFirmware" THEN Return ELSE UNCHANGED cmd

\* prepare_command: the artifacts are preserved and recorded one by one.
PrepareLoad == load_exact("prepare", Preparation)

PrepareStep ==
    /\ Busy("prepare", "loaded")
    /\ Active \in Preparation
    /\ record_step(Fact)
    /\ IF Active = "VerifyPatchedArtifact" THEN Return ELSE UNCHANGED cmd

\* preview_manual_deployment_step: the token names step and revision.
PreviewManual ==
    /\ exact_deployment(Manual)
    /\ preview' = [step |-> Active, revision |-> Len(plan)]
    /\ UNCHANGED <<store, cmd, machine, rebooted, disturbances>>

\* The operator confirms only what was done.
Done(step) ==
    CASE step = "FlashWithVendorRoute" -> rom = "patched"
      [] step = "ConfigureFirmwareSetup" -> setup
      [] OTHER -> TRUE

\* confirm_manual_deployment_step.
ConfirmLoad ==
    /\ preview # NoPreview
    /\ preview.step = Active
    /\ preview.revision = Len(plan)
    /\ Done(preview.step)
    /\ load_exact("confirm", Manual)

ConfirmRecord ==
    /\ Busy("confirm", "loaded")
    /\ record_step(Fact)
    /\ Return

(***************************************************************************)
(* verify_deployment_driver: a loaded status of the current boot completes *)
(* RebootAfterFirmware with a boot observation, then VerifyDriverLoaded.   *)
(***************************************************************************)
\* Faulty variant: VerifyDriverLoaded alone cannot be resumed.
DriverLoad_BootOnly == load_exact("driver", {"RebootAfterFirmware"})

DriverLoad == load_exact("driver", {"RebootAfterFirmware", "VerifyDriverLoaded"})

\* Faulty variant: any status is accepted.
DriverStatus_Any ==
    /\ Busy("driver", "loaded")
    /\ cmd' = [cmd EXCEPT !.stage = "checked"]
    /\ UNCHANGED <<store, preview, machine, rebooted, disturbances>>

proves_driver_loaded(code) ==
    code \in {20, 30, 40, 50, 60, 70, 80, 90, 100, 110, 120, 130, 135, 140, 150}

\* read_driver_status_raw: a missing variable is an error.
DriverStatus ==
    /\ Busy("driver", "loaded")
    /\ \/ /\ status # Missing /\ proves_driver_loaded(status)
          /\ cmd' = [cmd EXCEPT !.stage = "checked"]
       \/ /\ status = Missing \/ ~proves_driver_loaded(status)
          /\ Return
    /\ UNCHANGED <<store, preview, machine, rebooted, disturbances>>

DriverRecord ==
    /\ Busy("driver", "checked")
    /\ \/ /\ Active = "RebootAfterFirmware"
          /\ record_step([time |-> clock, identity |-> cmd.identity])
          /\ UNCHANGED cmd
       \/ /\ Active = "VerifyDriverLoaded"
          /\ record_step(Fact)
          /\ Return

(***************************************************************************)
(* save_deployment_config: the devices are enumerated once more and must   *)
(* not have changed; the variable is written, read back and only then      *)
(* recorded, with the time of the readback.                                *)
(***************************************************************************)
ConfigLoad == load_exact("config", {"WriteNvstrapsConfiguration"})

\* Faulty variant: require_unchanged_write_inventory is not called.
ConfigEnumerate_Unchecked ==
    /\ Busy("config", "loaded")
    /\ cmd' = Command("config", "checked", 0)
    /\ UNCHANGED <<store, preview, machine, rebooted, disturbances>>

ConfigEnumerate ==
    /\ Busy("config", "loaded")
    /\ \/ /\ bar0 = cmd.identity.bar0 /\ place = cmd.identity.place
          /\ cmd' = Command("config", "checked", 0)
       \/ /\ bar0 # cmd.identity.bar0 \/ place # cmd.identity.place
          /\ Return
    /\ UNCHANGED <<store, preview, machine, rebooted, disturbances>>

ConfigWrite ==
    /\ Busy("config", "checked")
    /\ config' = cmd.identity.bar0
    /\ cmd' = [cmd EXCEPT !.stage = "written", !.time = clock]
    /\ rebooted' = FALSE
    /\ UNCHANGED <<store, preview, rom, running, newRevision, setup, bar0,
                   place, status, clock, bootedAt, disturbances>>

ConfigRecord ==
    /\ Busy("config", "written")
    /\ record_step([time |-> cmd.time, identity |-> NoIdentity])
    /\ Return

\* Faulty variant of boot_proves_configuration_reboot: not strictly later.
boot_proves_configuration_reboot_Same(saved) == bootedAt >= saved

boot_proves_configuration_reboot(saved) == bootedAt > saved

\* verify_configuration_reboot.
RebootLoad ==
    /\ load_exact("reboot", {"RebootAfterConfiguration"})
    /\ boot_proves_configuration_reboot(evidence("WriteNvstrapsConfiguration").time)

RebootRecord ==
    /\ Busy("reboot", "loaded")
    /\ record_step([time |-> bootedAt, identity |-> cmd.identity])
    /\ Return

(***************************************************************************)
(* collect_nvidia_smi_evidence: nvidia-smi reports the BAR1 memory of the  *)
(* GPUs it sees; every pinned GPU must be reported, with a total that adds *)
(* up, agrees with Windows and exceeds the legacy window.                  *)
(***************************************************************************)
\* bar1_memory_usage; parse_memory_bytes reads N/A as no value.
Reports == [total: {Legacy, Expanded, NotAvailable}, used: {0, 1}, free: {1, NotAvailable}]

\* Faulty variant: nvidia-smi alone is believed.
expanded_SmiOnly(report, gpu) ==
    /\ NotAvailable \notin {report.total, report.used, report.free}
    /\ report.used + report.free = report.total
    /\ report.total > Legacy

\* classify_aperture is ResizableBarApertureState::Expanded.
expanded(report, gpu) ==
    /\ NotAvailable \notin {report.total, report.used, report.free}
    /\ report.used + report.free = report.total
    /\ report.total = current_bar_size(gpu)
    /\ report.total > Legacy

\* build_evidence.
all_profile_gpus_observed(smi) == Gpus \subseteq DOMAIN smi

require_resizable_bar_proof(smi) ==
    /\ all_profile_gpus_observed(smi)
    /\ \A gpu \in Gpus : expanded(smi[gpu], gpu)

ObserveLoad ==
    /\ exact_deployment({"VerifyResizableBar"})
    /\ \E seen \in SUBSET Gpus : \E smi \in [seen -> Reports] :
          require_resizable_bar_proof(smi)
    /\ load_exact("observe", {"VerifyResizableBar"})

ObserveRecord ==
    /\ Busy("observe", "loaded")
    /\ record_step(Fact)
    /\ Return

(***************************************************************************)
(* The restarts: a command of its own previews one, and the token the      *)
(* preview showed confirms it.  The one into the firmware setup names the  *)
(* profile only, the one after the configuration the plan revision too.    *)
(***************************************************************************)
PreviewSetupReboot ==
    /\ exact_deployment({"FlashWithVendorRoute", "ConfigureFirmwareSetup"})
    /\ preview' = [step |-> "setupReboot", revision |-> 0]
    /\ UNCHANGED <<store, cmd, machine, rebooted, disturbances>>

PreviewConfigurationReboot ==
    /\ exact_deployment({"RebootAfterConfiguration"})
    /\ preview' = [step |-> "configurationReboot", revision |-> Len(plan)]
    /\ UNCHANGED <<store, cmd, machine, rebooted, disturbances>>

CommandStep ==
    \/ ProvisionPlan \/ ProvisionStep \/ PrepareStep \/ ConfirmRecord
    \/ DriverStatus \/ DriverRecord
    \/ ConfigEnumerate \/ ConfigWrite \/ ConfigRecord
    \/ RebootRecord \/ ObserveRecord

UserCommand ==
    \/ CreateProfile \/ PrepareLoad \/ PreviewManual \/ ConfirmLoad
    \/ DriverLoad \/ ConfigLoad \/ RebootLoad \/ ObserveLoad
    \/ PreviewSetupReboot \/ PreviewConfigurationReboot

-----------------------------------------------------------------------------

(***************************************************************************)
(* The operator and the machine.                                           *)
(***************************************************************************)
\* The vendor route, from Windows or outside of it, may reset the setup.
Flash ==
    /\ completed("VerifyPatchedArtifact")
    /\ rom = "current"
    /\ ~completed("FlashWithVendorRoute")
    /\ rom' = "patched"
    /\ setup' \in {setup, FALSE}
    /\ UNCHANGED <<store, cmd, preview, running, newRevision, bar0, place,
                   status, config, clock, bootedAt, rebooted,
                   disturbances>>

\* A boot, through the firmware setup or not.  BAR0 may move when the boot
\* hands over other firmware, other setup values or a configuration.
Boot(throughSetup, error, newPlace) ==
    /\ cmd = NoCommand
    /\ preview' = NoPreview
    /\ running' = rom
    /\ setup' = (setup \/ throughSetup)
    /\ status' = CASE ~HasDriver(rom) -> Missing
                   [] HasDriver(rom) /\ error -> EfiError
                   [] HasDriver(rom) /\ ~error /\ config = NoConfig -> Unconfigured
                   [] OTHER -> PciConfigured
    /\ IF \/ running' # running \/ setup' # setup
          \/ (status' = PciConfigured) # (status = PciConfigured)
       THEN bar0' \in Bar0 ELSE UNCHANGED bar0
    /\ place' = newPlace
    /\ clock' = clock + 1
    /\ bootedAt' = clock'
    /\ rebooted' = TRUE
    /\ UNCHANGED <<store, cmd, rom, newRevision, config>>

validate_confirmation ==
    preview # NoPreview /\ preview = [step |-> "setupReboot", revision |-> 0]

validate_configuration_confirmation ==
    /\ preview # NoPreview
    /\ preview = [step |-> "configurationReboot", revision |-> Len(plan)]

\* reboot_to_firmware_setup.  Bound: the operator asks for it until the setup
\* values are in force.
RebootToSetup ==
    /\ validate_confirmation
    /\ exact_deployment({"FlashWithVendorRoute", "ConfigureFirmwareSetup"})
    /\ ~setup
    /\ Boot(TRUE, FALSE, place)
    /\ UNCHANGED disturbances

\* reboot_after_configuration.  Bound: until a later boot took place.
RebootAfterConfiguration ==
    /\ validate_configuration_confirmation
    /\ exact_deployment({"RebootAfterConfiguration"})
    /\ bootedAt <= evidence("WriteNvstrapsConfiguration").time
    /\ Boot(FALSE, FALSE, place)
    /\ UNCHANGED disturbances

\* The other boots the active step asks for, as long as the driver is in the chip.
NeedsBoot ==
    CASE Active \in {"RebootAfterFirmware", "VerifyDriverLoaded"}
            -> HasDriver(rom) /\ (running # rom \/ ~proves_driver_loaded(status))
      [] Active = "VerifyResizableBar" -> HasDriver(rom) /\ status # PciConfigured
      [] OTHER -> FALSE

OperatorBoot ==
    /\ NeedsBoot
    /\ Boot(FALSE, FALSE, place)
    /\ UNCHANGED disturbances

Disturb(kind) ==
    /\ kind \in Disturbances
    /\ disturbances < MaxDisturbances
    /\ disturbances' = disturbances + 1

\* The process dies, or the readback of the variable or the record of a step
\* fails and the command returns the error.
Crash ==
    /\ Disturb("crash")
    /\ cmd # NoCommand
    /\ Return
    /\ preview' = NoPreview
    /\ UNCHANGED <<store, machine, rebooted>>

\* A boot nobody asked for, one in which the driver reports an error, and one
\* on another board or with the GPU in another slot.
SpareBoot == Disturb("spareBoot") /\ Boot(FALSE, FALSE, place)

ErrorBoot ==
    /\ Disturb("errorBoot")
    /\ HasDriver(rom)
    /\ Boot(FALSE, TRUE, place)

OtherBoot ==
    /\ Disturb("otherBoot")
    /\ \E p \in {"pinned", "other"} \ {place} : Boot(FALSE, FALSE, p)

\* The vendor's firmware is flashed back.
Reflash ==
    /\ Disturb("reflash")
    /\ rom = "patched"
    /\ rom' = "current"
    /\ UNCHANGED <<store, cmd, preview, running, newRevision, setup, bar0,
                   place, status, config, clock, bootedAt, rebooted>>

\* Windows reassigns BAR0 while it runs.
Rebalance ==
    /\ Disturb("rebalance")
    /\ bar0' \in Bar0 \ {bar0}
    /\ UNCHANGED <<store, cmd, preview, rom, running, newRevision, setup,
                   place, status, config, clock, bootedAt, rebooted>>

\* The clock is set back, and with it the computed boot time.
SetClockBack ==
    /\ Disturb("clockBack")
    /\ clock' = clock - 2
    /\ bootedAt' = bootedAt - 2
    /\ UNCHANGED <<store, cmd, preview, rom, running, newRevision, setup, bar0,
                   place, status, config, rebooted>>

Environment ==
    \/ Flash \/ RebootToSetup \/ RebootAfterConfiguration \/ OperatorBoot
    \/ Crash \/ SpareBoot \/ ErrorBoot \/ OtherBoot
    \/ Reflash \/ Rebalance \/ SetClockBack

Next == UserCommand \/ CommandStep \/ Environment

Spec == Init /\ [][Next]_vars

\* A command that started goes on, and an operator who perseveres retries the
\* command, flashes and reboots as the active step asks.
Fairness ==
    /\ WF_vars(CommandStep)
    /\ WF_vars(CreateProfile) /\ WF_vars(PrepareLoad)
    /\ WF_vars(PreviewManual) /\ SF_vars(ConfirmLoad)
    /\ SF_vars(DriverLoad) /\ SF_vars(ConfigLoad)
    /\ SF_vars(RebootLoad) /\ SF_vars(ObserveLoad)
    /\ WF_vars(PreviewSetupReboot) /\ SF_vars(RebootToSetup)
    /\ WF_vars(PreviewConfigurationReboot) /\ SF_vars(RebootAfterConfiguration)
    /\ WF_vars(Flash) /\ SF_vars(OperatorBoot)

FairSpec == Spec /\ Fairness

-----------------------------------------------------------------------------

Claimed(step) == completed(step) => step \in witnessed

\* "Reboot completion requires evidence from the rebooted system": when the
\* plan says the patched firmware was booted, it was running.
FirmwareRebootProven == Claimed("RebootAfterFirmware")

\* When the plan says the configuration reboot took place, the machine was
\* booted after the configuration was read back.
ConfigurationRebootProven == Claimed("RebootAfterConfiguration")

\* When the plan says the Resizable BAR is verified, every pinned GPU had an
\* expanded one, whatever nvidia-smi reported.
ApertureProven == Claimed("VerifyResizableBar")

\* No step is completed on another board or with devices in other slots,
\* whatever boot handoff is open.
OnlyPinnedMachine ==
    [][plan' # plan /\ completed("VerifyProfile") => place = profile.place]_vars

\* A configuration is only ever written for the BAR0 pinned at that time.
ConfigForPinnedBar0 ==
    [][config' # config => config' = LatestIdentity.bar0]_vars

\* The plan is resumable: whatever is interrupted, an operator who perseveres
\* completes it, as long as the machine finally remains the pinned one and keeps
\* the driver in its chip.
Resumable ==
    <>[](/\ profile # NoIdentity => Preflight
         /\ completed("FlashWithVendorRoute") => rom = "patched")
    => <>Complete

=============================================================================

----------------------------- MODULE DriverBoot -----------------------------
(***************************************************************************)
(* The DXE driver over boots: the configuration variable the application   *)
(* saves, the guards the driver passes before it acts, the enumeration of  *)
(* the PCI devices, and the status variable it leaves for Windows.         *)
(*                                                                         *)
(*   crates/nvstraps-uefi/src/driver.rs          initialize                *)
(*   crates/nvstraps-uefi/src/setup_variable.rs  the setup guard           *)
(*   crates/nvstraps-uefi/src/host_bridge.rs     the hook                  *)
(*   crates/nvstraps-uefi/src/engine.rs          process_device            *)
(*   crates/nvstraps-uefi/src/status_writer.rs, variables.rs               *)
(*   crates/nvstraps-core/src/{config,status,boot_policy}.rs               *)
(*   src-tauri/src/config.rs, app.rs, bar_settings_commands.rs   the save  *)
(*                                                                         *)
(* initialize runs to its end before the enumeration begins; each of its   *)
(* actions ends at an early return or at the next guard.  The hook is      *)
(* called for every device, in an order the firmware chooses.  The writes  *)
(* to the registers of one GPU are the module DeviceTransaction; here a    *)
(* transaction has one of the outcomes of its receipt.  The power may go   *)
(* between any two steps.                                                  *)
(***************************************************************************)
EXTENDS Naturals, FiniteSets

CONSTANTS Gpus, Bridges, Buses,
          Topologies,    \* bus numbers the firmware may assign, see Topology
          Setups,        \* values of the firmware's Setup variable
          Drafts,        \* what the user saves: rules, target, guard
          MaxFaults,     \* bound: failing firmware calls
          None, Malformed

Topology == [bus : [Gpus -> Buses], above : [Buses -> Bridges]]

Draft == [rules : [Gpus -> {"none", "size", "excluded"}],
          scope : {"device", "location"},
          target : {"disabled", "global", "gpu", "straps"},
          guard : BOOLEAN, override : BOOLEAN]

Config == [draft : Draft, crc : Setups \cup {None}, hardware : Topology]

\* The statuses of this driver; an EFI error is above every plain code.
Configured == 20
GpuUnconfigured == 30
Unconfigured == 40
Cleared == 50
BridgeFound == 60
GpuFound == 70
GpuStrapsConfigured == 80
GpuStrapsPreConfigured == 90
GpuStrapsConfirm == 100
GpuReBarConfigured == 120
GpuStrapsNoConfirm == 130
GpuReBarSizeOverride == 135
GpuNoReBarCapability == 140
GpuExcluded == 150
BadBridgeConfig == 160
BridgeNotEnumerated == 161
NoGpuConfig == 162
BadGpuConfig == 163
MissingSetupVariable == 166
ParseError == 200
EfiError == 300
NotLoaded == 10

Codes == {Configured, GpuUnconfigured, Unconfigured, Cleared, BridgeFound,
          GpuFound, GpuStrapsConfigured, GpuStrapsPreConfigured,
          GpuStrapsConfirm, GpuReBarConfigured, GpuStrapsNoConfirm,
          GpuReBarSizeOverride, GpuNoReBarCapability, GpuExcluded, BadBridgeConfig, BridgeNotEnumerated, NoGpuConfig,
          BadGpuConfig, MissingSetupVariable, ParseError, EfiError}

ASSUME BootAssumption ==
    /\ Gpus \cap Bridges = {}
    /\ Topologies \subseteq Topology
    /\ \A topology \in Topologies : \A n, m \in Buses :
          topology.above[n] = topology.above[m] => n = m
    /\ Drafts \subseteq Draft
    /\ MaxFaults \in Nat
    /\ None \notin Setups \cup Buses \cup Codes
    /\ None \notin Config /\ Malformed \notin Config
    /\ Malformed # None

VARIABLES
    hardware,     \* the bus numbers of this machine
    setup,        \* the Setup variable, None when it is missing
    clock,        \* the clock was not reset
    variable,     \* NvStrapsReBar: a configuration, None or Malformed
    stage,        \* where this boot is
    running,      \* the configuration in memory
    status,       \* the accumulator
    shown,        \* NvStrapsReBarStatus, None when it does not exist
    enumerated,   \* configured bridges the hook was called for
    visited,      \* calls of the hook: device and phase
    straps,       \* GPUs whose straps this boot programmed
    resized,      \* GPUs whose BAR1 this boot resized
    faults,       \* how many firmware calls failed
    quiet,        \* none of them in this boot
    saved,        \* history: what the user wants, None when it was cleared
    pinned        \* history: the setup this configuration first ran under

machine == <<hardware, setup, clock>>
driver == <<running, status, enumerated, visited, straps, resized>>
history == <<saved, pinned>>
vars == <<machine, variable, stage, driver, shown, faults, quiet, history>>

Stages == {"off", "read", "target", "guard", "clock", "install",
           "enumeration", "idle", "windows"}

Phases == {0, 1}
Devices == Gpus \cup Bridges

-----------------------------------------------------------------------------
(* The configuration.                                                      *)

is_gpu_configured(config) == \E g \in Gpus : config.draft.rules[g] # "none"

effective_target(config) ==
    IF config.draft.target = "disabled" /\ is_gpu_configured(config)
    THEN "straps" ELSE config.draft.target

\* encode: a configuration that asks for nothing is a deleted variable.
Encoded(config) ==
    IF config.draft.target = "disabled" /\ ~is_gpu_configured(config)
    THEN None ELSE config

\* lookup_bar_size: a rule for a location holds on its bus only.
lookup_bar_size(config, g) ==
    IF /\ config.draft.scope = "location"
       /\ config.hardware.bus[g] # hardware.bus[g]
    THEN "none" ELSE config.draft.rules[g]

\* populate_hardware: an entry for each GPU a rule gives a size, by address.
Populated(config) == {g \in Gpus : config.draft.rules[g] = "size"}

has_gpu_config(config, n) ==
    \E g \in Populated(config) : config.hardware.bus[g] = n

lookup_bridge_config(config, n) == config.hardware.above[n]

bridge_devices(config) ==
    {config.hardware.above[config.hardware.bus[g]] : g \in Populated(config)}

bridge_secondary_bus(b) ==
    IF \E n \in Buses : hardware.above[n] = b
    THEN CHOOSE n \in Buses : hardware.above[n] = b ELSE None

-----------------------------------------------------------------------------
(* The status: it only grows, and nothing is above the first EFI error.    *)

Highest(codes) == CHOOSE c \in codes : \A d \in codes : d <= c

record_Latest(value, codes) == Highest(codes)

record(value, codes) ==
    IF Highest(codes) <= value THEN value ELSE Highest(codes)

\* Every code is recorded and written in turn; the writes are not retried.
Record(codes) ==
    /\ status' = record(status, codes)
    /\ \/ /\ shown' = IF status' = status THEN shown ELSE status'
          /\ UNCHANGED <<faults, quiet>>
       \/ /\ status' # status /\ faults < MaxFaults
          /\ shown' \in {shown} \cup codes
          /\ faults' = faults + 1 /\ quiet' = FALSE

\* A firmware call fails, and the error is recorded.
Fault(codes) ==
    /\ faults < MaxFaults
    /\ faults' = faults + 1 /\ quiet' = FALSE
    /\ status' = record(status, codes)
    /\ shown' = IF status' = status THEN shown ELSE status'

Silent == UNCHANGED <<status, shown, faults, quiet>>

-----------------------------------------------------------------------------
(* The machine between boots, and Windows.                                 *)

Init ==
    /\ hardware \in Topologies /\ setup \in Setups /\ clock = TRUE
    /\ variable \in {None, Malformed}
    /\ stage = "off" /\ running = None
    /\ status = NotLoaded /\ shown = None
    /\ enumerated = {} /\ visited = {} /\ straps = {} /\ resized = {}
    /\ faults = 0 /\ quiet = TRUE
    /\ saved = None /\ pinned = None

\* config_from_draft: a new configuration, not yet bound to a setup.
config_from_draft(draft) ==
    [draft |-> draft, crc |-> None, hardware |-> hardware]

\* The application replaces the variable, reads it back and takes the
\* difference for a failure; a failed write leaves the old one.
Save(draft) ==
    /\ stage = "windows"
    /\ variable' = Encoded(config_from_draft(draft))
    /\ saved' = variable' /\ pinned' = None
    /\ UNCHANGED <<machine, stage, driver, shown, faults, quiet>>

\* Power goes, or Windows restarts: what is not in the variable is lost.
PowerOff ==
    /\ stage # "off" /\ stage' = "off"
    /\ running' = None /\ status' = NotLoaded /\ shown' = None
    /\ enumerated' = {} /\ visited' = {} /\ straps' = {} /\ resized' = {}
    /\ quiet' = TRUE
    /\ UNCHANGED <<machine, variable, faults, history>>

\* The user changes a setting in the firmware setup, moves a card, or pulls
\* the battery, which may reset the setup as well; or sets the clock.
Service ==
    /\ stage = "off"
    /\ \/ /\ setup' \in Setups \cup {None} /\ clock' \in {clock, FALSE}
          /\ UNCHANGED hardware
       \/ clock' = TRUE /\ UNCHANGED <<hardware, setup>>
       \/ hardware' \in Topologies /\ UNCHANGED <<setup, clock>>
    /\ UNCHANGED <<variable, stage, driver, shown, faults, quiet, history>>

PowerOn ==
    /\ stage = "off" /\ stage' = "read"
    /\ UNCHANGED <<machine, variable, driver, shown, faults, quiet, history>>

-----------------------------------------------------------------------------
(* initialize: each early return leaves the driver idle for this boot.     *)

\* An absent variable is the default configuration.
Default == [draft |-> [rules |-> [g \in Gpus |-> "none"], scope |-> "device",
                       target |-> "disabled", guard |-> TRUE,
                       override |-> FALSE],
            crc |-> None, hardware |-> hardware]

GiveUp == stage' = "idle" /\ running' = None

ReadConfig ==
    /\ stage = "read"
    /\ \/ /\ variable = Malformed /\ GiveUp /\ Record({ParseError})
       \/ /\ variable # Malformed /\ Silent
          /\ running' = IF variable = None THEN Default ELSE variable
          /\ stage' = "target"
       \/ GiveUp /\ Fault({EfiError})
    /\ UNCHANGED <<machine, variable, enumerated, visited, straps, resized,
                   history>>

CheckTarget ==
    /\ stage = "target"
    /\ \/ /\ effective_target(running) = "disabled"
          /\ GiveUp /\ Record({Unconfigured})
       \/ /\ effective_target(running) # "disabled"
          /\ stage' = "guard" /\ UNCHANGED running
          /\ IF is_gpu_configured(running) THEN Silent
             ELSE Record({GpuUnconfigured})
    /\ UNCHANGED <<machine, variable, enumerated, visited, straps, resized,
                   history>>

SetupChanged_Persists ==
    /\ running.draft.guard
    /\ \/ setup = None /\ Record({MissingSetupVariable, Cleared})
       \/ Fault({EfiError})
       \/ setup # None /\ running.crc \notin {None, setup} /\ Record({Cleared})
    /\ GiveUp
    /\ variable' = None
    /\ UNCHANGED <<saved, pinned>>

\* The setup is compared with the one recorded; a difference clears the
\* configuration in memory only, so that the old setup brings it back.
SetupChanged ==
    /\ running.draft.guard
    /\ \/ setup = None /\ Record({MissingSetupVariable, Cleared})
       \/ Fault({EfiError})
       \/ setup # None /\ running.crc \notin {None, setup} /\ Record({Cleared})
    /\ GiveUp
    /\ UNCHANGED <<variable, saved, pinned>>

\* evaluate_setup_guard, Initialized: the setup is recorded.
SetupRecorded ==
    /\ running.draft.guard /\ setup # None /\ running.crc = None
    /\ running' = [running EXCEPT !.crc = setup]
    /\ \/ variable' = running' /\ pinned' = setup /\ Silent
       \/ Fault({EfiError}) /\ UNCHANGED <<variable, pinned>>
    /\ stage' = "clock"
    /\ UNCHANGED saved

SetupUnchanged_AnySetup ==
    /\ running.draft.guard => setup # None /\ running.crc # None
    /\ stage' = "clock" /\ Silent
    /\ UNCHANGED <<running, variable, saved, pinned>>

SetupUnchanged ==
    /\ running.draft.guard => setup # None /\ running.crc = setup
    /\ stage' = "clock" /\ Silent
    /\ UNCHANGED <<running, variable, saved, pinned>>

CheckSetup ==
    /\ stage = "guard"
    /\ SetupChanged \/ SetupRecorded \/ SetupUnchanged
    /\ UNCHANGED <<machine, enumerated, visited, straps, resized>>

\* A reset clock, or one that cannot be read, deletes the variable.
ClockReset ==
    /\ \/ ~clock /\ Record({Cleared}) /\ variable' = None
       \/ ~clock /\ Fault({EfiError}) /\ UNCHANGED variable
       \/ Fault({EfiError}) /\ variable' = None
    /\ GiveUp
    /\ saved' = IF variable' = None THEN None ELSE saved
    /\ UNCHANGED pinned

CheckClock ==
    /\ stage = "clock"
    /\ \/ ClockReset
       \/ /\ clock /\ stage' = "install" /\ Silent
          /\ UNCHANGED <<running, variable, history>>
    /\ UNCHANGED <<machine, enumerated, visited, straps, resized>>

\* Without the boot script the driver goes on; without the hook it is idle.
\* The pointers of the host bridges are replaced only once nothing can fail.
Install ==
    /\ stage = "install"
    /\ \/ Record({Configured}) /\ stage' = "enumeration" /\ UNCHANGED running
       \/ /\ Fault({Configured, EfiError})
          /\ stage' = "enumeration" /\ UNCHANGED running
       \/ Fault({Configured, EfiError}) /\ GiveUp
    /\ UNCHANGED <<machine, variable, enumerated, visited, straps, resized,
                   history>>

-----------------------------------------------------------------------------
(* process_device, called by the hook for a device in one of two phases.   *)

Call(d, phase) ==
    /\ stage = "enumeration"
    /\ <<d, phase>> \notin visited
    /\ visited' = visited \cup {<<d, phase>>}
    /\ UNCHANGED <<machine, variable, stage, running, history>>

\* The header, the class or the secondary bus cannot be read.
CallFails(d, phase) ==
    /\ Call(d, phase) /\ Fault({EfiError})
    /\ UNCHANGED <<enumerated, straps, resized>>

remember_configured_bridge(b, phase) ==
    /\ Call(b, phase)
    /\ IF b \in bridge_devices(running) \ enumerated
       THEN enumerated' = enumerated \cup {b} /\ Record({BridgeFound})
       ELSE Silent /\ UNCHANGED enumerated
    /\ UNCHANGED <<straps, resized>>

\* resize_device_bars: any device, to the largest size under the cap.
resize_device_bars(g) ==
    IF effective_target(running) = "global"
    THEN resized' \in {resized, resized \cup {g}} ELSE UNCHANGED resized

\* identify_selected_gpu: the GPU is not one to set up.
NotSelected(g, phase) ==
    /\ Call(g, phase)
    /\ lookup_bar_size(running, g) # "size"
    /\ IF ~is_gpu_configured(running) THEN Silent
       ELSE Record({IF lookup_bar_size(running, g) = "excluded"
                    THEN GpuExcluded ELSE GpuUnconfigured})
    /\ resize_device_bars(g)
    /\ UNCHANGED <<enumerated, straps>>

refusal_AnyBridge(g) ==
    LET n == hardware.bus[g]
    IN  CASE ~has_gpu_config(running, n) -> NoGpuConfig
          [] has_gpu_config(running, n)
             /\ lookup_bridge_config(running, n) \notin enumerated
             -> BridgeNotEnumerated
          [] OTHER -> None

\* setup_selected_gpu: what it finds wrong before it touches a register.
refusal(g) ==
    LET n == hardware.bus[g]
        bridge == lookup_bridge_config(running, n)
    IN  CASE ~has_gpu_config(running, n) -> NoGpuConfig
          [] has_gpu_config(running, n) /\ bridge \notin enumerated
             -> BridgeNotEnumerated
          [] /\ has_gpu_config(running, n) /\ bridge \in enumerated
             /\ bridge_secondary_bus(bridge) # n -> BadBridgeConfig
          [] OTHER -> None

Refused(g, phase) ==
    /\ Call(g, phase)
    /\ lookup_bar_size(running, g) = "size" /\ refusal(g) # None
    /\ Record({GpuFound, refusal(g)})
    /\ resize_device_bars(g)
    /\ UNCHANGED <<enumerated, straps>>

\* A transaction that did not complete; only a failed restoration comes
\* after the straps were programmed.
TransactionFails(g, phase) ==
    /\ Call(g, phase)
    /\ lookup_bar_size(running, g) = "size" /\ refusal(g) = None
    /\ straps' \in {straps, straps \cup {g}}
    /\ \E code \in {BadBridgeConfig, BadGpuConfig, EfiError} :
          Fault({GpuFound, code})
    /\ resize_device_bars(g)
    /\ UNCHANGED enumerated

\* The straps are programmed; what the GPU then advertises decides whether
\* its BAR1 is resized here.
Resizes(capability) ==
    \/ /\ effective_target(running) = "gpu"
       /\ \/ capability = "advertised"
          \/ capability = "other" /\ running.draft.override
    \/ effective_target(running) = "global" /\ capability # "none"

TransactionCompletes(g, phase) ==
    \E capability \in {"advertised", "other", "none"} :
        /\ Call(g, phase)
        /\ lookup_bar_size(running, g) = "size" /\ refusal(g) = None
        /\ straps' = straps \cup {g}
        /\ resized' = IF Resizes(capability) THEN resized \cup {g} ELSE resized
        /\ Record({GpuFound,
                   IF g \in straps THEN GpuStrapsPreConfigured
                   ELSE GpuStrapsConfigured,
                   CASE capability = "advertised" -> GpuStrapsConfirm
                     [] capability = "other" -> GpuStrapsNoConfirm
                     [] OTHER -> GpuNoReBarCapability}
                  \cup (IF Resizes(capability) THEN {GpuReBarConfigured} ELSE {})
                  \cup (IF /\ Resizes(capability) /\ capability = "other"
                           /\ running.draft.override
                        THEN {GpuReBarSizeOverride} ELSE {}))
        /\ UNCHANGED enumerated

process_device(d, phase) ==
    \/ CallFails(d, phase)
    \/ d \in Bridges /\ remember_configured_bridge(d, phase)
    \/ d \in Gpus /\ \/ NotSelected(d, phase)
                     \/ Refused(d, phase)
                     \/ TransactionFails(d, phase)
                     \/ TransactionCompletes(d, phase)

\* Resources are collected from every device before the boot goes on.
StartWindows ==
    /\ \/ stage = "idle"
       \/ stage = "enumeration" /\ \A d \in Devices : <<d, 1>> \in visited
    /\ stage' = "windows"
    /\ visited' = {} /\ enumerated' = {}
    /\ UNCHANGED <<machine, variable, running, status, straps, resized, shown,
                   faults, quiet, history>>

Initialize == ReadConfig \/ CheckTarget \/ CheckSetup \/ CheckClock \/ Install

Next ==
    \/ \E draft \in Drafts : Save(draft)
    \/ PowerOff \/ Service \/ PowerOn
    \/ Initialize
    \/ \E d \in Devices, phase \in Phases : process_device(d, phase)
    \/ StartWindows

Spec == Init /\ [][Next]_vars

-----------------------------------------------------------------------------
(* Properties.                                                             *)

TypeOK ==
    /\ hardware \in Topologies
    /\ setup \in Setups \cup {None} /\ clock \in BOOLEAN
    /\ variable \in Config \cup {None, Malformed}
    /\ stage \in Stages
    /\ running \in Config \cup {None}
    /\ status \in Codes \cup {NotLoaded} /\ shown \in Codes \cup {None}
    /\ enumerated \subseteq Bridges
    /\ visited \subseteq Devices \X Phases
    /\ straps \subseteq Gpus /\ resized \subseteq Gpus
    /\ faults \in 0 .. MaxFaults /\ quiet \in BOOLEAN
    /\ saved \in Config \cup {None}
    /\ pinned \in Setups \cup {None}

\* A boot programs a GPU only as the user last saved it, while the clock
\* runs, and, with the guard on, under the setup the configuration was bound
\* to: whatever was changed, reset or lost in the boots between
\* (driver.rs initialize, setup_variable.rs evaluate_setup_guard).
ProgramsAsSaved ==
    stage = "enumeration" =>
        \A g \in straps :
            /\ saved # None /\ lookup_bar_size(saved, g) = "size"
            /\ clock
            /\ saved.draft.guard => setup # None /\ pinned \in {None, setup}

\* The registers of a bridge are written only for a GPU that is really
\* behind it, after the firmware enumerated the bridge, although the
\* configuration names both by bus numbers of an earlier boot
\* (engine.rs setup_selected_gpu).
ThroughItsBridge ==
    stage = "enumeration" =>
        \A g \in straps :
            hardware.above[hardware.bus[g]]
                \in enumerated \cap bridge_devices(running)

WindowsStarts == stage # "windows" /\ stage' = "windows"

Wanted(config, g) ==
    config \notin {None, Malformed} /\ lookup_bar_size(config, g) = "size"

\* When Windows starts, a GPU the configuration selects and this boot left
\* alone shows in the status as sitting out or as an error, no matter what
\* the other GPUs reported before and after it; unless the write of the
\* status itself was lost (status.rs StatusAccumulator).
LeftOutIsReported ==
    [][\A g \in Gpus :
          /\ WindowsStarts /\ shown = status
          /\ Wanted(variable, g) /\ g \notin straps
          => status = Cleared \/ status >= BadBridgeConfig]_vars

\* Restoring the setup, or setting the clock before the next boot, brings
\* the saved settings back: in a boot without a failing call on the same
\* hardware every GPU the user selected is programmed, or was visited before
\* its bridge and is reported (driver.rs:53, the clear that is not persisted).
SettingsComeBack ==
    [][\A g \in Gpus :
          /\ WindowsStarts /\ quiet /\ clock
          /\ Wanted(saved, g) /\ hardware = saved.hardware
          /\ saved.draft.guard => setup # None /\ pinned \in {None, setup}
          => g \in straps \/ status = BridgeNotEnumerated]_vars

=============================================================================

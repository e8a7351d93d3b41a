-------------------------- MODULE DriverBootProofs --------------------------
(***************************************************************************)
(* Theorems about DriverBoot, for every set of GPUs, bridges and buses,    *)
(* every numbering of the buses, all drafts and any number of faults; and  *)
(* about the saves of the page, SettingsEditor.                            *)
(***************************************************************************)
EXTENDS DriverBoot, TLAPS

Early == {"off", "read", "target", "guard", "clock", "install", "idle"}
Passed == {"clock", "install", "enumeration"}

\* The types the argument needs; those of the status are in StatusInv.
TypeCore ==
    /\ hardware \in Topologies
    /\ setup \in Setups \cup {None} /\ clock \in BOOLEAN
    /\ variable \in Config \cup {None, Malformed}
    /\ stage \in Stages
    /\ running \in Config \cup {None}
    /\ enumerated \subseteq Bridges /\ straps \subseteq Gpus
    /\ saved \in Config \cup {None}
    /\ pinned \in Setups \cup {None}

\* The stored configuration is the saved one, bound to the pinned setup.
VariableIsSaved ==
    variable \in Config =>
        /\ saved \in Config
        /\ saved.draft = variable.draft /\ saved.hardware = variable.hardware
        /\ variable.crc = pinned

\* Up to the guard the configuration in memory is the stored one, or none.
ReadIsVariable ==
    /\ stage \in {"target", "guard"} => running \in Config
    /\ stage = "target" /\ effective_target(running) # "disabled"
          => running = variable
    /\ stage = "guard" => running = variable

\* Behind the guard it is the saved one, under the setup it is bound to.
RunningIsSaved ==
    stage \in Passed =>
        /\ running \in Config /\ saved \in Config
        /\ saved.draft = running.draft /\ saved.hardware = running.hardware
        /\ saved.draft.guard => setup # None /\ pinned \in {None, setup}

ClockRuns == stage \in {"install", "enumeration"} => clock

NothingYet == stage \in Early => straps = {} /\ enumerated = {}

\* What was programmed was selected and behind an enumerated bridge.
StrapsAreSelected ==
    stage = "enumeration" =>
        \A g \in straps :
            /\ lookup_bar_size(running, g) = "size"
            /\ hardware.above[hardware.bus[g]]
                   \in enumerated \cap bridge_devices(running)

\* The inductive invariant behind every theorem below.
IInv == /\ TypeCore
        /\ VariableIsSaved
        /\ ReadIsVariable
        /\ RunningIsSaved
        /\ ClockRuns
        /\ NothingYet
        /\ StrapsAreSelected

-----------------------------------------------------------------------------

\* An absent variable asks for nothing.
LEMMA DefaultIsOff ==
    ASSUME TypeCore
    PROVE  Default \in Config /\ effective_target(Default) = "disabled"
BY BootAssumption
   DEF Default, Config, Draft, TypeCore, effective_target, is_gpu_configured

\* A draft becomes a configuration that is not bound to a setup.
LEMMA DraftIsConfig ==
    ASSUME TypeCore, NEW draft \in Drafts
    PROVE  LET config == config_from_draft(draft)
           IN  config \in Config /\ config.crc = None
BY BootAssumption DEF config_from_draft, Config, TypeCore

\* What setup_selected_gpu does not refuse is behind the configured bridge.
LEMMA NotRefused ==
    ASSUME TypeCore, running \in Config, NEW g \in Gpus, refusal(g) = None
    PROVE  hardware.above[hardware.bus[g]]
               \in enumerated \cap bridge_devices(running)
<1> DEFINE n == hardware.bus[g]
           bridge == lookup_bridge_config(running, n)
<1>1. n \in Buses /\ hardware \in Topology
  BY BootAssumption DEF TypeCore, Topology
<1>2. NoGpuConfig # None /\ BridgeNotEnumerated # None /\ BadBridgeConfig # None
  BY BootAssumption DEF Codes
<1>3. has_gpu_config(running, n) /\ bridge \in enumerated
      /\ bridge_secondary_bus(bridge) = n
  BY <1>2 DEF refusal
<1>4. \E m \in Buses : hardware.above[m] = bridge
  BY <1>1, <1>3, BootAssumption DEF bridge_secondary_bus
<1>5. hardware.above[n] = bridge
  BY <1>3, <1>4 DEF bridge_secondary_bus
<1>6. bridge \in bridge_devices(running)
  BY <1>3 DEF has_gpu_config, bridge_devices, lookup_bridge_config
<1>7. QED
  BY <1>3, <1>5, <1>6

-----------------------------------------------------------------------------

LEMMA InitIInv == Init => IInv
BY BootAssumption
   DEF Init, IInv, TypeCore, VariableIsSaved, ReadIsVariable, RunningIsSaved,
       ClockRuns, NothingYet, StrapsAreSelected, Stages, Passed

LEMMA SaveIInv ==
    ASSUME IInv, NEW draft \in Drafts, Save(draft)
    PROVE  IInv'
<1>1. /\ stage = "windows" /\ stage' = stage
      /\ variable' = Encoded(config_from_draft(draft))
      /\ saved' = variable' /\ pinned' = None
      /\ UNCHANGED <<hardware, setup, clock, running, enumerated, straps>>
  BY DEF Save, machine, driver
<1>2. variable' \in Config \cup {None} /\ (variable' \in Config => variable'.crc = None)
  BY <1>1, DraftIsConfig, BootAssumption DEF Encoded, IInv
<1>3. TypeCore'
  BY <1>1, <1>2 DEF IInv, TypeCore
<1>4. QED
  BY <1>1, <1>2, <1>3
     DEF IInv, VariableIsSaved, ReadIsVariable, RunningIsSaved, ClockRuns,
         NothingYet, StrapsAreSelected, Early, Passed

LEMMA PowerIInv ==
    ASSUME IInv, PowerOff \/ PowerOn \/ Service
    PROVE  IInv'
<1>1. CASE PowerOff
  BY <1>1 DEF PowerOff, IInv, TypeCore, Stages, VariableIsSaved, ReadIsVariable,
     RunningIsSaved, ClockRuns, NothingYet, StrapsAreSelected, Early, Passed,
     machine, history
<1>2. CASE PowerOn
  BY <1>2 DEF PowerOn, IInv, TypeCore, Stages, VariableIsSaved, ReadIsVariable,
     RunningIsSaved, ClockRuns, NothingYet, StrapsAreSelected, Early, Passed,
     machine, history, driver
<1>3. CASE Service
  BY <1>3 DEF Service, IInv, TypeCore, Stages, VariableIsSaved, ReadIsVariable,
     RunningIsSaved, ClockRuns, NothingYet, StrapsAreSelected, Early, Passed,
     driver, history
<1>4. QED
  BY <1>1, <1>2, <1>3

LEMMA ReadConfigIInv ==
    ASSUME IInv, ReadConfig
    PROVE  IInv'
<1>1. /\ stage = "read" /\ stage' \in {"idle", "target"}
      /\ stage' = "idle" => running' = None
      /\ stage' = "target" =>
            variable # Malformed
            /\ running' = IF variable = None THEN Default ELSE variable
      /\ UNCHANGED <<hardware, setup, clock, variable, enumerated, straps,
                     saved, pinned>>
  BY DEF ReadConfig, GiveUp, machine, history
<1>2. stage' = "target" =>
         /\ running' \in Config
         /\ running' = variable \/ effective_target(running') = "disabled"
  BY <1>1, DefaultIsOff DEF IInv, TypeCore
<1>3. stage' = "target" /\ effective_target(running)' # "disabled"
          => running' = variable'
  BY <1>1, <1>2 DEF effective_target, is_gpu_configured
<1>4. TypeCore'
  BY <1>1, <1>2 DEF IInv, TypeCore, Stages
<1>5. QED
  BY <1>1, <1>2, <1>3, <1>4
     DEF IInv, VariableIsSaved, ReadIsVariable, RunningIsSaved, ClockRuns,
         NothingYet, StrapsAreSelected, Early, Passed

LEMMA CheckTargetIInv ==
    ASSUME IInv, CheckTarget
    PROVE  IInv'
<1>1. /\ stage = "target" /\ stage' \in {"idle", "guard"}
      /\ stage' = "idle" => running' = None
      /\ stage' = "guard" => running' = running
                             /\ effective_target(running) # "disabled"
      /\ UNCHANGED <<hardware, setup, clock, variable, enumerated, straps,
                     saved, pinned>>
  BY DEF CheckTarget, GiveUp, machine, history
<1>2. QED
  BY <1>1
     DEF IInv, TypeCore, Stages, VariableIsSaved, ReadIsVariable,
         RunningIsSaved, ClockRuns, NothingYet, StrapsAreSelected, Early, Passed

LEMMA CheckSetupIInv ==
    ASSUME IInv, CheckSetup
    PROVE  IInv'
<1>1. /\ stage = "guard" /\ running \in Config /\ running = variable
      /\ saved \in Config
      /\ saved.draft = running.draft /\ saved.hardware = running.hardware
      /\ running.crc = pinned
      /\ UNCHANGED <<hardware, setup, clock, enumerated, straps, saved>>
  BY DEF CheckSetup, SetupChanged, SetupRecorded, SetupUnchanged, IInv,
         ReadIsVariable, VariableIsSaved, machine, history
<1>2. CASE SetupChanged
  BY <1>1, <1>2
     DEF SetupChanged, GiveUp, IInv, TypeCore, Stages, VariableIsSaved,
         ReadIsVariable, RunningIsSaved, ClockRuns, NothingYet,
         StrapsAreSelected, Early, Passed
<1>3. CASE SetupRecorded
  <2>1. /\ setup \in Setups /\ running.crc = None
        /\ running' = [running EXCEPT !.crc = setup] /\ stage' = "clock"
        /\ \/ variable' = running' /\ pinned' = setup
           \/ variable' = variable /\ pinned' = pinned
    BY <1>3 DEF SetupRecorded, IInv, TypeCore
  <2>2. /\ running' \in Config /\ running'.draft = running.draft
        /\ running'.hardware = running.hardware /\ running'.crc = setup
    BY <1>1, <2>1 DEF Config
  <2>3. pinned' \in {None, setup}
    BY <1>1, <2>1
  <2>4. TypeCore'
    BY <1>1, <2>1, <2>2, <2>3 DEF IInv, TypeCore, Stages
  <2>5. VariableIsSaved'
    BY <1>1, <2>1, <2>2 DEF VariableIsSaved
  <2>6. RunningIsSaved'
    BY <1>1, <2>1, <2>2, <2>3, BootAssumption DEF RunningIsSaved
  <2>7. QED
    BY <1>1, <2>1, <2>4, <2>5, <2>6
       DEF IInv, ReadIsVariable, ClockRuns, NothingYet, StrapsAreSelected,
           Early
<1>4. CASE SetupUnchanged
  BY <1>1, <1>4
     DEF SetupUnchanged, IInv, TypeCore, Stages, VariableIsSaved,
         ReadIsVariable, RunningIsSaved, ClockRuns, NothingYet,
         StrapsAreSelected, Early, Passed
<1>5. QED
  BY <1>2, <1>3, <1>4 DEF CheckSetup

LEMMA CheckClockIInv ==
    ASSUME IInv, CheckClock
    PROVE  IInv'
<1>1. /\ stage = "clock"
      /\ UNCHANGED <<hardware, setup, clock, enumerated, straps, pinned>>
  BY DEF CheckClock, ClockReset, machine, history
<1>2. CASE ClockReset
  <2>1. /\ stage' = "idle" /\ running' = None
        /\ variable' \in {None, variable}
        /\ saved' = IF variable' = None THEN None ELSE saved
    BY <1>2 DEF ClockReset, GiveUp
  <2>2. variable' \in Config => variable' = variable /\ saved' = saved
    BY <2>1, BootAssumption
  <2>3. TypeCore'
    BY <1>1, <2>1 DEF IInv, TypeCore, Stages
  <2>4. QED
    BY <1>1, <2>1, <2>2, <2>3
       DEF IInv, VariableIsSaved, ReadIsVariable, RunningIsSaved, ClockRuns,
           NothingYet, StrapsAreSelected, Early, Passed
<1>3. CASE clock /\ stage' = "install" /\ UNCHANGED <<running, variable, history>>
  BY <1>1, <1>3
     DEF IInv, TypeCore, Stages, VariableIsSaved, ReadIsVariable,
         RunningIsSaved, ClockRuns, NothingYet, StrapsAreSelected, Early,
         Passed, history
<1>4. QED
  BY <1>2, <1>3 DEF CheckClock

LEMMA InstallIInv ==
    ASSUME IInv, Install
    PROVE  IInv'
<1>1. /\ stage = "install" /\ stage' \in {"enumeration", "idle"}
      /\ stage' = "idle" => running' = None
      /\ stage' = "enumeration" => running' = running
      /\ UNCHANGED <<hardware, setup, clock, variable, enumerated, straps,
                     saved, pinned>>
  BY DEF Install, GiveUp, machine, history
<1>2. QED
  BY <1>1
     DEF IInv, TypeCore, Stages, VariableIsSaved, ReadIsVariable,
         RunningIsSaved, ClockRuns, NothingYet, StrapsAreSelected, Early, Passed

\* The hook adds to the straps only what was selected and not refused.
LEMMA DeviceIInv ==
    ASSUME IInv, NEW d \in Devices, NEW phase \in Phases,
           process_device(d, phase)
    PROVE  IInv'
<1>1. /\ stage = "enumeration"
      /\ UNCHANGED <<hardware, setup, clock, variable, stage, running, saved,
                     pinned>>
  BY DEF process_device, CallFails, remember_configured_bridge, NotSelected,
         Refused, TransactionFails, TransactionCompletes, Call, machine, history
<1>2. running \in Config
  BY <1>1 DEF IInv, RunningIsSaved, Passed
<1>3. \/ enumerated' = enumerated /\ straps' = straps
      \/ /\ enumerated' = enumerated \cup {d} /\ d \in Bridges
         /\ straps' = straps
      \/ /\ enumerated' = enumerated /\ d \in Gpus
         /\ straps' \in {straps, straps \cup {d}}
         /\ lookup_bar_size(running, d) = "size" /\ refusal(d) = None
  BY DEF process_device, CallFails, remember_configured_bridge, NotSelected,
         Refused, TransactionFails, TransactionCompletes
<1>4. lookup_bar_size(running, d)' = lookup_bar_size(running, d)
      /\ bridge_devices(running)' = bridge_devices(running)
      /\ \A g : lookup_bar_size(running, g)' = lookup_bar_size(running, g)
  BY <1>1 DEF lookup_bar_size, bridge_devices, Populated
<1>5. StrapsAreSelected'
  BY <1>1, <1>2, <1>3, <1>4, NotRefused DEF StrapsAreSelected, IInv
<1>6. TypeCore'
  BY <1>1, <1>3 DEF IInv, TypeCore
<1>7. QED
  BY <1>1, <1>5, <1>6
     DEF IInv, VariableIsSaved, ReadIsVariable, RunningIsSaved, ClockRuns,
         NothingYet, Early

LEMMA WindowsIInv ==
    ASSUME IInv, StartWindows
    PROVE  IInv'
BY DEF StartWindows, IInv, TypeCore, Stages, VariableIsSaved, ReadIsVariable,
       RunningIsSaved, ClockRuns, NothingYet, StrapsAreSelected, Early, Passed,
       machine, history

LEMMA StutterIInv ==
    ASSUME IInv, UNCHANGED vars
    PROVE  IInv'
BY DEF vars, machine, driver, history, IInv, TypeCore, VariableIsSaved,
       ReadIsVariable, RunningIsSaved, ClockRuns, NothingYet,
       StrapsAreSelected, lookup_bar_size, bridge_devices, Populated,
       effective_target, is_gpu_configured

LEMMA InvariantIsInductive == Spec => []IInv
<1>1. IInv /\ [Next]_vars => IInv'
  BY SaveIInv, PowerIInv, ReadConfigIInv, CheckTargetIInv, CheckSetupIInv,
     CheckClockIInv, InstallIInv, DeviceIInv, WindowsIInv, StutterIInv
     DEF Next, Initialize
<1>2. QED
  BY <1>1, InitIInv, PTL DEF Spec

-----------------------------------------------------------------------------

\* A boot programs a GPU only as the user last saved it, with a running clock
\* and under the setup the configuration is bound to, over any number of
\* boots, resets, saves and failing calls (driver.rs initialize).
THEOREM OnlyAsSaved == Spec => []ProgramsAsSaved
<1>1. IInv => ProgramsAsSaved
  <2>1. SUFFICES ASSUME IInv, stage = "enumeration", NEW g \in straps
                 PROVE  /\ saved # None /\ lookup_bar_size(saved, g) = "size"
                        /\ clock
                        /\ saved.draft.guard =>
                              setup # None /\ pinned \in {None, setup}
    BY DEF ProgramsAsSaved
  <2>2. /\ saved \in Config /\ saved.draft = running.draft
        /\ saved.hardware = running.hardware /\ clock
        /\ saved.draft.guard => setup # None /\ pinned \in {None, setup}
        /\ lookup_bar_size(running, g) = "size"
    BY <2>1 DEF IInv, RunningIsSaved, ClockRuns, StrapsAreSelected, Passed
  <2>3. lookup_bar_size(saved, g) = lookup_bar_size(running, g)
    BY <2>2 DEF lookup_bar_size
  <2>4. QED
    BY <2>2, <2>3, BootAssumption
<1>2. QED
  BY <1>1, InvariantIsInductive, PTL

\* No bridge is written for a GPU that is not behind it, or before the
\* firmware enumerated it (engine.rs setup_selected_gpu).
THEOREM OnlyThroughItsBridge == Spec => []ThroughItsBridge
<1>1. IInv => ThroughItsBridge
  BY DEF IInv, StrapsAreSelected, ThroughItsBridge
<1>2. QED
  BY <1>1, InvariantIsInductive, PTL


-----------------------------------------------------------------------------
(* What the status says when Windows starts.                               *)

Initializing == {"off", "read", "target", "guard", "clock", "install"}

\* Nothing is above a plain code in a driver that is still initializing, but
\* an error.
StatusInv ==
    /\ status \in Nat
    /\ stage \in Early => visited = {}
    /\ stage \in Initializing =>
          /\ status \in {NotLoaded, GpuUnconfigured, EfiError}
          /\ quiet => status # EfiError

\* Only the loss of the variable clears what the user saved.
SavedIsVariable == saved # None => variable \in Config

TargetIsVariable ==
    stage = "target" =>
        running = variable \/ (variable = None /\ ~is_gpu_configured(running))

\* Restored is what the guard asks for.
Bound(config) == config.draft.guard => setup # None /\ pinned \in {None, setup}

\* A driver that gave up has reported it, and had a reason to.
IdleInv ==
    stage = "idle" =>
        \A g \in Gpus :
            /\ Wanted(variable, g) => status = Cleared \/ status >= BadBridgeConfig
            /\ quiet /\ clock /\ Wanted(saved, g) => ~Bound(saved)

\* A selected GPU that was visited and not programmed is reported; where no
\* call fails and no card was moved, only for a bridge that comes later.
VisitedInv ==
    stage = "enumeration" =>
        /\ \A g \in Gpus :
              <<g, 1>> \in visited /\ lookup_bar_size(running, g) = "size" /\ g \notin straps
                  => /\ status >= BadBridgeConfig
                     /\ quiet /\ hardware = running.hardware
                            => status >= BridgeNotEnumerated
        /\ quiet /\ hardware = running.hardware => status <= BridgeNotEnumerated

ReportInv == StatusInv /\ SavedIsVariable /\ TargetIsVariable /\ IdleInv /\ VisitedInv

\* The highest of some codes.
Top(codes, m) == codes \subseteq Nat /\ m \in codes /\ \A d \in codes : d <= m

LEMMA HighestIsTop ==
    ASSUME NEW codes, NEW m, Top(codes, m)
    PROVE  Highest(codes) = m /\ m \in Nat
<1>1. \A c \in codes : (\A d \in codes : d <= c) => c = m
  BY DEF Top
<1>2. Highest(codes) \in codes /\ \A d \in codes : d <= Highest(codes)
  BY DEF Top, Highest
<1> QED
  BY <1>1, <1>2 DEF Top

LEMMA TopOfUnion ==
    ASSUME NEW S, NEW T, NEW m, Top(S, m), T = {} \/ \E n : Top(T, n)
    PROVE  \E n : Top(S \cup T, n)
<1>1. CASE T = {}
  BY <1>1 DEF Top
<1>2. CASE \E n : Top(T, n)
  <2>1. PICK n : Top(T, n)
    BY <1>2
  <2>2. CASE n <= m
    <3>1. Top(S \cup T, m)
      BY <2>1, <2>2 DEF Top
    <3> QED
      BY <3>1
  <2>3. CASE m <= n
    <3>1. Top(S \cup T, n)
      BY <2>1, <2>3 DEF Top
    <3> QED
      BY <3>1
  <2> QED
    BY <2>1, <2>2, <2>3 DEF Top
<1> QED
  BY <1>1, <1>2

\* The status only grows, to the highest of what is recorded.
LEMMA StatusGrows ==
    ASSUME status \in Nat, NEW codes, NEW m, Top(codes, m), Record(codes) \/ Fault(codes)
    PROVE  /\ status' = (IF m <= status THEN status ELSE m)
           /\ Fault(codes) => ~ quiet'
           /\ quiet' => quiet
BY HighestIsTop DEF Record, Fault, record

-----------------------------------------------------------------------------

LEMMA ReportInit == Init => ReportInv
BY BootAssumption
   DEF Init, ReportInv, StatusInv, SavedIsVariable, TargetIsVariable, IdleInv,
       VisitedInv, Early, Initializing, NotLoaded, EfiError

LEMMA SaveReport ==
    ASSUME IInv, ReportInv, NEW draft \in Drafts, Save(draft)
    PROVE  ReportInv'
<1>1. config_from_draft(draft) \in Config
  BY DraftIsConfig DEF IInv
<1>2. saved' # None => variable' \in Config
  BY <1>1 DEF Save, Encoded
<1> QED
  BY <1>2 DEF Save, driver, ReportInv, StatusInv, SavedIsVariable, TargetIsVariable,
              IdleInv, VisitedInv, Early, Initializing

LEMMA PowerReport ==
    ASSUME ReportInv, PowerOff \/ PowerOn \/ Service
    PROVE  ReportInv'
<1>1. stage' \in {"off", "read"} /\ visited' \in {{}, visited} /\ UNCHANGED <<variable, saved>>
  BY DEF PowerOff, PowerOn, Service, driver, history
<1>2. CASE PowerOff
  BY <1>1, <1>2 DEF PowerOff, ReportInv, StatusInv, SavedIsVariable, TargetIsVariable,
                    IdleInv, VisitedInv, NotLoaded, EfiError
<1>3. CASE stage = "off" /\ UNCHANGED <<status, quiet, visited>>
  BY <1>1, <1>3 DEF ReportInv, StatusInv, SavedIsVariable, TargetIsVariable,
                    IdleInv, VisitedInv, Initializing, Early
<1> QED
  BY <1>2, <1>3 DEF PowerOn, Service, driver

LEMMA OneCode ==
    /\ \A c \in Nat : Top({c}, c)
    /\ Top({MissingSetupVariable, Cleared}, MissingSetupVariable)
    /\ Top({Configured, EfiError}, EfiError)
BY DEF Top, MissingSetupVariable, Cleared, Configured, EfiError

LEMMA ReadConfigReport ==
    ASSUME IInv, ReportInv, ReadConfig
    PROVE  ReportInv'
<1>1. /\ stage = "read" /\ UNCHANGED <<hardware, setup, clock, variable, visited, saved, pinned>>
      /\ status \in {NotLoaded, GpuUnconfigured, EfiError} /\ status \in Nat /\ visited = {}
      /\ quiet => status # EfiError
  BY DEF ReadConfig, machine, history, ReportInv, StatusInv, Initializing, Early
<1>2. CASE /\ stage' = "target" /\ Silent
           /\ running' = IF variable = None THEN Default ELSE variable
  <2>1. ~ is_gpu_configured(Default)
    BY DEF is_gpu_configured, Default
  <2>2. TargetIsVariable'
    BY <1>1, <1>2, <2>1 DEF TargetIsVariable, is_gpu_configured
  <2> QED
    BY <1>1, <1>2, <2>2 DEF Silent, ReportInv, StatusInv, SavedIsVariable, IdleInv, VisitedInv
<1>3. CASE stage' = "idle" /\ variable = Malformed /\ Record({ParseError})
  <2>1. saved = None
    BY <1>3, BootAssumption DEF ReportInv, SavedIsVariable
  <2>2. status' \in Nat
    BY <1>1, <1>3, OneCode, StatusGrows DEF ParseError
  <2>3. \A g \in Gpus : ~ Wanted(variable, g)' /\ ~ Wanted(saved, g)'
    BY <1>1, <1>3, <2>1 DEF Wanted
  <2> QED
    BY <1>1, <1>3, <2>1, <2>2, <2>3
       DEF ReportInv, StatusInv, SavedIsVariable, TargetIsVariable, IdleInv, VisitedInv,
           Initializing
<1>4. CASE stage' = "idle" /\ Fault({EfiError})
  <2>1. status' = EfiError /\ ~ quiet'
    BY <1>1, <1>4, OneCode, StatusGrows DEF EfiError, NotLoaded, GpuUnconfigured
  <2> QED
    BY <1>1, <1>4, <2>1
       DEF ReportInv, StatusInv, SavedIsVariable, TargetIsVariable, IdleInv, VisitedInv,
           Initializing, EfiError, BadBridgeConfig
<1> QED
  BY <1>2, <1>3, <1>4 DEF ReadConfig, GiveUp

\* A configuration without rules asks for no GPU.
LEMMA NothingWanted ==
    ASSUME NEW config, NEW g \in Gpus, config \in {None, Malformed} \/ ~ is_gpu_configured(config)
    PROVE  ~ Wanted(config, g)
BY DEF Wanted, lookup_bar_size, is_gpu_configured

LEMMA CheckTargetReport ==
    ASSUME IInv, ReportInv, CheckTarget
    PROVE  ReportInv'
<1>1. /\ stage = "target" /\ UNCHANGED <<hardware, setup, clock, variable, visited, saved, pinned>>
      /\ status \in {NotLoaded, GpuUnconfigured, EfiError} /\ status \in Nat /\ visited = {}
      /\ quiet => status # EfiError
  BY DEF CheckTarget, machine, history, ReportInv, StatusInv, Initializing, Early
<1>2. CASE stage' = "guard" /\ (Silent \/ Record({GpuUnconfigured}))
  <2>1. /\ status' \in {status, GpuUnconfigured} /\ status' \in Nat
        /\ quiet' => quiet
    BY <1>1, <1>2, OneCode, StatusGrows DEF GpuUnconfigured, Silent
  <2> QED
    BY <1>1, <1>2, <2>1
       DEF ReportInv, StatusInv, SavedIsVariable, TargetIsVariable, IdleInv, VisitedInv,
           Initializing, GpuUnconfigured, EfiError
<1>3. CASE /\ stage' = "idle" /\ effective_target(running) = "disabled"
           /\ Record({Unconfigured})
  <2>1. status' \in Nat
    BY <1>1, <1>3, OneCode, StatusGrows DEF Unconfigured
  <2>2. ~ is_gpu_configured(running)
    BY <1>3 DEF effective_target
  <2>3. variable \in {None, Malformed} \/ ~ is_gpu_configured(variable)
    BY <1>1, <2>2 DEF ReportInv, TargetIsVariable
  <2>4. saved = None \/ ~ is_gpu_configured(saved)
    <3>1. ASSUME saved # None
          PROVE  ~ is_gpu_configured(saved)
      <4>1. variable \in Config
        BY <3>1 DEF ReportInv, SavedIsVariable
      <4>2. saved.draft = variable.draft
        BY <4>1 DEF IInv, VariableIsSaved
      <4> QED
        BY <2>3, <4>1, <4>2, BootAssumption DEF is_gpu_configured
    <3> QED
      BY <3>1
  <2>5. \A g \in Gpus : ~ Wanted(variable', g) /\ ~ Wanted(saved', g)
    BY <1>1, <2>3, <2>4, NothingWanted
  <2>6. \A g \in Gpus : ~ Wanted(variable, g)' /\ ~ Wanted(saved, g)'
    BY <1>1, <2>5 DEF Wanted, lookup_bar_size
  <2> QED
    BY <1>1, <1>3, <2>1, <2>6
       DEF ReportInv, StatusInv, SavedIsVariable, TargetIsVariable, IdleInv, VisitedInv,
           Initializing
<1> QED
  BY <1>2, <1>3 DEF CheckTarget, GiveUp

LEMMA CheckSetupReport ==
    ASSUME IInv, ReportInv, CheckSetup
    PROVE  ReportInv'
<1>1. /\ stage = "guard" /\ UNCHANGED <<hardware, setup, clock, visited, saved>>
      /\ status \in {NotLoaded, GpuUnconfigured, EfiError} /\ status \in Nat /\ visited = {}
      /\ quiet => status # EfiError
      /\ running = variable /\ running \in Config /\ saved \in Config
      /\ saved.draft = running.draft /\ running.crc = pinned
  BY DEF CheckSetup, SetupChanged, SetupRecorded, SetupUnchanged, machine, history, ReportInv,
         StatusInv, Initializing, Early, IInv, ReadIsVariable, VariableIsSaved
<1>2. CASE SetupChanged
  <2>1. /\ stage' = "idle" /\ UNCHANGED <<variable, pinned>> /\ running.draft.guard
        /\ \/ setup = None /\ Record({MissingSetupVariable, Cleared})
           \/ Fault({EfiError})
           \/ setup # None /\ running.crc \notin {None, setup} /\ Record({Cleared})
    BY <1>2 DEF SetupChanged, GiveUp
  <2>2. /\ status' \in Nat /\ (status' = Cleared \/ status' >= BadBridgeConfig)
        /\ quiet' => setup = None \/ running.crc \notin {None, setup}
    <3>1. CASE setup = None /\ Record({MissingSetupVariable, Cleared})
      BY <1>1, <3>1, OneCode, StatusGrows
         DEF MissingSetupVariable, Cleared, EfiError, NotLoaded, GpuUnconfigured, BadBridgeConfig
    <3>2. CASE Fault({EfiError})
      BY <1>1, <3>2, OneCode, StatusGrows DEF EfiError, NotLoaded, GpuUnconfigured, BadBridgeConfig
    <3>3. CASE setup # None /\ running.crc \notin {None, setup} /\ Record({Cleared})
      BY <1>1, <3>3, OneCode, StatusGrows
         DEF Cleared, EfiError, NotLoaded, GpuUnconfigured, BadBridgeConfig
    <3> QED
      BY <2>1, <3>1, <3>2, <3>3
  <2>3. quiet' => ~ Bound(saved)'
    BY <1>1, <2>1, <2>2 DEF Bound
  <2> QED
    BY <1>1, <2>1, <2>2, <2>3
       DEF ReportInv, StatusInv, SavedIsVariable, TargetIsVariable, IdleInv, VisitedInv,
           Initializing
<1>3. CASE SetupRecorded
  <2>1. /\ stage' = "clock" /\ variable' \in {variable, running'}
        /\ running' = [running EXCEPT !.crc = setup] /\ setup \in Setups
        /\ Silent \/ Fault({EfiError})
    BY <1>3 DEF SetupRecorded, IInv, TypeCore
  <2>2. variable' \in Config
    BY <1>1, <2>1 DEF Config
  <2>3. /\ status' \in Nat /\ status' \in {status, EfiError}
        /\ quiet' => quiet /\ status' = status
    <3>1. CASE Silent
      BY <1>1, <3>1 DEF Silent
    <3>2. CASE Fault({EfiError})
      BY <1>1, <3>2, OneCode, StatusGrows DEF EfiError
    <3> QED
      BY <2>1, <3>1, <3>2
  <2> QED
    BY <1>1, <2>1, <2>2, <2>3
       DEF ReportInv, StatusInv, SavedIsVariable, TargetIsVariable, IdleInv, VisitedInv,
           Initializing
<1>4. CASE SetupUnchanged
  BY <1>1, <1>4
     DEF SetupUnchanged, Silent, ReportInv, StatusInv, SavedIsVariable, TargetIsVariable,
         IdleInv, VisitedInv, Initializing
<1> QED
  BY <1>2, <1>3, <1>4 DEF CheckSetup

LEMMA CheckClockReport ==
    ASSUME IInv, ReportInv, CheckClock
    PROVE  ReportInv'
<1>1. /\ stage = "clock" /\ UNCHANGED <<hardware, setup, clock, visited>>
      /\ status \in {NotLoaded, GpuUnconfigured, EfiError} /\ status \in Nat /\ visited = {}
      /\ quiet => status # EfiError
  BY DEF CheckClock, machine, ReportInv, StatusInv, Initializing, Early
<1>2. CASE ClockReset
  <2>1. /\ stage' = "idle" /\ variable' \in {None, variable}
        /\ saved' = IF variable' = None THEN None ELSE saved
        /\ \/ ~ clock /\ Record({Cleared}) /\ variable' = None
           \/ Fault({EfiError})
    BY <1>2 DEF ClockReset, GiveUp
  <2>2. /\ status' \in Nat
        /\ variable' = None \/ status' >= BadBridgeConfig
        /\ quiet' => ~ clock'
    BY <1>1, <2>1, OneCode, StatusGrows
       DEF Cleared, EfiError, NotLoaded, GpuUnconfigured, BadBridgeConfig
  <2>3. saved' # None => variable' \in Config
    BY <2>1 DEF ReportInv, SavedIsVariable
  <2>4. \A g \in Gpus : Wanted(variable, g)' => variable' # None
    BY DEF Wanted
  <2> QED
    BY <1>1, <2>1, <2>2, <2>3, <2>4
       DEF ReportInv, StatusInv, SavedIsVariable, TargetIsVariable, IdleInv, VisitedInv,
           Initializing
<1>3. CASE stage' = "install" /\ Silent /\ UNCHANGED <<running, variable, history>>
  BY <1>1, <1>3
     DEF Silent, history, ReportInv, StatusInv, SavedIsVariable, TargetIsVariable,
         IdleInv, VisitedInv, Initializing
<1> QED
  BY <1>2, <1>3 DEF CheckClock

LEMMA InstallReport ==
    ASSUME IInv, ReportInv, Install
    PROVE  ReportInv'
<1>1. /\ stage = "install"
      /\ UNCHANGED <<hardware, setup, clock, variable, visited, saved, pinned>>
      /\ status \in {NotLoaded, GpuUnconfigured, EfiError} /\ status \in Nat /\ visited = {}
      /\ quiet => status # EfiError
  BY DEF Install, machine, history, ReportInv, StatusInv, Initializing, Early
<1>2. CASE Record({Configured}) /\ stage' = "enumeration"
  <2>1. status' \in Nat /\ (quiet' => status' <= BridgeNotEnumerated)
    BY <1>1, <1>2, OneCode, StatusGrows
       DEF Configured, EfiError, NotLoaded, GpuUnconfigured, BridgeNotEnumerated
  <2>2. UNCHANGED running
    BY <1>2 DEF Install, GiveUp
  <2> QED
    BY <1>1, <1>2, <2>1, <2>2
       DEF ReportInv, StatusInv, SavedIsVariable, TargetIsVariable, IdleInv, VisitedInv,
           Initializing, Early
<1>3. CASE Fault({Configured, EfiError}) /\ stage' \in {"enumeration", "idle"}
  <2>1. /\ status' \in Nat /\ status' >= BadBridgeConfig /\ ~ quiet'
    BY <1>1, <1>3, OneCode, StatusGrows
       DEF Configured, EfiError, NotLoaded, GpuUnconfigured, BadBridgeConfig
  <2> QED
    BY <1>1, <1>3, <2>1
       DEF ReportInv, StatusInv, SavedIsVariable, TargetIsVariable, IdleInv, VisitedInv,
           Initializing, Early
<1> QED
  BY <1>2, <1>3 DEF Install, GiveUp

-----------------------------------------------------------------------------
(* The hook.                                                               *)

\* While devices are visited, what is selected stays, and so does what was
\* visited.
LEMMA HookStill ==
    ASSUME IInv, NEW d \in Devices, NEW phase \in Phases, Call(d, phase)
    PROVE  /\ stage = "enumeration" /\ stage' = "enumeration"
           /\ UNCHANGED <<variable, saved, running, hardware>>
           /\ visited' = visited \cup {<<d, phase>>}
           /\ running \in Config /\ saved \in Config
           /\ saved.draft = running.draft /\ saved.hardware = running.hardware
           /\ \A g : lookup_bar_size(running, g)' = lookup_bar_size(running, g)
BY DEF Call, machine, history, IInv, RunningIsSaved, Passed, lookup_bar_size

\* It is enough that the status does not shrink, and that the device of this
\* call is accounted for.
LEMMA HookReport ==
    ASSUME IInv, ReportInv, NEW d \in Devices, NEW phase \in Phases, Call(d, phase),
           straps \subseteq straps', status' \in Nat, status' >= status, quiet' => quiet,
           quiet' /\ hardware = running.hardware => status' <= BridgeNotEnumerated,
           d \in Gpus /\ lookup_bar_size(running, d) = "size" /\ d \notin straps'
              => /\ status' >= BadBridgeConfig
                 /\ quiet' /\ hardware = running.hardware => status' >= BridgeNotEnumerated
    PROVE  ReportInv'
<1>1. VisitedInv'
  <2>1. /\ stage = "enumeration" /\ stage' = "enumeration"
        /\ UNCHANGED <<running, hardware>>
        /\ visited' = visited \cup {<<d, phase>>}
        /\ \A g : lookup_bar_size(running, g)' = lookup_bar_size(running, g)
    BY HookStill
  <2>2. ASSUME NEW g \in Gpus, <<g, 1>> \in visited', lookup_bar_size(running, g) = "size",
               g \notin straps'
        PROVE  /\ status' >= BadBridgeConfig
               /\ quiet' /\ hardware = running.hardware => status' >= BridgeNotEnumerated
    <3>1. CASE g = d
      BY <2>2, <3>1
    <3>2. CASE <<g, 1>> \in visited
      BY <2>1, <2>2, <3>2 DEF ReportInv, VisitedInv, StatusInv, BadBridgeConfig,
                              BridgeNotEnumerated
    <3> QED
      BY <2>1, <2>2, <3>1, <3>2
  <2> QED
    BY <2>1, <2>2 DEF VisitedInv
<1> QED
  BY <1>1, HookStill DEF ReportInv, StatusInv, SavedIsVariable, TargetIsVariable, IdleInv,
                         Early, Initializing

\* On the machine that was configured nothing but an order of the calls is
\* refused.
LEMMA RefusedFor ==
    ASSUME IInv, running \in Config, NEW g \in Gpus, lookup_bar_size(running, g) = "size",
           refusal(g) # None
    PROVE  /\ refusal(g) \in {NoGpuConfig, BridgeNotEnumerated, BadBridgeConfig}
           /\ hardware = running.hardware => refusal(g) = BridgeNotEnumerated
<1> DEFINE n == hardware.bus[g]
           bridge == lookup_bridge_config(running, n)
<1>1. n \in Buses /\ hardware \in Topology
  BY BootAssumption DEF IInv, TypeCore, Topology
<1>2. refusal(g) \in {NoGpuConfig, BridgeNotEnumerated, BadBridgeConfig}
  BY DEF refusal
<1>3. ASSUME hardware = running.hardware
      PROVE  refusal(g) = BridgeNotEnumerated
  <2>1. running.draft.rules[g] = "size"
    BY DEF lookup_bar_size
  <2>2. has_gpu_config(running, n)
    BY <1>3, <2>1 DEF has_gpu_config, Populated
  <2>3. bridge = hardware.above[n]
    BY <1>3 DEF lookup_bridge_config
  <2>4. \A m \in Buses : hardware.above[m] = bridge => m = n
    BY <1>1, <2>3, BootAssumption DEF IInv, TypeCore
  <2>5. bridge_secondary_bus(bridge) = n
    BY <1>1, <2>3, <2>4 DEF bridge_secondary_bus
  <2> QED
    BY <2>2, <2>5 DEF refusal
<1> QED
  BY <1>2, <1>3

\* Codes that are reported of one device.
LEMMA SomeCodes ==
    /\ \A c \in {NoGpuConfig, BridgeNotEnumerated, BadBridgeConfig, BadGpuConfig, EfiError} :
          Top({GpuFound, c}, c)
    /\ \A c \in {GpuStrapsPreConfigured, GpuStrapsConfigured},
          e \in {GpuStrapsConfirm, GpuStrapsNoConfirm, GpuNoReBarCapability} :
          \E m \in Nat : Top({GpuFound, c, e}, m)
    /\ Top({GpuReBarConfigured}, GpuReBarConfigured)
    /\ Top({GpuReBarSizeOverride}, GpuReBarSizeOverride)
<1>1. \A c \in {NoGpuConfig, BridgeNotEnumerated, BadBridgeConfig, BadGpuConfig, EfiError} :
          Top({GpuFound, c}, c)
  BY DEF Top, GpuFound, NoGpuConfig, BridgeNotEnumerated, BadBridgeConfig, BadGpuConfig, EfiError
<1>2. ASSUME NEW c \in {GpuStrapsPreConfigured, GpuStrapsConfigured},
             NEW e \in {GpuStrapsConfirm, GpuStrapsNoConfirm, GpuNoReBarCapability}
      PROVE  Top({GpuFound, c, e}, e) /\ e \in Nat
  BY DEF Top, GpuFound, GpuStrapsPreConfigured, GpuStrapsConfigured, GpuStrapsConfirm,
         GpuStrapsNoConfirm, GpuNoReBarCapability
<1>3. Top({GpuReBarConfigured}, GpuReBarConfigured) /\ Top({GpuReBarSizeOverride}, GpuReBarSizeOverride)
  BY DEF Top, GpuReBarConfigured, GpuReBarSizeOverride
<1> QED
  BY <1>1, <1>2, <1>3

LEMMA CompletesReport ==
    ASSUME IInv, ReportInv, NEW g \in Gpus, NEW phase \in Phases,
           TransactionCompletes(g, phase)
    PROVE  ReportInv'
<1>1. PICK capability \in {"advertised", "other", "none"} :
        /\ Call(g, phase)
        /\ straps' = straps \cup {g}
        /\ Record({GpuFound,
                   IF g \in straps THEN GpuStrapsPreConfigured
                   ELSE GpuStrapsConfigured,
                   CASE capability = "advertised" -> GpuStrapsConfirm
                     [] capability = "other" -> GpuStrapsNoConfirm
                     [] OTHER -> GpuNoReBarCapability}
                  \cup (IF Resizes(capability) THEN {GpuReBarConfigured} ELSE {})
                  \cup (IF /\ Resizes(capability) /\ capability = "other"
                           /\ running.draft.override
                        THEN {GpuReBarSizeOverride} ELSE {}))
  BY DEF TransactionCompletes
<1> DEFINE c == IF g \in straps THEN GpuStrapsPreConfigured ELSE GpuStrapsConfigured
           e == CASE capability = "advertised" -> GpuStrapsConfirm
                  [] capability = "other" -> GpuStrapsNoConfirm
                  [] OTHER -> GpuNoReBarCapability
           A == {GpuFound, c, e}
           B == IF Resizes(capability) THEN {GpuReBarConfigured} ELSE {}
           C == IF Resizes(capability) /\ capability = "other" /\ running.draft.override
                THEN {GpuReBarSizeOverride} ELSE {}
<1>2. /\ c \in {GpuStrapsPreConfigured, GpuStrapsConfigured}
      /\ e \in {GpuStrapsConfirm, GpuStrapsNoConfirm, GpuNoReBarCapability}
  OBVIOUS
<1>3. Record(A \cup B \cup C)
  BY <1>1
<1>4. \A x \in A \cup B \cup C : x <= BridgeNotEnumerated
  BY <1>2 DEF GpuFound, GpuStrapsPreConfigured, GpuStrapsConfigured, GpuStrapsConfirm,
              GpuStrapsNoConfirm, GpuNoReBarCapability, GpuReBarConfigured,
              GpuReBarSizeOverride, BridgeNotEnumerated
<1>5. /\ \E m : Top(A, m)
      /\ B = {} \/ \E m : Top(B, m)
      /\ C = {} \/ \E m : Top(C, m)
  BY <1>2, SomeCodes
<1> HIDE DEF A, B, C
<1>6. \E m : Top(A \cup B \cup C, m)
  <2>1. \E m : Top(A \cup B, m)
    BY <1>5, TopOfUnion
  <2> QED
    BY <1>5, <2>1, TopOfUnion
<1>7. PICK m : Top(A \cup B \cup C, m)
  BY <1>6
<1>8. m <= BridgeNotEnumerated /\ m \in Nat
  BY <1>4, <1>7 DEF Top
<1>9. status \in Nat /\ stage = "enumeration"
  BY <1>1 DEF ReportInv, StatusInv, Call
<1>10. /\ status' \in Nat /\ status' >= status
       /\ quiet' => quiet
       /\ status <= BridgeNotEnumerated => status' <= BridgeNotEnumerated
  BY <1>3, <1>7, <1>8, <1>9, StatusGrows
<1> QED
  BY <1>1, <1>9, <1>10, HookReport DEF Devices, ReportInv, VisitedInv

LEMMA HookCallReport ==
    ASSUME IInv, ReportInv, NEW d \in Devices, NEW phase \in Phases,
           process_device(d, phase)
    PROVE  ReportInv'
<1>1. status \in Nat /\ (status <= BridgeNotEnumerated \/ ~ quiet \/ hardware # running.hardware
                            \/ stage # "enumeration")
  BY DEF ReportInv, StatusInv, VisitedInv
<1>2. CASE CallFails(d, phase)
  <2>1. status' \in Nat /\ status' >= status /\ status' >= EfiError /\ ~ quiet'
    BY <1>1, <1>2, OneCode, StatusGrows DEF CallFails, EfiError
  <2> QED
    BY <1>2, <2>1, HookReport DEF CallFails, EfiError, BadBridgeConfig
<1>3. CASE d \in Bridges /\ remember_configured_bridge(d, phase)
  <2>1. /\ Call(d, phase) /\ UNCHANGED straps
        /\ Record({BridgeFound}) \/ Silent
    BY <1>3 DEF remember_configured_bridge
  <2>2. stage = "enumeration"
    BY <2>1 DEF Call
  <2>3. /\ status' \in {status, BridgeFound} /\ status' \in Nat /\ status' >= status
        /\ quiet' => quiet
    BY <1>1, <2>1, OneCode, StatusGrows DEF Silent, BridgeFound
  <2>4. d \notin Gpus
    BY <1>3, BootAssumption
  <2> QED
    BY <1>1, <2>1, <2>2, <2>3, <2>4, HookReport DEF BridgeFound, BridgeNotEnumerated
<1>4. CASE d \in Gpus /\ NotSelected(d, phase)
  <2>1. /\ Call(d, phase) /\ UNCHANGED straps /\ lookup_bar_size(running, d) # "size"
        /\ \/ Silent
           \/ Record({GpuExcluded})
           \/ Record({GpuUnconfigured})
    BY <1>4 DEF NotSelected
  <2>2. stage = "enumeration"
    BY <2>1 DEF Call
  <2>3. /\ status' \in {status, GpuExcluded, GpuUnconfigured} /\ status' \in Nat
        /\ status' >= status /\ (quiet' => quiet)
    <3>1. CASE Silent
      BY <1>1, <3>1 DEF Silent
    <3>2. CASE Record({GpuExcluded})
      BY <1>1, <3>2, OneCode, StatusGrows DEF GpuExcluded
    <3>3. CASE Record({GpuUnconfigured})
      BY <1>1, <3>3, OneCode, StatusGrows DEF GpuUnconfigured
    <3> QED
      BY <2>1, <3>1, <3>2, <3>3
  <2> QED
    BY <1>1, <2>1, <2>2, <2>3, HookReport DEF GpuExcluded, GpuUnconfigured, BridgeNotEnumerated
<1>5. CASE d \in Gpus /\ Refused(d, phase)
  <2> DEFINE c == refusal(d)
  <2>1. /\ Call(d, phase) /\ UNCHANGED straps /\ lookup_bar_size(running, d) = "size"
        /\ c # None /\ Record({GpuFound, c}) /\ running \in Config
    BY <1>5, HookStill DEF Refused
  <2>2. /\ c \in {NoGpuConfig, BridgeNotEnumerated, BadBridgeConfig}
        /\ hardware = running.hardware => c = BridgeNotEnumerated
    BY <1>5, <2>1, RefusedFor
  <2>3. Top({GpuFound, c}, c)
    BY <2>2, SomeCodes
  <2>4. c \in Nat /\ c >= BadBridgeConfig
    BY <2>2 DEF NoGpuConfig, BridgeNotEnumerated, BadBridgeConfig
  <2>5. stage = "enumeration"
    BY <2>1 DEF Call
  <2> HIDE DEF c
  <2>6. /\ status' = (IF c <= status THEN status ELSE c)
        /\ quiet' => quiet
    BY <1>1, <2>1, <2>3, StatusGrows
  <2> QED
    BY <1>1, <2>1, <2>2, <2>4, <2>5, <2>6, HookReport DEF BridgeNotEnumerated, BadBridgeConfig
<1>6. CASE d \in Gpus /\ TransactionFails(d, phase)
  <2>1. PICK c \in {BadBridgeConfig, BadGpuConfig, EfiError} : Fault({GpuFound, c})
    BY <1>6 DEF TransactionFails
  <2>2. Call(d, phase) /\ straps \subseteq straps'
    BY <1>6 DEF TransactionFails
  <2>3. Top({GpuFound, c}, c) /\ c \in Nat /\ c >= BadBridgeConfig
    BY SomeCodes DEF BadBridgeConfig, BadGpuConfig, EfiError
  <2>4. status' = (IF c <= status THEN status ELSE c) /\ ~ quiet'
    BY <1>1, <2>1, <2>3, StatusGrows
  <2> QED
    BY <1>1, <2>2, <2>3, <2>4, HookReport DEF BadBridgeConfig
<1> QED
  BY <1>2, <1>3, <1>4, <1>5, <1>6, CompletesReport DEF process_device

LEMMA ReportStep ==
    ASSUME IInv, ReportInv, [Next]_vars
    PROVE  ReportInv'
<1>1. CASE StartWindows
  BY <1>1 DEF StartWindows, machine, history, ReportInv, StatusInv, SavedIsVariable,
              TargetIsVariable, IdleInv, VisitedInv, Early, Initializing
<1>2. CASE UNCHANGED vars
  BY <1>2 DEF vars, machine, driver, history, ReportInv, StatusInv, SavedIsVariable,
              TargetIsVariable, IdleInv, VisitedInv, Bound, Wanted, lookup_bar_size,
              is_gpu_configured
<1> QED
  BY <1>1, <1>2, SaveReport, PowerReport, ReadConfigReport, CheckTargetReport,
     CheckSetupReport, CheckClockReport, InstallReport, HookCallReport DEF Next, Initialize

LEMMA Reported == Spec => [](IInv /\ ReportInv)
<1>1. Init => IInv /\ ReportInv
  BY InitIInv, ReportInit
<1>2. IInv /\ ReportInv /\ [Next]_vars => (IInv /\ ReportInv)'
  BY ReportStep, SaveIInv, PowerIInv, ReadConfigIInv, CheckTargetIInv, CheckSetupIInv,
     CheckClockIInv, InstallIInv, DeviceIInv, WindowsIInv, StutterIInv DEF Next, Initialize
<1> QED
  BY <1>1, <1>2, PTL DEF Spec

\* Only StartWindows ends a boot.
LEMMA StartsWindows ==
    ASSUME Next, WindowsStarts
    PROVE  StartWindows
BY DEF Next, WindowsStarts, Save, PowerOff, Service, PowerOn, Initialize, ReadConfig,
       CheckTarget, CheckSetup, SetupChanged, SetupRecorded, SetupUnchanged, CheckClock,
       ClockReset, Install, GiveUp, process_device, CallFails, remember_configured_bridge,
       NotSelected, Refused, TransactionFails, TransactionCompletes, Call

-----------------------------------------------------------------------------

\* Windows never starts with a selected GPU left alone and no report of it,
\* whatever the other GPUs reported (status.rs StatusAccumulator).
THEOREM Reports == Spec => LeftOutIsReported
<1> DEFINE A == \A g \in Gpus :
                   /\ WindowsStarts /\ shown = status
                   /\ Wanted(variable, g) /\ g \notin straps
                   => status = Cleared \/ status >= BadBridgeConfig
<1>1. IInv /\ ReportInv /\ [Next]_vars => [A]_vars
  <2> SUFFICES ASSUME IInv, ReportInv, Next, NEW g \in Gpus, WindowsStarts,
                      Wanted(variable, g), g \notin straps
               PROVE  status = Cleared \/ status >= BadBridgeConfig
    BY DEF vars, WindowsStarts
  <2>1. StartWindows
    BY StartsWindows
  <2>2. CASE stage = "idle"
    BY <2>2 DEF ReportInv, IdleInv
  <2>3. CASE stage = "enumeration" /\ \A d \in Devices : <<d, 1>> \in visited
    <3>1. variable \in Config
      BY DEF IInv, TypeCore, Wanted
    <3>2. /\ saved.draft = variable.draft /\ saved.hardware = variable.hardware
          /\ saved.draft = running.draft /\ saved.hardware = running.hardware
      BY <2>3, <3>1 DEF IInv, VariableIsSaved, RunningIsSaved, Passed
    <3>3. lookup_bar_size(running, g) = "size"
      BY <3>2 DEF Wanted, lookup_bar_size
    <3> QED
      BY <2>3, <3>3 DEF ReportInv, VisitedInv, Devices
  <2> QED
    BY <2>1, <2>2, <2>3 DEF StartWindows
<1> QED
  BY <1>1, Reported, PTL DEF Spec, LeftOutIsReported

\* A boot without a failing call, on the hardware and under the setup the
\* user saved, programs what was selected, or visited it before its bridge
\* and reports that (driver.rs: the clear that is not persisted).
THEOREM ComeBack == Spec => SettingsComeBack
<1> DEFINE A == \A g \in Gpus :
                   /\ WindowsStarts /\ quiet /\ clock
                   /\ Wanted(saved, g) /\ hardware = saved.hardware
                   /\ saved.draft.guard => setup # None /\ pinned \in {None, setup}
                   => g \in straps \/ status = BridgeNotEnumerated
<1>1. IInv /\ ReportInv /\ [Next]_vars => [A]_vars
  <2> SUFFICES ASSUME IInv, ReportInv, Next, NEW g \in Gpus, WindowsStarts, quiet, clock,
                      Wanted(saved, g), hardware = saved.hardware, Bound(saved),
                      g \notin straps
               PROVE  status = BridgeNotEnumerated
    BY DEF vars, WindowsStarts, Bound
  <2>1. StartWindows
    BY StartsWindows
  <2>2. stage # "idle"
    BY DEF ReportInv, IdleInv
  <2>3. stage = "enumeration" /\ \A d \in Devices : <<d, 1>> \in visited
    BY <2>1, <2>2 DEF StartWindows
  <2>4. saved.draft = running.draft /\ saved.hardware = running.hardware
    BY <2>3 DEF IInv, RunningIsSaved, Passed
  <2>5. lookup_bar_size(running, g) = "size"
    BY <2>4 DEF Wanted, lookup_bar_size
  <2>6. status >= BridgeNotEnumerated /\ status <= BridgeNotEnumerated /\ status \in Nat
    BY <2>3, <2>4, <2>5 DEF ReportInv, VisitedInv, StatusInv, Devices
  <2> QED
    BY <2>6 DEF BridgeNotEnumerated
<1> QED
  BY <1>1, Reported, PTL DEF Spec, SettingsComeBack

-----------------------------------------------------------------------------
(***************************************************************************)
(* The page that saves those settings.  A save compares and writes in      *)
(* steps of their own, and the state of the backend is not locked in       *)
(* between; what was compared still holds at the write (ComparedHolds)     *)
(* since no other command runs beside a save.  The editor has constants    *)
(* and variables of its own.                                               *)
(***************************************************************************)

CONSTANTS Machine, Machines, Sizes, Variables, Files, MaxInputs, MaxMishaps,
          Absent, Garbage, Unreadable, NoSnapshot, NoReport, NoRestore, NoFile,
          NoSave

VARIABLES stored, cards, observed, elevated, backend, saving, snap, edited,
          baseline, checked, timer, busy, path, told, restore, file, commands,
          inputs, mishaps, undisturbed, overtaken

Editor == INSTANCE SettingsEditor
            WITH variable <- stored, machine <- cards, draft <- edited,
                 report <- checked, receipt <- told, calls <- commands

\* What the comparison found is so until the write, or somebody else wrote.
ComparedHolds ==
    Editor!At("compared") =>
        /\ Editor!topology(saving.devices) = saving.call.topology
        /\ overtaken \/ stored = saving.call.token

\* What a step does that is none of a save's, and none of others.
NoSaveTouched ==
    /\ saving' = saving
    /\ saving = NoSave \/ (stored' = stored /\ overtaken' = overtaken)

LEMMA UntouchedHolds ==
    ASSUME ComparedHolds, NoSaveTouched
    PROVE  ComparedHolds'
<1>1. CASE saving = NoSave
  BY <1>1 DEF ComparedHolds, NoSaveTouched, Editor!At
<1>2. CASE stored' = stored /\ overtaken' = overtaken
  <2>1. saving' = saving
    BY DEF NoSaveTouched
  <2> QED
    BY <1>2, <2>1 DEF ComparedHolds, Editor!At
<1> QED
  BY <1>1, <1>2 DEF NoSaveTouched

LEMMA PageTouchesNoSave ==
    ASSUME \/ Editor!Reply \/ Editor!Validate \/ Editor!TryAgain
           \/ Editor!LoadByOtherPage \/ Editor!Operator \/ UNCHANGED Editor!vars
    PROVE  NoSaveTouched
<1>1. CASE Editor!Reply
  BY <1>1 DEF NoSaveTouched, Editor!Reply, Editor!LoadAnswer, Editor!ValidateAnswer,
     Editor!SaveAnswer, Editor!RefreshAnswer, Editor!FileAnswer, Editor!app, Editor!history
<1>2. CASE Editor!Validate
  BY <1>2 DEF NoSaveTouched, Editor!Validate, Editor!app, Editor!history
<1>3. CASE Editor!TryAgain \/ Editor!LoadByOtherPage \/ Editor!Refresh
  BY <1>3 DEF NoSaveTouched, Editor!TryAgain, Editor!LoadByOtherPage, Editor!Refresh,
     Editor!Load, Editor!app, Editor!history
<1>4. CASE \/ Editor!Switch \/ Editor!SetTarget \/ Editor!SetOptions
           \/ Editor!RemoveRule \/ Editor!Revert
           \/ \E mode \in 0 .. 2 : Editor!SetMode(mode)
           \/ snap # NoSnapshot /\ \E i \in DOMAIN snap.devices, size \in Sizes :
                  Editor!Choose(snap.devices[i], size)
  <2>1. \E d, r : Editor!SetDraft(d, r)
    BY <1>4 DEF Editor!Switch, Editor!SetTarget, Editor!SetOptions, Editor!RemoveRule,
       Editor!Revert, Editor!SetMode, Editor!Choose, Editor!Advanced
  <2> QED
    BY <2>1 DEF NoSaveTouched, Editor!SetDraft, Editor!app, Editor!history
<1>5. CASE Editor!Leave \/ Editor!OpenConfirmation \/ Editor!Close \/ Editor!Save
  BY <1>5 DEF NoSaveTouched, Editor!Leave, Editor!OpenConfirmation, Editor!Close,
     Editor!Save, Editor!app, Editor!history
<1>6. CASE Editor!Export \/ Editor!Import
  BY <1>6 DEF NoSaveTouched, Editor!Export, Editor!Import, Editor!app, Editor!history
<1>7. CASE UNCHANGED Editor!vars
  BY <1>7 DEF NoSaveTouched, Editor!vars, Editor!app, Editor!history
<1> QED
  BY <1>1, <1>2, <1>3, <1>4, <1>5, <1>6, <1>7 DEF Editor!Operator

\* The steps of the save itself: only its comparison leads to "compared".
LEMMA SaveStepsHold ==
    ASSUME \/ \E c \in commands : Editor!StartSave(c)
           \/ Editor!CompareSave \/ Editor!WriteSave \/ Editor!ReadBackSave
    PROVE  ComparedHolds'
<1>1. ASSUME NEW c \in commands, Editor!StartSave(c)
      PROVE  ~Editor!At("compared")'
  BY <1>1 DEF Editor!StartSave, Editor!Saving, Editor!At
<1>2. CASE Editor!CompareSave
  <2>1. CASE saving' = NoSave
    BY <2>1 DEF ComparedHolds, Editor!At
  <2>2. CASE /\ Editor!require_write_preconditions(saving.call, saving.devices)
             /\ saving' = Editor!Saving(saving.call, saving.devices, "compared")
    <3>1. /\ Editor!topology(saving.devices) = saving.call.topology
          /\ stored = saving.call.token
      BY <2>2 DEF Editor!require_write_preconditions
    <3>2. saving'.devices = saving.devices /\ saving'.call = saving.call
      BY <2>2 DEF Editor!Saving
    <3>3. stored' = stored
      BY <1>2 DEF Editor!CompareSave
    <3>4. Editor!topology(saving'.devices) = Editor!topology(saving.devices)
      BY <3>2
    <3> QED
      BY <3>1, <3>2, <3>3, <3>4 DEF ComparedHolds
  <2> QED
    BY <1>2, <2>1, <2>2 DEF Editor!CompareSave, Editor!Refused
<1>3. CASE Editor!WriteSave
  <2>1. ~Editor!At("compared")'
    BY <1>3 DEF Editor!WriteSave, Editor!Refused, Editor!Saving, Editor!At
  <2> QED
    BY <2>1 DEF ComparedHolds
<1>4. CASE Editor!ReadBackSave
  <2>1. saving' = NoSave
    BY <1>4 DEF Editor!ReadBackSave, Editor!Refused
  <2> QED
    BY <2>1 DEF ComparedHolds, Editor!At
<1> QED
  BY <1>1, <1>2, <1>3, <1>4 DEF ComparedHolds

LEMMA ComparedHoldsKept ==
    ASSUME ComparedHolds, [Editor!Next]_(Editor!vars)
    PROVE  ComparedHolds'
<1>1. CASE Editor!Run
  <2>1. ASSUME NEW c \in commands, Editor!RunLoad(c)
        PROVE  NoSaveTouched
    BY <2>1 DEF NoSaveTouched, Editor!RunLoad, Editor!history
  <2> QED
    BY <1>1, <2>1, UntouchedHolds, SaveStepsHold DEF Editor!Run, Editor!Pending
<1>2. CASE Editor!SaveByInstall
  <2>1. NoSaveTouched
    BY <1>2 DEF NoSaveTouched, Editor!SaveByInstall, Editor!SavePreset
  <2> QED
    BY <2>1, UntouchedHolds
<1>3. CASE Editor!ChangeByOthers
  <2>1. saving' = saving
    BY <1>3 DEF Editor!ChangeByOthers, Editor!app
  <2>2. \/ overtaken' = Editor!At("compared")
        \/ stored' = stored /\ overtaken' = overtaken
    BY <1>3 DEF Editor!ChangeByOthers
  <2> QED
    BY <2>1, <2>2 DEF ComparedHolds, Editor!At
<1> QED
  BY <1>1, <1>2, <1>3, UntouchedHolds, PageTouchesNoSave DEF Editor!Next

\* save_bar_settings in bar_settings_commands.rs, for any drafts, machines and
\* contents of the variable, any number of calls under way and any change by
\* others between any two accesses: a save on the settings path replaces the
\* configuration the page had read when it was confirmed, unless another program
\* wrote the variable after the comparison, and stores the addresses of the GPUs
\* the page had read.  The installation and the other saves never come between.
THEOREM SavesOverWhatWasRead == Editor!Spec => Editor!ReplacesWhatWasRead
<1>1. Editor!Init => ComparedHolds
  BY DEF Editor!Init, ComparedHolds, Editor!At
<1>2. ComparedHolds /\ [Editor!Next]_(Editor!vars) => ComparedHolds'
  BY ComparedHoldsKept
<1> DEFINE Replaced ==
        (Editor!At("compared") /\ Editor!At("written")') =>
            /\ Editor!topology(saving.devices) = saving.call.topology
            /\ overtaken \/ stored = saving.call.token
<1>3. ComparedHolds /\ [Editor!Next]_(Editor!vars) => [Replaced]_(Editor!vars)
  BY DEF ComparedHolds
<1>4. Editor!ReplacesWhatWasRead <=> [][Replaced]_(Editor!vars)
  BY DEF Editor!ReplacesWhatWasRead
<1> QED
  BY <1>1, <1>2, <1>3, <1>4, PTL DEF Editor!Spec

=============================================================================

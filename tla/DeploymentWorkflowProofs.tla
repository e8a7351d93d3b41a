---------------------- MODULE DeploymentWorkflowProofs ----------------------
(***************************************************************************)
(* Proofs about DeploymentWorkflow, for every set of pinned GPUs and BAR0  *)
(* addresses, with and without the legacy board patches, and for every     *)
(* number of disturbances of every kind.                                   *)
(***************************************************************************)
EXTENDS DeploymentWorkflow, SequenceTheorems, TLAPS

\* The boots whose observation later commands compare the machine with.
Observed == {"RebootAfterFirmware", "RebootAfterConfiguration"}

\* A plan belongs to a pinned identity, and every boot it observed was one of
\* the pinned board with the devices in the pinned slots.
PlanInv ==
    /\ plan # NoPlan => profile \in Identity
    /\ \A step \in Observed :
          completed(step) => evidence(step).identity.place = profile.place

\* A status variable was left by a driver of the running firmware.
StatusInv == status # Missing => HasDriver(running)

\* Until the boot after the configuration was saved, the computed boot time is
\* no later than the time the plan keeps of the save, however the clock is set.
ClockInv ==
    /\ bootedAt <= clock
    /\ completed("WriteNvstrapsConfiguration") /\ ~rebooted =>
          bootedAt <= evidence("WriteNvstrapsConfiguration").time

AllExpanded == \A gpu \in Gpus : current_bar_size(gpu) = Expanded

\* What a command in progress may rely on: no boot comes between its load and
\* its record, so the machine it compared is the machine it records.
DriverInv == cmd.stage = "checked" => status # Missing

ConfigInv ==
    /\ Active = "WriteNvstrapsConfiguration"
    /\ cmd.stage # "written" => cmd.identity.bar0 = LatestIdentity.bar0
    /\ cmd.stage = "written" /\ ~rebooted => bootedAt <= cmd.time

RebootInv == Active = "RebootAfterConfiguration" /\ rebooted

ObserveInv == Active = "VerifyResizableBar" /\ AllExpanded

CommandInv ==
    cmd # NoCommand =>
        /\ profile \in Identity
        /\ place = profile.place
        /\ cmd.identity.place = profile.place
        /\ cmd.name = "confirm" => Active \in Manual
        /\ cmd.name = "driver" => DriverInv
        /\ cmd.name = "config" => ConfigInv
        /\ cmd.name = "reboot" => RebootInv
        /\ cmd.name = "observe" => ObserveInv

\* The claims of the plan.  Without an earlier driver only the patched
\* firmware can have left the status the first of them rests on.
ClaimInv ==
    /\ ~EarlierDriver => FirmwareRebootProven
    /\ ConfigurationRebootProven
    /\ ApertureProven

IInv ==
    TypeOK /\ PlanInv /\ StatusInv /\ ClockInv /\ CommandInv /\ ClaimInv

-----------------------------------------------------------------------------

\* DeploymentPlan::build puts the legacy patches between these two parts.
Front == <<"VerifyProfile", "ConfirmRecovery", "PreserveOriginalFirmware",
           "PrepareRustDriver">>
Board == IF LegacyBoard THEN <<"ApplyLegacyBoardPatches">> ELSE <<>>
Rest == <<"VerifyPatchedArtifact", "FlashWithVendorRoute",
          "ConfigureFirmwareSetup", "RebootAfterFirmware",
          "VerifyDriverLoaded", "WriteNvstrapsConfiguration",
          "RebootAfterConfiguration", "VerifyResizableBar",
          "ConfigureNvidiaApplications">>

Shift == IF LegacyBoard THEN 1 ELSE 0

StepNames ==
    {Front[i] : i \in 1 .. 4} \cup {"ApplyLegacyBoardPatches"}
        \cup {Rest[i] : i \in 1 .. 9}

LEMMA StepParts ==
    /\ Front \in Seq(StepNames) /\ Len(Front) = 4
    /\ Board \in Seq(StepNames) /\ Len(Board) = Shift
    /\ Rest \in Seq(StepNames) /\ Len(Rest) = 9
<1>1. Front \in Seq(StepNames) /\ Len(Front) = 4
  BY DEF Front, StepNames
<1>2. Rest \in Seq(StepNames) /\ Len(Rest) = 9
  BY DEF Rest, StepNames
<1>3. LegacyBoard => Board \in Seq(StepNames) /\ Len(Board) = 1
  BY DEF Board, StepNames
<1>4. ~LegacyBoard => Board \in Seq(StepNames) /\ Len(Board) = 0
  BY DEF Board
<1> QED
  BY <1>1, <1>2, <1>3, <1>4 DEF Shift

LEMMA FrontOfSteps ==
    /\ Front \o Board \in Seq(StepNames)
    /\ Len(Front \o Board) = Len(Front) + Len(Board)
    /\ \A i \in 1 .. Len(Front) + Len(Board) :
          (Front \o Board)[i] =
              IF i <= Len(Front) THEN Front[i] ELSE Board[i - Len(Front)]
<1>1. Front \in Seq(StepNames) /\ Board \in Seq(StepNames)
  BY StepParts
<1> QED
  BY ONLY <1>1, ConcatProperties, Zenon

LEMMA StepsJoined ==
    /\ Steps \in Seq(StepNames)
    /\ Len(Steps) = Len(Front \o Board) + Len(Rest)
    /\ \A i \in 1 .. Len(Front \o Board) + Len(Rest) :
          Steps[i] = IF i <= Len(Front \o Board) THEN (Front \o Board)[i]
                     ELSE Rest[i - Len(Front \o Board)]
<1>1. Front \o Board \in Seq(StepNames) /\ Rest \in Seq(StepNames)
  BY FrontOfSteps, StepParts
<1>2. Steps = (Front \o Board) \o Rest
  BY DEF Steps, Front, Board, Rest
<1> QED
  BY ONLY <1>1, <1>2, ConcatProperties, Zenon

\* Which step stands where.
LEMMA StepList ==
    /\ Steps \in Seq(StepNames)
    /\ Len(Steps) = 13 + Shift
    /\ \A i \in 1 .. 4 : Steps[i] = Front[i]
    /\ LegacyBoard => Steps[5] = "ApplyLegacyBoardPatches"
    /\ \A i \in 1 .. 9 : Steps[4 + Shift + i] = Rest[i]
<1>1. Len(Front \o Board) = 4 + Shift /\ Shift \in 0 .. 1
  BY StepParts, FrontOfSteps DEF Shift
<1>2. \A i \in 1 .. 4 : Steps[i] = Front[i]
  BY <1>1, StepParts, FrontOfSteps, StepsJoined
<1>3. \A i \in 1 .. 9 : Steps[4 + Shift + i] = Rest[i]
  BY <1>1, StepParts, StepsJoined
<1>4. ASSUME LegacyBoard
      PROVE  Steps[5] = "ApplyLegacyBoardPatches"
  <2>1. Shift = 1 /\ Board[1] = "ApplyLegacyBoardPatches"
    BY <1>4 DEF Shift, Board
  <2>2. Board[5 - Len(Front)] = "ApplyLegacyBoardPatches"
    BY <2>1, StepParts
  <2>3. (Front \o Board)[5] = "ApplyLegacyBoardPatches"
    BY <2>1, <2>2, StepParts, FrontOfSteps
  <2> QED
    BY <2>1, <2>3, <1>1, StepParts, StepsJoined
<1> QED
  BY <1>1, <1>2, <1>3, <1>4, StepParts, StepsJoined

\* No step occurs twice in a plan.
LEMMA StepsDistinct ==
    \A i, j \in 1 .. 13 + Shift : Steps[i] = Steps[j] => i = j
<1>1. CASE LegacyBoard
  <2>1. Shift = 1
    BY <1>1 DEF Shift
  <2> QED
    BY <1>1, <2>1, StepList DEF Front, Rest
<1>2. CASE ~LegacyBoard
  <2>1. Shift = 0
    BY <1>2 DEF Shift
  <2> QED
    BY <1>2, <2>1, StepList DEF Front, Rest
<1> QED
  BY <1>1, <1>2

LEMMA IndexOfStep ==
    ASSUME NEW i \in 1 .. 13 + Shift
    PROVE  IndexOf(Steps[i]) = i
BY StepsDistinct, StepList DEF IndexOf

\* The places of the steps the invariants speak of.
LEMMA StepPlaces ==
    /\ IndexOf("VerifyProfile") = 1
    /\ IndexOf("FlashWithVendorRoute") = 6 + Shift
    /\ IndexOf("RebootAfterFirmware") = 8 + Shift
    /\ IndexOf("WriteNvstrapsConfiguration") = 10 + Shift
    /\ IndexOf("RebootAfterConfiguration") = 11 + Shift
    /\ IndexOf("VerifyResizableBar") = 12 + Shift
<1>1. Shift \in 0 .. 1
  BY DEF Shift
<1>2. /\ Steps[1] = "VerifyProfile"
      /\ Steps[6 + Shift] = "FlashWithVendorRoute"
      /\ Steps[8 + Shift] = "RebootAfterFirmware"
      /\ Steps[10 + Shift] = "WriteNvstrapsConfiguration"
      /\ Steps[11 + Shift] = "RebootAfterConfiguration"
      /\ Steps[12 + Shift] = "VerifyResizableBar"
  BY <1>1, StepList DEF Front, Rest
<1> QED
  BY <1>1, <1>2, IndexOfStep

-----------------------------------------------------------------------------

\* The operators of the plan depend on the plan and the profile only.
LEMMA SamePlan ==
    ASSUME UNCHANGED <<plan, profile>>
    PROVE  /\ Active' = Active
           /\ LatestIdentity' = LatestIdentity
           /\ \A step : completed(step)' <=> completed(step)
           /\ \A step : evidence(step)' = evidence(step)
BY DEF Active, Complete, LatestIdentity, completed, evidence

\* The active step is the one behind the evidence.
LEMMA ActiveStep ==
    ASSUME TypeOK, Active # "none"
    PROVE  /\ plan \in Seq(Evidence)
           /\ Len(plan) + 1 \in 1 .. Len(Steps)
           /\ Active = Steps[Len(plan) + 1]
           /\ IndexOf(Active) = Len(plan) + 1
           /\ ~completed(Active)
<1>1. Shift \in 0 .. 1
  BY DEF Shift
<1>2. plan \in Seq(Evidence) /\ Len(plan) <= Len(Steps) /\ ~Complete /\ plan # NoPlan
  BY DEF Active, TypeOK
<1>3. Len(plan) + 1 \in 1 .. 13 + Shift
  BY <1>1, <1>2, StepList DEF Complete
<1>4. Active = Steps[Len(plan) + 1]
  BY DEF Active
<1> QED
  BY <1>1, <1>2, <1>3, <1>4, IndexOfStep, StepList DEF completed

LEMMA Distinguished ==
    /\ "none" \notin Provisioning \cup Preparation \cup Manual
    /\ \A step \in Provisioning \cup Preparation \cup Manual :
          step \notin {"RebootAfterFirmware", "RebootAfterConfiguration",
                       "WriteNvstrapsConfiguration", "VerifyResizableBar"}
BY DEF Provisioning, Preparation, Manual

LEMMA CurrentTyped == TypeOK => Current \in Identity
BY DEF TypeOK, Current, Identity, Bios, Firmware

\* What a record does to the evidence: the step it completes is the active
\* one, everything recorded before stays.
LEMMA Recorded ==
    ASSUME TypeOK, Active # "none", NEW value \in Evidence,
           plan' = Append(plan, value)
    PROVE  /\ plan' \in Seq(Evidence)
           /\ Len(plan') = Len(plan) + 1
           /\ Len(plan') <= Len(Steps)
           /\ \A step : completed(step)' /\ IndexOf(step) \in 1 .. Len(plan') =>
                 \/ completed(step) /\ evidence(step)' = evidence(step)
                 \/ IndexOf(step) = IndexOf(Active) /\ evidence(step)' = value
<1>1. /\ plan \in Seq(Evidence)
      /\ Len(plan) + 1 \in 1 .. Len(Steps)
      /\ IndexOf(Active) = Len(plan) + 1
  BY ActiveStep
<1>2. /\ plan' \in Seq(Evidence)
      /\ Len(plan') = Len(plan) + 1
      /\ plan'[Len(plan) + 1] = value
      /\ \A i \in 1 .. Len(plan) : plan'[i] = plan[i]
  BY <1>1
<1>3. ASSUME NEW step, completed(step)', IndexOf(step) \in 1 .. Len(plan')
      PROVE  \/ completed(step) /\ evidence(step)' = evidence(step)
             \/ IndexOf(step) = IndexOf(Active) /\ evidence(step)' = value
  <2>1. CASE IndexOf(step) = Len(plan) + 1
    BY <2>1, <1>1, <1>2 DEF evidence
  <2>2. CASE IndexOf(step) \in 1 .. Len(plan)
    <3>1. plan # NoPlan
      BY DEF Active
    <3> QED
      BY <2>2, <3>1, <1>1, <1>2 DEF evidence, completed
  <2> QED
    BY <1>1, <1>2, <1>3, <2>1, <2>2
<1> QED
  BY <1>1, <1>2, <1>3, StepList DEF Shift

-----------------------------------------------------------------------------

\* The steps a claim is made of are steps of the plan.
LEMMA ClaimPlaces ==
    ASSUME NEW n \in Nat, NEW step,
           step \in {"RebootAfterFirmware", "RebootAfterConfiguration",
                     "WriteNvstrapsConfiguration", "VerifyResizableBar"}
    PROVE  /\ IndexOf(step) \in Nat \ {0}
           /\ IndexOf(step) <= n => IndexOf(step) \in 1 .. n
           /\ \A i \in 1 .. Len(Steps) :
                 IndexOf(step) = i => Steps[i] = step
<1>1. Shift \in 0 .. 1
  BY DEF Shift
<1>2. /\ Steps[8 + Shift] = "RebootAfterFirmware"
      /\ Steps[10 + Shift] = "WriteNvstrapsConfiguration"
      /\ Steps[11 + Shift] = "RebootAfterConfiguration"
      /\ Steps[12 + Shift] = "VerifyResizableBar"
  BY <1>1, StepList DEF Rest
<1> QED
  BY <1>1, <1>2, StepPlaces

\* What a record keeps, given what the recorded step claims.
LEMMA RecordKeeps ==
    ASSUME TypeOK, PlanInv, StatusInv, ClockInv, ClaimInv,
           Active # "none", NEW value \in Evidence, record_step(value),
           Active \in Observed => value.identity.place = profile.place,
           Active = "WriteNvstrapsConfiguration" /\ ~rebooted
              => bootedAt <= value.time,
           Active = "RebootAfterFirmware" /\ ~EarlierDriver
              => running = "patched",
           Active = "RebootAfterConfiguration" => rebooted,
           Active = "VerifyResizableBar" => AllExpanded
    PROVE  PlanInv' /\ StatusInv' /\ ClockInv' /\ ClaimInv'
<1> DEFINE Named == {"RebootAfterFirmware", "RebootAfterConfiguration",
                     "WriteNvstrapsConfiguration", "VerifyResizableBar"}
<1>1. /\ plan' = Append(plan, value)
      /\ witnessed' = witnessed \cup {step \in {Active} : Witness(step)}
      /\ UNCHANGED <<profile, machine, rebooted>>
  BY DEF record_step
<1>2. /\ Active = Steps[IndexOf(Active)]
      /\ IndexOf(Active) \in 1 .. Len(Steps)
  BY ActiveStep
<1>3. ASSUME NEW step \in Named, completed(step)'
      PROVE  \/ completed(step) /\ evidence(step)' = evidence(step)
             \/ step = Active /\ evidence(step)' = value
  <2>1. IndexOf(step) \in 1 .. Len(plan')
    <3>1. Len(plan') >= IndexOf(step) /\ Len(plan') \in Nat
      BY <1>1, <1>3, Recorded DEF completed
    <3> QED
      BY <3>1, ClaimPlaces
  <2>2. \/ completed(step) /\ evidence(step)' = evidence(step)
        \/ IndexOf(step) = IndexOf(Active) /\ evidence(step)' = value
    BY <1>1, <1>3, <2>1, Recorded
  <2> QED
    BY <1>2, <2>2, ClaimPlaces
<1>4. PlanInv'
  <2>1. plan' # NoPlan => profile' \in Identity'
    BY <1>1 DEF PlanInv, Active, Identity
  <2>2. ASSUME NEW step \in Observed, completed(step)'
        PROVE  (evidence(step).identity.place)' = profile'.place
    BY <1>1, <1>3, <2>2 DEF PlanInv, Observed
  <2> QED
    BY <2>1, <2>2 DEF PlanInv
<1>5. StatusInv'
  BY <1>1 DEF machine, StatusInv, HasDriver
<1>6. ClockInv'
  BY <1>1, <1>3 DEF machine, ClockInv
<1>7. ClaimInv'
  <2>1. ASSUME NEW step \in Named, Claimed(step),
               step = Active => Witness(step)
        PROVE  Claimed(step)'
    BY <1>1, <1>3, <2>1 DEF Claimed
  <2>2. ~EarlierDriver => FirmwareRebootProven'
    BY <2>1 DEF ClaimInv, FirmwareRebootProven, Witness
  <2>3. ConfigurationRebootProven'
    BY <2>1 DEF ClaimInv, ConfigurationRebootProven, Witness
  <2>4. ApertureProven'
    BY <2>1 DEF ClaimInv, ApertureProven, Witness, AllExpanded
  <2> QED
    BY <2>2, <2>3, <2>4 DEF ClaimInv
<1> QED
  BY <1>4, <1>5, <1>6, <1>7

-----------------------------------------------------------------------------

\* The steps by what they do: a command is loaded, or checks something, or
\* records; the machine boots; or only a preview is shown.
Load ==
    \/ PrepareLoad \/ ConfirmLoad \/ DriverLoad \/ ConfigLoad
    \/ RebootLoad \/ ObserveLoad

Check == DriverStatus \/ ConfigEnumerate

Record ==
    \/ ProvisionStep \/ PrepareStep \/ ConfirmRecord \/ DriverRecord
    \/ ConfigRecord \/ RebootRecord \/ ObserveRecord

Preview ==
    PreviewManual \/ PreviewSetupReboot \/ PreviewConfigurationReboot

Reboot ==
    /\ disturbances' \in {disturbances, disturbances + 1}
    /\ disturbances' <= MaxDisturbances
    /\ \E newPlace \in {"pinned", "other"} :
          \/ Boot(TRUE, FALSE, newPlace)
          \/ Boot(FALSE, FALSE, newPlace)
          \/ Boot(FALSE, TRUE, newPlace)

\* What happens to the machine while it runs.
Elsewhere == Flash \/ Reflash \/ Rebalance \/ SetClockBack

LEMMA BootSteps ==
    ASSUME TypeOK,
           \/ RebootToSetup \/ RebootAfterConfiguration \/ OperatorBoot
           \/ SpareBoot \/ ErrorBoot \/ OtherBoot
    PROVE  Reboot
<1>1. /\ disturbances' \in {disturbances, disturbances + 1}
      /\ disturbances' <= MaxDisturbances
  <2>1. disturbances \in 0 .. MaxDisturbances /\ MaxDisturbances \in Nat
    BY WorkflowAssumption DEF TypeOK
  <2>2. CASE RebootToSetup \/ RebootAfterConfiguration \/ OperatorBoot
    <3>1. UNCHANGED disturbances
      BY <2>2, Zenon DEF RebootToSetup, RebootAfterConfiguration, OperatorBoot
    <3> QED
      BY <2>1, <3>1
  <2>3. CASE SpareBoot \/ ErrorBoot \/ OtherBoot
    <3>1. \E kind : Disturb(kind)
      BY <2>3, Zenon DEF SpareBoot, ErrorBoot, OtherBoot
    <3> QED
      BY <2>1, <3>1 DEF Disturb
  <2> QED
    BY <2>2, <2>3
<1>2. \E newPlace \in {"pinned", "other"} :
          \/ Boot(TRUE, FALSE, newPlace)
          \/ Boot(FALSE, FALSE, newPlace)
          \/ Boot(FALSE, TRUE, newPlace)
  <2>1. place \in {"pinned", "other"}
    BY DEF TypeOK
  <2>2. CASE RebootToSetup
    BY <2>1, <2>2, Zenon DEF RebootToSetup
  <2>3. CASE RebootAfterConfiguration \/ OperatorBoot \/ SpareBoot
    BY <2>1, <2>3, Zenon DEF RebootAfterConfiguration, OperatorBoot, SpareBoot
  <2>4. CASE ErrorBoot
    BY <2>1, <2>4, Zenon DEF ErrorBoot
  <2>5. CASE OtherBoot
    BY <2>5, Zenon DEF OtherBoot
  <2> QED
    BY <2>2, <2>3, <2>4, <2>5
<1> QED
  BY <1>1, <1>2 DEF Reboot

LEMMA NextByKind ==
    ASSUME TypeOK, [Next]_vars
    PROVE  \/ CreateProfile \/ Load \/ Preview
           \/ ProvisionPlan \/ Check \/ ConfigWrite \/ Record
           \/ Reboot \/ Elsewhere \/ Crash
           \/ UNCHANGED vars
<1>1. CASE UserCommand
  BY <1>1 DEF UserCommand, Preview, Load
<1>2. CASE CommandStep
  BY <1>2 DEF CommandStep, Check, Record
<1>3. CASE Environment
  BY <1>3, BootSteps DEF Environment, Elsewhere
<1> QED
  BY <1>1, <1>2, <1>3 DEF Next

-----------------------------------------------------------------------------

\* The types, part by part.
StoreOK ==
    /\ profile \in Identity \cup {NoIdentity}
    /\ plan = NoPlan \/ (plan \in Seq(Evidence) /\ Len(plan) <= Len(Steps))
    /\ witnessed \subseteq {Steps[i] : i \in DOMAIN Steps}

CommandOK == cmd = NoCommand \/ cmd \in Commands

PreviewOK ==
    preview = NoPreview
       \/ preview \in [step: Manual \cup Restarts, revision: 0 .. Len(Steps)]

MachineOK ==
    /\ rom \in Firmware /\ running \in Firmware
    /\ newRevision \in BOOLEAN /\ setup \in BOOLEAN
    /\ bar0 \in Bar0 /\ place \in {"pinned", "other"}
    /\ status \in {Missing, Unconfigured, PciConfigured, EfiError}
    /\ config \in Bar0 \cup {NoConfig}
    /\ clock \in Int /\ bootedAt \in Int
    /\ rebooted \in BOOLEAN
    /\ disturbances \in 0 .. MaxDisturbances

LEMMA TypeParts ==
    TypeOK <=> StoreOK /\ CommandOK /\ PreviewOK /\ MachineOK
BY DEF TypeOK, StoreOK, CommandOK, PreviewOK, MachineOK

LEMMA TypePartsNext ==
    TypeOK' <=> StoreOK' /\ CommandOK' /\ PreviewOK' /\ MachineOK'
BY DEF TypeOK, StoreOK, CommandOK, PreviewOK, MachineOK

\* What a step leaves alone keeps its type.
LEMMA TypeKept ==
    ASSUME TypeOK
    PROVE  /\ UNCHANGED <<profile, plan, witnessed>> => StoreOK'
           /\ UNCHANGED cmd => CommandOK'
           /\ UNCHANGED preview => PreviewOK'
           /\ UNCHANGED <<machine, rebooted, disturbances>> => MachineOK'
BY DEF TypeOK, StoreOK, CommandOK, PreviewOK, MachineOK, machine, Commands,
       Identity, Evidence

LEMMA CommandTyped ==
    ASSUME TypeOK, NEW time \in Int,
           NEW name \in {"provision", "prepare", "confirm", "driver", "config",
                         "reboot", "observe"},
           NEW stage \in {"loaded", "checked", "written"}
    PROVE  Command(name, stage, time) \in Commands
BY CurrentTyped DEF Command, Commands

LEMMA CommandOKNext == cmd' \in Commands \/ cmd' = NoCommand => CommandOK'
BY DEF CommandOK, Commands, Identity

LEMMA TypeInit == Init => TypeOK
BY WorkflowAssumption
   DEF Init, TypeOK, Firmware, Missing, Unconfigured, PciConfigured, EfiError

\* What a boot does to the variables the invariants read.
LEMMA BootEffect ==
    ASSUME Reboot, TypeOK
    PROVE  /\ cmd = NoCommand
           /\ UNCHANGED <<store, cmd, rom, newRevision, config>>
           /\ preview' = NoPreview
           /\ running' = rom
           /\ setup' \in BOOLEAN
           /\ status' \in {Missing, Unconfigured, PciConfigured, EfiError}
           /\ status' # Missing => HasDriver(running')
           /\ bar0' \in Bar0
           /\ place' \in {"pinned", "other"}
           /\ clock' = clock + 1
           /\ bootedAt' = clock'
           /\ rebooted' = TRUE
           /\ disturbances' \in {disturbances, disturbances + 1}
           /\ disturbances' <= MaxDisturbances
<1>1. PICK newPlace \in {"pinned", "other"} :
          \/ Boot(TRUE, FALSE, newPlace)
          \/ Boot(FALSE, FALSE, newPlace)
          \/ Boot(FALSE, TRUE, newPlace)
  BY DEF Reboot
<1>2. ASSUME NEW throughSetup \in BOOLEAN, NEW error \in BOOLEAN,
             Boot(throughSetup, error, newPlace)
      PROVE  /\ cmd = NoCommand
             /\ UNCHANGED <<store, cmd, rom, newRevision, config>>
             /\ preview' = NoPreview
             /\ running' = rom
             /\ setup' \in BOOLEAN
             /\ status' \in {Missing, Unconfigured, PciConfigured, EfiError}
             /\ status' # Missing => HasDriver(running')
             /\ bar0' \in Bar0
             /\ place' = newPlace
             /\ clock' = clock + 1
             /\ bootedAt' = clock'
             /\ rebooted' = TRUE
  <2>1. setup' \in BOOLEAN
    BY <1>2 DEF Boot, TypeOK
  <2>2. bar0' \in Bar0
    BY <1>2 DEF Boot, TypeOK
  <2>3. status' = IF ~HasDriver(rom) THEN Missing
                  ELSE IF error THEN EfiError
                  ELSE IF config = NoConfig THEN Unconfigured
                  ELSE PciConfigured
    BY <1>2 DEF Boot
  <2>4. running' = rom
    BY <1>2 DEF Boot
  <2>5. status' # Missing => HasDriver(running')
    BY <2>3, <2>4 DEF HasDriver
  <2> QED
    BY <1>2, <2>1, <2>2, <2>3, <2>4, <2>5 DEF Boot
<1> QED
  BY <1>1, <1>2 DEF Reboot

\* What a load checks: the active step is the command's, and the machine is
\* on the pinned board.
LEMMA LoadEffect ==
    ASSUME TypeOK, PlanInv, NEW name, NEW steps, load_exact(name, steps)
    PROVE  /\ UNCHANGED <<store, preview, machine, rebooted, disturbances>>
           /\ cmd' = [name |-> name, stage |-> "loaded",
                      identity |-> Current, time |-> 0]
           /\ Active \in steps
           /\ profile \in Identity
           /\ place = profile.place
           /\ Active = "WriteNvstrapsConfiguration" => Current = LatestIdentity
<1>1. /\ UNCHANGED <<store, preview, machine, rebooted, disturbances>>
      /\ cmd' = [name |-> name, stage |-> "loaded",
                 identity |-> Current, time |-> 0]
      /\ plan # NoPlan
      /\ Active \in steps
      /\ Preflight
  BY DEF load_exact, exact_deployment, Command
<1>2. LatestIdentity.place = profile.place
  BY DEF LatestIdentity, PlanInv, Observed
<1>3. Current.place = LatestIdentity.place
  BY <1>1 DEF Preflight, exact, allowing_bar0_relocation,
              allowing_firmware_transition
<1>4. Active = "WriteNvstrapsConfiguration" => Current = LatestIdentity
  BY <1>1 DEF Preflight, exact
<1>5. Current.place = place
  BY DEF Current
<1> QED
  BY <1>1, <1>2, <1>3, <1>4, <1>5 DEF PlanInv

LEMMA FactTyped == Fact \in Evidence /\ (TypeOK => plan = NoPlan \/ plan \in Seq(Evidence))
BY DEF Fact, Evidence, TypeOK

\* A record of a typed value keeps the store typed.
LEMMA RecordTyped ==
    ASSUME TypeOK, Active # "none", NEW value \in Evidence, record_step(value)
    PROVE  StoreOK' /\ PreviewOK' /\ MachineOK'
<1>1. /\ plan' \in Seq(Evidence)
      /\ Len(plan') <= Len(Steps)
  BY Recorded DEF record_step
<1>2. Active \in {Steps[i] : i \in DOMAIN Steps}
  <2>1. /\ Active = Steps[Len(plan) + 1]
        /\ Len(plan) + 1 \in 1 .. Len(Steps)
    BY ActiveStep
  <2> QED
    BY <2>1, StepList
<1>3. witnessed' \subseteq {Steps[i] : i \in DOMAIN Steps}
  BY <1>2 DEF record_step, TypeOK
<1>4. StoreOK'
  BY <1>1, <1>3 DEF record_step, TypeOK, StoreOK, Identity, Evidence
<1> QED
  BY <1>4, TypeKept DEF record_step

-----------------------------------------------------------------------------

\* A step that leaves the store alone leaves the plan's invariants alone, as
\* long as the machine does what each of them allows.
LEMMA StoreKept ==
    ASSUME PlanInv, ClaimInv, UNCHANGED store
    PROVE  PlanInv' /\ ClaimInv'
<1>1. /\ UNCHANGED <<plan, profile>>
      /\ UNCHANGED witnessed
  BY DEF store
<1>2. \A step : /\ completed(step)' <=> completed(step)
                /\ evidence(step)' = evidence(step)
  BY <1>1, SamePlan
<1>3. PlanInv'
  BY <1>1, <1>2 DEF PlanInv, Identity
<1>4. ClaimInv'
  BY <1>1, <1>2 DEF ClaimInv, FirmwareRebootProven,
        ConfigurationRebootProven, ApertureProven, Claimed
<1> QED
  BY <1>3, <1>4

LEMMA ClockKept ==
    ASSUME ClockInv, UNCHANGED store, UNCHANGED <<clock, bootedAt, rebooted>>
    PROVE  ClockInv'
BY SamePlan DEF ClockInv, store

\* A command keeps what it may rely on while neither the store nor what it
\* read of the machine changes.
LEMMA CommandKept ==
    ASSUME CommandInv, UNCHANGED store,
           UNCHANGED <<cmd, place, status, setup, rebooted>>,
           cmd # NoCommand /\ cmd.name = "config" /\ cmd.stage = "written"
              /\ ~rebooted /\ bootedAt <= cmd.time => bootedAt' <= cmd.time
    PROVE  CommandInv'
<1>1. /\ Active' = Active
      /\ LatestIdentity' = LatestIdentity
      /\ profile' = profile
  BY SamePlan DEF store
<1>2. AllExpanded' <=> AllExpanded
  BY DEF AllExpanded, current_bar_size, Gpus
<1>3. /\ DriverInv => DriverInv'
      /\ RebootInv => RebootInv'
      /\ ObserveInv => ObserveInv'
  BY <1>1, <1>2 DEF DriverInv, RebootInv, ObserveInv
<1>4. cmd # NoCommand /\ cmd.name = "config" /\ ConfigInv => ConfigInv'
  BY <1>1 DEF ConfigInv
<1> QED
  BY <1>1, <1>3, <1>4 DEF CommandInv, Identity

LEMMA InvInit == Init => PlanInv /\ StatusInv /\ ClockInv /\ CommandInv /\ ClaimInv
BY DEF Init, PlanInv, StatusInv, HasDriver, ClockInv, CommandInv, ClaimInv,
       completed, FirmwareRebootProven, ConfigurationRebootProven,
       ApertureProven, Claimed

\* The time of a completed save is a number.
LEMMA EvidenceTyped ==
    ASSUME TypeOK, completed("WriteNvstrapsConfiguration")
    PROVE  evidence("WriteNvstrapsConfiguration").time \in Int
<1>1. /\ plan \in Seq(Evidence)
      /\ 10 + Shift \in 1 .. Len(plan)
  BY StepPlaces DEF completed, TypeOK, Shift
<1>2. plan[10 + Shift] \in Evidence
  BY <1>1
<1>3. evidence("WriteNvstrapsConfiguration") \in Evidence
  BY <1>2, StepPlaces DEF evidence
<1> QED
  BY <1>3 DEF Evidence

LEMMA InvCreateProfile ==
    ASSUME IInv, CreateProfile PROVE IInv'
<1>1. /\ cmd' = Command("provision", "loaded", 0)
      /\ profile' = Current
      /\ UNCHANGED <<plan, witnessed, preview, machine, rebooted, disturbances>>
      /\ profile = NoIdentity \/ profile = Current
  BY DEF CreateProfile
<1>2. Current \in Identity /\ Current.place = place
  BY CurrentTyped DEF IInv, Current
<1>3. TypeOK'
  <2>1. StoreOK'
    BY <1>1, <1>2 DEF IInv, TypeOK, StoreOK, Identity, Evidence
  <2>2. CommandOK'
    <3>1. Command("provision", "loaded", 0) \in Commands
      BY CommandTyped DEF IInv
    <3> QED
      BY <1>1, <3>1, CommandOKNext
  <2> QED
    BY <1>1, <2>1, <2>2, TypeKept, TypePartsNext DEF IInv
<1>4. plan # NoPlan => profile' = profile
  BY <1>1, NoIdentityAssumption DEF IInv, PlanInv
<1>5. /\ ~completed("RebootAfterFirmware")' \/ profile' = profile
      /\ plan' # NoPlan => profile' = profile
      /\ \A step : /\ completed(step)' <=> completed(step)
                   /\ evidence(step)' = evidence(step)
      /\ \A step : completed(step) => profile' = profile
  BY <1>1, <1>4 DEF completed, evidence
<1>6. PlanInv'
  BY <1>1, <1>2, <1>5 DEF IInv, PlanInv, Identity
<1>7. StatusInv' /\ ClockInv'
  BY <1>1, <1>5 DEF IInv, StatusInv, ClockInv, HasDriver, machine
<1>8. CommandInv'
  BY <1>1, <1>2 DEF CommandInv, Command, machine, Identity
<1>9. ClaimInv'
  BY <1>1, <1>5 DEF IInv, ClaimInv, FirmwareRebootProven,
        ConfigurationRebootProven, ApertureProven, Claimed
<1> QED
  BY <1>3, <1>6, <1>7, <1>8, <1>9 DEF IInv

LEMMA InvLoad ==
    ASSUME IInv, Load PROVE IInv'
<1>1. PICK name, steps :
        /\ name \in {"prepare", "confirm", "driver", "config", "reboot",
                     "observe"}
        /\ load_exact(name, steps)
  BY DEF Load, PrepareLoad, ConfirmLoad, DriverLoad, ConfigLoad, RebootLoad,
         ObserveLoad
<1>2. /\ UNCHANGED <<store, preview, machine, rebooted, disturbances>>
      /\ cmd' = [name |-> name, stage |-> "loaded",
                 identity |-> Current, time |-> 0]
      /\ profile \in Identity
      /\ place = profile.place
      /\ Active = "WriteNvstrapsConfiguration" => Current = LatestIdentity
  BY <1>1, LoadEffect DEF IInv
<1>3. TypeOK'
  <2>1. Command(name, "loaded", 0) \in Commands
    BY <1>1, CommandTyped DEF IInv
  <2>2. CommandOK'
    BY <1>2, <2>1, CommandOKNext DEF Command
  <2> QED
    BY <1>2, <2>2, TypeKept, TypePartsNext DEF IInv, store
<1>4. UNCHANGED <<place, status, setup, running, clock, bootedAt>>
  BY <1>2 DEF machine
<1>5. PlanInv' /\ ClaimInv' /\ ClockInv'
  BY <1>2, <1>4, StoreKept, ClockKept DEF IInv
<1>6. CommandInv'
  <2>1. /\ Active' = Active
        /\ LatestIdentity' = LatestIdentity
        /\ profile' = profile
    BY <1>2, SamePlan DEF store
  <2>2. /\ profile' \in Identity'
        /\ place' = profile'.place
        /\ cmd'.identity = Current
        /\ cmd'.identity.place = profile'.place
        /\ cmd'.stage = "loaded"
        /\ cmd'.name = name
    BY <1>2, <1>4, <2>1 DEF Current, Identity
  <2>3. CASE PrepareLoad
    <3>1. cmd'.name = "prepare"
      BY <2>3, LoadEffect DEF PrepareLoad, IInv
    <3> QED
      BY <2>2, <3>1 DEF CommandInv
  <2>4. CASE ConfirmLoad
    <3>1. cmd'.name = "confirm" /\ Active' \in Manual
      BY <2>1, <2>4, LoadEffect DEF ConfirmLoad, IInv
    <3> QED
      BY <2>2, <3>1 DEF CommandInv, Manual
  <2>5. CASE DriverLoad
    <3>1. cmd'.name = "driver"
      BY <2>5, LoadEffect DEF DriverLoad, IInv
    <3> QED
      BY <2>2, <3>1 DEF CommandInv, DriverInv
  <2>6. CASE ConfigLoad
    <3>1. cmd'.name = "config" /\ Active = "WriteNvstrapsConfiguration"
      BY <2>6, LoadEffect DEF ConfigLoad, IInv
    <3>2. ConfigInv'
      BY <1>2, <2>1, <2>2, <3>1 DEF ConfigInv
    <3> QED
      BY <2>2, <3>1, <3>2 DEF CommandInv
  <2>7. CASE RebootLoad
    <3>1. /\ cmd'.name = "reboot"
          /\ Active = "RebootAfterConfiguration"
          /\ bootedAt > evidence("WriteNvstrapsConfiguration").time
      BY <2>7, LoadEffect DEF RebootLoad, IInv,
               boot_proves_configuration_reboot
    <3>2. completed("WriteNvstrapsConfiguration")
      <4>1. /\ plan # NoPlan
            /\ Len(plan) \in Nat
            /\ Len(plan) + 1 = 11 + Shift
        BY <3>1, ActiveStep, StepPlaces DEF IInv, Active
      <4> QED
        BY <4>1, StepPlaces DEF completed, Shift
    <3>3. rebooted
      <4>1. /\ evidence("WriteNvstrapsConfiguration").time \in Int
            /\ bootedAt \in Int
        BY <3>2, EvidenceTyped DEF IInv, TypeOK
      <4> QED
        BY <3>1, <3>2, <4>1 DEF IInv, ClockInv
    <3> QED
      BY <1>2, <2>1, <2>2, <3>1, <3>3 DEF CommandInv, RebootInv
  <2>8. CASE ObserveLoad
    <3>1. cmd'.name = "observe" /\ Active = "VerifyResizableBar"
      BY <2>8, LoadEffect DEF ObserveLoad, IInv
    <3>2. AllExpanded
      <4>1. PICK seen \in SUBSET Gpus :
                \E smi \in [seen -> Reports] : require_resizable_bar_proof(smi)
        BY <2>8 DEF ObserveLoad
      <4>2. PICK smi \in [seen -> Reports] : require_resizable_bar_proof(smi)
        BY <4>1
      <4> QED
        BY <4>2 DEF require_resizable_bar_proof, expanded, AllExpanded,
                    current_bar_size, Legacy, Expanded
    <3>3. AllExpanded'
      BY <1>4, <3>2 DEF AllExpanded, current_bar_size, Gpus
    <3> QED
      BY <2>1, <2>2, <3>1, <3>3 DEF CommandInv, ObserveInv
  <2> QED
    BY <2>3, <2>4, <2>5, <2>6, <2>7, <2>8 DEF Load
<1> QED
  BY <1>3, <1>4, <1>5, <1>6 DEF IInv, StatusInv, HasDriver

LEMMA InvPreview ==
    ASSUME IInv, Preview PROVE IInv'
<1>1. UNCHANGED <<store, cmd, machine, rebooted, disturbances>>
  BY DEF Preview, PreviewManual, PreviewSetupReboot,
         PreviewConfigurationReboot
<1>2. PreviewOK'
  <2>1. plan # NoPlan => Len(plan) \in 0 .. Len(Steps)
    BY DEF IInv, TypeOK
  <2>2. CASE PreviewManual
    <3>1. /\ preview' = [step |-> Active, revision |-> Len(plan)]
          /\ Active \in Manual
          /\ plan # NoPlan
      BY <2>2 DEF PreviewManual, exact_deployment
    <3> QED
      BY <2>1, <3>1 DEF PreviewOK
  <2>3. CASE PreviewSetupReboot
    <3>1. 0 \in 0 .. Len(Steps)
      BY StepList DEF Shift
    <3> QED
      BY <2>3, <3>1 DEF PreviewSetupReboot, PreviewOK, Restarts
  <2>4. CASE PreviewConfigurationReboot
    BY <2>4, <2>1 DEF PreviewConfigurationReboot, exact_deployment, PreviewOK,
                      Restarts
  <2> QED
    BY <2>2, <2>3, <2>4 DEF Preview
<1>3. TypeOK'
  BY <1>1, <1>2, TypeKept, TypePartsNext DEF IInv, store
<1>4. UNCHANGED <<place, status, setup, running, clock, bootedAt>>
  BY <1>1 DEF machine
<1>5. PlanInv' /\ ClaimInv' /\ ClockInv' /\ CommandInv'
  BY <1>1, <1>4, StoreKept, ClockKept, CommandKept DEF IInv
<1> QED
  BY <1>3, <1>4, <1>5 DEF IInv, StatusInv, HasDriver

LEMMA InvProvisionPlan ==
    ASSUME IInv, ProvisionPlan PROVE IInv'
<1>1. /\ cmd # NoCommand /\ cmd.name = "provision"
      /\ plan = NoPlan /\ plan' = <<>>
      /\ UNCHANGED <<profile, witnessed, cmd, preview, machine, rebooted,
                     disturbances>>
  BY DEF ProvisionPlan, Busy
<1>2. TypeOK'
  <2>1. StoreOK'
    BY <1>1, StepList DEF IInv, TypeOK, StoreOK, Identity, Evidence, Shift
  <2> QED
    BY <1>1, <2>1, TypeKept, TypePartsNext DEF IInv
<1>3. \A step \in Observed \cup {"WriteNvstrapsConfiguration",
                                 "VerifyResizableBar"} : ~completed(step)'
  <2>1. Len(plan') = 0
    BY <1>1
  <2>2. ASSUME NEW step \in Observed \cup {"WriteNvstrapsConfiguration",
                                 "VerifyResizableBar"}
        PROVE  IndexOf(step) \in Nat \ {0}
    BY <2>2, ClaimPlaces DEF Observed
  <2> QED
    BY <2>1, <2>2 DEF completed
<1>4. PlanInv'
  BY <1>1, <1>3 DEF IInv, PlanInv, CommandInv, Identity
<1>5. StatusInv' /\ ClockInv'
  BY <1>1, <1>3 DEF IInv, StatusInv, ClockInv, HasDriver, machine
<1>6. CommandInv'
  BY <1>1 DEF IInv, CommandInv, machine, Identity
<1>7. ClaimInv'
  BY <1>3 DEF ClaimInv, FirmwareRebootProven, ConfigurationRebootProven,
              ApertureProven, Claimed, Observed
<1> QED
  BY <1>2, <1>4, <1>5, <1>6, <1>7 DEF IInv

LEMMA InvCheck ==
    ASSUME IInv, Check PROVE IInv'
<1>1. UNCHANGED <<store, preview, machine, rebooted, disturbances>>
  BY DEF Check, DriverStatus, ConfigEnumerate
<1>2. UNCHANGED <<place, status, setup, running, bar0, clock, bootedAt>>
  BY <1>1 DEF machine
<1>3. /\ Active' = Active
      /\ LatestIdentity' = LatestIdentity
      /\ profile' = profile
  BY <1>1, SamePlan DEF store
<1>4. PlanInv' /\ ClaimInv' /\ ClockInv'
  BY <1>1, <1>2, StoreKept, ClockKept DEF IInv
<1>5. CommandOK' /\ CommandInv'
  <2>1. CASE cmd' = NoCommand
    BY <2>1, CommandOKNext DEF CommandInv
  <2>2. CASE DriverStatus /\ cmd' # NoCommand
    <3>1. /\ cmd # NoCommand
          /\ cmd \in Commands
          /\ cmd.name = "driver"
          /\ status # Missing
          /\ cmd' = [cmd EXCEPT !.stage = "checked"]
      BY <2>2 DEF DriverStatus, Busy, Return, IInv, TypeOK
    <3>2. cmd' \in Commands /\ cmd'.name = "driver"
          /\ cmd'.identity = cmd.identity
      BY <3>1 DEF Commands
    <3>3. DriverInv'
      BY <1>2, <3>1 DEF DriverInv, Missing
    <3> QED
      BY <1>2, <1>3, <3>1, <3>2, <3>3, CommandOKNext
         DEF IInv, CommandInv, Identity
  <2>3. CASE ConfigEnumerate /\ cmd' # NoCommand
    <3>1. /\ cmd # NoCommand
          /\ cmd.name = "config"
          /\ cmd.stage = "loaded"
          /\ bar0 = cmd.identity.bar0
          /\ cmd' = Command("config", "checked", 0)
      BY <2>3 DEF ConfigEnumerate, Busy, Return
    <3>2. /\ cmd'.name = "config"
          /\ cmd'.stage = "checked"
          /\ cmd'.identity.place = place
          /\ cmd'.identity.bar0 = cmd.identity.bar0
      BY <3>1 DEF Command, Current
    <3>3. Command("config", "checked", 0) \in Commands
      BY CommandTyped DEF IInv
    <3>4. ConfigInv'
      BY <1>2, <1>3, <3>1, <3>2 DEF IInv, CommandInv, ConfigInv
    <3> QED
      BY <1>2, <1>3, <3>1, <3>2, <3>3, <3>4, CommandOKNext
         DEF IInv, CommandInv, Identity
  <2> QED
    BY <2>1, <2>2, <2>3 DEF Check
<1>6. TypeOK'
  BY <1>1, <1>5, TypeKept, TypePartsNext DEF IInv, store
<1> QED
  BY <1>2, <1>4, <1>5, <1>6 DEF IInv, StatusInv, HasDriver

LEMMA InvConfigWrite ==
    ASSUME IInv, ConfigWrite PROVE IInv'
<1>1. /\ cmd # NoCommand
      /\ cmd \in Commands
      /\ cmd.name = "config"
      /\ cmd.stage = "checked"
      /\ config' = cmd.identity.bar0
      /\ cmd' = [cmd EXCEPT !.stage = "written", !.time = clock]
      /\ rebooted' = FALSE
      /\ UNCHANGED <<store, preview, rom, running, newRevision, setup, bar0,
                     place, status, clock, bootedAt, disturbances>>
  BY DEF ConfigWrite, Busy, IInv, TypeOK
<1>2. /\ cmd' \in Commands
      /\ cmd'.name = "config"
      /\ cmd'.stage = "written"
      /\ cmd'.time = clock
      /\ cmd'.identity = cmd.identity
  BY <1>1 DEF Commands, IInv, TypeOK
<1>3. /\ Active' = Active
      /\ LatestIdentity' = LatestIdentity
      /\ UNCHANGED <<profile, plan, witnessed>>
  BY <1>1, SamePlan DEF store
<1>4. TypeOK'
  <2>1. cmd.identity.bar0 \in Bar0
    BY <1>1 DEF Commands, Identity
  <2>2. MachineOK'
    BY <1>1, <2>1 DEF IInv, TypeOK, MachineOK
  <2> QED
    BY <1>1, <1>2, <1>3, <2>2, TypeKept, TypePartsNext, CommandOKNext DEF IInv
<1>5. PlanInv' /\ ClaimInv'
  BY <1>1, StoreKept DEF IInv
<1>6. Active = "WriteNvstrapsConfiguration"
  BY <1>1 DEF IInv, CommandInv, ConfigInv
<1>7. ~completed("WriteNvstrapsConfiguration")'
  <2>1. ~completed("WriteNvstrapsConfiguration")
    BY <1>6, ActiveStep DEF IInv
  <2> QED
    BY <2>1, <1>3, SamePlan
<1>8. ClockInv'
  BY <1>1, <1>7 DEF IInv, ClockInv
<1>9. CommandInv'
  <2>1. ConfigInv'
    BY <1>1, <1>2, <1>3, <1>6 DEF ConfigInv, IInv, ClockInv, TypeOK
  <2> QED
    BY <1>1, <1>2, <1>3, <2>1 DEF IInv, CommandInv, Identity
<1> QED
  BY <1>1, <1>4, <1>5, <1>8, <1>9 DEF IInv, StatusInv, HasDriver

\* What each record brings along: the value it records is typed, and when the
\* step is one of a claim, the claim is true of the machine.
LEMMA RecordEffect ==
    ASSUME IInv, Record
    PROVE  \E value \in Evidence :
              /\ record_step(value)
              /\ Active # "none"
              /\ Active \in Observed => value.identity.place = profile.place
              /\ Active = "WriteNvstrapsConfiguration" /\ ~rebooted
                    => bootedAt <= value.time
              /\ Active = "RebootAfterFirmware" /\ ~EarlierDriver
                    => running = "patched"
              /\ Active = "RebootAfterConfiguration" => rebooted
              /\ Active = "VerifyResizableBar" => AllExpanded
              /\ cmd' = NoCommand \/ (cmd' = cmd /\ cmd.name \in
                     {"provision", "prepare", "driver"})
<1> DEFINE Claims == {"RebootAfterFirmware", "RebootAfterConfiguration",
                      "WriteNvstrapsConfiguration", "VerifyResizableBar"}
<1>0. /\ cmd # NoCommand /\ cmd \in Commands
      /\ cmd.time \in Int
      /\ cmd.identity \in Identity
      /\ cmd.identity.place = profile.place
      /\ clock \in Int /\ bootedAt \in Int
  BY DEF IInv, TypeOK, CommandInv, Record, ProvisionStep, PrepareStep,
         ConfirmRecord, DriverRecord, ConfigRecord, RebootRecord,
         ObserveRecord, Busy, Commands
<1>1. CASE ProvisionStep
  <2>1. record_step(Fact) /\ Active \in Provisioning
        /\ (cmd' = NoCommand \/ cmd' = cmd) /\ cmd.name = "provision"
    BY <1>1 DEF ProvisionStep, Busy, Return
  <2> QED
    BY <2>1, FactTyped, Distinguished DEF Observed
<1>2. CASE PrepareStep
  <2>1. record_step(Fact) /\ Active \in Preparation
        /\ (cmd' = NoCommand \/ cmd' = cmd) /\ cmd.name = "prepare"
    BY <1>2 DEF PrepareStep, Busy, Return
  <2> QED
    BY <2>1, FactTyped, Distinguished DEF Observed
<1>3. CASE ConfirmRecord
  <2>1. record_step(Fact) /\ Active \in Manual /\ cmd' = NoCommand
    BY <1>3 DEF ConfirmRecord, Busy, Return, IInv, CommandInv
  <2> QED
    BY <2>1, FactTyped, Distinguished DEF Observed
<1>4. CASE DriverRecord
  <2>1. cmd.name = "driver" /\ status # Missing
    BY <1>4 DEF DriverRecord, Busy, IInv, CommandInv, DriverInv
  <2>2. CASE Active = "RebootAfterFirmware"
    <3>1. /\ record_step([time |-> clock, identity |-> cmd.identity])
          /\ cmd' = cmd
      BY <1>4, <2>2 DEF DriverRecord
    <3>2. [time |-> clock, identity |-> cmd.identity] \in Evidence
      BY <1>0 DEF Evidence
    <3>3. ~EarlierDriver => running = "patched"
      BY <2>1 DEF IInv, StatusInv, HasDriver
    <3> QED
      BY <1>0, <2>1, <2>2, <3>1, <3>2, <3>3
  <2>3. CASE Active = "VerifyDriverLoaded"
    <3>1. record_step(Fact) /\ cmd' = NoCommand
      BY <1>4, <2>3 DEF DriverRecord, Return
    <3> QED
      BY <2>3, <3>1, FactTyped DEF Observed
  <2> QED
    BY <1>4, <2>2, <2>3 DEF DriverRecord
<1>5. CASE ConfigRecord
  <2>1. /\ record_step([time |-> cmd.time, identity |-> NoIdentity])
        /\ cmd' = NoCommand
        /\ Active = "WriteNvstrapsConfiguration"
        /\ ~rebooted => bootedAt <= cmd.time
    BY <1>5 DEF ConfigRecord, Busy, Return, IInv, CommandInv, ConfigInv
  <2>2. [time |-> cmd.time, identity |-> NoIdentity] \in Evidence
    BY <1>0 DEF Evidence
  <2> QED
    BY <2>1, <2>2 DEF Observed
<1>6. CASE RebootRecord
  <2>1. /\ record_step([time |-> bootedAt, identity |-> cmd.identity])
        /\ cmd' = NoCommand
        /\ Active = "RebootAfterConfiguration" /\ rebooted
    BY <1>6 DEF RebootRecord, Busy, Return, IInv, CommandInv, RebootInv
  <2>2. [time |-> bootedAt, identity |-> cmd.identity] \in Evidence
    BY <1>0 DEF Evidence
  <2> QED
    BY <1>0, <2>1, <2>2
<1>7. CASE ObserveRecord
  <2>1. /\ record_step(Fact) /\ cmd' = NoCommand
        /\ Active = "VerifyResizableBar" /\ AllExpanded
    BY <1>7 DEF ObserveRecord, Busy, Return, IInv, CommandInv, ObserveInv
  <2> QED
    BY <2>1, FactTyped DEF Observed
<1> QED
  BY <1>1, <1>2, <1>3, <1>4, <1>5, <1>6, <1>7 DEF Record

LEMMA InvRecord ==
    ASSUME IInv, Record PROVE IInv'
<1>1. PICK value \in Evidence :
              /\ record_step(value)
              /\ Active # "none"
              /\ Active \in Observed => value.identity.place = profile.place
              /\ Active = "WriteNvstrapsConfiguration" /\ ~rebooted
                    => bootedAt <= value.time
              /\ Active = "RebootAfterFirmware" /\ ~EarlierDriver
                    => running = "patched"
              /\ Active = "RebootAfterConfiguration" => rebooted
              /\ Active = "VerifyResizableBar" => AllExpanded
              /\ cmd' = NoCommand \/ (cmd' = cmd /\ cmd.name \in
                     {"provision", "prepare", "driver"})
  BY RecordEffect
<1>2. PlanInv' /\ StatusInv' /\ ClockInv' /\ ClaimInv'
  BY <1>1, RecordKeeps DEF IInv
<1>3. TypeOK'
  <2>1. StoreOK' /\ PreviewOK' /\ MachineOK'
    BY <1>1, RecordTyped DEF IInv
  <2>2. CommandOK'
    BY <1>1, CommandOKNext DEF IInv, TypeOK
  <2> QED
    BY <2>1, <2>2, TypePartsNext
<1>4. CommandInv'
  <2>1. UNCHANGED <<profile, place, status>>
    BY <1>1 DEF record_step, machine
  <2>2. CASE cmd' = cmd /\ cmd # NoCommand
    BY <1>1, <2>1, <2>2 DEF IInv, CommandInv, DriverInv, Identity
  <2>3. CASE cmd' = NoCommand
    BY <2>3 DEF CommandInv
  <2> QED
    BY <1>1, <2>2, <2>3
<1> QED
  BY <1>2, <1>3, <1>4 DEF IInv

LEMMA InvReboot ==
    ASSUME IInv, Reboot PROVE IInv'
<1>1. /\ cmd = NoCommand
      /\ UNCHANGED <<store, cmd, rom, newRevision, config>>
      /\ preview' = NoPreview
      /\ running' = rom
      /\ setup' \in BOOLEAN
      /\ status' \in {Missing, Unconfigured, PciConfigured, EfiError}
      /\ status' # Missing => HasDriver(running')
      /\ bar0' \in Bar0
      /\ place' \in {"pinned", "other"}
      /\ clock' = clock + 1
      /\ bootedAt' = clock'
      /\ rebooted' = TRUE
      /\ disturbances' \in {disturbances, disturbances + 1}
      /\ disturbances' <= MaxDisturbances
  BY BootEffect DEF IInv
<1>2. TypeOK'
  <2>1. MachineOK'
    BY <1>1, WorkflowAssumption
       DEF IInv, TypeOK, MachineOK, Missing, Unconfigured, PciConfigured,
           EfiError
  <2>2. PreviewOK'
    BY <1>1 DEF PreviewOK
  <2> QED
    BY <1>1, <2>1, <2>2, TypeKept, TypePartsNext DEF IInv, store
<1>3. PlanInv' /\ ClaimInv'
  BY <1>1, StoreKept DEF IInv
<1>4. StatusInv'
  BY <1>1 DEF StatusInv, HasDriver, Missing
<1>5. ClockInv'
  BY <1>1 DEF ClockInv, IInv, TypeOK
<1>6. CommandInv'
  BY <1>1 DEF CommandInv
<1> QED
  BY <1>2, <1>3, <1>4, <1>5, <1>6 DEF IInv

LEMMA DisturbTyped ==
    ASSUME TypeOK, NEW kind, Disturb(kind)
    PROVE  disturbances' \in 0 .. MaxDisturbances
BY WorkflowAssumption DEF TypeOK, Disturb

\* Before the flash is confirmed no command relies on the setup values.
LEMMA InvElsewhere ==
    ASSUME IInv, Elsewhere PROVE IInv'
<1>1. /\ UNCHANGED <<store, cmd, preview, place, status, running, rebooted,
                     newRevision, config>>
      /\ rom' \in Firmware /\ setup' \in BOOLEAN /\ bar0' \in Bar0
      /\ disturbances' \in 0 .. MaxDisturbances
  <2>1. CASE Flash
    BY <2>1 DEF Flash, IInv, TypeOK, Firmware, store
  <2>2. CASE Reflash
    BY <2>2, DisturbTyped DEF Reflash, IInv, TypeOK, Firmware, store
  <2>3. CASE Rebalance
    BY <2>3, DisturbTyped DEF Rebalance, IInv, TypeOK, store
  <2>4. CASE SetClockBack
    BY <2>4, DisturbTyped DEF SetClockBack, IInv, TypeOK, store
  <2> QED
    BY <2>1, <2>2, <2>3, <2>4 DEF Elsewhere
<1>2. /\ clock' \in Int /\ bootedAt' \in Int
      /\ bootedAt' <= bootedAt
      /\ bootedAt' <= clock'
  <2>1. clock \in Int /\ bootedAt \in Int /\ bootedAt <= clock
    BY DEF IInv, TypeOK, ClockInv
  <2>2. CASE SetClockBack
    BY <2>1, <2>2 DEF SetClockBack
  <2>3. CASE Flash \/ Reflash \/ Rebalance
    <3>1. UNCHANGED <<clock, bootedAt>>
      BY <2>3 DEF Flash, Reflash, Rebalance
    <3> QED
      BY <2>1, <3>1
  <2> QED
    BY <2>2, <2>3 DEF Elsewhere
<1>3. TypeOK'
  <2>1. MachineOK'
    BY <1>1, <1>2 DEF IInv, TypeOK, MachineOK, Firmware, Missing,
          Unconfigured, PciConfigured, EfiError
  <2> QED
    BY <1>1, <2>1, TypeKept, TypePartsNext DEF IInv, store
<1>4. PlanInv' /\ ClaimInv'
  BY <1>1, StoreKept DEF IInv
<1>5. StatusInv'
  BY <1>1 DEF IInv, StatusInv, HasDriver
<1>6. \A step : completed(step)' <=> completed(step)
  BY <1>1, SamePlan DEF store
<1>7. ClockInv'
  <2>1. ASSUME completed("WriteNvstrapsConfiguration")', ~rebooted'
        PROVE  bootedAt' <= evidence("WriteNvstrapsConfiguration").time'
    <3>1. /\ completed("WriteNvstrapsConfiguration") /\ ~rebooted
          /\ bootedAt <= evidence("WriteNvstrapsConfiguration").time
      BY <2>1, <1>1, <1>6 DEF IInv, ClockInv
    <3>2. /\ evidence("WriteNvstrapsConfiguration").time \in Int
          /\ bootedAt \in Int
      BY <3>1, EvidenceTyped DEF IInv, TypeOK
    <3>3. evidence("WriteNvstrapsConfiguration")'
             = evidence("WriteNvstrapsConfiguration")
      BY <1>1, SamePlan DEF store
    <3> QED
      BY <1>2, <3>1, <3>2, <3>3
  <2> QED
    BY <1>2, <2>1 DEF ClockInv
<1>8. CommandInv'
  <2>1. CASE Flash
    <3>1. ~completed("FlashWithVendorRoute")
      BY <2>1 DEF Flash
    <3>2. Active # "VerifyResizableBar"
      <4>1. SUFFICES ASSUME Active = "VerifyResizableBar" PROVE FALSE
        OBVIOUS
      <4>2. /\ plan # NoPlan /\ Len(plan) \in Nat
            /\ Len(plan) + 1 = 12 + Shift
        BY <4>1, ActiveStep, StepPlaces DEF IInv, Active
      <4> QED
        BY <3>1, <4>2, StepPlaces DEF completed, Shift
    <3>3. cmd # NoCommand => cmd.name # "observe"
      BY <3>2 DEF IInv, CommandInv, ObserveInv
    <3>4. /\ Active' = Active
          /\ LatestIdentity' = LatestIdentity
          /\ UNCHANGED <<profile, bootedAt>>
      BY <1>1, <2>1, SamePlan DEF store, Flash
    <3>5. /\ DriverInv => DriverInv'
          /\ RebootInv => RebootInv'
          /\ ConfigInv => ConfigInv'
      BY <1>1, <3>4 DEF DriverInv, RebootInv, ConfigInv
    <3> QED
      BY <1>1, <3>3, <3>4, <3>5 DEF IInv, CommandInv, Identity
  <2>2. CASE Reflash \/ Rebalance \/ SetClockBack
    <3>1. UNCHANGED setup
      BY <2>2 DEF Reflash, Rebalance, SetClockBack
    <3>2. cmd # NoCommand => cmd.time \in Int
      BY DEF IInv, TypeOK, Commands
    <3> QED
      BY <1>1, <1>2, <3>1, <3>2, CommandKept DEF IInv, TypeOK
  <2> QED
    BY <2>1, <2>2 DEF Elsewhere
<1> QED
  BY <1>3, <1>4, <1>5, <1>7, <1>8 DEF IInv

LEMMA InvCrash ==
    ASSUME IInv, Crash PROVE IInv'
<1>1. /\ UNCHANGED <<store, machine, rebooted>>
      /\ cmd' = NoCommand
      /\ preview' = NoPreview
      /\ disturbances' \in 0 .. MaxDisturbances
  <2>1. disturbances' \in 0 .. MaxDisturbances
    BY DisturbTyped DEF Crash, IInv
  <2> QED
    BY <2>1 DEF Crash, Return
<1>2. UNCHANGED <<place, status, setup, running, clock, bootedAt>>
  BY <1>1 DEF machine
<1>3. TypeOK'
  <2>1. MachineOK' /\ PreviewOK'
    BY <1>1 DEF IInv, TypeOK, MachineOK, PreviewOK, machine
  <2> QED
    BY <1>1, <2>1, TypeKept, TypePartsNext, CommandOKNext DEF IInv, store
<1>4. PlanInv' /\ ClaimInv' /\ ClockInv'
  BY <1>1, <1>2, StoreKept, ClockKept DEF IInv
<1> QED
  BY <1>1, <1>2, <1>3, <1>4 DEF IInv, StatusInv, HasDriver, CommandInv

LEMMA InvStep == IInv /\ [Next]_vars => IInv'
<1> SUFFICES ASSUME IInv, [Next]_vars PROVE IInv'
  OBVIOUS
<1>1. CASE UNCHANGED vars
  <2>1. UNCHANGED <<store, cmd, preview, machine, rebooted, disturbances>>
    BY <1>1 DEF vars
  <2>2. UNCHANGED <<place, status, setup, running, clock, bootedAt>>
    BY <2>1 DEF machine
  <2>3. TypeOK'
    BY <2>1, TypeKept, TypePartsNext DEF IInv, store
  <2>4. PlanInv' /\ ClaimInv' /\ ClockInv' /\ CommandInv'
    BY <2>1, <2>2, StoreKept, ClockKept, CommandKept DEF IInv
  <2> QED
    BY <2>2, <2>3, <2>4 DEF IInv, StatusInv, HasDriver
<1> QED
  BY <1>1, NextByKind, InvCreateProfile, InvLoad, InvPreview,
     InvProvisionPlan, InvCheck, InvConfigWrite, InvRecord, InvReboot,
     InvElsewhere, InvCrash DEF IInv

-----------------------------------------------------------------------------

THEOREM InductiveInvariant == Spec => []IInv
<1>1. Init => IInv
  BY TypeInit, InvInit DEF IInv
<1> QED
  BY <1>1, InvStep, PTL DEF Spec

\* Every reachable state is well typed; in particular the plan never has more
\* evidence than steps, whatever is retried and however often.
THEOREM TypeCorrect == Spec => []TypeOK
<1>1. IInv => TypeOK
  BY DEF IInv
<1> QED
  BY <1>1, InductiveInvariant, PTL

\* As long as the installed firmware carries no driver yet, a completed
\* RebootAfterFirmware means that the patched firmware was running.  The
\* hypothesis is needed: MCDeploymentEarlierDriver shows what happens without.
THEOREM FirmwareReboot ==
    ASSUME ~EarlierDriver
    PROVE  Spec => []FirmwareRebootProven
<1>1. IInv => FirmwareRebootProven
  BY DEF IInv, ClaimInv
<1> QED
  BY <1>1, InductiveInvariant, PTL

\* A completed RebootAfterConfiguration means that the machine was booted
\* after the configuration was read back, however the clock was set.
THEOREM ConfigurationReboot == Spec => []ConfigurationRebootProven
<1>1. IInv => ConfigurationRebootProven
  BY DEF IInv, ClaimInv
<1> QED
  BY <1>1, InductiveInvariant, PTL

\* A completed VerifyResizableBar means that every pinned GPU had an expanded
\* BAR when it was recorded, for any number of GPUs of either kind.
THEOREM Aperture == Spec => []ApertureProven
<1>1. IInv => ApertureProven
  BY DEF IInv, ClaimInv
<1> QED
  BY <1>1, InductiveInvariant, PTL

LEMMA PlanChange ==
    ASSUME IInv, [Next]_vars, plan' # plan
    PROVE  ProvisionPlan \/ Record
<1>1. Load \/ Preview \/ Check => UNCHANGED store
  BY DEF Load, PrepareLoad, ConfirmLoad, DriverLoad, ConfigLoad, RebootLoad,
         ObserveLoad, load_exact, Preview, PreviewManual, PreviewSetupReboot,
         PreviewConfigurationReboot, Check, DriverStatus, ConfigEnumerate
<1>2. ConfigWrite \/ Elsewhere \/ Crash => UNCHANGED store
  BY DEF ConfigWrite, Elsewhere, Flash, Reflash, Rebalance, SetClockBack, Crash
<1>3. Reboot => UNCHANGED store
  BY BootEffect DEF IInv
<1>4. CreateProfile \/ UNCHANGED vars => UNCHANGED plan
  BY DEF CreateProfile, vars, store
<1>5. UNCHANGED store => UNCHANGED plan
  BY DEF store
<1> QED
  BY <1>1, <1>2, <1>3, <1>4, <1>5, NextByKind DEF IInv

LEMMA ConfigChange ==
    ASSUME IInv, [Next]_vars, config' # config
    PROVE  ConfigWrite
<1>1. Load \/ Preview \/ Check => UNCHANGED machine
  BY DEF Load, PrepareLoad, ConfirmLoad, DriverLoad, ConfigLoad, RebootLoad,
         ObserveLoad, load_exact, Preview, PreviewManual, PreviewSetupReboot,
         PreviewConfigurationReboot, Check, DriverStatus, ConfigEnumerate
<1>2. CreateProfile \/ ProvisionPlan \/ Crash \/ UNCHANGED vars
         => UNCHANGED machine
  BY DEF CreateProfile, ProvisionPlan, Crash, vars
<1>3. Elsewhere => UNCHANGED config
  BY DEF Elsewhere, Flash, Reflash, Rebalance, SetClockBack
<1>4. Reboot => UNCHANGED config
  BY BootEffect DEF IInv
<1>5. Record => UNCHANGED machine
  BY RecordEffect DEF record_step
<1>6. UNCHANGED machine => UNCHANGED config
  BY DEF machine
<1> QED
  BY <1>1, <1>2, <1>3, <1>4, <1>5, <1>6, NextByKind DEF IInv

\* No step is completed on another board or with devices in other slots: a
\* command compares the machine once, and no boot comes before its record.
THEOREM PinnedMachine == Spec => OnlyPinnedMachine
<1>1. IInv /\ [Next]_vars =>
         [plan' # plan /\ completed("VerifyProfile")
             => place = profile.place]_vars
  <2> SUFFICES ASSUME IInv, [Next]_vars, plan' # plan,
                      completed("VerifyProfile")
               PROVE  place = profile.place
    OBVIOUS
  <2>1. Record
    BY PlanChange DEF ProvisionPlan, completed
  <2>2. cmd # NoCommand
    BY <2>1 DEF Record, ProvisionStep, PrepareStep, ConfirmRecord,
                DriverRecord, ConfigRecord, RebootRecord, ObserveRecord, Busy
  <2> QED
    BY <2>2 DEF IInv, CommandInv
<1> QED
  BY <1>1, InductiveInvariant, PTL DEF Spec, OnlyPinnedMachine

\* A configuration is written only for the BAR0 of the latest pinned identity,
\* even when Windows reassigns BAR0 between the steps of the command.
THEOREM PinnedBar0 == Spec => ConfigForPinnedBar0
<1>1. IInv /\ [Next]_vars =>
         [config' # config => config' = LatestIdentity.bar0]_vars
  <2> SUFFICES ASSUME IInv, [Next]_vars, config' # config
               PROVE  config' = LatestIdentity.bar0
    OBVIOUS
  <2>1. /\ config' = cmd.identity.bar0
        /\ cmd # NoCommand /\ cmd.name = "config" /\ cmd.stage = "checked"
    BY ConfigChange DEF ConfigWrite, Busy
  <2> QED
    BY <2>1 DEF IInv, CommandInv, ConfigInv
<1> QED
  BY <1>1, InductiveInvariant, PTL DEF Spec, ConfigForPinnedBar0

=============================================================================

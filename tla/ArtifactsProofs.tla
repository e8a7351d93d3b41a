-------------------------- MODULE ArtifactsProofs --------------------------
(***************************************************************************)
(* What the store of a profile promises: that a package it publishes is    *)
(* proven, for any processes, releases, requests and profiles of earlier   *)
(* versions, and any number of disturbances; and that the plans in it are  *)
(* an append-only history (PlanStore, in the second half).                 *)
(*                                                                         *)
(* The argument: the identity never changes once there is one, and names   *)
(* the original.  An export compares everything with the plan at one       *)
(* moment; from then on neither the profile nor what the plan says of the  *)
(* three steps changes, because a command is in progress and no step of    *)
(* the preparation is active; so that what the store reads later and finds *)
(* equal to the plan is what was built, whatever happened to the files in  *)
(* between.                                                                *)
(***************************************************************************)
EXTENDS Artifacts, TLAPS

-----------------------------------------------------------------------------
(* The steps of a plan.                                                    *)

\* A valid plan is completed up to its ready step, so that once the image is
\* verified no step that makes a file is active, and recording one leaves the
\* plan alone.
LEMMA NothingIsActive ==
    ASSUME NEW p, NEW q, validate_for(q, p), is_step_completed(q, ImageStep),
           NEW step \in {DriverStep, BoardStep, ImageStep}
    PROVE  ~require_active(q, step)
<1> DEFINE S == step_ids(p.board)
<1>1. /\ DOMAIN q.steps = DOMAIN S
      /\ \A i \in DOMAIN S : q.steps[i].id = S[i]
  BY DEF validate_for
<1>2. PICK ready \in DOMAIN S : \A i \in DOMAIN S :
          q.steps[i].state = CASE i < ready -> "completed"
                               [] i = ready -> "ready"
                               [] OTHER -> "pending"
  BY <1>1 DEF validate_for
<1>3. PICK done \in DOMAIN S : S[done] = ImageStep /\ q.steps[done].state = "completed"
  BY <1>1 DEF is_step_completed
<1>4. S[ready] = "FlashWithVendorRoute"
  <2>1. CASE p.board = "legacy"
    <3>1. DOMAIN S = 1 .. 7
      BY <2>1 DEF step_ids
    <3>2. done = 6
      BY <1>3, <2>1, <3>1 DEF step_ids, ImageStep
    <3>3. ready = 7
      BY <1>2, <1>3, <3>1, <3>2
    <3> QED
      BY <2>1, <3>3 DEF step_ids
  <2>2. CASE p.board # "legacy"
    <3>1. DOMAIN S = 1 .. 6
      BY <2>2 DEF step_ids
    <3>2. done = 5
      BY <1>3, <2>2, <3>1 DEF step_ids, ImageStep
    <3>3. ready = 6
      BY <1>2, <1>3, <3>1, <3>2
    <3> QED
      BY <2>2, <3>3 DEF step_ids
  <2> QED
    BY <2>1, <2>2
<1>5. \A i \in DOMAIN S : i # ready => q.steps[i].state # "ready"
  <2>1. DOMAIN S \subseteq Nat
    BY DEF step_ids
  <2> QED
    BY <1>2, <2>1
<1>6. S[ready] # step
  BY <1>4 DEF DriverStep, BoardStep, ImageStep
<1> HIDE DEF S
<1> QED
  BY <1>1, <1>5, <1>6 DEF require_active

-----------------------------------------------------------------------------
(* The invariant.                                                          *)

Shape ==
    /\ DOMAIN files = Kinds
    /\ cmd = [c \in Clients |-> [at |-> cmd[c].at, completed |-> cmd[c].completed,
                                 package |-> cmd[c].package]]
    /\ staging = [c \in Clients |-> staging[c]]
    /\ dest = [package |-> dest.package, copy |-> dest.copy]

\* There is one profile, stored under an identity that names the original.
RecordInv ==
    /\ id # None =>
          /\ {"id", "policy"} \subseteq DOMAIN profile
          /\ profile.id = id
          /\ profile.policy \in FirmwareTargetPolicy
          /\ id.firmware = Original
    /\ plan # None => id # None

\* A receipt of board patches that reads as one is for the image it names.
ReceiptInv ==
    \/ files.boardReceipt \in {None, Damaged}
    \/ \E catalog : files.boardReceipt = BoardReceipt(catalog)

\* What the identity says the image is made from, and where it goes.
Firmware == IF id.board = "legacy" THEN BoardImage(id.patches) ELSE id.firmware
Policy == IF id.policy = None THEN "requireUnique" ELSE id.policy

Proven(package) ==
    /\ \E r \in Releases : package.flash = Image(r.injector, Firmware, package.driver)
    /\ package.receipt = ReceiptOf(package.flash, Policy)
    /\ package.recovery = id.firmware
    /\ id.board = "legacy" => package.board = BoardReceipt(id.patches)
    /\ package.profile.identity = id.identity

\* What an export has compared when the store begins to read: the evidence of
\* the plan, which no step can change any more.
Compared(receipt) ==
    /\ plan # None
    /\ \A step \in {DriverStep, BoardStep, ImageStep} : ~require_active(plan, step)
    /\ profile.board = id.board
    /\ profile.identity = id.identity
    /\ \E r \in Releases :
          StepEvidence(ImageStep) = Image(r.injector, Firmware, StepEvidence(DriverStep))
    /\ receipt = ReceiptOf(StepEvidence(ImageStep), Policy)
    /\ id.board = "legacy" => StepEvidence(BoardStep) = BoardReceipt(id.patches)

Exporting == {"destination", "stage", "verify", "copy", "publish"}

ClientInv(c) ==
    /\ cmd[c].at # "idle" => id # None
    /\ cmd[c].at = "read" => Compared(cmd[c].package)
    /\ cmd[c].at \in Exporting => Proven(cmd[c].package)
    /\ cmd[c].at \in {"copy", "publish"} => staging[c] = cmd[c].package

DestInv ==
    /\ dest.package \notin {None, Foreign} => id # None /\ Proven(dest.package)
    /\ dest.copy \in {None, Foreign, Original}

IInv ==
    /\ Shape
    /\ release \in Releases
    /\ RecordInv
    /\ ReceiptInv
    /\ \A c \in Clients : ClientInv(c)
    /\ DestInv


-----------------------------------------------------------------------------
(* Profiles and plans.                                                     *)

\* What is known of a profile that the application makes or that an earlier
\* version has stored: its identity names the original.
LEMMA StoredProfiles ==
    ASSUME NEW p \in Creatable \cup Earlier
    PROVE  /\ {"id", "policy"} \subseteq DOMAIN p
           /\ p.policy \in FirmwareTargetPolicy
           /\ p.id # None /\ p.id.firmware = Original
<1>1. CASE p \in Creatable
  <2>1. PICK request \in Requests : p = create_with_options(request, Gpus, Original)
    BY <1>1 DEF Creatable
  <2>2. /\ {"id", "policy"} \subseteq DOMAIN p
        /\ p.policy = request.policy
        /\ p.id.firmware = Original
    BY <2>1 DEF create_with_options, id_of, profile_id
  <2> QED
    BY <2>2, ProfilesAssumption
<1>2. CASE p \in Earlier
  <2>1. p.policy = "requireUnique" /\ p.id = id_of(p) /\ p.firmware = Original
    <3>1. validate(p) /\ p.schema < CurrentSchema /\ p.firmware = Original
      BY <1>2, EarlierAssumption
    <3>2. p.schema # CurrentSchema
      BY <3>1 DEF validate, CurrentSchema
    <3> QED
      BY <3>1, <3>2 DEF validate
  <2>2. p.id.firmware = Original
    BY <2>1 DEF id_of, profile_id
  <2> QED
    BY <1>2, <2>1, <2>2, ProfilesAssumption DEF FirmwareTargetPolicy
<1> QED
  BY <1>1, <1>2

\* The identity stays once there is one, the profile while a command is in
\* progress, and the plan while the store reads what it is compared with.
LEMMA Kept ==
    ASSUME IInv, Next
    PROVE  /\ id # None => id' = id
           /\ \A c \in Clients : cmd[c].at # "idle" => profile' = profile
           /\ \A c \in Clients : cmd[c].at = "read" => plan' = plan
<1>1. id # None => id' = id
  <2>1. ASSUME NEW c \in Clients, CreateProfile(c), id # None PROVE id' = id
    BY <2>1 DEF CreateProfile, IInv, RecordInv
  <2> QED
    BY <2>1 DEF Next, Prepare, Export, Step, Stop, Update, Damage, DamageRecords,
      OthersWrite, EmptyDestination, CopyOriginal, CreatePlan, PrepareDriver, RecordDriver,
      PrepareBoard, PreserveBoardReceipt, RecordBoard, PrepareImage, PreserveReceipt,
      RecordImage, ReadArtifacts, CheckDestination, Stage, Verify, WriteRecoveryCopy,
      Publish, record
<1>2. ASSUME NEW c \in Clients, cmd[c].at # "idle" PROVE profile' = profile
  <2>1. id # None
    BY <1>2 DEF IInv, ClientInv
  <2>2. ASSUME NEW d \in Clients, CreateProfile(d) PROVE profile' = profile
    BY <2>1, <2>2 DEF CreateProfile
  <2>3. ~DamageRecords
    BY <1>2 DEF DamageRecords, Idle
  <2> QED
    BY <2>2, <2>3 DEF Next, Prepare, Export, Step, Stop, Update, Damage,
      OthersWrite, EmptyDestination, CopyOriginal, CreatePlan, PrepareDriver, RecordDriver,
      PrepareBoard, PreserveBoardReceipt, RecordBoard, PrepareImage, PreserveReceipt,
      RecordImage, ReadArtifacts, CheckDestination, Stage, Verify, WriteRecoveryCopy,
      Publish, record
<1>3. ASSUME NEW c \in Clients, cmd[c].at = "read" PROVE plan' = plan
  <2>1. /\ plan # None
        /\ \A step \in {DriverStep, BoardStep, ImageStep} : ~require_active(plan, step)
    BY <1>3 DEF IInv, ClientInv, Compared
  <2>2. ASSUME NEW d \in Clients,
               RecordDriver(d) \/ RecordBoard(d) \/ RecordImage(d) \/ CreatePlan(d)
        PROVE  plan' = plan
    BY <2>1, <2>2 DEF RecordDriver, RecordBoard, RecordImage, CreatePlan, record_step
  <2>3. ~DamageRecords
    BY <1>3 DEF DamageRecords, Idle
  <2> QED
    BY <2>2, <2>3 DEF Next, CreateProfile, Prepare, Export, Step, Stop, Update, Damage,
      OthersWrite, EmptyDestination, CopyOriginal, PrepareDriver, PrepareBoard,
      PreserveBoardReceipt, PrepareImage, PreserveReceipt, ReadArtifacts,
      CheckDestination, Stage, Verify, WriteRecoveryCopy, Publish
<1> QED
  BY <1>1, <1>2, <1>3

-----------------------------------------------------------------------------
(* Every step keeps the parts of the invariant.                            *)

LEMMA ShapeKept ==
    ASSUME IInv, Next
    PROVE  Shape'
<1> USE DEF Shape, Goto, Return, Discard, Idle, preserve, record_step
<1>1. DOMAIN files = Kinds /\ dest = [package |-> dest.package, copy |-> dest.copy]
  BY DEF IInv
<1>2. /\ DOMAIN cmd = Clients
      /\ \A c \in Clients : cmd[c] = [at |-> cmd[c].at, completed |-> cmd[c].completed,
                                      package |-> cmd[c].package]
      /\ cmd = [c \in Clients |-> cmd[c]]
      /\ staging = [c \in Clients |-> staging[c]]
  BY DEF IInv
<1>3. DOMAIN files' = Kinds
  BY <1>1 DEF Next, Step, Stop, Update, Damage, DamageRecords, OthersWrite,
    EmptyDestination, CreateProfile, Prepare, Export, CopyOriginal, CreatePlan,
    PrepareDriver, RecordDriver, PrepareBoard, PreserveBoardReceipt, RecordBoard,
    PrepareImage, PreserveReceipt, RecordImage, ReadArtifacts, CheckDestination, Stage,
    Verify, WriteRecoveryCopy, Publish
<1>4. dest' = [package |-> dest'.package, copy |-> dest'.copy]
  BY <1>1 DEF Next, Step, Stop, Update, Damage, DamageRecords, OthersWrite,
    EmptyDestination, CreateProfile, Prepare, Export, CopyOriginal, CreatePlan,
    PrepareDriver, RecordDriver, PrepareBoard, PreserveBoardReceipt, RecordBoard,
    PrepareImage, PreserveReceipt, RecordImage, ReadArtifacts, CheckDestination, Stage,
    Verify, WriteRecoveryCopy, Publish
<1>5. staging' = [c \in Clients |-> staging'[c]]
  <2>1. \/ UNCHANGED staging
        \/ \E c \in Clients : \E kept : staging' = [staging EXCEPT ![c] = kept]
    BY DEF Next, Step, Stop, Update, Damage, DamageRecords, OthersWrite,
      EmptyDestination, CreateProfile, Prepare, Export, Start, CopyOriginal, CreatePlan,
      PrepareDriver, RecordDriver, PrepareBoard, PreserveBoardReceipt, RecordBoard,
      PrepareImage, PreserveReceipt, RecordImage, ReadArtifacts, CheckDestination, Stage,
      Verify, WriteRecoveryCopy, Publish
  <2> QED
    BY <1>2, <2>1
<1> DEFINE Command(at, completed, package) ==
               [at |-> at, completed |-> completed, package |-> package]
<1> DEFINE IsCommand(command) ==
               command = Command(command.at, command.completed, command.package)
<1>6. cmd' = [c \in Clients |-> [at |-> cmd'[c].at, completed |-> cmd'[c].completed,
                                 package |-> cmd'[c].package]]
  <2> DEFINE Changed(c) ==
                 \E command : IsCommand(command) /\ cmd' = [cmd EXCEPT ![c] = command]
  <2>1. ASSUME NEW c \in Clients,
               CreateProfile(c) \/ Prepare(c) \/ Export(c) \/ Step(c) \/ Stop(c)
        PROVE  Changed(c)
    <3> DEFINE Old == cmd[c]
    <3>1. IsCommand(Old)
      BY <1>2
    <3>2. \A at, completed, package : IsCommand(Command(at, completed, package))
      OBVIOUS
    <3>3. \A step : Goto(c, step) =>
              cmd' = [cmd EXCEPT ![c] = Command(step, Old.completed, Old.package)]
      BY <3>1
    <3>4. Return(c) => cmd' = [cmd EXCEPT ![c] = Command("idle", {}, None)]
      OBVIOUS
    <3>5. \A step : Start(c, step) =>
              cmd' = [cmd EXCEPT ![c] = Command(step, CompletedSteps, None)]
      BY DEF Start
    <3>6. Export(c) =>
              cmd' = [cmd EXCEPT ![c] = Command("read", CompletedSteps, files.receipt)]
      BY DEF Export
    <3>7. PrepareImage(c) =>
              \/ cmd' = [cmd EXCEPT ![c] = Command("receipt", Old.completed, Rebuilt)]
              \/ Return(c)
      BY <3>1 DEF PrepareImage
    <3>8. ReadArtifacts(c) =>
              \/ \E package :
                    cmd' = [cmd EXCEPT ![c] = Command("destination", Old.completed, package)]
              \/ Return(c)
      BY <3>1 DEF ReadArtifacts
    <3>9. RecordDriver(c) \/ RecordBoard(c) =>
              \/ \E at, completed :
                    cmd' = [cmd EXCEPT ![c] = Command(at, completed, Old.package)]
              \/ Return(c)
      BY <3>1 DEF RecordDriver, RecordBoard
    <3> HIDE DEF Goto, Return, Command, IsCommand, Old
    <3>10. \A at, completed, package :
              cmd' = [cmd EXCEPT ![c] = Command(at, completed, package)] => Changed(c)
      BY <3>2
    <3> HIDE DEF Changed
    <3> QED
      BY <2>1, <3>3, <3>4, <3>5, <3>6, <3>7, <3>8, <3>9, <3>10
      DEF Step, Stop, CreateProfile, Prepare, CopyOriginal, CreatePlan, PrepareDriver,
        PrepareBoard, PreserveBoardReceipt, PreserveReceipt, RecordImage,
        CheckDestination, Stage, Verify, WriteRecoveryCopy, Publish
  <2>2. UNCHANGED cmd \/ \E c \in Clients : Changed(c)
    BY <2>1 DEF Next, Update, Damage, DamageRecords, OthersWrite, EmptyDestination
  <2> QED
    BY <1>2, <2>2
<1> QED
  BY <1>3, <1>4, <1>5, <1>6

LEMMA RecordKept ==
    ASSUME IInv, Next
    PROVE  RecordInv' /\ release' \in Releases
<1>1. release' \in Releases
  BY DEF IInv, Next, Step, Stop, Update, Damage, DamageRecords, OthersWrite,
    EmptyDestination, CreateProfile, Prepare, Export, CopyOriginal, CreatePlan,
    PrepareDriver, RecordDriver, PrepareBoard, PreserveBoardReceipt, RecordBoard,
    PrepareImage, PreserveReceipt, RecordImage, ReadArtifacts, CheckDestination, Stage,
    Verify, WriteRecoveryCopy, Publish
<1>2. ASSUME NEW c \in Clients, CreateProfile(c) PROVE RecordInv'
  <2>1. profile' \in Creatable /\ id' = profile'.id /\ UNCHANGED plan
    BY <1>2 DEF CreateProfile
  <2> QED
    BY <2>1, StoredProfiles DEF RecordInv
<1>3. ASSUME NEW c \in Clients,
             CreatePlan(c) \/ RecordDriver(c) \/ RecordBoard(c) \/ RecordImage(c)
      PROVE  RecordInv'
  <2>1. id # None
    BY <1>3 DEF IInv, ClientInv, CreatePlan, RecordDriver, RecordBoard, RecordImage, AtStep
  <2>2. UNCHANGED record
    BY <1>3 DEF CreatePlan, RecordDriver, RecordBoard, RecordImage
  <2> QED
    BY <2>1, <2>2 DEF RecordInv, record, IInv
<1>4. CASE DamageRecords
  <2>1. plan # None /\ id' = id /\ RecordInv
    BY <1>4 DEF DamageRecords, IInv
  <2>2. CASE profile' \in SpoiltProfile
    BY <1>1, <1>4, <2>1, <2>2 DEF SpoiltProfile, RecordInv, FirmwareTargetPolicy, DamageRecords
  <2>3. CASE UNCHANGED profile
    BY <1>1, <1>4, <2>1, <2>3 DEF RecordInv, DamageRecords
  <2> QED
    BY <1>4, <2>2, <2>3 DEF DamageRecords
<1>5. CASE UNCHANGED <<record, plan>>
  BY <1>1, <1>5 DEF IInv, RecordInv, record
<1> QED
  BY <1>1, <1>2, <1>3, <1>4, <1>5 DEF Next, Step, Stop, Update, Damage, OthersWrite,
    EmptyDestination, Prepare, Export, CopyOriginal, PrepareDriver, PrepareBoard,
    PreserveBoardReceipt, PrepareImage, PreserveReceipt, ReadArtifacts, CheckDestination,
    Stage, Verify, WriteRecoveryCopy, Publish

LEMMA ReceiptKept ==
    ASSUME IInv, Next
    PROVE  ReceiptInv'
<1>1. DOMAIN files = Kinds /\ ReceiptInv
  BY DEF IInv, Shape
<1>2. ASSUME NEW c \in Clients, PreserveBoardReceipt(c) PROVE ReceiptInv'
  BY <1>1, <1>2 DEF PreserveBoardReceipt, preserve, ReceiptInv, Kinds
<1>3. ASSUME NEW c \in Clients,
             CopyOriginal(c) \/ PrepareDriver(c) \/ PrepareBoard(c) \/ PrepareImage(c)
                \/ PreserveReceipt(c)
      PROVE  ReceiptInv'
  <2>1. files'.boardReceipt = files.boardReceipt
    BY <1>1, <1>3 DEF CopyOriginal, PrepareDriver, PrepareBoard, PrepareImage,
      PreserveReceipt, preserve, Kinds
  <2> QED
    BY <1>1, <2>1 DEF ReceiptInv
<1>4. CASE Damage
  <2>1. PICK k \in Kinds : \E content \in Spoilt(k) : files' = [files EXCEPT ![k] = content]
    BY <1>4 DEF Damage
  <2>2. CASE k = "boardReceipt"
    BY <1>1, <2>1, <2>2 DEF Spoilt, ReceiptInv
  <2>3. CASE k # "boardReceipt"
    BY <1>1, <2>1, <2>3 DEF ReceiptInv
  <2> QED
    BY <2>2, <2>3
<1>5. CASE UNCHANGED files
  BY <1>1, <1>5 DEF ReceiptInv
<1> QED
  BY <1>2, <1>3, <1>4, <1>5 DEF Next, Step, Stop, Update, DamageRecords, OthersWrite,
    EmptyDestination, CreateProfile, Prepare, Export, CreatePlan, RecordDriver,
    RecordBoard, RecordImage, ReadArtifacts, CheckDestination, Stage, Verify,
    WriteRecoveryCopy, Publish

\* What each way of going on makes of the commands.
LEMMA Moves ==
    ASSUME Shape, NEW c \in Clients
    PROVE  /\ \A step : Goto(c, step) =>
                 /\ cmd'[c].at = step /\ cmd'[c].package = cmd[c].package
                 /\ \A d \in Clients \ {c} : cmd'[d] = cmd[d]
           /\ Return(c) => /\ cmd'[c].at = "idle"
                           /\ \A d \in Clients \ {c} : cmd'[d] = cmd[d]
           /\ \A step : Start(c, step) =>
                 /\ cmd'[c].at = step
                 /\ \A d \in Clients \ {c} : cmd'[d] = cmd[d]
           /\ Discard(c) => \A d \in Clients \ {c} : staging'[d] = staging[d]
<1>1. /\ DOMAIN cmd = Clients /\ DOMAIN staging = Clients
      /\ cmd[c] = [at |-> cmd[c].at, completed |-> cmd[c].completed,
                   package |-> cmd[c].package]
  BY DEF Shape
<1>2. ASSUME NEW step, Goto(c, step)
      PROVE  /\ cmd'[c].at = step /\ cmd'[c].package = cmd[c].package
             /\ \A d \in Clients \ {c} : cmd'[d] = cmd[d]
  BY <1>1, <1>2 DEF Goto
<1>3. ASSUME Return(c)
      PROVE  cmd'[c].at = "idle" /\ \A d \in Clients \ {c} : cmd'[d] = cmd[d]
  BY <1>1, <1>3 DEF Return, Idle
<1>4. ASSUME NEW step, Start(c, step)
      PROVE  cmd'[c].at = step /\ \A d \in Clients \ {c} : cmd'[d] = cmd[d]
  BY <1>1, <1>4 DEF Start, Idle
<1>5. ASSUME Discard(c) PROVE \A d \in Clients \ {c} : staging'[d] = staging[d]
  BY <1>1, <1>5 DEF Discard
<1> QED
  BY <1>2, <1>3, <1>4, <1>5

\* A step of one client leaves the command of another, and what it has staged.
LEMMA OthersKept ==
    ASSUME IInv, NEW c \in Clients, NEW d \in Clients \ {c},
           CreateProfile(c) \/ Prepare(c) \/ Export(c) \/ Step(c) \/ Stop(c)
    PROVE  cmd'[d] = cmd[d] /\ staging'[d] = staging[d]
<1>1. Shape
  BY DEF IInv
<1>2. DOMAIN cmd = Clients /\ DOMAIN staging = Clients
  BY <1>1 DEF Shape
<1>3. cmd'[d] = cmd[d]
  BY <1>1, <1>2, Moves DEF Step, Stop, CreateProfile, Prepare, Export, CopyOriginal,
    CreatePlan, PrepareDriver, RecordDriver, PrepareBoard, PreserveBoardReceipt,
    RecordBoard, PrepareImage, PreserveReceipt, RecordImage, ReadArtifacts,
    CheckDestination, Stage, Verify, WriteRecoveryCopy, Publish, preserve, record_step,
    Discard
<1>4. staging'[d] = staging[d]
  BY <1>1, <1>2, Moves DEF Step, Stop, CreateProfile, Prepare, Export, CopyOriginal,
    CreatePlan, PrepareDriver, RecordDriver, PrepareBoard, PreserveBoardReceipt,
    RecordBoard, PrepareImage, PreserveReceipt, RecordImage, ReadArtifacts,
    CheckDestination, Stage, Verify, WriteRecoveryCopy, Publish
<1> QED
  BY <1>3, <1>4

\* Whatever happens beside it, a command keeps what it relies on.
LEMMA ClientKept ==
    ASSUME IInv, Next, NEW d \in Clients, cmd'[d] = cmd[d], staging'[d] = staging[d]
    PROVE  ClientInv(d)'
<1>1. ClientInv(d)
  BY DEF IInv
<1>2. CASE cmd[d].at = "idle"
  BY <1>2 DEF ClientInv, Exporting
<1>3. CASE cmd[d].at # "idle"
  <2>1. id # None /\ id' = id /\ profile' = profile
    BY <1>1, <1>3, Kept DEF ClientInv
  <2>2. ASSUME cmd[d].at = "read" PROVE Compared(cmd[d].package)'
    <3>1. plan' = plan
      BY <2>2, Kept
    <3> QED
      BY <1>1, <2>1, <2>2, <3>1 DEF ClientInv, Compared, Firmware, Policy, StepEvidence,
        require_active, completed_evidence, is_step_completed, index_of
  <2>3. ASSUME cmd[d].at \in Exporting PROVE Proven(cmd[d].package)'
    BY <1>1, <2>1, <2>3 DEF ClientInv, Proven, Firmware, Policy
  <2> QED
    BY <1>1, <2>1, <2>2, <2>3 DEF ClientInv
<1> QED
  BY <1>2, <1>3

\* The checks of an export: the identity is that of the profile, the image was
\* rebuilt from the original or from the board image of a receipt for the
\* patches of the profile, and no step of the preparation is active.
LEMMA ExportCompares ==
    ASSUME IInv, NEW c \in Clients, Export(c)
    PROVE  id # None /\ Compared(files.receipt)
<1>1. /\ plan # None /\ profile.id = id /\ validate_for(plan, profile)
      /\ files.original = Original /\ Validated
  BY DEF Export, load_exact
<1>2. id # None /\ RecordInv /\ ReceiptInv /\ release \in Releases
  BY <1>1 DEF IInv, RecordInv
<1>3. validate(profile) /\ id = id_of(profile)
  BY <1>1 DEF validate_for, validate
<1>4. /\ profile.board = id.board /\ profile.identity = id.identity
      /\ profile.patches = id.patches
      /\ id.policy = IF profile.schema < CurrentSchema THEN None ELSE profile.policy
  BY <1>3 DEF id_of, profile_id
<1>5. Policy = profile.policy
  <2>1. CASE profile.schema < CurrentSchema
    BY <1>3, <1>4, <2>1 DEF validate, CurrentSchema, Policy
  <2>2. CASE ~(profile.schema < CurrentSchema)
    BY <1>2, <1>4, <2>2, ProfilesAssumption DEF RecordInv, Policy
  <2> QED
    BY <2>1, <2>2
<1>6. Base = Firmware
  <2>1. CASE Legacy
    <3>1. BoardArtifactsMatch
      BY <1>1, <2>1 DEF Validated
    <3>2. PICK catalog : files.boardReceipt = BoardReceipt(catalog)
      BY <1>2, <3>1 DEF BoardArtifactsMatch, ReceiptInv
    <3>3. files.boardImage = BoardImage(catalog) /\ catalog = profile.patches
      BY <3>1, <3>2 DEF BoardArtifactsMatch, validate_receipt, BoardReceipt
    <3> QED
      BY <1>4, <2>1, <3>3 DEF Base, Legacy, Firmware
  <2>2. CASE ~Legacy
    BY <1>1, <1>2, <1>4, <2>2 DEF Base, Legacy, Firmware, RecordInv
  <2> QED
    BY <2>1, <2>2
<1>7. /\ StepEvidence(ImageStep) = Image(release.injector, Firmware, StepEvidence(DriverStep))
      /\ files.receipt = ReceiptOf(StepEvidence(ImageStep), profile.policy)
  BY <1>1, <1>6 DEF Validated, Rebuilt
<1>8. id.board = "legacy" => StepEvidence(BoardStep) = BoardReceipt(id.patches)
  <2> SUFFICES ASSUME id.board = "legacy"
               PROVE  StepEvidence(BoardStep) = BoardReceipt(id.patches)
    OBVIOUS
  <2>1. BoardArtifactsMatch
    BY <1>1, <1>4 DEF Validated, Legacy
  <2>2. PICK catalog : files.boardReceipt = BoardReceipt(catalog)
    BY <1>2, <2>1 DEF BoardArtifactsMatch, ReceiptInv
  <2> QED
    BY <1>4, <2>1, <2>2 DEF BoardArtifactsMatch, validate_receipt, BoardReceipt
<1>9. \A step \in {DriverStep, BoardStep, ImageStep} : ~require_active(plan, step)
  <2>1. is_step_completed(plan, ImageStep)
    BY <1>1 DEF Validated
  <2> QED
    BY <1>1, <2>1, NothingIsActive
<1> QED
  BY <1>1, <1>2, <1>4, <1>5, <1>7, <1>8, <1>9 DEF Compared

\* The client that makes the step: what it exports is what was compared.
LEMMA ActingKept ==
    ASSUME IInv, Next, NEW c \in Clients,
           CreateProfile(c) \/ Prepare(c) \/ Export(c) \/ Step(c) \/ Stop(c)
    PROVE  ClientInv(c)'
<1>1. /\ Shape /\ RecordInv /\ ClientInv(c)
      /\ DOMAIN cmd = Clients /\ DOMAIN staging = Clients
      /\ cmd[c] = [at |-> cmd[c].at, completed |-> cmd[c].completed,
                   package |-> cmd[c].package]
  BY DEF IInv, Shape
<1>2. ASSUME cmd'[c].at = "idle" PROVE ClientInv(c)'
  BY <1>2 DEF ClientInv, Exporting
<1>3. ASSUME cmd'[c].at \notin {"idle", "read"} \cup Exporting, id' # None
      PROVE  ClientInv(c)'
  BY <1>3 DEF ClientInv, Exporting
<1>4. ASSUME UNCHANGED record, cmd[c].at \in Exporting, cmd'[c].at \in Exporting,
             cmd'[c].package = cmd[c].package,
             cmd'[c].at \in {"copy", "publish"} => staging'[c] = cmd[c].package
      PROVE  ClientInv(c)'
  <2>1. id' = id /\ id # None /\ Proven(cmd[c].package)
    BY <1>1, <1>4 DEF record, ClientInv, Exporting
  <2>2. Proven(cmd[c].package)'
    BY <1>4, <2>1 DEF Proven, Firmware, Policy
  <2> QED
    BY <1>4, <2>1, <2>2 DEF ClientInv, Exporting
<1>5. CASE CreateProfile(c)
  <2>1. cmd'[c].at = "copyOriginal"
    BY <1>1, <1>5, Moves DEF CreateProfile
  <2>2. id' # None
    BY <1>5, StoredProfiles DEF CreateProfile
  <2> QED
    BY <1>3, <2>1, <2>2 DEF Exporting
<1>6. CASE Prepare(c)
  <2>1. cmd'[c].at = "driver"
    BY <1>1, <1>6, Moves DEF Prepare
  <2>2. id' # None
    BY <1>1, <1>6 DEF Prepare, load_exact, RecordInv, record
  <2> QED
    BY <1>3, <2>1, <2>2 DEF Exporting
<1>7. CASE Export(c)
  <2>1. cmd'[c].at = "read" /\ cmd'[c].package = files.receipt
    BY <1>1, <1>7 DEF Export
  <2>2. id' # None /\ Compared(files.receipt)
    BY <1>7, ExportCompares DEF Export, record
  <2>3. Compared(cmd[c].package)'
    BY <1>7, <2>1, <2>2 DEF Export, record, Compared, Firmware, Policy, StepEvidence,
      require_active, completed_evidence, is_step_completed, index_of
  <2> QED
    BY <2>1, <2>2, <2>3 DEF ClientInv, Exporting
<1>8. CASE Stop(c)
  BY <1>1, <1>2, <1>8, Moves DEF Stop, Discard
<1>9. ASSUME CopyOriginal(c) \/ CreatePlan(c) \/ PrepareDriver(c) \/ RecordDriver(c)
                \/ PrepareBoard(c) \/ PreserveBoardReceipt(c) \/ RecordBoard(c)
                \/ PrepareImage(c) \/ PreserveReceipt(c) \/ RecordImage(c)
      PROVE  ClientInv(c)'
  <2>1. id' # None
    BY <1>1, <1>9 DEF ClientInv, AtStep, record, CopyOriginal, CreatePlan, PrepareDriver,
      RecordDriver, PrepareBoard, PreserveBoardReceipt, RecordBoard, PrepareImage,
      PreserveReceipt, RecordImage
  <2>2. cmd'[c].at \in {"idle", "createPlan", "recordDriver", "board", "image",
                       "boardReceipt", "recordBoard", "receipt", "recordImage"}
    BY <1>1, <1>9, Moves DEF preserve, record_step, CopyOriginal, CreatePlan,
      PrepareDriver, RecordDriver, PrepareBoard, PreserveBoardReceipt, RecordBoard,
      PrepareImage, PreserveReceipt, RecordImage
  <2> QED
    BY <1>2, <1>3, <2>1, <2>2 DEF Exporting
<1>10. CASE ReadArtifacts(c)
  <2>1. CASE Return(c)
    BY <1>1, <1>2, <2>1, Moves
  <2>2. CASE ~Return(c)
    <3>1. /\ files.image = StepEvidence(ImageStep) /\ files.original = Original
          /\ Legacy => files.boardReceipt = StepEvidence(BoardStep)
          /\ files.receipt = cmd[c].package
          /\ UNCHANGED record
          /\ cmd[c].at = "read"
          /\ cmd'[c].at = "destination"
          /\ cmd'[c].package = [flash |-> files.image, recovery |-> files.original,
                                receipt |-> files.receipt, profile |-> profile,
                                driver |-> StepEvidence(DriverStep),
                                board |-> IF Legacy THEN files.boardReceipt ELSE None]
      BY <1>1, <1>10, <2>2 DEF ReadArtifacts, AtStep
    <3>2. id # None /\ Compared(cmd[c].package)
      BY <1>1, <3>1 DEF ClientInv
    <3>3. Proven(cmd'[c].package)
      BY <1>1, <3>1, <3>2 DEF Compared, Proven, Legacy, RecordInv
    <3>4. id' = id /\ Proven(cmd[c].package)'
      BY <3>1, <3>3 DEF record, Proven, Firmware, Policy
    <3> QED
      BY <3>1, <3>2, <3>4 DEF ClientInv, Exporting
  <2> QED
    BY <2>1, <2>2
<1>11. CASE CheckDestination(c)
  BY <1>1, <1>2, <1>4, <1>11, Moves DEF CheckDestination, AtStep, Exporting
<1>12. CASE Stage(c)
  BY <1>1, <1>4, <1>12, Moves DEF Stage, AtStep, Exporting
<1>13. CASE Verify(c)
  BY <1>1, <1>2, <1>4, <1>13, Moves DEF Verify, AtStep, Exporting, Discard
<1>14. CASE WriteRecoveryCopy(c)
  BY <1>1, <1>2, <1>4, <1>14, Moves
  DEF WriteRecoveryCopy, AtStep, Exporting, Discard, ClientInv
<1>15. CASE Publish(c)
  BY <1>1, <1>2, <1>15, Moves DEF Publish, Discard
<1> QED
  BY <1>5, <1>6, <1>7, <1>8, <1>9, <1>10, <1>11, <1>12, <1>13, <1>14, <1>15 DEF Step

LEMMA DestKept ==
    ASSUME IInv, Next
    PROVE  DestInv'
<1>1. /\ Shape /\ RecordInv /\ DestInv
      /\ dest = [package |-> dest.package, copy |-> dest.copy]
  BY DEF IInv, Shape
<1>2. \A package : id # None /\ Proven(package) => id' # None /\ Proven(package)'
  BY Kept DEF Proven, Firmware, Policy
<1>3. CASE UNCHANGED dest
  BY <1>1, <1>2, <1>3 DEF DestInv
<1>4. ASSUME NEW c \in Clients, WriteRecoveryCopy(c) PROVE DestInv'
  <2>1. cmd[c].package.recovery = Original
    BY <1>1, <1>4 DEF IInv, ClientInv, WriteRecoveryCopy, AtStep, Exporting, Proven,
      RecordInv
  <2>2. dest'.package = dest.package /\ dest'.copy \in {dest.copy, Original}
    BY <1>1, <1>4, <2>1 DEF WriteRecoveryCopy
  <2> QED
    BY <1>1, <1>2, <2>2 DEF DestInv
<1>5. ASSUME NEW c \in Clients, Publish(c) PROVE DestInv'
  <2>1. id # None /\ Proven(staging[c])
    BY <1>5 DEF IInv, ClientInv, Publish, AtStep, Exporting
  <2>2. dest'.package \in {dest.package, staging[c]} /\ dest'.copy = dest.copy
    BY <1>1, <1>5 DEF Publish
  <2> QED
    BY <1>1, <1>2, <2>1, <2>2 DEF DestInv
<1>6. CASE OthersWrite
  <2>1. /\ dest'.package \in {dest.package, Foreign}
        /\ dest'.copy \in {dest.copy, Foreign, Original}
    BY <1>1, <1>6 DEF OthersWrite
  <2> QED
    BY <1>1, <1>2, <2>1 DEF DestInv
<1>7. CASE EmptyDestination
  BY <1>7 DEF EmptyDestination, DestInv
<1> QED
  BY <1>3, <1>4, <1>5, <1>6, <1>7 DEF Next, Step, Stop, Update, Damage, DamageRecords,
    CreateProfile, Prepare, Export, CopyOriginal, CreatePlan, PrepareDriver, RecordDriver,
    PrepareBoard, PreserveBoardReceipt, RecordBoard, PrepareImage, PreserveReceipt,
    RecordImage, ReadArtifacts, CheckDestination, Stage, Verify

-----------------------------------------------------------------------------
(* The theorem.                                                            *)

LEMMA InitProven ==
    ASSUME Init
    PROVE  IInv
<1>1. Shape
  BY DEF Init, Shape, Idle
<1>2. release \in Releases
  BY ReleasesAssumption DEF Init
<1>3. RecordInv
  <2>1. CASE profile \in Earlier
    BY <2>1, StoredProfiles, ProfilesAssumption DEF Init, RecordInv
  <2>2. CASE profile \notin Earlier
    BY <2>2 DEF Init, RecordInv
  <2> QED
    BY <2>1, <2>2
<1>4. ReceiptInv
  BY DEF Init, ReceiptInv, Kinds
<1>5. \A c \in Clients : ClientInv(c)
  BY DEF Init, ClientInv, Idle, Exporting
<1>6. DestInv
  BY DEF Init, DestInv
<1> QED
  BY <1>1, <1>2, <1>3, <1>4, <1>5, <1>6 DEF IInv

LEMMA StepProven ==
    ASSUME IInv, [Next]_vars
    PROVE  IInv'
<1>1. CASE Next
  <2>1. Shape' /\ RecordInv' /\ release' \in Releases /\ ReceiptInv' /\ DestInv'
    BY <1>1, ShapeKept, RecordKept, ReceiptKept, DestKept
  <2>2. ASSUME NEW d \in Clients PROVE ClientInv(d)'
    <3>1. ASSUME NEW c \in Clients,
                 CreateProfile(c) \/ Prepare(c) \/ Export(c) \/ Step(c) \/ Stop(c)
          PROVE  ClientInv(d)'
      <4>1. CASE c = d
        BY <1>1, <3>1, <4>1, ActingKept
      <4>2. CASE c # d
        BY <1>1, <3>1, <4>2, OthersKept, ClientKept
      <4> QED
        BY <4>1, <4>2
    <3>2. CASE Update \/ Damage \/ DamageRecords \/ OthersWrite \/ EmptyDestination
      <4>1. UNCHANGED <<cmd, staging>>
        BY <3>2 DEF Update, Damage, DamageRecords, OthersWrite, EmptyDestination
      <4> QED
        BY <1>1, <4>1, ClientKept
    <3> QED
      BY <1>1, <3>1, <3>2 DEF Next
  <2> QED
    BY <2>1, <2>2 DEF IInv
<1>2. CASE UNCHANGED vars
  <2>1. Shape' /\ release' \in Releases /\ RecordInv' /\ ReceiptInv'
    BY <1>2 DEF vars, record, IInv, Shape, RecordInv, ReceiptInv
  <2>2. \A package : /\ Proven(package) => Proven(package)'
                     /\ Compared(package) => Compared(package)'
    BY <1>2 DEF vars, record, Compared, Proven, Firmware, Policy, StepEvidence, require_active,
      completed_evidence, is_step_completed, index_of
  <2>3. ASSUME NEW c \in Clients PROVE ClientInv(c)'
    BY <1>2, <2>2 DEF vars, record, IInv, ClientInv
  <2>4. DestInv'
    BY <1>2, <2>2 DEF vars, record, IInv, DestInv
  <2> QED
    BY <2>1, <2>3, <2>4 DEF IInv
<1> QED
  BY <1>1, <1>2

\* What is published was built from the original the identity names, or from its
\* board image, with the driver and the image the plan records, under the target
\* policy of the identity; the recovery images are the original.
THEOREM Packages == Spec => []PackageIsProven
<1>1. Init => IInv
  BY InitProven
<1>2. IInv /\ [Next]_vars => IInv'
  BY StepProven
<1>3. IInv => PackageIsProven
  BY DEF IInv, DestInv, Proven, Firmware, Policy, PackageIsProven
<1> QED
  BY <1>1, <1>2, <1>3, PTL DEF Spec

-----------------------------------------------------------------------------
(* The plan revisions of one profile, for any processes, any number of     *)
(* steps and any values: PlanStore.                                        *)

CONSTANTS Savers,     \* the concurrent callers of the store
          Values,     \* the values a step of the plan may be completed with
          StepCount,  \* the number of steps of the plan
          NoPlan

VARIABLES revisions,  \* the plan file of each revision
          doing,      \* what each process is doing with them
          opened,     \* the plan each process has opened
          saving      \* the plan each process is saving

Store == INSTANCE PlanStore
            WITH Clients <- Savers, Evidence <- Values, files <- revisions,
                 at <- doing, plan <- opened, next <- saving

\* StoreAssumption of PlanStore.
StoreParameters == StepCount \in Nat /\ NoPlan \notin Seq(Values)

Pending(c) == doing[c] \in {"check", "temp", "rename"}

\* The stored revisions are those up to the latest one.
Contiguous ==
    \/ Store!Stored = {}
    \/ \E n \in Store!Revisions : Store!Stored = 0 .. n

\* Each stored revision holds as many completed steps as its number says.
Numbered == \A r \in Store!Stored : Len(revisions[r]) = r

\* A plan under way to the store completes one step of a stored plan.
PendingFollowsStored ==
    \A c \in Savers :
        Pending(c) => /\ saving[c] \in Store!Plans
                      /\ Store!Target(c) > 0 => Store!Target(c) - 1 \in Store!Stored

\* An open plan is at a stored revision.
OpenIsStored ==
    \A c \in Savers :
        doing[c] = "open" => /\ opened[c] \in Store!Plans
                             /\ Len(opened[c]) \in Store!Stored

\* The inductive invariant behind NoGaps.
StoreInv ==
    /\ Store!TypeOK
    /\ Contiguous
    /\ Numbered
    /\ PendingFollowsStored
    /\ OpenIsStored

-----------------------------------------------------------------------------

LEMMA PlanType ==
    ASSUME StoreParameters,
           NEW p \in Store!Plans
    PROVE  p \in Seq(Values) /\ Len(p) \in Store!Revisions /\ p # NoPlan
BY DEF StoreParameters, Store!Plans, Store!Revisions

LEMMA AppendType ==
    ASSUME StoreParameters,
           NEW p \in Store!Plans, Len(p) < StepCount, NEW v \in Values
    PROVE  Append(p, v) \in Store!Plans /\ Len(Append(p, v)) = Len(p) + 1
BY DEF StoreParameters, Store!Plans

LEMMA EmptyType ==
    ASSUME StoreParameters
    PROVE  <<>> \in Store!Plans /\ Len(<<>>) = 0
BY DEF StoreParameters, Store!Plans

\* The file of a stored revision is a plan.
LEMMA StoredType ==
    ASSUME Store!TypeOK, NEW r \in Store!Stored
    PROVE  revisions[r] \in Store!Plans
BY DEF Store!TypeOK, Store!Stored

\* load_plan returns the plan of the last of contiguous revisions.
LEMMA LatestIsLast ==
    ASSUME NEW n \in Nat, Store!Stored = 0 .. n
    PROVE  Store!Latest = revisions[n]
<1>1. n \in Store!Stored /\ \A q \in Store!Stored : q <= n
  OBVIOUS
<1>2. \A r \in Store!Stored : (\A q \in Store!Stored : q <= r) => r = n
  OBVIOUS
<1>3. (CHOOSE r \in Store!Stored : \A q \in Store!Stored : q <= r) = n
  BY <1>1, <1>2
<1>4. QED
  BY <1>1, <1>3 DEF Store!Latest

LEMMA LatestStored ==
    ASSUME StoreParameters,
           Store!TypeOK, Contiguous, Numbered, Store!Latest # NoPlan
    PROVE  Store!Latest \in Store!Plans /\ Len(Store!Latest) \in Store!Stored
<1>1. Store!Stored # {}
  BY DEF Store!Latest
<1>2. PICK n \in Store!Revisions : Store!Stored = 0 .. n
  BY <1>1 DEF Contiguous
<1>3. n \in Nat /\ n \in Store!Stored
  BY <1>2 DEF StoreParameters, Store!Revisions
<1>4. Store!Latest = revisions[n]
  BY <1>2, <1>3, LatestIsLast
<1>5. QED
  BY <1>3, <1>4, StoredType DEF Numbered

\* A rename makes its target a stored revision and leaves the others alone.
LEMMA RenameStores ==
    ASSUME StoreParameters,
           Store!TypeOK, NEW t \in Store!Revisions, NEW p \in Store!Plans,
           revisions' = [revisions EXCEPT ![t] = p]
    PROVE  /\ Store!Stored' = Store!Stored \cup {t}
           /\ revisions'[t] = p
           /\ \A r \in Store!Revisions \ {t} : revisions'[r] = revisions[r]
<1>1. revisions \in [Store!Revisions -> Store!Plans \cup {NoPlan}]
  BY DEF Store!TypeOK
<1>2. p # NoPlan
  BY PlanType
<1>3. QED
  BY <1>1, <1>2 DEF Store!Stored

-----------------------------------------------------------------------------

\* The actions that leave the files alone.
LEMMA QuietStep ==
    ASSUME StoreInv, UNCHANGED revisions, NEW c \in Savers,
           doing' = [doing EXCEPT ![c] = doing'[c]],
           opened' = [opened EXCEPT ![c] = opened'[c]],
           saving' = [saving EXCEPT ![c] = saving'[c]],
           doing'[c] \in Store!Phases,
           opened'[c] \in Store!Plans \cup {NoPlan},
           saving'[c] \in Store!Plans \cup {NoPlan},
           Pending(c)' => /\ saving'[c] \in Store!Plans
                          /\ Len(saving'[c]) > 0 => Len(saving'[c]) - 1 \in Store!Stored,
           doing'[c] = "open" => /\ opened'[c] \in Store!Plans
                                  /\ Len(opened'[c]) \in Store!Stored
    PROVE  StoreInv'
<1>1. Store!TypeOK'
  BY DEF StoreInv, Store!TypeOK
<1>2. Store!Stored' = Store!Stored
  BY DEF Store!Stored
<1>3. Contiguous' /\ Numbered'
  BY <1>2 DEF StoreInv, Contiguous, Numbered
<1>4. \A d \in Savers \ {c} :
         doing'[d] = doing[d] /\ opened'[d] = opened[d] /\ saving'[d] = saving[d]
  BY DEF StoreInv, Store!TypeOK
<1>5. PendingFollowsStored'
  BY <1>2, <1>4 DEF StoreInv, PendingFollowsStored, Pending, Store!Target
<1>6. OpenIsStored'
  BY <1>2, <1>4 DEF StoreInv, OpenIsStored
<1>7. QED
  BY <1>1, <1>3, <1>5, <1>6 DEF StoreInv

LEMMA FailQuiet ==
    ASSUME StoreInv, UNCHANGED revisions, NEW c \in Savers, Store!Fail(c)
    PROVE  StoreInv'
<1>1. doing'[c] = "idle" /\ opened'[c] = NoPlan /\ saving'[c] = NoPlan
  BY DEF StoreInv, Store!TypeOK, Store!Fail, Store!Goto
<1>2. QED
  BY <1>1, QuietStep DEF Store!Fail, Store!Goto, Pending, Store!Phases

\* Adopting a plan whose revision is stored.
LEMMA AdoptQuiet ==
    ASSUME StoreInv, UNCHANGED revisions, NEW c \in Savers, Pending(c),
           Store!Target(c) \in Store!Stored, Store!Adopt(c)
    PROVE  StoreInv'
<1>1. doing'[c] = "open" /\ opened'[c] = saving[c] /\ saving'[c] = saving[c]
  BY DEF StoreInv, Store!TypeOK, Store!Adopt, Store!Goto
<1>2. saving[c] \in Store!Plans
  BY DEF StoreInv, PendingFollowsStored
<1>3. saving' = [saving EXCEPT ![c] = saving'[c]]
  BY <1>1 DEF StoreInv, Store!TypeOK, Store!Adopt
<1>4. QED
  BY <1>1, <1>2, <1>3, QuietStep DEF Store!Adopt, Store!Goto, Pending,
                                     Store!Phases, Store!Target

LEMMA EnsureQuiet ==
    ASSUME StoreInv, UNCHANGED revisions, NEW c \in Savers, Pending(c),
           Store!Target(c) \in Store!Stored, Store!ensure_same_file(c)
    PROVE  StoreInv'
BY FailQuiet, AdoptQuiet DEF Store!ensure_same_file

LEMMA InitIInv == Store!Init => StoreInv
<1> SUFFICES ASSUME Store!Init PROVE StoreInv
  OBVIOUS
<1>1. Store!TypeOK
  BY DEF Store!Init, Store!TypeOK, Store!Phases
<1>2. Store!Stored = {}
  BY DEF Store!Init, Store!Stored
<1>3. QED
  BY <1>1, <1>2 DEF Store!Init, StoreInv, Contiguous, Numbered,
                    PendingFollowsStored, Pending, OpenIsStored

LEMMA PendingTarget ==
    ASSUME StoreParameters,
           StoreInv, NEW c \in Savers, Pending(c)
    PROVE  Store!Target(c) \in Store!Revisions /\ saving[c] \in Store!Plans
BY PlanType DEF StoreInv, PendingFollowsStored, Store!Target

\* The rename of client c succeeds.
LEMMA RenameIInv ==
    ASSUME StoreParameters,
           StoreInv, NEW c \in Savers, doing[c] = "rename",
           revisions' = [revisions EXCEPT ![Store!Target(c)] = saving[c]], Store!Adopt(c)
    PROVE  StoreInv'
<1> DEFINE t == Store!Target(c)
<1>1. t \in Store!Revisions /\ saving[c] \in Store!Plans
  BY PendingTarget DEF Pending
<1>2. /\ Store!Stored' = Store!Stored \cup {t}
      /\ revisions'[t] = saving[c]
      /\ \A r \in Store!Revisions \ {t} : revisions'[r] = revisions[r]
  BY <1>1, RenameStores DEF StoreInv
<1>3. Store!TypeOK'
  BY <1>1 DEF StoreInv, Store!TypeOK, Store!Adopt, Store!Goto, Store!Phases
<1>4. Contiguous'
  <2>1. t > 0 => t - 1 \in Store!Stored
    BY DEF StoreInv, PendingFollowsStored, Pending
  <2>2. CASE Store!Stored = {}
    <3>1. t = 0
      BY <1>1, <2>1, <2>2 DEF StoreParameters, Store!Revisions
    <3>2. Store!Stored' = 0 .. 0
      BY <1>2, <2>2, <3>1
    <3>3. QED
      BY <1>1, <3>1, <3>2 DEF Contiguous, Store!Revisions
  <2>3. CASE Store!Stored # {}
    <3>1. PICK n \in Store!Revisions : Store!Stored = 0 .. n
      BY <2>3 DEF StoreInv, Contiguous
    <3>2. t <= n + 1
      BY <1>1, <2>1, <3>1 DEF StoreParameters, Store!Revisions
    <3>3. CASE t <= n
      BY <1>1, <1>2, <3>1, <3>3 DEF StoreParameters, Contiguous, Store!Revisions
    <3>4. CASE t = n + 1
      <4>1. Store!Stored' = 0 .. t
        BY <1>1, <1>2, <3>1, <3>4 DEF StoreParameters, Store!Revisions
      <4>2. QED
        BY <1>1, <4>1 DEF Contiguous, Store!Revisions
    <3>5. QED
      BY <1>1, <3>1, <3>2, <3>3, <3>4 DEF StoreParameters, Store!Revisions
  <2>4. QED
    BY <2>2, <2>3
<1>5. Numbered'
  BY <1>1, <1>2 DEF StoreInv, Numbered, Store!Stored, Store!Target
<1>6. PendingFollowsStored'
  <2>1. \A d \in Savers : saving'[d] = saving[d] /\ (Pending(d)' => Pending(d))
    BY DEF StoreInv, Store!TypeOK, Store!Adopt, Store!Goto, Pending
  <2>2. QED
    BY <1>2, <2>1 DEF StoreInv, PendingFollowsStored, Store!Target
<1>7. OpenIsStored'
  <2>1. \A d \in Savers \ {c} : doing'[d] = doing[d] /\ opened'[d] = opened[d]
    BY DEF StoreInv, Store!TypeOK, Store!Adopt, Store!Goto
  <2>2. opened'[c] = saving[c]
    BY DEF StoreInv, Store!TypeOK, Store!Adopt
  <2>3. QED
    BY <1>1, <1>2, <2>1, <2>2 DEF StoreInv, OpenIsStored, Store!Target
<1>8. QED
  BY <1>3, <1>4, <1>5, <1>6, <1>7 DEF StoreInv

LEMMA NextIInv ==
    ASSUME StoreParameters,
           StoreInv, [Store!Next]_(Store!vars)
    PROVE  StoreInv'
<1>1. CASE UNCHANGED Store!vars
  BY <1>1 DEF Store!vars, StoreInv, Store!TypeOK, Contiguous, Numbered,
              PendingFollowsStored, OpenIsStored, Store!Stored, Pending,
              Store!Target
<1>2. ASSUME NEW c \in Savers, Store!Load(c)
      PROVE  StoreInv'
  <2>1. UNCHANGED revisions /\ opened'[c] = Store!Latest
        /\ opened' = [opened EXCEPT ![c] = opened'[c]]
    BY <1>2 DEF StoreInv, Store!TypeOK, Store!Load
  <2>2. CASE Store!Latest # NoPlan
    <3>1. Store!Latest \in Store!Plans /\ Len(Store!Latest) \in Store!Stored
      BY <2>2, LatestStored DEF StoreInv
    <3>2. doing'[c] = "open" /\ doing' = [doing EXCEPT ![c] = doing'[c]] /\ UNCHANGED saving
      BY <1>2, <2>2 DEF StoreInv, Store!TypeOK, Store!Load, Store!Goto
    <3>3. /\ saving' = [saving EXCEPT ![c] = saving'[c]]
          /\ saving'[c] \in Store!Plans \cup {NoPlan}
      BY <3>2 DEF StoreInv, Store!TypeOK
    <3>4. QED
      BY <2>1, <3>1, <3>2, <3>3, QuietStep DEF Pending, Store!Phases
  <2>3. CASE Store!Latest = NoPlan
    <3>1. /\ doing'[c] = "check" /\ doing' = [doing EXCEPT ![c] = doing'[c]]
          /\ saving'[c] = <<>> /\ saving' = [saving EXCEPT ![c] = saving'[c]]
      BY <1>2, <2>3 DEF StoreInv, Store!TypeOK, Store!Load, Store!Goto
    <3>2. QED
      BY <2>1, <2>3, <3>1, EmptyType, QuietStep DEF Store!Phases
  <2>4. QED
    BY <2>2, <2>3
<1>3. ASSUME NEW c \in Savers, Store!Record(c)
      PROVE  StoreInv'
  <2>1. opened[c] \in Store!Plans /\ Len(opened[c]) \in Store!Stored /\ Len(opened[c]) \in Nat
    BY <1>3, PlanType DEF StoreParameters, StoreInv, OpenIsStored,
                          Store!Record, Store!Revisions
  <2>2. PICK v \in Values : saving' = [saving EXCEPT ![c] = Append(opened[c], v)]
    BY <1>3 DEF Store!Record
  <2>3. /\ saving'[c] = Append(opened[c], v) /\ saving' = [saving EXCEPT ![c] = saving'[c]]
        /\ opened'[c] = opened[c] /\ opened' = [opened EXCEPT ![c] = opened'[c]]
        /\ doing'[c] = "check" /\ doing' = [doing EXCEPT ![c] = doing'[c]]
        /\ UNCHANGED revisions
    BY <1>3, <2>2 DEF StoreInv, Store!TypeOK, Store!Record, Store!Goto
  <2>4. saving'[c] \in Store!Plans /\ Len(saving'[c]) = Len(opened[c]) + 1
    <3>1. Len(opened[c]) < StepCount
      BY <1>3 DEF Store!Record
    <3>2. QED
      BY <2>1, <2>3, <3>1, AppendType
  <2>5. Len(saving'[c]) - 1 = Len(opened[c])
    BY <2>1, <2>4
  <2>6. QED
    BY <2>1, <2>3, <2>4, <2>5, QuietStep DEF Store!Phases
\* A client that only moves between the phases of a save.
<1>4. ASSUME NEW c \in Savers, Pending(c), NEW p \in {"temp", "rename"},
             Store!Goto(c, p), UNCHANGED <<revisions, opened, saving>>
      PROVE  StoreInv'
  <2>1. /\ saving'[c] = saving[c] /\ saving' = [saving EXCEPT ![c] = saving'[c]]
        /\ opened'[c] = opened[c] /\ opened' = [opened EXCEPT ![c] = opened'[c]]
        /\ doing'[c] = p /\ doing' = [doing EXCEPT ![c] = doing'[c]]
        /\ opened[c] \in Store!Plans \cup {NoPlan}
    BY <1>4 DEF StoreInv, Store!TypeOK, Store!Goto
  <2>2. saving[c] \in Store!Plans /\ (Len(saving[c]) > 0 => Len(saving[c]) - 1 \in Store!Stored)
    BY <1>4 DEF StoreInv, PendingFollowsStored, Store!Target
  <2>3. QED
    BY <1>4, <2>1, <2>2, QuietStep DEF Store!Phases
<1>5. ASSUME NEW c \in Savers, Store!CheckExists(c)
      PROVE  StoreInv'
  <2>1. Pending(c) /\ Store!Target(c) \in Store!Revisions /\ UNCHANGED revisions
    BY <1>5, PendingTarget DEF Store!CheckExists, Pending
  <2>2. CASE revisions[Store!Target(c)] # NoPlan
    BY <1>5, <2>1, <2>2, EnsureQuiet DEF Store!CheckExists, Store!Stored
  <2>3. CASE revisions[Store!Target(c)] = NoPlan
    BY <1>4, <1>5, <2>1, <2>3 DEF Store!CheckExists
  <2>4. QED
    BY <2>2, <2>3
<1>6. ASSUME NEW c \in Savers, Store!WriteTemporary(c)
      PROVE  StoreInv'
  <2>1. CASE Store!Fail(c)
    BY <1>6, <2>1, FailQuiet DEF Store!WriteTemporary
  <2>2. CASE Store!Goto(c, "rename") /\ UNCHANGED <<opened, saving>>
    BY <1>4, <1>6, <2>2 DEF Store!WriteTemporary, Pending
  <2>3. QED
    BY <1>6, <2>1, <2>2 DEF Store!WriteTemporary
<1>7. ASSUME NEW c \in Savers, Store!Rename(c)
      PROVE  StoreInv'
  <2>1. Pending(c) /\ Store!Target(c) \in Store!Revisions
    BY <1>7, PendingTarget DEF Store!Rename, Pending
  <2>2. CASE revisions' = [revisions EXCEPT ![Store!Target(c)] = saving[c]] /\ Store!Adopt(c)
    BY <1>7, <2>2, RenameIInv DEF Store!Rename
  <2>3. CASE /\ IF revisions[Store!Target(c)] # NoPlan
                THEN Store!ensure_same_file(c) ELSE Store!Fail(c)
             /\ UNCHANGED revisions
    BY <2>1, <2>3, EnsureQuiet, FailQuiet DEF Store!Stored
  <2>4. QED
    BY <1>7, <2>2, <2>3 DEF Store!Rename
<1>8. ASSUME NEW c \in Savers, Store!Stop(c)
      PROVE  StoreInv'
  BY <1>8, FailQuiet DEF Store!Stop
<1>9. QED
  BY <1>1, <1>2, <1>3, <1>5, <1>6, <1>7, <1>8 DEF Store!Next

\* The inductive invariant holds in every reachable state.
THEOREM StoreInvariant ==
    ASSUME StoreParameters
    PROVE  Store!Spec => []StoreInv
BY InitIInv, NextIInv, PTL DEF Store!Spec

\* Revisions are stored without gaps, whatever the clients do and wherever
\* they die.
THEOREM StoredWithoutGaps ==
    ASSUME StoreParameters
    PROVE  Store!Spec => []Store!NoGaps
<1>1. StoreInv => Store!NoGaps
  BY DEF StoreParameters, StoreInv, Store!NoGaps, Contiguous, Numbered,
          Store!Revisions
<1>2. QED
  BY <1>1, StoreInvariant, PTL

\* The latest plan is the one with as many steps as there are revisions.
LatestShape ==
    Store!Stored # {} => \E n \in Nat : Store!Stored = 0 .. n /\ Len(Store!Latest) = n

\* No step removes a stored revision.
LEMMA StoredGrows ==
    ASSUME StoreParameters,
           StoreInv, [Store!Next]_(Store!vars)
    PROVE  Store!Stored \subseteq Store!Stored'
<1>1. CASE UNCHANGED revisions
  BY <1>1 DEF Store!Stored
<1>2. ASSUME NEW c \in Savers, doing[c] = "rename",
             revisions' = [revisions EXCEPT ![Store!Target(c)] = saving[c]]
      PROVE  Store!Stored \subseteq Store!Stored'
  <2>1. Store!Target(c) \in Store!Revisions /\ saving[c] \in Store!Plans
    BY <1>2, PendingTarget DEF Pending
  <2>2. QED
    BY <1>2, <2>1, RenameStores DEF StoreInv
<1>3. CASE UNCHANGED Store!vars
  BY <1>1, <1>3 DEF Store!vars
<1>4. QED
  BY <1>1, <1>2, <1>3 DEF Store!Next, Store!Load, Store!Record,
                          Store!CheckExists, Store!WriteTemporary,
                          Store!Rename, Store!Stop

\* The latest plan never goes back to an earlier step, even when two saves
\* overlap and one of them replaces the file of the other.
THEOREM LatestPlanNeverRegresses ==
    ASSUME StoreParameters
    PROVE  Store!Spec => Store!LatestNeverRegresses
<1>1. StoreInv => LatestShape
  <2> SUFFICES ASSUME StoreInv, Store!Stored # {}
               PROVE  \E n \in Nat : Store!Stored = 0 .. n /\ Len(Store!Latest) = n
    BY DEF LatestShape
  <2>1. PICK n \in Store!Revisions : Store!Stored = 0 .. n
    BY DEF StoreInv, Contiguous
  <2>2. n \in Nat /\ n \in Store!Stored /\ Store!Latest = revisions[n]
    BY <2>1, LatestIsLast DEF StoreParameters, Store!Revisions
  <2>3. QED
    BY <2>1, <2>2 DEF StoreInv, Numbered
<1>2. StoreInv' => LatestShape'
  BY <1>1, PTL
<1>3. StoreInv /\ StoreInv' /\ [Store!Next]_(Store!vars)
        => [Store!Stored # {} =>
                Store!Stored' # {} /\ Len(Store!Latest') >= Len(Store!Latest)]_(Store!vars)
  <2> SUFFICES ASSUME StoreInv, StoreInv', [Store!Next]_(Store!vars), Store!Stored # {}
               PROVE  Store!Stored' # {} /\ Len(Store!Latest') >= Len(Store!Latest)
    OBVIOUS
  <2>1. Store!Stored \subseteq Store!Stored'
    BY StoredGrows
  <2>2. PICK n \in Nat : Store!Stored = 0 .. n /\ Len(Store!Latest) = n
    BY <1>1 DEF LatestShape
  <2>3. PICK m \in Nat : Store!Stored' = 0 .. m /\ Len(Store!Latest') = m
    BY <1>2, <2>1 DEF LatestShape
  <2>4. QED
    BY <2>1, <2>2, <2>3
<1>4. QED
  BY <1>3, StoreInvariant, PTL DEF Store!Spec, Store!LatestNeverRegresses

-----------------------------------------------------------------------------

(***************************************************************************)
(* The store whose saves do not overlap.  Between the check and the rename *)
(* of a save its target cannot appear, so a rename never replaces a file.  *)
(***************************************************************************)
TargetIsFree ==
    \A c \in Savers : doing[c] \in {"temp", "rename"} => revisions[Store!Target(c)] = NoPlan

\* A plan under way to the store is revision 0 or completes one step of the
\* very plan stored before it.
PendingExtendsStored ==
    \A c \in Savers :
        Pending(c) => \/ saving[c] = <<>>
                      \/ \E r \in Store!Stored, v \in Values :
                            r < StepCount /\ saving[c] = Append(revisions[r], v)

SerialInv == /\ StoreInv
             /\ Store!NoOverlap
             /\ TargetIsFree
             /\ PendingExtendsStored
             /\ Store!ObservedIsExact

LEMMA InitSerial == Store!Init => SerialInv
<1> SUFFICES ASSUME Store!Init PROVE SerialInv
  OBVIOUS
<1>1. \A c \in Savers : doing[c] = "idle"
  BY DEF Store!Init
<1>2. QED
  BY <1>1, InitIInv DEF SerialInv, Store!NoOverlap, Store!Saving, TargetIsFree,
                        PendingExtendsStored, Pending, Store!ObservedIsExact

\* Every step of one client leaves the variables of the others alone.
LEMMA OthersKeep ==
    ASSUME Store!TypeOK, NEW c \in Savers,
           \/ Store!Load(c) \/ Store!Record(c) \/ Store!CheckExists(c)
           \/ Store!WriteTemporary(c) \/ Store!Rename(c) \/ Store!Stop(c)
    PROVE  \A d \in Savers \ {c} :
              doing'[d] = doing[d] /\ opened'[d] = opened[d] /\ saving'[d] = saving[d]
<1>1. CASE Store!Load(c)
  BY <1>1 DEF Store!TypeOK, Store!Load, Store!Goto
<1>2. CASE Store!Record(c)
  BY <1>2 DEF Store!TypeOK, Store!Record, Store!Goto
<1>3. CASE Store!CheckExists(c)
  BY <1>3 DEF Store!TypeOK, Store!CheckExists, Store!ensure_same_file,
              Store!Adopt, Store!Fail, Store!Goto
<1>4. CASE Store!WriteTemporary(c)
  BY <1>4 DEF Store!TypeOK, Store!WriteTemporary, Store!Fail, Store!Goto
<1>5. CASE Store!Rename(c)
  BY <1>5 DEF Store!TypeOK, Store!Rename, Store!ensure_same_file, Store!Adopt,
              Store!Fail, Store!Goto
<1>6. CASE Store!Stop(c)
  BY <1>6 DEF Store!TypeOK, Store!Stop, Store!Fail, Store!Goto
<1>7. QED
  BY <1>1, <1>2, <1>3, <1>4, <1>5, <1>6

\* A step either leaves the files alone or stores a free revision.
LEMMA FilesGrow ==
    ASSUME SerialInv, [Store!Next]_(Store!vars)
    PROVE  \/ UNCHANGED revisions
           \/ \E c \in Savers :
                 /\ doing[c] = "rename"
                 /\ revisions[Store!Target(c)] = NoPlan
                 /\ revisions' = [revisions EXCEPT ![Store!Target(c)] = saving[c]]
                 /\ Store!Adopt(c)
<1>1. CASE UNCHANGED Store!vars
  BY <1>1 DEF Store!vars
<1>2. ASSUME NEW c \in Savers,
             \/ Store!Load(c) \/ Store!Record(c) \/ Store!CheckExists(c)
             \/ Store!WriteTemporary(c) \/ Store!Stop(c)
      PROVE  UNCHANGED revisions
  BY <1>2 DEF Store!Load, Store!Record, Store!CheckExists,
              Store!WriteTemporary, Store!Stop
<1>3. ASSUME NEW c \in Savers, Store!Rename(c), revisions' # revisions
      PROVE  /\ doing[c] = "rename"
             /\ revisions[Store!Target(c)] = NoPlan
             /\ revisions' = [revisions EXCEPT ![Store!Target(c)] = saving[c]]
             /\ Store!Adopt(c)
  BY <1>3 DEF Store!Rename, SerialInv, TargetIsFree
<1>4. QED
  BY <1>1, <1>2, <1>3 DEF Store!Next

\* Stored revisions are never overwritten.
LEMMA StoredStays ==
    ASSUME SerialInv, [Store!Next]_(Store!vars)
    PROVE  \A r \in Store!Revisions : revisions[r] # NoPlan => revisions'[r] = revisions[r]
<1>1. CASE UNCHANGED revisions
  BY <1>1
<1>2. ASSUME NEW c \in Savers, doing[c] = "rename", revisions[Store!Target(c)] = NoPlan,
             revisions' = [revisions EXCEPT ![Store!Target(c)] = saving[c]]
      PROVE  \A r \in Store!Revisions : revisions[r] # NoPlan => revisions'[r] = revisions[r]
  BY <1>2 DEF SerialInv, StoreInv, Store!TypeOK
<1>3. QED
  BY <1>1, <1>2, FilesGrow

\* What one client has pending or open after its own step.
LEMMA OwnPending ==
    ASSUME SerialInv, NEW c \in Savers,
           \/ Store!Load(c) \/ Store!Record(c) \/ Store!CheckExists(c)
           \/ Store!WriteTemporary(c) \/ Store!Rename(c) \/ Store!Stop(c),
           Pending(c)'
    PROVE  \/ Pending(c) /\ saving'[c] = saving[c]
           \/ saving'[c] = <<>>
           \/ \E r \in Store!Stored, v \in Values :
                 r < StepCount /\ saving'[c] = Append(revisions[r], v)
<1>1. CASE Store!Load(c)
  BY <1>1 DEF SerialInv, StoreInv, Store!TypeOK, Store!Load, Store!Goto, Pending
<1>2. CASE Store!Record(c)
  <2>1. /\ opened[c] = revisions[Len(opened[c])] /\ Len(opened[c]) \in Store!Stored
        /\ Len(opened[c]) < StepCount
    BY <1>2 DEF SerialInv, StoreInv, Store!ObservedIsExact, OpenIsStored,
                Store!Record
  <2>2. PICK v \in Values : saving'[c] = Append(opened[c], v)
    BY <1>2 DEF SerialInv, StoreInv, Store!TypeOK, Store!Record
  <2>3. saving'[c] = Append(revisions[Len(opened[c])], v)
    BY <2>1, <2>2
  <2>4. QED
    BY <2>1, <2>3
<1>3. CASE Store!CheckExists(c)
  BY <1>3 DEF SerialInv, StoreInv, Store!TypeOK, Store!CheckExists,
              Store!ensure_same_file, Store!Adopt, Store!Fail, Store!Goto,
              Pending
<1>4. CASE Store!WriteTemporary(c)
  BY <1>4 DEF SerialInv, StoreInv, Store!TypeOK, Store!WriteTemporary,
              Store!Fail, Store!Goto, Pending
<1>5. CASE Store!Rename(c)
  BY <1>5 DEF SerialInv, StoreInv, Store!TypeOK, Store!Rename,
              Store!ensure_same_file, Store!Adopt, Store!Fail, Store!Goto,
              Pending
<1>6. CASE Store!Stop(c)
  BY <1>6 DEF SerialInv, StoreInv, Store!TypeOK, Store!Stop, Store!Fail,
              Store!Goto, Pending
<1>7. QED
  BY <1>1, <1>2, <1>3, <1>4, <1>5, <1>6

LEMMA OwnOpen ==
    ASSUME StoreParameters,
           SerialInv, NEW c \in Savers,
           \/ Store!Load(c) \/ Store!Record(c) \/ Store!CheckExists(c)
           \/ Store!WriteTemporary(c) \/ Store!Rename(c) \/ Store!Stop(c),
           doing'[c] = "open"
    PROVE  revisions'[Len(opened'[c])] = opened'[c]
<1>1. CASE Store!Load(c)
  <2>1. Store!Latest # NoPlan /\ opened'[c] = Store!Latest /\ UNCHANGED revisions
    BY <1>1 DEF SerialInv, StoreInv, Store!TypeOK, Store!Load, Store!Goto
  <2>2. Store!Stored # {}
    BY <2>1 DEF Store!Latest
  <2>3. PICK n \in Store!Revisions : Store!Stored = 0 .. n
    BY <2>2 DEF SerialInv, StoreInv, Contiguous
  <2>4. Store!Latest = revisions[n] /\ n \in Store!Stored
    BY <2>3, LatestIsLast DEF StoreParameters, Store!Revisions
  <2>5. Len(Store!Latest) = n
    BY <2>4 DEF SerialInv, StoreInv, Numbered
  <2>6. QED
    BY <2>1, <2>4, <2>5
<1>2. CASE Store!Record(c)
  BY <1>2 DEF SerialInv, StoreInv, Store!TypeOK, Store!Record, Store!Goto
<1>3. CASE Store!CheckExists(c)
  BY <1>3 DEF SerialInv, StoreInv, Store!TypeOK, Store!CheckExists,
              Store!ensure_same_file, Store!Adopt, Store!Fail, Store!Goto,
              Store!Target
<1>4. CASE Store!WriteTemporary(c)
  BY <1>4 DEF SerialInv, StoreInv, Store!TypeOK, Store!WriteTemporary,
              Store!Fail, Store!Goto
<1>5. CASE Store!Rename(c)
  <2>1. Store!Target(c) \in Store!Revisions
    BY <1>5, PendingTarget DEF SerialInv, Pending, Store!Rename
  <2>2. QED
    BY <1>5, <2>1 DEF SerialInv, StoreInv, Store!TypeOK, Store!Rename,
                      Store!ensure_same_file, Store!Adopt, Store!Fail,
                      Store!Goto, Store!Target
<1>6. CASE Store!Stop(c)
  BY <1>6 DEF SerialInv, StoreInv, Store!TypeOK, Store!Stop, Store!Fail,
              Store!Goto
<1>7. QED
  BY <1>1, <1>2, <1>3, <1>4, <1>5, <1>6

\* A client in the window of its save still has a free target.
LEMMA OwnTarget ==
    ASSUME SerialInv, NEW c \in Savers,
           \/ Store!Load(c) \/ Store!Record(c) \/ Store!CheckExists(c)
           \/ Store!WriteTemporary(c) \/ Store!Rename(c) \/ Store!Stop(c),
           doing'[c] \in {"temp", "rename"}
    PROVE  revisions'[Store!Target(c)'] = NoPlan
<1>1. CASE Store!Load(c)
  BY <1>1 DEF SerialInv, StoreInv, Store!TypeOK, Store!Load, Store!Goto
<1>2. CASE Store!Record(c)
  BY <1>2 DEF SerialInv, StoreInv, Store!TypeOK, Store!Record, Store!Goto
<1>3. CASE Store!CheckExists(c)
  BY <1>3 DEF SerialInv, StoreInv, Store!TypeOK, Store!CheckExists,
              Store!ensure_same_file, Store!Adopt, Store!Fail, Store!Goto,
              Store!Target
<1>4. CASE Store!WriteTemporary(c)
  BY <1>4 DEF SerialInv, StoreInv, Store!TypeOK, TargetIsFree,
              Store!WriteTemporary, Store!Fail, Store!Goto, Store!Target
<1>5. CASE Store!Rename(c)
  BY <1>5 DEF SerialInv, StoreInv, Store!TypeOK, Store!Rename,
              Store!ensure_same_file, Store!Adopt, Store!Fail, Store!Goto
<1>6. CASE Store!Stop(c)
  BY <1>6 DEF SerialInv, StoreInv, Store!TypeOK, Store!Stop, Store!Fail,
              Store!Goto
<1>7. QED
  BY <1>1, <1>2, <1>3, <1>4, <1>5, <1>6

LEMMA NextSerial ==
    ASSUME StoreParameters,
           SerialInv, [Store!Next /\ Store!NoOverlap']_(Store!vars)
    PROVE  SerialInv'
<1>1. CASE UNCHANGED Store!vars
  BY <1>1, NextIInv DEF Store!vars, SerialInv, Store!NoOverlap, Store!Saving,
                        TargetIsFree, PendingExtendsStored,
                        Store!ObservedIsExact, Store!Stored, Pending,
                        Store!Target
<1>2. ASSUME NEW c \in Savers, Store!NoOverlap',
             \/ Store!Load(c) \/ Store!Record(c) \/ Store!CheckExists(c)
             \/ Store!WriteTemporary(c) \/ Store!Rename(c) \/ Store!Stop(c)
      PROVE  SerialInv'
  <2>0. Store!Next
    BY <1>2 DEF Store!Next
  <2>1. StoreInv'
    BY <2>0, NextIInv DEF SerialInv
  <2>2. \A r \in Store!Revisions : revisions[r] # NoPlan => revisions'[r] = revisions[r]
    BY <2>0, StoredStays
  <2>3. Store!Stored \subseteq Store!Stored' /\ \A r \in Store!Stored : revisions'[r] = revisions[r]
    BY <2>2 DEF Store!Stored
  <2>4. \A d \in Savers \ {c} :
           doing'[d] = doing[d] /\ opened'[d] = opened[d] /\ saving'[d] = saving[d]
    BY <1>2, OthersKeep DEF SerialInv, StoreInv
  <2>5. TargetIsFree'
    <3> SUFFICES ASSUME NEW d \in Savers, doing'[d] \in {"temp", "rename"}
                 PROVE  revisions'[Store!Target(d)'] = NoPlan
      BY DEF TargetIsFree
    <3>1. CASE d = c
      BY <1>2, <3>1, OwnTarget
    <3>2. CASE d # c
      <4>1. doing[d] \in {"temp", "rename"} /\ Store!Target(d)' = Store!Target(d)
        BY <2>4, <3>2 DEF Store!Target
      <4>2. revisions[Store!Target(d)] = NoPlan
        BY <4>1 DEF SerialInv, TargetIsFree
      <4>3. UNCHANGED revisions
        <5>1. \A e \in Savers : doing[e] = "rename" => e = d
          BY <4>1 DEF SerialInv, Store!NoOverlap, Store!Saving
        <5>2. doing[c] # "rename"
          BY <3>2, <5>1
        <5>3. QED
          BY <1>2, <5>2 DEF Store!Load, Store!Record, Store!CheckExists,
                            Store!WriteTemporary, Store!Stop, Store!Rename
      <4>4. QED
        BY <4>1, <4>2, <4>3
    <3>3. QED
      BY <3>1, <3>2
  <2>6. PendingExtendsStored'
    <3> SUFFICES ASSUME NEW d \in Savers, Pending(d)'
                 PROVE  \/ saving'[d] = <<>>
                        \/ \E r \in Store!Stored', v \in Values :
                             r < StepCount /\ saving'[d] = Append(revisions'[r], v)
      BY DEF PendingExtendsStored
    <3>1. \/ saving'[d] = <<>>
          \/ \E r \in Store!Stored, v \in Values :
                r < StepCount /\ saving'[d] = Append(revisions[r], v)
      <4>1. CASE Pending(d) /\ saving'[d] = saving[d]
        BY <4>1 DEF SerialInv, PendingExtendsStored
      <4>2. CASE d # c
        BY <2>4, <4>1, <4>2 DEF Pending
      <4>3. CASE d = c
        BY <1>2, <4>1, <4>3, OwnPending
      <4>4. QED
        BY <4>2, <4>3
    <3>2. QED
      BY <2>3, <3>1
  <2>7. Store!ObservedIsExact'
    <3> SUFFICES ASSUME NEW d \in Savers, doing'[d] = "open"
                 PROVE  revisions'[Len(opened'[d])] = opened'[d]
      BY DEF Store!ObservedIsExact
    <3>1. CASE d = c
      BY <1>2, <3>1, OwnOpen
    <3>2. CASE d # c
      BY <2>3, <2>4, <3>2 DEF SerialInv, StoreInv, OpenIsStored,
                              Store!ObservedIsExact
    <3>3. QED
      BY <3>1, <3>2
  <2>8. QED
    BY <1>2, <2>1, <2>5, <2>6, <2>7 DEF SerialInv
<1>3. QED
  BY <1>1, <1>2 DEF Store!Next

\* The invariant of a store whose saves do not overlap.
THEOREM SerialInvariant ==
    ASSUME StoreParameters
    PROVE  Store!SerialSpec => []SerialInv
BY InitSerial, NextSerial, PTL DEF Store!SerialSpec

\* Revisions are append-only as long as saves do not overlap: a command that
\* lost the race for a revision overwrites nothing.
THEOREM RevisionsAreAppendOnly ==
    ASSUME StoreParameters
    PROVE  Store!SerialSpec => Store!AppendOnly
<1>1. SerialInv /\ [Store!Next /\ Store!NoOverlap']_(Store!vars)
        => [\A r \in Store!Revisions :
                revisions[r] # NoPlan => revisions'[r] = revisions[r]]_(Store!vars)
  BY StoredStays
<1>2. QED
  BY <1>1, SerialInvariant, PTL DEF Store!SerialSpec, Store!AppendOnly

\* Every step of the store is a step of the append-only history or none.
LEMMA HistoryStep ==
    ASSUME StoreParameters,
           SerialInv, SerialInv', [Store!Next /\ Store!NoOverlap']_(Store!vars)
    PROVE  [Store!History!Next]_(Store!Latest)
<1>1. CASE UNCHANGED revisions
  BY <1>1 DEF Store!Latest, Store!Stored
<1>2. ASSUME NEW c \in Savers, doing[c] = "rename", revisions[Store!Target(c)] = NoPlan,
             revisions' = [revisions EXCEPT ![Store!Target(c)] = saving[c]]
      PROVE  Store!History!Next
  <2> DEFINE t == Store!Target(c)
  <2>1. /\ t \in Store!Revisions /\ saving[c] \in Store!Plans /\ Pending(c)
        /\ (t > 0 => t - 1 \in Store!Stored)
    BY <1>2, PendingTarget DEF SerialInv, StoreInv, PendingFollowsStored,
                               Pending
  <2>2. Store!Stored' = Store!Stored \cup {t} /\ revisions'[t] = saving[c] /\ t \notin Store!Stored
    BY <1>2, <2>1, RenameStores DEF SerialInv, StoreInv, Store!Stored
  <2>3. CASE Store!Stored = {}
    <3>1. t = 0
      BY <2>1, <2>3 DEF StoreParameters, Store!Revisions
    <3>2. saving[c] = <<>>
      BY <2>1, <2>3 DEF SerialInv, PendingExtendsStored
    <3>3. Store!Stored' = 0 .. 0
      BY <2>2, <2>3, <3>1
    <3>4. Store!Latest' = <<>>
      <4>1. \A n : Store!Stored' = 0 .. n /\ n \in Nat => Store!Latest' = revisions'[n]
        <5> SUFFICES ASSUME NEW n \in Nat, Store!Stored' = 0 .. n
                     PROVE  Store!Latest' = revisions'[n]
          OBVIOUS
        <5>1. n \in Store!Stored' /\ \A q \in Store!Stored' : q <= n
          OBVIOUS
        <5>2. \A r \in Store!Stored' : (\A q \in Store!Stored' : q <= r) => r = n
          OBVIOUS
        <5>3. (CHOOSE r \in Store!Stored' : \A q \in Store!Stored' : q <= r) = n
          BY <5>1, <5>2
        <5>4. QED
          BY <5>1, <5>3 DEF Store!Latest
      <4>2. QED
        BY <2>2, <3>1, <3>2, <3>3, <4>1
    <3>5. Store!Latest = NoPlan
      BY <2>3 DEF Store!Latest
    <3>6. QED
      BY <3>4, <3>5 DEF Store!History!Next, Store!History!Create
  <2>4. CASE Store!Stored # {}
    <3>1. PICK n \in Store!Revisions : Store!Stored = 0 .. n
      BY <2>4 DEF SerialInv, StoreInv, Contiguous
    <3>2. n \in Nat /\ t \in Nat /\ n \in Store!Stored /\ Store!Latest = revisions[n]
      BY <2>1, <3>1, LatestIsLast DEF StoreParameters, Store!Revisions
    <3>3. t = n + 1
      BY <2>1, <2>2, <3>1, <3>2
    <3>4. Store!Stored' = 0 .. t
      BY <2>2, <3>1, <3>2, <3>3
    <3>5. Store!Latest' = saving[c]
      <4>1. t \in Store!Stored' /\ \A q \in Store!Stored' : q <= t
        BY <3>2, <3>4
      <4>2. \A r \in Store!Stored' : (\A q \in Store!Stored' : q <= r) => r = t
        BY <3>2, <3>4
      <4>3. (CHOOSE r \in Store!Stored' : \A q \in Store!Stored' : q <= r) = t
        BY <4>1, <4>2
      <4>4. QED
        BY <2>2, <4>1, <4>3 DEF Store!Latest
    <3>6. saving[c] # <<>>
      BY <3>2, <3>3, EmptyType DEF Store!Target
    <3>7. PICK r \in Store!Stored, v \in Values :
              r < StepCount /\ saving[c] = Append(revisions[r], v)
      BY <2>1, <3>6 DEF SerialInv, PendingExtendsStored
    <3>8. revisions[r] \in Store!Plans /\ Len(revisions[r]) = r /\ r \in Nat
      BY <3>1, <3>2, StoredType DEF SerialInv, StoreInv, Numbered
    <3>9. r = n
      <4>1. Len(saving[c]) = r + 1
        BY <3>7, <3>8, AppendType
      <4>2. QED
        BY <3>2, <3>3, <3>8, <4>1 DEF Store!Target
    <3>10. /\ Store!Latest # NoPlan /\ Len(Store!Latest) < StepCount
           /\ Store!Latest' = Append(Store!Latest, v)
      BY <3>2, <3>5, <3>7, <3>8, <3>9, PlanType
    <3>11. QED
      BY <3>10 DEF Store!History!Next, Store!History!Complete
  <2>5. QED
    BY <2>3, <2>4
<1>3. [Store!Next]_(Store!vars)
  OBVIOUS
<1>4. QED
  BY <1>1, <1>2, <1>3, FilesGrow

\* The store implements the append-only history of PlanHistory.
THEOREM StoreImplementsHistory ==
    ASSUME StoreParameters
    PROVE  Store!SerialSpec => Store!ImplementsHistory
<1>1. Store!Init => Store!History!Init
  BY DEF Store!Init, Store!History!Init, Store!Latest, Store!Stored
<1>2. QED
  BY <1>1, HistoryStep, SerialInvariant, PTL
     DEF Store!SerialSpec, Store!ImplementsHistory, Store!History!Spec

=============================================================================

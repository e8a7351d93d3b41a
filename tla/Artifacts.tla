----------------------------- MODULE Artifacts ------------------------------
(***************************************************************************)
(* The files of one machine profile and the package made from them:        *)
(* provisioning, prepare_from_bytes of src-tauri/src/deployment.rs, and    *)
(* export_deployment_package of nvstraps-deploy/src/store.rs.              *)
(*                                                                         *)
(* A file is what it was made from: the release's driver and injector and  *)
(* the pinned board patches; the digest of a file stands for the file.     *)
(* Preserving is one step here, PlanStore has its file operations.  A      *)
(* command may stop after any step, by an error or with the process; the   *)
(* application may be updated between two commands, and disk faults or     *)
(* other programs may change any artifact and the destination at any time, *)
(* and the profile and its plan between two commands.  A profile of other  *)
(* content has another identity, and with it files of its own.             *)
(***************************************************************************)
EXTENDS MachineProfile, FiniteSets

CONSTANTS
    Clients,          \* processes that run a command
    Perseverer,       \* the one whose operator perseveres
    Releases,         \* versions of the application
    Installed,        \* the first of them
    Requests,         \* the profiles that are asked for
    Earlier,          \* profiles an earlier version may have stored
    Gpus,             \* the devices as they are enumerated
    NamedCopy,        \* the board is one that looks for a named recovery copy
    MaxDisturbances,  \* bound: stops, updates, damages, files of others
    Original, Foreign, Damaged

ASSUME ClientsAssumption == Perseverer \in Clients

ASSUME EarlierAssumption ==
    \A p \in Earlier : p.schema < CurrentSchema /\ p.firmware = Original /\ validate(p)

ASSUME ReleasesAssumption ==
    /\ Installed \in Releases
    /\ \A r \in Releases :
          /\ DOMAIN r = {"driver", "injector", "catalog"}
          /\ {r.driver, r.injector, r.catalog}
                 \cap {Original, Foreign, Damaged, None} = {}

VARIABLES
    id,           \* the identity the files are stored under, or None
    profile,      \* profiles/<id>.json, or None
    files,        \* artifacts/<profile>/: the preserved files
    plan,         \* the latest revision of the plan, or None
    release,      \* the installed version
    cmd,          \* each client's command
    staging,      \* each client's staging directory, or None
    dest,         \* the destination folder: package and recovery copy
    disturbances

record == <<id, profile>>
vars == <<record, files, plan, release, cmd, staging, dest, disturbances>>

Legacy == profile.board = "legacy"

\* recovery_shortcut of export_package_command.
Copies == NamedCopy /\ profile.recovery.method = "usbFlashback"

-----------------------------------------------------------------------------
(* What the files hold.                                                    *)

Kinds == {"original", "driver", "boardImage", "boardReceipt", "image",
          "receipt"}

BoardImage(catalog) == [patches |-> catalog]
Image(injector, base, driver) ==
    [injector |-> injector, base |-> base, driver |-> driver]
\* The receipt of LegacyCatalogAuthority::apply: the image and the rules.
BoardReceipt(catalog) == [receiptOf |-> BoardImage(catalog), rules |-> catalog]
\* injection_receipt: the policy of the profile is in it.
ReceiptOf(image, policy) == [receiptOf |-> image, policy |-> policy]

\* The firmware the driver is injected into, as preserved.
Base == IF Legacy THEN files.boardImage ELSE files.original

\* inject_ffs_for_profile with the injector of the installed version.
Rebuilt == Image(release.injector, Base, files.driver)

DriverStep == "PrepareRustDriver"
BoardStep == "ApplyLegacyBoardPatches"
ImageStep == "VerifyPatchedArtifact"

StepEvidence(step) == completed_evidence(plan, step)
CompletedSteps ==
    {step \in {DriverStep, BoardStep, ImageStep} :
        plan # None /\ is_step_completed(plan, step)}

\* What damage leaves in a file: nothing, other bytes, or the same file of
\* another version.
Spoilt(k) ==
    {None, Damaged} \cup
    CASE k = "driver" -> {r.driver : r \in Releases}
      [] k = "image" -> {Image(r.injector, b, r.driver) :
                            r \in Releases, b \in {Original, Base}}
      [] k = "receipt" -> {ReceiptOf(Image(r.injector, Base, r.driver), profile.policy) :
                              r \in Releases}
      [] k = "boardImage" -> {BoardImage(r.catalog) : r \in Releases}
      [] k = "boardReceipt" -> {BoardReceipt(r.catalog) :
                                   r \in Releases}
      [] k = "original" -> {Original}

FirmwareTargetPolicy == {"requireUnique", "patchEveryDxeDomain"}

\* And what it leaves in the profile and in the plan that still reads as one.
SpoiltProfile ==
    {[profile EXCEPT !.name.words = Damaged], [profile EXCEPT !.schema = @ - 1],
     [profile EXCEPT !.patches = None, !.board = "native"]}
    \cup {[profile EXCEPT !.policy = p] : p \in FirmwareTargetPolicy}
    \cup {[profile EXCEPT !.recovery.method = m] : m \in {"usbFlashback", "dualBios"}}

SpoiltPlan ==
    LET Steps(state) == {i \in DOMAIN plan.steps : plan.steps[i].state = state}
    IN  {[plan EXCEPT !.firmware = Damaged], [plan EXCEPT !.method = "vendorRecovery"]}
        \cup {[plan EXCEPT !.steps[i].state = "completed"] : i \in Steps("ready")}
        \cup {[plan EXCEPT !.steps[i].evidence.value = Damaged] : i \in Steps("completed")}

-----------------------------------------------------------------------------
(* Commands.                                                               *)

\* A command knows the plan by the steps that were completed when it was
\* loaded: revisions do not change, as PlanStore shows.
Idle == [at |-> "idle", completed |-> {}, package |-> None]
AtStep(c, step) == cmd[c].at = step

Goto(c, step) == cmd' = [cmd EXCEPT ![c].at = step]
Return(c) == cmd' = [cmd EXCEPT ![c] = Idle]
Start(c, step) ==
    cmd' = [cmd EXCEPT ![c] = [Idle EXCEPT !.at = step, !.completed = CompletedSteps]]

\* LegacyCatalogAuthority::validate_profile: the patches are those of the
\* catalogs this version has.
validate_profile(p) == p.patches \in {None, release.catalog}

\* load_exact_deployment, the hardware being the pinned one: profile and plan
\* are valid, the catalog is still the one the profile pins and the original
\* is untouched.
load_exact ==
    /\ plan # None
    /\ profile.id = id
    /\ validate_for(plan, profile)
    /\ validate_profile(profile)
    /\ files.original = Original

\* preserve_artifact: the same file again, or a conflict that ends the command.
preserve(c, k, content, next) ==
    \/ /\ files[k] \in {None, content}
       /\ files' = [files EXCEPT ![k] = content]
       /\ Goto(c, next)
    \/ /\ files[k] \notin {None, content}
       /\ Return(c)
       /\ UNCHANGED files

\* record_step: the next revision must be new or say the same.
record_step(c, step, value, next) ==
    \/ /\ StepEvidence(step) \in {None, value}
       /\ plan' = IF require_active(plan, step) THEN complete_with_value(plan, step, value)
                                               ELSE plan
       /\ cmd' = [cmd EXCEPT ![c].completed = @ \cup {step}, ![c].at = next]
    \/ /\ StepEvidence(step) \notin {None, value}
       /\ Return(c)
       /\ UNCHANGED plan

-----------------------------------------------------------------------------
(* create_profile_command: the injection is tried in memory, then the      *)
(* profile, the original and the plan are stored.                          *)

\* build_profile of the requests the checks let pass.
Creatable == {create_with_options(request, Gpus, Original) :
                 request \in {r \in Requests : creatable(r, Gpus, Original)}}

ASSUME ProfilesAssumption ==
    /\ None \notin FirmwareTargetPolicy /\ None \notin Earlier
    /\ \A request \in Requests : request.policy \in FirmwareTargetPolicy
    /\ \A p \in Earlier : DOMAIN p = {"schema", "id", "name", "board", "patches",
                                     "identity", "firmware", "recovery", "policy", "install"}
    /\ \A p \in Creatable \cup Earlier : p.id # None

\* save_profile: a new identity, or the same profile again, to the letter.
CreateProfile(c) ==
    /\ AtStep(c, "idle")
    /\ profile' \in {p \in Creatable : id = None \/ p = profile}
    /\ validate_profile(profile')
    /\ id' = profile'.id
    /\ Start(c, "copyOriginal")
    /\ UNCHANGED <<files, plan, release, staging, dest, disturbances>>

\* copy_new_verified: the copy, not the source, is compared with the profile.
CopyOriginal(c) ==
    /\ AtStep(c, "copyOriginal")
    /\ preserve(c, "original", Original, "createPlan")
    /\ UNCHANGED <<record, plan, release, staging, dest, disturbances>>

\* Revision 0 and the three steps of provisioning.
provisioned(p) ==
    complete_with_value(
        complete_with_value(
            complete_with_value(build(p), "VerifyProfile", p.id),
            "ConfirmRecovery", p.recovery.method),
        "PreserveOriginalFirmware", p.firmware)

\* load_plan, or a new one.
CreatePlan(c) ==
    /\ AtStep(c, "createPlan")
    /\ plan' = IF plan = None THEN provisioned(profile) ELSE plan
    /\ Return(c)
    /\ UNCHANGED <<record, files, release, staging, dest, disturbances>>

-----------------------------------------------------------------------------
(* prepare_firmware_artifact.                                              *)

Prepare(c) ==
    /\ AtStep(c, "idle")
    /\ load_exact
    /\ Start(c, "driver")
    /\ UNCHANGED <<record, files, plan, release, staging, dest, disturbances>>

\* Faulty variant: a completed step is not taken up again.
PrepareDriver_RequiresActive(c) ==
    /\ AtStep(c, "driver")
    /\ IF DriverStep \in cmd[c].completed THEN Return(c) /\ UNCHANGED files
       ELSE preserve(c, "driver", release.driver, "recordDriver")
    /\ UNCHANGED <<record, plan, release, staging, dest, disturbances>>

\* A completed step is taken from its file; any other makes the file.
PrepareDriver(c) ==
    /\ AtStep(c, "driver")
    /\ IF DriverStep \notin cmd[c].completed
       THEN preserve(c, "driver", release.driver, "recordDriver")
       ELSE /\ IF files.driver = StepEvidence(DriverStep)
               THEN Goto(c, IF Legacy THEN "board" ELSE "image")
               ELSE Return(c)
            /\ UNCHANGED files
    /\ UNCHANGED <<record, plan, release, staging, dest, disturbances>>

RecordDriver(c) ==
    /\ AtStep(c, "recordDriver")
    /\ record_step(c, DriverStep, release.driver, IF Legacy THEN "board" ELSE "image")
    /\ UNCHANGED <<record, files, release, staging, dest, disturbances>>

\* validate_receipt: it is for the preserved board image and records the rules
\* of the profile.
validate_receipt(receipt) ==
    receipt.receiptOf = files.boardImage /\ receipt.rules = profile.patches

\* load_legacy_patch_artifacts: the receipt is the recorded one.
BoardArtifactsMatch ==
    /\ files.boardReceipt = StepEvidence(BoardStep)
    /\ files.boardReceipt \notin {None, Damaged}
    /\ validate_receipt(files.boardReceipt)

PrepareBoard(c) ==
    /\ AtStep(c, "board")
    /\ IF BoardStep \notin cmd[c].completed
       THEN \/ /\ files.original = Original
               /\ preserve(c, "boardImage", BoardImage(profile.patches), "boardReceipt")
            \/ /\ files.original # Original
               /\ Return(c)
               /\ UNCHANGED files
       ELSE /\ IF BoardArtifactsMatch THEN Goto(c, "image")
                                                   ELSE Return(c)
            /\ UNCHANGED files
    /\ UNCHANGED <<record, plan, release, staging, dest, disturbances>>

PreserveBoardReceipt(c) ==
    /\ AtStep(c, "boardReceipt")
    /\ preserve(c, "boardReceipt", BoardReceipt(profile.patches), "recordBoard")
    /\ UNCHANGED <<record, plan, release, staging, dest, disturbances>>

RecordBoard(c) ==
    /\ AtStep(c, "recordBoard")
    /\ record_step(c, BoardStep, BoardReceipt(profile.patches), "image")
    /\ UNCHANGED <<record, files, release, staging, dest, disturbances>>

\* A driver that does not parse and an original that changed are refused; a
\* damaged board image may still parse.
Injectable ==
    /\ files.driver \notin {None, Damaged}
    /\ IF Legacy THEN files.boardImage # None ELSE files.original = Original

\* An already recorded image is validated and the command is done.  The
\* image built is kept, for its receipt and for the evidence.
PrepareImage(c) ==
    /\ AtStep(c, "image")
    /\ IF /\ ImageStep \notin cmd[c].completed
          /\ Injectable
          /\ files.image \in {None, Rebuilt}
       THEN /\ files' = [files EXCEPT !.image = Rebuilt]
            /\ cmd' = [cmd EXCEPT ![c].at = "receipt", ![c].package = Rebuilt]
       ELSE Return(c) /\ UNCHANGED files
    /\ UNCHANGED <<record, plan, release, staging, dest, disturbances>>

PreserveReceipt(c) ==
    /\ AtStep(c, "receipt")
    /\ preserve(c, "receipt", ReceiptOf(cmd[c].package, profile.policy), "recordImage")
    /\ UNCHANGED <<record, plan, release, staging, dest, disturbances>>

RecordImage(c) ==
    /\ AtStep(c, "recordImage")
    /\ plan' = IF require_active(plan, ImageStep)
               THEN complete_with_value(plan, ImageStep, cmd[c].package) ELSE plan
    /\ Return(c)
    /\ UNCHANGED <<record, files, release, staging, dest, disturbances>>

-----------------------------------------------------------------------------
(* export_deployment_package.                                              *)

\* validate_persisted_patched_artifact: everything is built once more.
Validated ==
    /\ is_step_completed(plan, ImageStep)
    /\ files.driver = StepEvidence(DriverStep)
    /\ IF Legacy THEN BoardArtifactsMatch ELSE files.original = Original
    /\ files.image = StepEvidence(ImageStep)
    /\ files.image = Rebuilt
    /\ files.receipt = ReceiptOf(Rebuilt, profile.policy)

\* Faulty variant: the store's own checks are all there is.
Export_WithoutRebuild(c) ==
    /\ AtStep(c, "idle")
    /\ load_exact
    /\ is_step_completed(plan, ImageStep)
    /\ files.receipt # None
    /\ profile.install # None
    /\ cmd' = [cmd EXCEPT ![c] =
                  [at |-> "read", completed |-> CompletedSteps, package |-> files.receipt]]
    /\ UNCHANGED <<record, files, plan, release, staging, dest, disturbances>>

\* The digest of the receipt is handed to the store, which wants the install
\* route pinned.
Export(c) ==
    /\ AtStep(c, "idle")
    /\ load_exact
    /\ Validated
    /\ profile.install # None
    /\ cmd' = [cmd EXCEPT ![c] =
                  [at |-> "read", completed |-> CompletedSteps, package |-> files.receipt]]
    /\ UNCHANGED <<record, files, plan, release, staging, dest, disturbances>>

\* The store reads every file again and compares what it has read.
ReadArtifacts(c) ==
    /\ AtStep(c, "read")
    /\ IF /\ files.image = StepEvidence(ImageStep)
          /\ files.original = Original
          /\ Legacy => files.boardReceipt = StepEvidence(BoardStep)
          /\ files.receipt = cmd[c].package
       THEN cmd' = [cmd EXCEPT
                       ![c].at = "destination",
                       ![c].package = [flash |-> files.image,
                                       recovery |-> files.original,
                                       receipt |-> files.receipt,
                                       profile |-> profile,
                                       driver |-> StepEvidence(DriverStep),
                                       board |-> IF Legacy THEN files.boardReceipt
                                                           ELSE None]]
       ELSE Return(c)
    /\ UNCHANGED <<record, files, plan, release, staging, dest, disturbances>>

CheckDestination(c) ==
    /\ AtStep(c, "destination")
    /\ IF /\ dest.package = None
          /\ Copies => dest.copy \in {None, Original}
       THEN Goto(c, "stage")
       ELSE Return(c)
    /\ UNCHANGED <<record, files, plan, release, staging, dest, disturbances>>

\* write_package_file for every file, the manifest and the checksums.  A file
\* may come out wrong.
Stage(c) ==
    /\ AtStep(c, "stage")
    /\ \E written \in {cmd[c].package, [cmd[c].package EXCEPT !.flash = Damaged],
                       [cmd[c].package EXCEPT !.recovery = Damaged]} :
          staging' = [staging EXCEPT ![c] = written]
    /\ Goto(c, "verify")
    /\ UNCHANGED <<record, files, plan, release, dest, disturbances>>

\* An error removes the staging directory.
Discard(c) ==
    /\ Return(c)
    /\ staging' = [staging EXCEPT ![c] = None]

\* verify_package_files reads everything back.
Verify(c) ==
    /\ AtStep(c, "verify")
    /\ IF staging[c] = cmd[c].package
       THEN /\ Goto(c, IF Copies THEN "copy" ELSE "publish")
            /\ UNCHANGED staging
       ELSE Discard(c)
    /\ UNCHANGED <<record, files, plan, release, dest, disturbances>>

\* write_recovery_shortcut: a copy of the original under the name the board
\* looks for, beside the package and before it is published.
WriteRecoveryCopy(c) ==
    /\ AtStep(c, "copy")
    /\ IF dest.copy \in {None, Original}
       THEN /\ dest' = [dest EXCEPT !.copy = cmd[c].package.recovery]
            /\ Goto(c, "publish")
            /\ UNCHANGED staging
       ELSE Discard(c) /\ UNCHANGED dest
    /\ UNCHANGED <<record, files, plan, release, disturbances>>

\* fs::rename of the staging directory, which fails if the name was taken
\* in the meantime.
Publish(c) ==
    /\ AtStep(c, "publish")
    /\ dest' = IF dest.package = None
               THEN [dest EXCEPT !.package = staging[c]] ELSE dest
    /\ Discard(c)
    /\ UNCHANGED <<record, files, plan, release, disturbances>>

-----------------------------------------------------------------------------
(* Disturbances.                                                           *)

Disturbed ==
    /\ disturbances < MaxDisturbances
    /\ disturbances' = disturbances + 1

\* A command ends with an error - a source image that changed while it was
\* copied is one - or with its process.  A staging directory that is left
\* behind has a name nobody uses again.
Stop(c) ==
    /\ cmd[c] # Idle
    /\ Disturbed
    /\ Discard(c)
    /\ UNCHANGED <<record, files, plan, release, dest>>

\* The application is closed to be updated.
Update ==
    /\ \A c \in Clients : cmd[c] = Idle
    /\ Disturbed
    /\ \E r \in Releases \ {release} : release' = r
    /\ UNCHANGED <<record, files, plan, cmd, staging, dest>>

Damage ==
    /\ Disturbed
    /\ \E k \in {stored \in Kinds : files[stored] # None} :
          \E content \in Spoilt(k) \ {files[k]} :
             files' = [files EXCEPT ![k] = content]
    /\ UNCHANGED <<record, plan, release, cmd, staging, dest>>

\* The profile or the plan is altered and still decodes.  Bounds: while no
\* command is in progress, which has them in memory, and as the last that
\* happens to the files.
DamageRecords ==
    /\ \A c \in Clients : cmd[c] = Idle
    /\ plan # None
    /\ disturbances < MaxDisturbances
    /\ disturbances' = MaxDisturbances
    /\ \/ profile' \in SpoiltProfile \ {profile} /\ UNCHANGED plan
       \/ plan' \in SpoiltPlan \ {plan} /\ UNCHANGED profile
    /\ UNCHANGED <<id, files, release, cmd, staging, dest>>

\* Another program or the user puts a file of theirs at one of the two names.
OthersWrite ==
    /\ Disturbed
    /\ \/ dest.package = None /\ dest' = [dest EXCEPT !.package = Foreign]
       \/ dest.copy = None /\ \E file \in {Foreign, Original} :
                                 dest' = [dest EXCEPT !.copy = file]
    /\ UNCHANGED <<record, files, plan, release, cmd, staging>>

\* The user takes the package away, or chooses another folder.
EmptyDestination ==
    /\ dest # [package |-> None, copy |-> None]
    /\ \A c \in Clients : cmd[c] = Idle
    /\ dest' = [package |-> None, copy |-> None]
    /\ UNCHANGED <<record, files, plan, release, cmd, staging, disturbances>>

-----------------------------------------------------------------------------

Init ==
    /\ \/ /\ profile = None /\ plan = None
          /\ files = [k \in Kinds |-> None]
       \/ /\ profile \in Earlier /\ plan = provisioned(profile)
          /\ files = [k \in Kinds |-> IF k = "original" THEN Original ELSE None]
    /\ id = IF profile = None THEN None ELSE profile.id
    /\ release = Installed
    /\ cmd = [c \in Clients |-> Idle]
    /\ staging = [c \in Clients |-> None]
    /\ dest = [package |-> None, copy |-> None]
    /\ disturbances = 0

Step(c) ==
    \/ CopyOriginal(c) \/ CreatePlan(c)
    \/ PrepareDriver(c) \/ RecordDriver(c)
    \/ PrepareBoard(c) \/ PreserveBoardReceipt(c) \/ RecordBoard(c)
    \/ PrepareImage(c) \/ PreserveReceipt(c) \/ RecordImage(c)
    \/ ReadArtifacts(c) \/ CheckDestination(c) \/ Stage(c)
    \/ Verify(c) \/ WriteRecoveryCopy(c) \/ Publish(c)

Next ==
    \/ \E c \in Clients :
          CreateProfile(c) \/ Prepare(c) \/ Export(c) \/ Step(c) \/ Stop(c)
    \/ Update \/ Damage \/ DamageRecords \/ OthersWrite \/ EmptyDestination

\* One of the operators perseveres: the two commands of the preparation are
\* asked for again and again, and a command that runs goes on.  The other
\* processes may hang anywhere.
Spec ==
    /\ Init /\ [][Next]_vars
    /\ WF_vars(CreateProfile(Perseverer))
    /\ SF_vars(Prepare(Perseverer))
    /\ WF_vars(Step(Perseverer))

-----------------------------------------------------------------------------

(***************************************************************************)
(* What is published was built by an injector of the application from the  *)
(* original the profile's identity names, or its board image, and the very *)
(* driver and image the plan records; its receipts are those of its own    *)
(* image under the target policy of that identity (one target before there *)
(* was a policy), the recovery images are the original - whatever was      *)
(* interrupted, updated, damaged or prepared at the same time              *)
(* (deployment.rs:322, store.rs:198, :364, :376).                          *)
(***************************************************************************)
PackageIsProven ==
    /\ dest.package \notin {None, Foreign} =>
          LET package == dest.package
              firmware == IF id.board = "legacy" THEN BoardImage(id.patches) ELSE id.firmware
              policy == IF id.policy = None THEN "requireUnique" ELSE id.policy
          IN  /\ \E r \in Releases :
                    package.flash = Image(r.injector, firmware, package.driver)
              /\ package.receipt = ReceiptOf(package.flash, policy)
              /\ package.recovery = id.firmware
              /\ id.board = "legacy" => package.board = BoardReceipt(id.patches)
              /\ package.profile.identity = id.identity
    /\ dest.copy \in {None, Foreign, Original}

Prepared == plan # None /\ is_step_completed(plan, ImageStep)

\* The file of a step cannot become the one its evidence names, or without
\* evidence the one this version makes.
Stuck(k, evidence, made) ==
    IF evidence = None THEN files[k] \notin {None, made} ELSE files[k] # evidence

Blocked ==
    \/ files.original \notin {None, Original}
    \/ /\ id # None
       /\ \/ profile \notin Creatable \cup Earlier
          \/ profile.id # id
          \/ profile \in Earlier /\ files.original = None
          \/ ~validate_profile(profile)
    \/ /\ plan # None
       /\ \/ ~validate_for(plan, profile)
          \/ Stuck("driver", StepEvidence(DriverStep), release.driver)
          \/ files.image \notin {None, Rebuilt}
          \/ files.receipt \notin {None, ReceiptOf(Rebuilt, profile.policy)}
          \/ /\ Legacy
             /\ \/ Stuck("boardReceipt", StepEvidence(BoardStep),
                         BoardReceipt(profile.patches))
                \/ files.boardImage \notin {None, BoardImage(profile.patches)}
                \/ StepEvidence(BoardStep) # None /\ files.boardImage = None

\* The preparation is resumable: wherever it stopped, and however two of them
\* overlap, an operator who perseveres gets the image, unless a preserved
\* file was changed or was made by a version that made it differently.  A lost
\* original comes back with the creation of the same profile, which for a
\* profile of an earlier version is another one.
Prepares == <>(Prepared \/ Blocked)

=============================================================================

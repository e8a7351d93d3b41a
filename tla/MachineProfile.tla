--------------------------- MODULE MachineProfile ---------------------------
(***************************************************************************)
(* Machine profiles and the form of their deployment plans, as the crate   *)
(* nvstraps-deploy/src/lib.rs creates and validates them.                  *)
(*                                                                         *)
(* A text is its words and whether there is white space around them, a     *)
(* digest is what was digested, and the identity a profile is stored under *)
(* is the record of everything that is hashed into it.                     *)
(***************************************************************************)
EXTENDS Naturals, Sequences, SequencesExt

CONSTANTS Blank,   \* the words of an empty text
          Empty,   \* a firmware image without a byte
          None

CurrentSchema == 4

Methods == {"dualBios", "usbFlashback", "vendorRecovery", "externalSpiProgrammer"}

-----------------------------------------------------------------------------
(* Normal forms.                                                           *)

trimmed(text) == [text EXCEPT !.padded = FALSE]
required_text(text) == text.words # Blank

\* MachineIdentity::normalized: the GPUs in order and each of them once.
sound_identity(gpus) ==
    /\ gpus # <<>>
    /\ \A i \in DOMAIN gpus : gpus[i].device <= 31 /\ gpus[i].bar0Base <= gpus[i].bar0Top
identity_normalized(gpus) == ToSet(gpus)

\* FirmwareInstallRoute::normalized.
sound_install(route) == required_text(route.note) /\ route.safe /\ route.established
install_normalized(route) == [route EXCEPT !.note = trimmed(@)]

\* RecoveryMethod::None is no way back.
recovery_established(recovery) == recovery.method \in Methods /\ recovery.established

\* A driver in every DXE domain needs a recovery that works without booting.
validate_firmware_target_policy(policy, recovery) ==
    policy = "patchEveryDxeDomain"
    => recovery.established /\ recovery.method \in {"usbFlashback", "externalSpiProgrammer"}

\* Board patches are pinned exactly for the boards that need them.
patches_match_board(board, patches) == (board = "legacy") = (patches # None)

-----------------------------------------------------------------------------
(* Profiles.                                                               *)

\* What a profile of each schema hashes of its recovery.
hashed_recovery(schema, recovery) ==
    CASE schema \in {1, 2} -> None
      [] schema = 3 -> [method |-> recovery.method]
      [] OTHER -> recovery

\* Faulty variant: the target policy is no part of the identity.
profile_id_NoPolicy(schema, board, identity, firmware, patches, recovery, install, policy) ==
    [board |-> board, identity |-> identity, firmware |-> firmware,
     patches |-> patches, recovery |-> hashed_recovery(schema, recovery),
     install |-> IF schema < 3 THEN None ELSE install, policy |-> None]

profile_id(schema, board, identity, firmware, patches, recovery, install, policy) ==
    [board |-> board, identity |-> identity, firmware |-> firmware,
     patches |-> patches, recovery |-> hashed_recovery(schema, recovery),
     install |-> IF schema < 3 THEN None ELSE install,
     policy |-> IF schema < CurrentSchema THEN None ELSE policy]

id_of(p) ==
    profile_id(p.schema, p.board, p.identity, p.firmware, p.patches, p.recovery,
               p.install, p.policy)

\* The checks of create_with_options on a request for the devices found and
\* the firmware file given.
creatable(request, gpus, firmware) ==
    /\ required_text(request.name)
    /\ sound_identity(gpus)
    /\ firmware # Empty
    /\ recovery_established(request.recovery)
    /\ required_text(request.recovery.note)
    /\ validate_firmware_target_policy(request.policy, request.recovery)
    /\ sound_install(request.install)
    /\ patches_match_board(request.board, request.patches)

create_with_options(request, gpus, firmware) ==
    LET profile == [schema |-> CurrentSchema, id |-> None,
                    name |-> trimmed(request.name), board |-> request.board,
                    patches |-> request.patches,
                    identity |-> identity_normalized(gpus), firmware |-> firmware,
                    recovery |-> [request.recovery EXCEPT !.note = trimmed(@)],
                    policy |-> request.policy,
                    install |-> install_normalized(request.install)]
    IN  [profile EXCEPT !.id = id_of(profile)]

\* MachineProfile::validate, of a profile read from its file.
validate(p) ==
    /\ p.schema \in 1 .. CurrentSchema
    /\ required_text(p.name)
    /\ p.identity # {}
    /\ p.firmware # Empty
    /\ recovery_established(p.recovery)
    /\ required_text(p.recovery.note)
    /\ p.schema = CurrentSchema => p.recovery.note = trimmed(p.recovery.note)
    /\ p.schema # CurrentSchema => p.policy = "requireUnique"
    /\ validate_firmware_target_policy(p.policy, p.recovery)
    /\ IF p.schema < 3 THEN p.install = None
       ELSE /\ p.install # None
            /\ sound_install(p.install)
            /\ install_normalized(p.install) = p.install
    /\ patches_match_board(p.board, p.patches)
    /\ p.schema = 1 => p.patches = None
    /\ p.id = id_of(p)

-----------------------------------------------------------------------------
(* Plans: the steps with their state and evidence.                         *)

new_step(id) == [id |-> id, state |-> "pending", evidence |-> None]

step_ids(board) ==
    IF board = "legacy"
    THEN <<"VerifyProfile", "ConfirmRecovery", "PreserveOriginalFirmware",
           "PrepareRustDriver", "ApplyLegacyBoardPatches", "VerifyPatchedArtifact",
           "FlashWithVendorRoute">>
    ELSE <<"VerifyProfile", "ConfirmRecovery", "PreserveOriginalFirmware",
           "PrepareRustDriver", "VerifyPatchedArtifact", "FlashWithVendorRoute">>

\* DeploymentPlan::build, up to the step that follows the preparation.
build(p) ==
    [id |-> p.id, firmware |-> p.firmware, method |-> p.recovery.method,
     steps |-> [i \in DOMAIN step_ids(p.board) |->
                   [new_step(step_ids(p.board)[i]) EXCEPT
                       !.state = IF i = 1 THEN "ready" ELSE @]]]

expected_evidence(id) ==
    CASE id = "VerifyProfile" -> "ExactProfileMatch"
      [] id = "ConfirmRecovery" -> "RecoveryRouteConfirmed"
      [] id = "PreserveOriginalFirmware" -> "OriginalFirmwareSha256"
      [] id = "PrepareRustDriver" -> "RustDriverSha256"
      [] id = "ApplyLegacyBoardPatches" -> "LegacyPatchReceipt"
      [] id = "VerifyPatchedArtifact" -> "PatchedFirmwareSha256"
      [] OTHER -> "VendorFlashReceipt"

validate_evidence(plan, id, value) ==
    CASE id = "VerifyProfile" -> value = plan.id
      [] id = "ConfirmRecovery" -> value = plan.method
      [] id = "PreserveOriginalFirmware" -> value = plan.firmware
      [] OTHER -> TRUE

sound_step(plan, s) ==
    IF s.state = "completed"
    THEN /\ s.evidence # None
         /\ s.evidence.kind = expected_evidence(s.id)
         /\ validate_evidence(plan, s.id, s.evidence.value)
    ELSE s.evidence = None

\* DeploymentPlan::validate_for: the steps of the profile, completed up to
\* the one that is ready.
validate_for(plan, p) ==
    /\ validate(p)
    /\ plan.id = p.id /\ plan.firmware = p.firmware /\ plan.method = p.recovery.method
    /\ [i \in DOMAIN plan.steps |-> plan.steps[i].id] = step_ids(p.board)
    /\ \A i \in DOMAIN plan.steps : sound_step(plan, plan.steps[i])
    /\ \E ready \in DOMAIN plan.steps : \A i \in DOMAIN plan.steps :
          plan.steps[i].state = CASE i < ready -> "completed"
                                  [] i = ready -> "ready"
                                  [] OTHER -> "pending"

index_of(plan, id) == CHOOSE i \in DOMAIN plan.steps : plan.steps[i].id = id

is_step_completed(plan, id) ==
    \E i \in DOMAIN plan.steps : plan.steps[i].id = id /\ plan.steps[i].state = "completed"

require_active(plan, id) ==
    \E i \in DOMAIN plan.steps : plan.steps[i].id = id /\ plan.steps[i].state = "ready"

\* completed_evidence, None for a step that is not completed.
completed_evidence(plan, id) ==
    IF is_step_completed(plan, id) THEN plan.steps[index_of(plan, id)].evidence.value
                                   ELSE None

\* StepEvidence::new, of the kind that the step asks for.
new_evidence(id, value) == [kind |-> expected_evidence(id), value |-> value]

\* DeploymentPlan::complete_with_value for the ready step.
complete_with_value(plan, id, value) ==
    LET n == index_of(plan, id)
    IN  [plan EXCEPT
            !.steps[n].state = "completed",
            !.steps[n].evidence = new_evidence(id, value),
            !.steps[n + 1].state = "ready"]

=============================================================================

------------------------------ MODULE GuidedInstall ------------------------------
(***************************************************************************)
(* The guided install page over the deployment session.  A session holds   *)
(* what the page shows of one machine profile and runs one command at a    *)
(* time; choosing another profile or replacing the system snapshot leaves  *)
(* a running command without a session, and its reply is dropped.  The     *)
(* page chooses its screen from the session and from what it remembers,    *)
(* and its effects start the read-only checks and the preparation without  *)
(* a click.  The records, the machine and the browser storage outlive the  *)
(* application.                                                            *)
(*                                                                         *)
(* A plan is its profile and the number of steps recorded.  Each command   *)
(* records atomically (PlanStore) and may fail before, between or after    *)
(* its records.  Effects run before the next click.                        *)
(***************************************************************************)
EXTENDS Integers, Sequences, FiniteSets

CONSTANTS
    Profiles,    \* machine profiles, one per firmware file
    NoProfile,
    MaxDetours,  \* clicks that do not follow the screens
    MaxMishaps   \* commands that fail, boots without the driver

ASSUME ProfilesAssumption ==
    /\ NoProfile \notin Profiles
    /\ MaxDetours \in Nat
    /\ MaxMishaps \in Nat

VARIABLES
    stored,      \* per profile, steps recorded; -1: no record
    machine,     \* what is installed, runs and is configured
    saved,       \* per profile, when the configuration was recorded
    exports,     \* localStorage: the package remembered per profile
    remembered,  \* localStorage: the selected profile
    session,     \* DeploymentWorkspaceState
    ui,          \* GuidedApp and InstallPage: page, InstallUi, refs
    orphans,     \* commands whose session no longer listens
    refreshing,  \* a new system snapshot is being read
    confirmed,   \* history: steps the user confirmed on a screen, per profile
    detours,
    mishaps

records == <<stored, machine, saved>>
storage == <<exports, remembered>>
vars == <<stored, machine, saved, exports, remembered, session, ui, orphans,
          refreshing, confirmed, detours, mishaps>>

Steps == << "prepareRustDriver", "verifyPatchedArtifact",
            "flashWithVendorRoute", "configureFirmwareSetup",
            "rebootAfterFirmware", "verifyDriverLoaded",
            "writeNvstrapsConfiguration", "rebootAfterConfiguration",
            "verifyResizableBar", "configureNvidiaApplications" >>

ActiveAt(revision) ==
    IF revision \in 0..(Len(Steps) - 1) THEN Steps[revision + 1] ELSE "none"

Position(step) == CHOOSE i \in 1..Len(Steps) : Steps[i] = step

OPTIONAL_FINAL_STEP == "configureNvidiaApplications"
PREPARE_STEPS == {"prepareRustDriver", "verifyPatchedArtifact"}
Handoff == {"flashWithVendorRoute", "configureFirmwareSetup"}
DriverSteps == {"rebootAfterFirmware", "verifyDriverLoaded"}

\* Steps that only the user can vouch for, or that write what was shown.
Explicit == Handoff \cup {"writeNvstrapsConfiguration", OPTIONAL_FINAL_STEP}

NoPlan == [profile |-> NoProfile, revision |-> -1]
Plans == [profile : Profiles, revision : 0..Len(Steps)]

\* A command of the session: its operation, the plan it was given, the plan its
\* preview showed, whether the setup values follow, whether an effect sent it.
Call(op, of) == [op |-> op, of |-> of, seen |-> NoPlan, setup |-> FALSE,
                 auto |-> FALSE]
NoCall == Call("none", NoPlan)

-----------------------------------------------------------------------------

(***************************************************************************)
(* The session and the page, and what they show.                           *)
(***************************************************************************)
NewSession ==
    [ load |-> "list", known |-> {}, selected |-> NoProfile, plan |-> NoPlan,
      call |-> NoCall, error |-> FALSE, failedCheck |-> "none",
      recommendation |-> [status |-> "idle", of |-> NoPlan],
      receipt |-> NoProfile, firmware |-> NoProfile, creations |-> 0,
      dialog |-> "none", preview |-> NoPlan ]

resetProfileProjection(s, p) ==
    [ NewSession EXCEPT !.load = "plan", !.known = s.known, !.selected = p,
                        !.firmware = s.firmware, !.creations = s.creations ]

initialInstallUi ==
    [ page |-> "auto", startNew |-> FALSE, startNewCreations |-> 0,
      claimedInstalled |-> FALSE, showGuide |-> FALSE,
      autoKey |-> NoPlan, attempted |-> NoPlan, receiptSeen |-> NoProfile ]

busyAction(s) == s.call.op # "none"
loaded(s) == s.load = "none"
activeStep(s) == ActiveAt(s.plan.revision)

installInProgress(s) ==
    activeStep(s) \notin {"none", OPTIONAL_FINAL_STEP}

NoExport == [of |-> NoProfile, at |-> "never"]

\* A package saved by this session was saved after the current boot.
exported(s) == s.receipt # NoProfile \/ exports[s.selected] # NoExport
restartedSinceSave(s) ==
    /\ s.selected # NoProfile
    /\ exports[s.selected].at = "before"
    /\ s.receipt \in {NoProfile, exports[s.selected].of}

installScreen(s, u) ==
    LET step == activeStep(s)
        flash == step = "flashWithVendorRoute"
    IN  IF s.plan = NoPlan \/ u.startNew
        THEN IF s.firmware = NoProfile THEN "pickFirmware" ELSE "routes"
        ELSE CASE step \in {"none", OPTIONAL_FINAL_STEP} -> "done"
               [] step \in PREPARE_STEPS -> "making"
               [] step \in Handoff ->
                     IF flash /\ ~exported(s) THEN "save"
                     ELSE IF /\ machine.running
                             /\ (~flash) \/ restartedSinceSave(s) \/ u.claimedInstalled
                             /\ ~u.showGuide
                     THEN "returnRecord"
                     ELSE IF ~u.claimedInstalled THEN "guide"
                     ELSE IF machine.running THEN "admin" ELSE "missing"
               [] step \in DriverSteps ->
                     IF s.failedCheck # step THEN "checkingDriver"
                     ELSE IF machine.running THEN "checkFailed" ELSE "missing"
               [] step = "writeNvstrapsConfiguration" -> "turnOn"
               [] step = "rebootAfterConfiguration" -> "restart"
               [] step = "verifyResizableBar" -> "checkingResult"

AUTO_CHECK_SCREENS == {"checkingDriver", "restart", "checkingResult"}

Screen == installScreen(session, ui)
Mounted == ui.page = "install" /\ loaded(session)

\* An install in progress opens its page; a page that leaves forgets its refs.
Rendered(s, u) ==
    LET page == IF u.page = "auto" /\ (installInProgress(s) \/ u.startNew)
                THEN "install" ELSE u.page
        mounted == page = "install" /\ loaded(s)
    IN  [ u EXCEPT
            !.page = page,
            !.autoKey = IF mounted THEN @ ELSE NoPlan,
            !.receiptSeen = IF mounted THEN @ ELSE NoProfile,
            !.attempted = IF mounted /\ installScreen(s, u) = "making"
                          THEN @ ELSE NoPlan ]

Show(s, u) ==
    /\ session' = s
    /\ ui' = Rendered(s, u)
    /\ remembered' = IF s.selected # NoProfile THEN s.selected ELSE remembered

Keeps == UNCHANGED <<stored, machine, saved, exports, orphans, refreshing,
                     confirmed, detours, mishaps>>

Init ==
    /\ stored \in [Profiles -> {-1, 0}]
    /\ machine = [flashed |-> FALSE, running |-> FALSE, configured |-> FALSE,
                  expanded |-> FALSE]
    /\ saved = [p \in Profiles |-> "never"]
    /\ exports = [p \in Profiles \cup {NoProfile} |-> NoExport]
    /\ remembered = NoProfile
    /\ session = NewSession
    /\ ui = initialInstallUi
    /\ orphans = {}
    /\ refreshing = FALSE
    /\ confirmed = [p \in Profiles |-> {}]
    /\ detours = 0
    /\ mishaps = 0

Mishap == mishaps < MaxMishaps /\ mishaps' = mishaps + 1

-----------------------------------------------------------------------------

(***************************************************************************)
(* The commands: what the backend records, and what the reply shows.       *)
(***************************************************************************)
RecordedAt(p) == [profile |-> p, revision |-> stored[p]]

\* Whether the backend accepts a command, and the steps recorded then.
Accepts(c) ==
    LET p == c.of.profile
        active == ActiveAt(stored[p])
    IN  CASE c.op = "prepare" -> TRUE
          [] c.op = "confirm" -> c.seen = RecordedAt(p)
          [] c.op = "verifyDriver" -> active \in DriverSteps /\ machine.running
          [] c.op = "saveConfig" -> active = "writeNvstrapsConfiguration"
          [] c.op = "verifyBoot" ->
                 active = "rebootAfterConfiguration" /\ saved[p] = "before"
          [] c.op = "collectBar" ->
                 active = "verifyResizableBar" /\ machine.expanded
          [] OTHER -> TRUE

Records(c) ==
    LET r == stored[c.of.profile]
    IN  CASE c.op = "prepare" -> IF r <= 1 THEN 2 ELSE r
          [] c.op = "verifyDriver" -> Position("verifyDriverLoaded")
          [] c.op \in {"confirm", "saveConfig", "verifyBoot", "collectBar"} ->
                 r + 1
          [] OTHER -> r

RecordTo(c, r) ==
    /\ stored' = [stored EXCEPT ![c.of.profile] = r]
    /\ IF c.op = "saveConfig"
       THEN /\ machine' = [machine EXCEPT !.configured = TRUE]
            /\ saved' = IF r = stored[c.of.profile] THEN saved
                        ELSE [saved EXCEPT ![c.of.profile] = "thisBoot"]
       ELSE UNCHANGED <<machine, saved>>

\* A command refuses, or fails after some of its records.
Fails(c) ==
    \/ /\ ~Accepts(c)
       /\ UNCHANGED <<records, mishaps>>
    \/ /\ Accepts(c)
       /\ Mishap
       /\ \E r \in stored[c.of.profile]..Records(c) : RecordTo(c, r)

Succeeds(c) ==
    /\ Accepts(c)
    /\ RecordTo(c, Records(c))
    /\ UNCHANGED mishaps

\* Session.run: one operation at a time.
Run(c) == [session EXCEPT !.call = c, !.error = FALSE]

\* A failed automatic check stays on its step instead of becoming a notice.
Failed(s) ==
    [ s EXCEPT !.call = NoCall,
               !.error = ~s.call.auto,
               !.failedCheck = IF s.call.auto THEN activeStep(s) ELSE @ ]

\* loadRecommendation: only for the configuration step.
Recommend(s) ==
    [ s EXCEPT !.recommendation =
        [ status |-> IF activeStep(s) = "writeNvstrapsConfiguration"
                     THEN "pending" ELSE "idle",
          of |-> s.plan ] ]

\* What a session shows when its command c has recorded up to revision r.
Replied(s, c, r) ==
    LET shown == [ s EXCEPT !.plan = [profile |-> c.of.profile, revision |-> r],
                            !.call = Call("ending", NoPlan),
                            !.failedCheck = IF c.auto THEN "none" ELSE @ ]
    IN  CASE c.op = "confirm" /\ c.setup
                 /\ activeStep(shown) = "configureFirmwareSetup" ->
                 [ shown EXCEPT !.call = Call("preview", shown.plan) ]
          [] c.op = "verifyDriver" ->
                 [ Recommend(shown) EXCEPT
                     !.call = IF activeStep(shown) = "writeNvstrapsConfiguration"
                              THEN Call("recommend", shown.plan) ELSE @ ]
          [] OTHER -> shown

Recording == {"prepare", "confirm", "verifyDriver", "saveConfig", "verifyBoot",
              "collectBar"}

Reply ==
    LET c == session.call
    IN  /\ c.op \in Recording
        /\ \/ Succeeds(c) /\ Show(Replied(session, c, Records(c)), ui)
           \/ Fails(c) /\ Show(Failed(session), ui)
        /\ UNCHANGED <<exports, orphans, refreshing, confirmed, detours>>

\* The page may render the new plan before the operation ends.
Finish ==
    /\ session.call.op = "ending"
    /\ Show([session EXCEPT !.call = NoCall], ui)
    /\ Keeps

\* As if a reply were shown by whichever session is there.
Unheard_Shown(c) ==
    Show([Replied(session, c, Records(c)) EXCEPT !.call = session.call], ui)

\* Nobody listens any more: the records stay and the reply is dropped.
Unheard(c) == UNCHANGED <<remembered, session, ui>>

OrphanReply ==
    /\ \E c \in orphans :
         /\ Succeeds(c) \/ Fails(c)
         /\ Unheard(c)
         /\ orphans' = orphans \ {c}
    /\ UNCHANGED <<exports, refreshing, confirmed, detours>>

\* As if the preview had to be of the same profile only.
Matches_Profile(preview, plan) == preview.profile = plan.profile

\* A preview must be of the plan the page shows; so must the confirmation.
Matches(preview, plan) == preview = plan

\* A reply without a record: either shown, or a failed one shown.
Answers(op, ok, s) ==
    /\ session.call.op = op
    /\ \/ ok /\ Show(s, ui) /\ UNCHANGED mishaps
       \/ Show(Failed(session), ui) /\ IF ok THEN Mishap ELSE UNCHANGED mishaps
    /\ UNCHANGED <<records, exports, orphans, refreshing, confirmed, detours>>

\* The step previewed by the command is confirmed at once on the page, and
\* after a dialog for the game settings.
PreviewReply ==
    LET of == session.call.of
        preview == RecordedAt(of.profile)
    IN  Answers("preview",
                /\ ActiveAt(preview.revision) \in Handoff \cup {OPTIONAL_FINAL_STEP}
                /\ Matches(preview, of),
                IF activeStep(session) = OPTIONAL_FINAL_STEP
                THEN [ session EXCEPT !.call = NoCall, !.dialog = "manual",
                                      !.preview = preview ]
                ELSE [ session EXCEPT !.call.op = "confirm",
                                      !.call.seen = preview ])

\* The two restarts: the preview opens a dialog bound to the plan.
RebootPreviewReply ==
    LET of == session.call.of
        active == ActiveAt(stored[of.profile])
        Opens(dialog) == [ session EXCEPT !.call = NoCall, !.dialog = dialog,
                                          !.preview = of ]
    IN  \/ Answers("previewReboot",
                   active \in Handoff /\ active = activeStep(session),
                   Opens("reboot"))
        \/ Answers("previewConfigurationReboot",
                   /\ active = "rebootAfterConfiguration"
                   /\ RecordedAt(of.profile) = of,
                   Opens("configurationReboot"))

RecommendationReply ==
    LET r == session.recommendation
        ends == [ session EXCEPT !.call =
                    IF @.op = "recommend" THEN NoCall ELSE @ ]
    IN  /\ r.status = "pending"
        /\ \/ /\ Show([ ends EXCEPT !.recommendation.status =
                          IF r.of = session.plan THEN "ready" ELSE "dropped" ], ui)
              /\ UNCHANGED mishaps
           \/ /\ Mishap
              /\ Show([ ends EXCEPT !.recommendation.status = "error",
                                    !.error = TRUE ], ui)
        /\ UNCHANGED <<records, exports, orphans, refreshing, confirmed, detours>>

ExportReply ==
    Answers("export", TRUE,
            [session EXCEPT !.call = NoCall, !.receipt = session.selected])

FirmwareReply ==
    \E p \in Profiles :
        Answers("firmware", TRUE,
                [session EXCEPT !.call = NoCall, !.firmware = p])

\* A record that exists already is opened as it is.
ProfileReply ==
    LET p == session.call.of.profile
        r == IF stored[p] = -1 THEN 0 ELSE stored[p]
        Stores == stored' = [stored EXCEPT ![p] = r]
    IN  /\ session.call.op = "profile"
        /\ \/ /\ Stores
              /\ Show([ session EXCEPT
                          !.call = NoCall, !.known = @ \cup {p}, !.selected = p,
                          !.plan = [profile |-> p, revision |-> r],
                          !.creations = @ + 1 ], ui)
              /\ UNCHANGED mishaps
           \/ /\ Stores \/ UNCHANGED stored
              /\ Mishap
              /\ Show(Failed(session), ui)
        /\ UNCHANGED <<machine, saved, exports, orphans, refreshing, confirmed,
                       detours>>

\* initialize, loadPlan: the record worked on last, or the first one listed.
LoadFails ==
    Mishap /\ Show([session EXCEPT !.load = "none", !.error = TRUE], ui)

ListReply ==
    LET known == {p \in Profiles : stored[p] >= 0}
        Selects(p) == [ session EXCEPT !.load = "plan", !.known = known,
                                       !.selected = p ]
    IN  /\ session.load = "list"
        /\ \/ LoadFails
           \/ /\ IF known = {} THEN Show([session EXCEPT !.load = "none"], ui)
                 ELSE IF remembered \in known THEN Show(Selects(remembered), ui)
                 ELSE \E p \in known : Show(Selects(p), ui)
              /\ UNCHANGED mishaps
        /\ UNCHANGED <<records, exports, orphans, refreshing, confirmed, detours>>

PlanReply ==
    /\ session.load = "plan"
    /\ \/ LoadFails
       \/ /\ Show(Recommend([ session EXCEPT
                      !.load = "none",
                      !.plan = RecordedAt(session.selected) ]), ui)
          /\ UNCHANGED mishaps
    /\ UNCHANGED <<records, exports, orphans, refreshing, confirmed, detours>>

-----------------------------------------------------------------------------

(***************************************************************************)
(* The effects of the page.                                                *)
(***************************************************************************)
RememberDue ==
    Mounted /\ session.receipt # NoProfile /\ ui.receiptSeen # session.receipt

\* A package at the same place keeps the time it was first saved.
RememberExport ==
    /\ RememberDue
    /\ exports' = [ exports EXCEPT ![session.selected] =
                      IF @.of = session.receipt THEN @
                      ELSE [of |-> session.receipt, at |-> "thisBoot"] ]
    /\ Show(session, [ui EXCEPT !.receiptSeen = session.receipt])
    /\ UNCHANGED <<records, orphans, refreshing, confirmed, detours, mishaps>>

EndNewDue ==
    /\ Mounted
    /\ ui.startNew
    /\ session.plan # NoPlan
    /\ session.creations > ui.startNewCreations

EndNew ==
    /\ EndNewDue
    /\ Show(session, [ ui EXCEPT !.startNew = FALSE, !.claimedInstalled = FALSE,
                                 !.showGuide = FALSE ])
    /\ Keeps

\* "I finished in BIOS setup" only applies to the steps it was pressed on.
UnclaimDue ==
    Mounted /\ ui.claimedInstalled /\ activeStep(session) \notin Handoff

Unclaim ==
    /\ UnclaimDue
    /\ Show(session, [ui EXCEPT !.claimedInstalled = FALSE])
    /\ Keeps

\* The check that belongs to the active step.
CheckOf(step) ==
    CASE step \in DriverSteps -> "verifyDriver"
      [] step = "rebootAfterConfiguration" -> "verifyBoot"
      [] step = "verifyResizableBar" -> "collectBar"

autoCheck ==
    [ Run([Call(CheckOf(activeStep(session)), session.plan) EXCEPT !.auto = TRUE])
        EXCEPT !.failedCheck = "none" ]

\* As if the check were asked for while another operation runs, which
\* Session.run ignores.
CheckDue_WhileBusy ==
    /\ Mounted
    /\ Screen \in AUTO_CHECK_SCREENS
    /\ ui.autoKey # session.plan

CheckDue ==
    /\ Mounted
    /\ Screen \in AUTO_CHECK_SCREENS
    /\ ~busyAction(session)
    /\ ui.autoKey # session.plan

AutoCheck ==
    /\ CheckDue
    /\ Show(IF busyAction(session) THEN session ELSE autoCheck,
            [ui EXCEPT !.autoKey = session.plan])
    /\ Keeps

PrepareDue ==
    /\ Mounted
    /\ Screen = "making"
    /\ ~busyAction(session)
    /\ ~session.error
    /\ ui.attempted # session.plan

AutoPrepare ==
    /\ PrepareDue
    /\ Show(Run(Call("prepare", session.plan)),
            [ui EXCEPT !.attempted = session.plan])
    /\ Keeps

Effect == RememberExport \/ EndNew \/ Unclaim \/ AutoCheck \/ AutoPrepare

Settled == ~(RememberDue \/ EndNewDue \/ UnclaimDue \/ CheckDue \/ PrepareDue)

-----------------------------------------------------------------------------

(***************************************************************************)
(* The user and the machine.  What follows the screens is free; everything *)
(* else is a detour.                                                       *)
(***************************************************************************)
Detour == detours < MaxDetours /\ detours' = detours + 1

Open == ~busyAction(session) /\ session.dialog = "none"
On(screen) == Settled /\ Open /\ ~refreshing /\ Mounted /\ Screen = screen

Sends(c) ==
    /\ Show(Run(c), ui)
    /\ UNCHANGED <<records, exports, orphans, refreshing, mishaps>>

Command(c) == Sends(c) /\ UNCHANGED <<confirmed, detours>>

Confirms(p, steps) == confirmed' = [confirmed EXCEPT ![p] = @ \cup steps]

ChooseFirmware == On("pickFirmware") /\ Command(Call("firmware", NoPlan))

CreateProfile ==
    /\ On("routes")
    /\ Command(Call("profile", [profile |-> session.firmware, revision |-> -1]))

Prepare == On("making") /\ Command(Call("prepare", session.plan))

SaveToUsb == On("save") /\ Command(Call("export", session.plan))

RestartIntoBios ==
    /\ On("guide") \/ (On("missing") /\ activeStep(session) \in Handoff)
    /\ Command(Call("previewReboot", session.plan))

\* ReturnRecord: the button names the installation, the settings or both.
RecordHandoff(setup) ==
    LET flash == activeStep(session) = "flashWithVendorRoute"
    IN  /\ On("returnRecord")
        /\ setup \/ flash
        /\ Sends([Call("preview", session.plan) EXCEPT !.setup = setup])
        /\ Confirms(session.plan.profile,
                    (IF flash THEN {"flashWithVendorRoute"} ELSE {})
                    \cup (IF setup THEN {"configureFirmwareSetup"} ELSE {}))

RecordBoth == RecordHandoff(TRUE) /\ UNCHANGED detours
RecordInstallOnly == RecordHandoff(FALSE) /\ Detour

CheckAgain ==
    /\ On("checkFailed") \/ (On("missing") /\ activeStep(session) \in DriverSteps)
    /\ Show(autoCheck, ui)
    /\ Keeps

RetryRecommendation ==
    /\ On("turnOn")
    /\ session.recommendation.status = "error"
    /\ Show(Recommend(session), ui)
    /\ Keeps

\* saveGuardedConfig: only the recommendation of the plan that is shown.
SaveConfig ==
    /\ On("turnOn")
    /\ session.recommendation.status = "ready"
    /\ session.recommendation.of = session.plan
    /\ Sends(Call("saveConfig", session.plan))
    /\ Confirms(session.plan.profile, {"writeNvstrapsConfiguration"})
    /\ UNCHANGED detours

RestartNow ==
    On("restart") /\ Command(Call("previewConfigurationReboot", session.plan))

\* "I already restarted".
verifyConfigurationBoot ==
    /\ On("restart")
    /\ Sends(Call("verifyBoot", session.plan))
    /\ UNCHANGED confirmed
    /\ IF saved[session.plan.profile] = "before" THEN UNCHANGED detours ELSE Detour

CollectAgain ==
    /\ On("checkingResult")
    /\ session.failedCheck = "verifyResizableBar"
    /\ Command(Call("collectBar", session.plan))

\* The games page records the optional step through a dialog.
OpenManual ==
    /\ Settled /\ Open /\ ui.page = "games"
    /\ activeStep(session) = OPTIONAL_FINAL_STEP
    /\ Detour
    /\ Sends(Call("preview", session.plan))
    /\ UNCHANGED confirmed

Confirming(dialog, c) ==
    /\ Settled
    /\ session.dialog = dialog
    /\ ~busyAction(session)
    /\ Show([Run(c) EXCEPT !.dialog = "none"], ui)
    /\ UNCHANGED <<records, exports, orphans, refreshing, detours, mishaps>>

ConfirmManual ==
    /\ Matches(session.preview, session.plan)
    /\ Confirming("manual", [ Call("confirm", session.plan)
                                EXCEPT !.seen = session.preview ])
    /\ Confirms(session.preview.profile, {ActiveAt(session.preview.revision)})

\* A dialog dismissed.
closeModals ==
    /\ session.dialog # "none"
    /\ Detour
    /\ Show([session EXCEPT !.dialog = "none"], ui)
    /\ UNCHANGED <<records, exports, orphans, refreshing, confirmed, mishaps>>

\* A closed application: its commands end, the records and the storage stay.
Closed ==
    /\ Show(NewSession, initialInstallUi)
    /\ orphans' = {}
    /\ refreshing' = FALSE
    /\ UNCHANGED confirmed

Aged(at) == IF at = "thisBoot" THEN "before" ELSE at

\* A boot, on the way to which the operator may flash the saved file.
Boot(flash) ==
    LET flashed == machine.flashed \/ flash
    IN  /\ flash => \E p \in Profiles : exports[p] # NoExport
        /\ \E running \in {flashed, FALSE} :
             /\ machine' = [ machine EXCEPT
                               !.flashed = flashed, !.running = running,
                               !.expanded = running /\ machine.configured ]
             /\ IF running = flashed THEN UNCHANGED mishaps ELSE Mishap
        /\ saved' = [p \in Profiles |-> Aged(saved[p])]
        /\ exports' = [p \in DOMAIN exports |->
                         [exports[p] EXCEPT !.at = Aged(@)]]
        /\ UNCHANGED stored
        /\ Closed

\* The restarts take effect at once; a preview that is no longer of the plan,
\* or a record that moved on, only closes the dialog.
ConfirmReboot ==
    /\ Settled
    /\ session.dialog = "reboot"
    /\ IF /\ Matches(session.preview, session.plan)
          /\ ActiveAt(stored[session.plan.profile]) \in Handoff
       THEN Boot(activeStep(session) = "flashWithVendorRoute")
       ELSE /\ Show([session EXCEPT !.dialog = "none", !.error = TRUE], ui)
            /\ UNCHANGED <<records, exports, orphans, refreshing, confirmed, mishaps>>
    /\ UNCHANGED detours

ConfirmConfigurationReboot ==
    /\ Settled
    /\ session.dialog = "configurationReboot"
    /\ ~busyAction(session)
    /\ IF /\ Matches(session.preview, session.plan)
          /\ RecordedAt(session.plan.profile) = session.preview
       THEN Boot(FALSE)
       ELSE /\ Show([session EXCEPT !.dialog = "none", !.error = TRUE], ui)
            /\ UNCHANGED <<records, exports, orphans, refreshing, confirmed, mishaps>>
    /\ UNCHANGED detours

\* The operator restarts the machine because the page says that the driver
\* did not run, or that the result is missing.
BootAgain ==
    /\ \/ On("missing") /\ activeStep(session) \in DriverSteps
       \/ On("checkingResult") /\ ~machine.expanded
    /\ Boot(FALSE)
    /\ UNCHANGED detours

BootAnyway == \E flash \in BOOLEAN : Boot(flash) /\ Detour

\* Elevation and a closed window start the application again.
Relaunch ==
    /\ Closed
    /\ UNCHANGED <<records, exports, mishaps>>
    /\ IF Screen = "admin" THEN UNCHANGED detours ELSE Detour

Turn(u) ==
    /\ Show(session, u)
    /\ UNCHANGED <<records, exports, orphans, refreshing, confirmed, mishaps>>

\* Home offers to continue or to start; games is reached from home and done.
GoInstall ==
    /\ Settled /\ Open
    /\ ~refreshing
    /\ ui.page \in {"home", "auto", "games"}
    /\ \/ installInProgress(session)
       \/ session.plan = NoPlan /\ (session.firmware # NoProfile \/ ~machine.running)
    /\ loaded(session) \/ ui.page # "auto"
    /\ Turn([ui EXCEPT !.page = "install"])
    /\ UNCHANGED detours

MenuOpen == Settled /\ Open /\ ~refreshing

Go(page) ==
    /\ MenuOpen
    /\ ui.page # page
    /\ page = "profiles" => Cardinality(session.known) >= 2
    /\ Turn([ui EXCEPT !.page = page])
    /\ Detour

Claim ==
    /\ On("guide")
    /\ Turn([ui EXCEPT !.claimedInstalled = TRUE, !.showGuide = FALSE])
    /\ Detour

ShowSteps ==
    /\ On("returnRecord")
    /\ Turn([ui EXCEPT !.showGuide = TRUE])
    /\ Detour

startNewPreparation ==
    /\ MenuOpen
    /\ Show([session EXCEPT !.firmware = NoProfile],
            [ initialInstallUi EXCEPT
                !.page = "install", !.startNew = TRUE,
                !.startNewCreations = session.creations ])
    /\ Detour
    /\ UNCHANGED <<records, exports, orphans, refreshing, confirmed, mishaps>>

BackToCurrent ==
    /\ On("pickFirmware")
    /\ ui.startNew /\ session.plan # NoPlan
    /\ Turn([ui EXCEPT !.startNew = FALSE])
    /\ Detour

\* ProfilesPage: another record replaces what is shown.
SelectProfile(p) ==
    /\ Settled /\ Open
    /\ ui.page = "profiles"
    /\ p \in session.known
    /\ Show(IF p = session.selected THEN session
            ELSE resetProfileProjection(session, p),
            [initialInstallUi EXCEPT !.page = "install"])
    /\ UNCHANGED <<records, exports, orphans, refreshing, confirmed, detours,
                   mishaps>>

\* The page shows less than what is recorded, or cannot go on with what it has.
Behind ==
    \/ session.plan # NoPlan /\ session.plan # RecordedAt(session.plan.profile)
    \/ session.plan = NoPlan /\ session.error
    \/ /\ activeStep(session) = "writeNvstrapsConfiguration"
       /\ \/ session.recommendation.status \in {"idle", "dropped"}
          \/ /\ session.recommendation.status = "ready"
             /\ session.recommendation.of # session.plan

Refresh ==
    /\ MenuOpen
    /\ refreshing' = TRUE
    /\ IF Behind THEN UNCHANGED detours ELSE Detour
    /\ UNCHANGED <<records, storage, session, ui, orphans, confirmed, mishaps>>

\* A new snapshot makes a new session; the page and what it holds stay.
Refreshed ==
    /\ refreshing
    /\ refreshing' = FALSE
    /\ Show(NewSession, ui)
    /\ orphans' = IF session.call.op \in Recording
                  THEN orphans \cup {session.call} ELSE orphans
    /\ UNCHANGED <<records, exports, confirmed, detours, mishaps>>

-----------------------------------------------------------------------------

Follow ==
    \/ ChooseFirmware \/ CreateProfile \/ Prepare \/ SaveToUsb
    \/ RestartIntoBios \/ ConfirmReboot \/ RecordBoth \/ CheckAgain
    \/ RetryRecommendation \/ SaveConfig \/ RestartNow
    \/ ConfirmConfigurationReboot \/ CollectAgain \/ GoInstall
    \/ ConfirmManual \/ \E p \in Profiles : SelectProfile(p)

Wander ==
    \/ verifyConfigurationBoot \/ RecordInstallOnly \/ OpenManual \/ closeModals
    \/ BootAgain \/ BootAnyway \/ Relaunch \/ Claim \/ ShowSteps
    \/ startNewPreparation \/ BackToCurrent \/ Refresh
    \/ \E page \in {"home", "install", "profiles", "games"} : Go(page)

Replies ==
    \/ Reply \/ Finish \/ PreviewReply \/ RebootPreviewReply
    \/ RecommendationReply \/ ExportReply \/ FirmwareReply \/ ProfileReply
    \/ ListReply \/ PlanReply \/ Refreshed

Next == Replies \/ OrphanReply \/ Effect \/ Follow \/ Wander

Spec == Init /\ [][Next]_vars

\* Commands answer, effects run, and an operator who perseveres follows the
\* screens, restarts when they say so and refreshes a page left behind.
FairSpec ==
    /\ Spec
    /\ WF_vars(Replies \/ Effect \/ Follow)
    /\ SF_vars(BootAgain) /\ SF_vars(Refresh /\ Behind)
    /\ SF_vars(Relaunch /\ Screen = "admin")

-----------------------------------------------------------------------------

TypeOK ==
    /\ stored \in [Profiles -> -1..Len(Steps)]
    /\ saved \in [Profiles -> {"never", "thisBoot", "before"}]
    /\ remembered \in Profiles \cup {NoProfile}
    /\ session.plan \in Plans \cup {NoPlan}
    /\ session.load \in {"list", "plan", "none"}
    /\ refreshing \in BOOLEAN

\* What the user alone can vouch for, and what is written to the firmware
\* variable, is recorded for a profile only when a screen that showed this step
\* of this profile was confirmed, whatever was recorded meanwhile.
OnlyConfirmed ==
    \A p \in Profiles : \A i \in 1..stored[p] :
        Steps[i] \in Explicit => Steps[i] \in confirmed[p]

\* The plan on the page is that of the selected profile, and never says more
\* than what is stored, whatever replies are under way.
ShowsTheSelected ==
    session.plan # NoPlan =>
        /\ session.plan.profile = session.selected
        /\ session.plan.revision <= stored[session.plan.profile]

\* No screen is a dead end for an operator who perseveres.
Installed ==
    /\ session.plan # NoPlan
    /\ activeStep(session) \in {"none", OPTIONAL_FINAL_STEP}

Finishes == []<>Installed

=============================================================================

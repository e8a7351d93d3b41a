------------------------ MODULE GuidedInstallProofs ------------------------
(***************************************************************************)
(* Proofs about GuidedInstall: for every set of profiles and any number of *)
(* detours and failures, nothing the user has to vouch for is recorded     *)
(* unconfirmed, and the page shows no plan it does not have.               *)
(***************************************************************************)
EXTENDS GuidedInstall, TLAPS

Last == Len(Steps)
Operations == Recording \cup {"none", "ending", "preview", "previewReboot",
                              "previewConfigurationReboot", "recommend",
                              "export", "firmware", "profile"}
StepIds == {Steps[i] : i \in 1..Last} \cup {"none"}
Dialogs == {"none", "manual", "reboot", "configurationReboot"}
Statuses == {"idle", "pending", "ready", "dropped", "error"}

AnyProfile == Profiles \cup {NoProfile}
AnyPlan == [profile : AnyProfile, revision : -1..Last]
AnyCall == [op : Operations, of : AnyPlan, seen : AnyPlan, setup : BOOLEAN,
            auto : BOOLEAN]
Sessions ==
    [ load : {"list", "plan", "none"}, known : SUBSET Profiles,
      selected : AnyProfile, plan : Plans \cup {NoPlan}, call : AnyCall,
      error : BOOLEAN, failedCheck : StepIds,
      recommendation : [status : Statuses, of : Plans \cup {NoPlan}],
      receipt : AnyProfile, firmware : AnyProfile, creations : Nat,
      dialog : Dialogs, preview : AnyPlan ]

Revisions == [Profiles -> -1..Last]
Confirmations == [Profiles -> SUBSET Explicit]

\* What the user has confirmed, cf, of what a command c is going to record.
Backed(c, cf) ==
    /\ c.op \in {"preview", "confirm"} /\ c.setup =>
          "configureFirmwareSetup" \in cf[c.of.profile]
    /\ c.op = "preview" /\ ActiveAt(c.of.revision) \in Handoff =>
          ActiveAt(c.of.revision) \in cf[c.of.profile]
    /\ c.op = "confirm" =>
          /\ c.seen.profile = c.of.profile
          /\ ActiveAt(c.seen.revision) \in Explicit \cap cf[c.of.profile]
    /\ c.op = "saveConfig" =>
          "writeNvstrapsConfiguration" \in cf[c.of.profile]

\* The operations that work on the plan the page shows.
OnThePlan == Recording \cup {"preview", "previewReboot",
                             "previewConfigurationReboot", "export"}

\* What is known of a session s when the revisions st are stored: what it
\* shows, and the plan of the command it waits for.
Knows(s, st) ==
    /\ \A p \in s.known : st[p] >= 0
    /\ s.load = "plan" => s.selected \in s.known
    /\ s.load # "none" =>
          s.plan = NoPlan /\ s.call.op = "none" /\ s.dialog = "none"
    /\ s.plan # NoPlan =>
          s.plan.profile = s.selected /\ s.plan.revision <= st[s.selected]

Waits(s, cf) ==
    /\ s.call.op \in OnThePlan => s.plan # NoPlan /\ s.call.of = s.plan
    /\ s.call.op = "profile" => s.call.of.profile \in Profiles
    /\ Backed(s.call, cf)
    /\ s.dialog # "none" => s.plan # NoPlan /\ s.preview \in Plans
    /\ s.dialog = "manual" =>
          ActiveAt(s.preview.revision) = OPTIONAL_FINAL_STEP

Fits(s, st, cf) == s \in Sessions /\ Knows(s, st) /\ Waits(s, cf)

\* A command without a session still records only what was confirmed.
OrphanFits(c, cf) ==
    c \in AnyCall /\ c.op \in Recording /\ c.of \in Plans /\ Backed(c, cf)

\* Everything explicit up to the stored revision was confirmed.
Vouched(st, cf) ==
    \A p \in Profiles : \A i \in 1..st[p] :
        Steps[i] \in Explicit => Steps[i] \in cf[p]

RecordsOK ==
    /\ stored \in Revisions
    /\ saved \in [Profiles -> {"never", "thisBoot", "before"}]
    /\ confirmed \in Confirmations
    /\ Vouched(stored, confirmed)

\* The inductive invariant.
IInv ==
    /\ RecordsOK
    /\ remembered \in AnyProfile
    /\ refreshing \in BOOLEAN
    /\ Fits(session, stored, confirmed)
    /\ \A c \in orphans : OrphanFits(c, confirmed)

-----------------------------------------------------------------------------

\* Where the steps are in the plan.
LEMMA StepFacts ==
    /\ Last = 10
    /\ NoPlan \in AnyPlan /\ Plans \subseteq AnyPlan /\ NoPlan \notin Plans
    /\ \A r \in -1..Last :
          /\ ActiveAt(r) \in StepIds
          /\ ActiveAt(r) # "none" => r \in 0..9 /\ ActiveAt(r) = Steps[r + 1]
          /\ r \in {-1, 10} => ActiveAt(r) = "none"
          /\ ActiveAt(r) \in PREPARE_STEPS <=> r \in {0, 1}
          /\ ActiveAt(r) = "flashWithVendorRoute" <=> r = 2
          /\ ActiveAt(r) = "configureFirmwareSetup" <=> r = 3
          /\ ActiveAt(r) \in DriverSteps <=> r \in {4, 5}
          /\ ActiveAt(r) = "writeNvstrapsConfiguration" <=> r = 6
          /\ ActiveAt(r) = "rebootAfterConfiguration" <=> r = 7
          /\ ActiveAt(r) = "verifyResizableBar" <=> r = 8
          /\ ActiveAt(r) = OPTIONAL_FINAL_STEP <=> r = 9
<1>1. Last = 10
  BY DEF Last, Steps
<1>2. NoPlan \in AnyPlan /\ Plans \subseteq AnyPlan /\ NoPlan \notin Plans
  BY <1>1, ProfilesAssumption DEF NoPlan, Plans, AnyPlan, AnyProfile, Last
<1>3. ASSUME NEW r \in -1..10
      PROVE  /\ ActiveAt(r) \in StepIds
             /\ ActiveAt(r) # "none" => r \in 0..9 /\ ActiveAt(r) = Steps[r + 1]
             /\ r \in {-1, 10} => ActiveAt(r) = "none"
             /\ ActiveAt(r) \in PREPARE_STEPS <=> r \in {0, 1}
             /\ ActiveAt(r) = "flashWithVendorRoute" <=> r = 2
             /\ ActiveAt(r) = "configureFirmwareSetup" <=> r = 3
             /\ ActiveAt(r) \in DriverSteps <=> r \in {4, 5}
             /\ ActiveAt(r) = "writeNvstrapsConfiguration" <=> r = 6
             /\ ActiveAt(r) = "rebootAfterConfiguration" <=> r = 7
             /\ ActiveAt(r) = "verifyResizableBar" <=> r = 8
             /\ ActiveAt(r) = OPTIONAL_FINAL_STEP <=> r = 9
  <2>1. /\ r \in {-1, 10} => ActiveAt(r) = "none"
        /\ r \in 0..9 => ActiveAt(r) = Steps[r + 1]
    BY DEF ActiveAt, Steps
  <2>0. ActiveAt(r) \in StepIds
    BY <1>1, <2>1 DEF StepIds
  <2>2. /\ Steps[1] = "prepareRustDriver" /\ Steps[2] = "verifyPatchedArtifact"
        /\ Steps[3] = "flashWithVendorRoute"
        /\ Steps[4] = "configureFirmwareSetup"
        /\ Steps[5] = "rebootAfterFirmware" /\ Steps[6] = "verifyDriverLoaded"
        /\ Steps[7] = "writeNvstrapsConfiguration"
        /\ Steps[8] = "rebootAfterConfiguration"
        /\ Steps[9] = "verifyResizableBar"
        /\ Steps[10] = "configureNvidiaApplications"
    BY DEF Steps
  <2>3. \/ r = -1 \/ r = 0 \/ r = 1 \/ r = 2 \/ r = 3 \/ r = 4 \/ r = 5
        \/ r = 6 \/ r = 7 \/ r = 8 \/ r = 9 \/ r = 10
    OBVIOUS
  <2>4. CASE r \in {-1, 10}
    BY <2>0, <2>1, <2>4 DEF PREPARE_STEPS, DriverSteps, OPTIONAL_FINAL_STEP
  <2>5. CASE r \in {0, 1, 2}
    BY <2>0, <2>1, <2>2, <2>5 DEF PREPARE_STEPS, DriverSteps, OPTIONAL_FINAL_STEP
  <2>6. CASE r \in {3, 4, 5}
    BY <2>0, <2>1, <2>2, <2>6 DEF PREPARE_STEPS, DriverSteps, OPTIONAL_FINAL_STEP
  <2>7. CASE r \in {6, 7}
    BY <2>0, <2>1, <2>2, <2>7 DEF PREPARE_STEPS, DriverSteps, OPTIONAL_FINAL_STEP
  <2>8. CASE r \in {8, 9}
    BY <2>0, <2>1, <2>2, <2>8 DEF PREPARE_STEPS, DriverSteps, OPTIONAL_FINAL_STEP
  <2> QED
    BY <2>3, <2>4, <2>5, <2>6, <2>7, <2>8
<1> QED
  BY <1>1, <1>2, <1>3

LEMMA DriverPosition == Position("verifyDriverLoaded") = 6
<1>1. \A i \in 1..10 : Steps[i] = "verifyDriverLoaded" <=> i = 6
  BY DEF Steps
<1>2. Len(Steps) = 10
  BY DEF Steps
<1> QED
  BY <1>1, <1>2 DEF Position

\* Only four of the steps are explicit.
LEMMA ExplicitSteps ==
    \A i \in 1..10 : Steps[i] \in Explicit => i \in {3, 4, 7, 10}
BY DEF Steps, Explicit, Handoff, OPTIONAL_FINAL_STEP

\* What was confirmed once stays confirmed.
LEMMA BackedGrows ==
    ASSUME NEW c, c.of.profile \in Profiles,
           NEW cf \in Confirmations, NEW cf2 \in Confirmations,
           \A p \in Profiles : cf[p] \subseteq cf2[p],
           Backed(c, cf)
    PROVE  Backed(c, cf2)
BY DEF Backed

\* A session fits more records and more confirmations.
LEMMA FitsGrows ==
    ASSUME NEW s, NEW st \in Revisions, NEW st2 \in Revisions,
           NEW cf \in Confirmations, NEW cf2 \in Confirmations,
           \A p \in Profiles : st[p] <= st2[p],
           \A p \in Profiles : cf[p] \subseteq cf2[p],
           Fits(s, st, cf)
    PROVE  Fits(s, st2, cf2)
<1>1. s \in Sessions /\ Knows(s, st) /\ Waits(s, cf)
  BY DEF Fits
<1>2. s.plan # NoPlan => s.selected \in Profiles
  BY <1>1 DEF Knows, Sessions, Plans
<1>3. Knows(s, st2)
  <2>1. \A p \in s.known : st2[p] >= 0
    BY <1>1, StepFacts DEF Knows, Sessions, Revisions
  <2>2. ASSUME s.plan # NoPlan
        PROVE  s.plan.profile = s.selected /\ s.plan.revision <= st2[s.selected]
    <3>1. /\ s.plan.profile = s.selected /\ s.plan.revision <= st[s.selected]
          /\ s.plan.revision \in Int /\ s.selected \in Profiles
      BY <1>1, <1>2, <2>2, StepFacts DEF Knows, Sessions, Plans, Last
    <3> QED
      BY <3>1, StepFacts DEF Revisions
  <2> QED
    BY <1>1, <2>1, <2>2 DEF Knows
<1>4. Backed(s.call, cf2)
  <2>1. CASE s.call.op \in OnThePlan
    <3>1. s.call.of.profile \in Profiles
      BY <1>1, <2>1 DEF Waits, Sessions, Plans
    <3> QED
      BY <1>1, <3>1, BackedGrows DEF Waits
  <2>2. CASE s.call.op \notin OnThePlan
    BY <2>2 DEF Backed, OnThePlan, Recording
  <2> QED
    BY <2>1, <2>2
<1> QED
  BY <1>1, <1>3, <1>4 DEF Fits, Waits

-----------------------------------------------------------------------------

(***************************************************************************)
(* The records.                                                            *)
(***************************************************************************)

\* What an accepted command may record: steps that follow each other, the
\* explicit ones confirmed.
LEMMA RecordsConfirmed ==
    ASSUME stored \in Revisions, confirmed \in Confirmations,
           NEW c, OrphanFits(c, confirmed), Accepts(c)
    PROVE  LET p == c.of.profile
           IN  /\ Records(c) \in stored[p]..Last
               /\ \A i \in 1..Records(c) :
                     i > stored[p] /\ Steps[i] \in Explicit
                     => Steps[i] \in confirmed[p]
<1> DEFINE p == c.of.profile
           r == stored[p]
<1>1. p \in Profiles /\ r \in -1..10 /\ Last = 10
  BY StepFacts DEF OrphanFits, Plans, Revisions
<1>2. c.op \in Recording /\ Backed(c, confirmed)
  BY DEF OrphanFits
<1>3. CASE c.op = "prepare"
  <2>1. Records(c) = IF r <= 1 THEN 2 ELSE r
    BY <1>3 DEF Records
  <2>2. \A i \in 1..Records(c) : i > r => i \in {1, 2}
    BY <1>1, <2>1
  <2>3. \A i \in {1, 2} : Steps[i] \notin Explicit
    BY ExplicitSteps
  <2> QED
    BY <1>1, <2>1, <2>2, <2>3
<1>4. CASE c.op = "confirm"
  <2>1. Records(c) = r + 1 /\ c.seen = [profile |-> p, revision |-> r]
    BY <1>4 DEF Records, Accepts, RecordedAt
  <2>2. ActiveAt(r) \in Explicit \cap confirmed[p]
    BY <1>2, <1>4, <2>1 DEF Backed
  <2>3. ActiveAt(r) # "none"
    BY <2>2 DEF Explicit, Handoff, OPTIONAL_FINAL_STEP
  <2>4. r \in 0..9 /\ ActiveAt(r) = Steps[r + 1]
    BY <1>1, <2>3, StepFacts
  <2> QED
    BY <1>1, <2>1, <2>2, <2>4
<1>5. CASE c.op = "verifyDriver"
  <2>1. Records(c) = 6 /\ ActiveAt(r) \in DriverSteps
    BY <1>5, DriverPosition DEF Records, Accepts
  <2>2. r \in {4, 5}
    BY <1>1, <2>1, StepFacts
  <2>3. \A i \in {5, 6} : Steps[i] \notin Explicit
    BY <2>2, ExplicitSteps
  <2> QED
    BY <1>1, <2>1, <2>2, <2>3
<1>6. CASE c.op = "saveConfig"
  <2>1. /\ Records(c) = r + 1 /\ ActiveAt(r) = "writeNvstrapsConfiguration"
        /\ "writeNvstrapsConfiguration" \in confirmed[p]
    BY <1>2, <1>6 DEF Records, Accepts, Backed
  <2>2. r = 6 /\ Steps[7] = "writeNvstrapsConfiguration"
    BY <1>1, <2>1, StepFacts DEF Steps
  <2> QED
    BY <1>1, <2>1, <2>2
<1>7. CASE c.op \in {"verifyBoot", "collectBar"}
  <2>1. /\ Records(c) = r + 1
        /\ ActiveAt(r) \in {"rebootAfterConfiguration", "verifyResizableBar"}
    BY <1>7 DEF Records, Accepts
  <2>2. r \in {7, 8}
    BY <1>1, <2>1, StepFacts
  <2>3. Steps[r + 1] \notin Explicit
    BY <2>2, ExplicitSteps
  <2> QED
    BY <1>1, <2>1, <2>2, <2>3
<1> QED
  BY <1>2, <1>3, <1>4, <1>5, <1>6, <1>7 DEF Recording

\* What a step may do to the records and confirmations.
Growing ==
    /\ \A p \in Profiles : stored[p] <= stored'[p]
    /\ \A p \in Profiles : confirmed[p] \subseteq confirmed'[p]

\* A command that records, all of its steps or only some, keeps them sound.
LEMMA RecordToSound ==
    ASSUME RecordsOK, NEW c, OrphanFits(c, confirmed), Accepts(c),
           NEW r \in stored[c.of.profile]..Records(c), RecordTo(c, r),
           UNCHANGED confirmed
    PROVE  RecordsOK' /\ Growing /\ stored'[c.of.profile] = r
<1> DEFINE p == c.of.profile
<1>1. /\ p \in Profiles /\ stored \in Revisions /\ confirmed \in Confirmations
      /\ stored[p] \in -1..10 /\ Last = 10
  BY StepFacts DEF OrphanFits, Plans, Revisions, RecordsOK
<1>2. /\ Records(c) \in stored[p]..Last
      /\ \A i \in 1..Records(c) :
            i > stored[p] /\ Steps[i] \in Explicit => Steps[i] \in confirmed[p]
  BY <1>1, RecordsConfirmed
<1>3. r \in -1..10 /\ stored[p] <= r /\ r <= Records(c)
  BY <1>1, <1>2
<1>4. stored' = [stored EXCEPT ![p] = r]
  BY DEF RecordTo
<1>5. stored' \in Revisions /\ stored'[p] = r
  BY <1>1, <1>3, <1>4 DEF Revisions
<1>6. saved' \in [Profiles -> {"never", "thisBoot", "before"}]
  BY <1>1 DEF RecordTo, RecordsOK
<1>7. \A q \in Profiles : stored[q] <= stored'[q]
  BY <1>1, <1>3, <1>4 DEF Revisions
<1>8. Vouched(stored', confirmed)
  <2> SUFFICES ASSUME NEW q \in Profiles, NEW i \in 1..stored'[q],
                      Steps[i] \in Explicit
               PROVE  Steps[i] \in confirmed[q]
    BY DEF Vouched
  <2>1. stored[q] \in Int /\ stored'[q] \in Int
    BY <1>1, <1>5 DEF Revisions
  <2>2. CASE i <= stored[q]
    BY <2>1, <2>2 DEF RecordsOK, Vouched
  <2>3. CASE i > stored[q]
    <3>1. q = p /\ i \in 1..Records(c) /\ i > stored[p]
      BY <1>1, <1>2, <1>3, <1>4, <2>1, <2>3 DEF Revisions
    <3> QED
      BY <1>2, <3>1
  <2> QED
    BY <2>1, <2>2, <2>3
<1> QED
  BY <1>1, <1>5, <1>6, <1>7, <1>8 DEF RecordsOK, Growing

LEMMA OutcomeSound ==
    ASSUME RecordsOK, NEW c, OrphanFits(c, confirmed),
           Succeeds(c) \/ Fails(c), UNCHANGED confirmed
    PROVE  RecordsOK' /\ Growing
<1>1. /\ c.of.profile \in Profiles /\ stored[c.of.profile] \in -1..10 /\ Last = 10
      /\ stored \in Revisions /\ confirmed \in Confirmations
  BY StepFacts DEF OrphanFits, Plans, Revisions, RecordsOK
<1>2. CASE UNCHANGED records
  <2>1. stored' = stored /\ saved' = saved /\ confirmed' = confirmed
    BY <1>2 DEF records
  <2>2. \A p \in Profiles : stored[p] <= stored[p]
    BY <1>1, StepFacts DEF Revisions
  <2> QED
    BY <2>1, <2>2 DEF RecordsOK, Growing
<1>3. CASE /\ Accepts(c)
           /\ \E r \in stored[c.of.profile]..Records(c) : RecordTo(c, r)
  <2>1. PICK r \in stored[c.of.profile]..Records(c) : RecordTo(c, r)
    BY <1>3
  <2> QED
    BY <1>3, <2>1, RecordToSound
<1>4. CASE Succeeds(c)
  <2>1. Accepts(c) /\ RecordTo(c, Records(c))
    BY <1>4 DEF Succeeds
  <2>2. Records(c) \in stored[c.of.profile]..Records(c)
    BY <1>1, <2>1, RecordsConfirmed
  <2> QED
    BY <1>3, <2>1, <2>2
<1> QED
  BY <1>2, <1>3, <1>4 DEF Fails

\* A command that succeeds leaves a revision of the plan behind.
LEMMA SuccessSound ==
    ASSUME RecordsOK, NEW c, OrphanFits(c, confirmed), Succeeds(c),
           UNCHANGED confirmed
    PROVE  /\ stored'[c.of.profile] = Records(c)
           /\ [profile |-> c.of.profile, revision |-> Records(c)] \in Plans
<1>1. /\ c.of.profile \in Profiles /\ stored[c.of.profile] \in -1..10 /\ Last = 10
      /\ stored \in Revisions /\ confirmed \in Confirmations
  BY StepFacts DEF OrphanFits, Plans, Revisions, RecordsOK
<1>2. Accepts(c) /\ RecordTo(c, Records(c))
  BY DEF Succeeds
<1>3. Records(c) \in stored[c.of.profile]..10
  BY <1>1, <1>2, RecordsConfirmed
<1>4. Records(c) >= 0
  <2>1. c.op \in Recording
    BY DEF OrphanFits
  <2> QED
    BY <1>1, <1>3, <2>1, DriverPosition DEF Records, Recording
<1> QED
  BY <1>1, <1>2, <1>3, <1>4, RecordToSound DEF Plans, Last

-----------------------------------------------------------------------------

(***************************************************************************)
(* The sessions.                                                           *)
(***************************************************************************)

LEMMA CallTyped ==
    /\ NoCall \in AnyCall /\ NoCall.op = "none"
    /\ \A op \in Operations, of \in AnyPlan :
          /\ Call(op, of) \in AnyCall
          /\ Call(op, of).op = op /\ Call(op, of).of = of
          /\ Call(op, of).seen = NoPlan /\ ~Call(op, of).setup
BY StepFacts DEF NoCall, Call, AnyCall, Operations

\* Of a session t that differs only in what it waits for no longer, and in
\* what the page does not act on.
LEMMA Calm ==
    ASSUME NEW st, NEW cf, NEW s, Fits(s, st, cf), NEW t \in Sessions,
           t.load = s.load, t.known = s.known, t.selected = s.selected,
           t.plan = s.plan, t.preview = s.preview,
           t.call = s.call \/ t.call.op = "none",
           t.dialog = s.dialog \/ t.dialog = "none"
    PROVE  Fits(t, st, cf)
BY DEF Fits, Knows, Waits, Backed, OnThePlan, Recording

\* A session that has just sent the command c.
LEMMA Asked ==
    ASSUME NEW st, NEW cf, NEW s, Fits(s, st, cf), NEW t \in Sessions,
           NEW c, t.call = c, Backed(c, cf),
           s.load = "none", t.load = "none", t.known = s.known,
           t.selected = s.selected, t.plan = s.plan, t.preview = s.preview,
           c.op \in OnThePlan => s.plan # NoPlan /\ c.of = s.plan,
           c.op = "profile" => c.of.profile \in Profiles,
           t.dialog = s.dialog \/ t.dialog = "none"
    PROVE  Fits(t, st, cf)
BY DEF Fits, Knows, Waits

LEMMA NewSessionFits ==
    ASSUME NEW st, NEW cf
    PROVE  /\ Fits(NewSession, st, cf)
           /\ NewSession.selected = NoProfile
<1>1. NewSession \in Sessions
  BY StepFacts, CallTyped DEF NewSession, Sessions, Dialogs, Statuses, StepIds, AnyProfile
<1>2. Knows(NewSession, st)
  BY CallTyped DEF NewSession, Knows
<1>3. Waits(NewSession, cf)
  BY CallTyped DEF NewSession, Waits, Backed, OnThePlan, Recording
<1> QED
  BY <1>1, <1>2, <1>3 DEF Fits, NewSession

LEMMA ResetFits ==
    ASSUME NEW st, NEW cf, NEW s, Fits(s, st, cf), NEW p \in s.known
    PROVE  Fits(resetProfileProjection(s, p), st, cf)
<1> DEFINE t == resetProfileProjection(s, p)
<1>1. /\ NewSession \in Sessions /\ s \in Sessions
      /\ NewSession.plan = NoPlan /\ NewSession.call = NoCall
      /\ NewSession.dialog = "none"
  BY NewSessionFits DEF Fits, NewSession
<1>2. t \in Sessions
  BY <1>1 DEF resetProfileProjection, Sessions, AnyProfile
<1>3. /\ t.load = "plan" /\ t.known = s.known /\ t.selected = p
      /\ t.plan = NoPlan /\ t.call = NoCall /\ t.dialog = "none"
  BY <1>1 DEF resetProfileProjection, Sessions
<1> QED
  BY <1>2, <1>3, CallTyped DEF Fits, Knows, Waits, Backed, OnThePlan, Recording

\* What the screens say about the session.
LEMMA ScreenFacts ==
    ASSUME IInv
    PROVE  /\ session.plan = NoPlan => activeStep(session) = "none"
           /\ activeStep(session) # "none" => session.plan \in Plans
           /\ Screen \in {"pickFirmware", "routes"}
                 => Screen = "pickFirmware" \/ session.firmware # NoProfile
           /\ Screen \notin {"pickFirmware", "routes"} => session.plan # NoPlan
           /\ Screen = "returnRecord" => activeStep(session) \in Handoff
           /\ Screen = "turnOn"
                 => activeStep(session) = "writeNvstrapsConfiguration"
           /\ Screen = "checkFailed" => activeStep(session) \in DriverSteps
           /\ Screen \in AUTO_CHECK_SCREENS =>
                 activeStep(session) \in DriverSteps
                     \cup {"rebootAfterConfiguration", "verifyResizableBar"}
<1> DEFINE step == activeStep(session)
<1>1. session \in Sessions /\ session.plan \in Plans \cup {NoPlan}
  BY DEF IInv, Fits, Sessions
<1>2. session.plan = NoPlan => step = "none"
  BY StepFacts DEF activeStep, NoPlan
<1>3. step # "none" => session.plan \in Plans
  BY <1>1, <1>2
<1>4. CASE session.plan = NoPlan \/ ui.startNew
  BY <1>2, <1>3, <1>4 DEF Screen, installScreen, AUTO_CHECK_SCREENS
<1>5. CASE session.plan # NoPlan /\ ~ui.startNew
  <2>1. \/ step \in {"none", OPTIONAL_FINAL_STEP}
        \/ step \in PREPARE_STEPS \/ step \in Handoff \/ step \in DriverSteps
        \/ step = "writeNvstrapsConfiguration"
        \/ step = "rebootAfterConfiguration"
        \/ step = "verifyResizableBar"
    <3>1. session.plan.revision \in 0..10
      BY <1>1, <1>5, StepFacts DEF Plans, Last
    <3> QED
      BY <3>1, StepFacts DEF activeStep, Handoff
  <2> HIDE DEF step
  <2>2. CASE step \in {"none", OPTIONAL_FINAL_STEP} \cup PREPARE_STEPS
    <3>1. Screen \in {"done", "making"}
      BY <1>5, <2>2 DEF Screen, installScreen, step, OPTIONAL_FINAL_STEP,
                        PREPARE_STEPS, Handoff, DriverSteps
    <3> QED
      BY <1>5, <1>2, <1>3, <3>1 DEF step, AUTO_CHECK_SCREENS
  <2>3. CASE step \in Handoff
    <3>1. Screen \in {"save", "returnRecord", "guide", "admin", "missing"}
      BY <1>5, <2>3 DEF Screen, installScreen, step, OPTIONAL_FINAL_STEP,
                        PREPARE_STEPS, Handoff, DriverSteps
    <3> QED
      BY <1>5, <1>2, <1>3, <2>3, <3>1 DEF step, AUTO_CHECK_SCREENS
  <2>4. CASE step \in DriverSteps
    <3>1. Screen \in {"checkingDriver", "checkFailed", "missing"}
      BY <1>5, <2>4 DEF Screen, installScreen, step, OPTIONAL_FINAL_STEP,
                        PREPARE_STEPS, Handoff, DriverSteps
    <3> QED
      BY <1>5, <1>2, <1>3, <2>4, <3>1 DEF step, AUTO_CHECK_SCREENS
  <2>5. CASE step = "writeNvstrapsConfiguration"
    <3>1. Screen = "turnOn"
      BY <1>5, <2>5 DEF Screen, installScreen, step, OPTIONAL_FINAL_STEP,
                        PREPARE_STEPS, Handoff, DriverSteps
    <3> QED
      BY <1>5, <1>2, <1>3, <2>5, <3>1 DEF step, AUTO_CHECK_SCREENS
  <2>6. CASE step \in {"rebootAfterConfiguration", "verifyResizableBar"}
    <3>1. Screen \in {"restart", "checkingResult"}
      BY <1>5, <2>6 DEF Screen, installScreen, step, OPTIONAL_FINAL_STEP,
                        PREPARE_STEPS, Handoff, DriverSteps
    <3> QED
      BY <1>5, <1>2, <1>3, <2>6, <3>1 DEF step, AUTO_CHECK_SCREENS
  <2> QED
    BY <2>1, <2>2, <2>3, <2>4, <2>5, <2>6
<1> QED
  BY <1>4, <1>5

-----------------------------------------------------------------------------

(***************************************************************************)
(* The steps.                                                              *)
(***************************************************************************)

\* A step keeps the invariant if the session it shows fits what it records.
LEMMA Closing ==
    ASSUME IInv, RecordsOK', Growing, Fits(session', stored', confirmed'),
           remembered' \in {remembered, session'.selected},
           refreshing' \in BOOLEAN,
           \A c \in orphans' : c \in orphans \/ OrphanFits(c, confirmed)
    PROVE  IInv'
<1>1. remembered' \in AnyProfile
  BY DEF IInv, Fits, Sessions
<1>2. ASSUME NEW c \in orphans'
      PROVE  OrphanFits(c, confirmed')
  <2>1. OrphanFits(c, confirmed)
    BY <1>2 DEF IInv
  <2>2. c.of.profile \in Profiles /\ Backed(c, confirmed)
    BY <2>1 DEF OrphanFits, Plans
  <2>3. Backed(c, confirmed')
    BY <2>2, BackedGrows DEF IInv, RecordsOK, Growing
  <2> QED
    BY <2>1, <2>3 DEF OrphanFits
<1> QED
  BY <1>1, <1>2 DEF IInv

\* The same for a step that records and confirms nothing.
LEMMA Shown ==
    ASSUME IInv, UNCHANGED <<stored, saved, confirmed, orphans, refreshing>>,
           Fits(session', stored, confirmed),
           remembered' \in {remembered, session'.selected}
    PROVE  IInv'
<1>1. RecordsOK'
  BY DEF IInv, RecordsOK
<1>2. Growing
  BY StepFacts DEF Growing, IInv, RecordsOK, Revisions
<1> QED
  BY <1>1, <1>2, Closing DEF IInv

\* A step that only confirms more.
LEMMA ConfirmsMore ==
    ASSUME IInv, UNCHANGED <<stored, saved>>,
           NEW p \in Profiles, NEW steps \in SUBSET Explicit, Confirms(p, steps)
    PROVE  /\ RecordsOK' /\ Growing
           /\ Fits(session, stored', confirmed')
           /\ confirmed'[p] = confirmed[p] \cup steps
<1>1. /\ stored \in Revisions /\ confirmed \in Confirmations
      /\ Fits(session, stored, confirmed)
  BY DEF IInv, RecordsOK
<1>2. /\ confirmed' \in Confirmations
      /\ confirmed'[p] = confirmed[p] \cup steps
      /\ \A q \in Profiles : confirmed[q] \subseteq confirmed'[q]
  BY <1>1 DEF Confirms, Confirmations
<1>3. \A q \in Profiles : stored[q] <= stored[q]
  BY <1>1, StepFacts DEF Revisions
<1>4. Vouched(stored, confirmed')
  BY <1>2 DEF IInv, RecordsOK, Vouched
<1>5. Fits(session, stored, confirmed')
  BY <1>1, <1>2, <1>3, FitsGrows
<1> QED
  BY <1>2, <1>3, <1>4, <1>5 DEF IInv, RecordsOK, Growing

LEMMA FailedFits ==
    ASSUME IInv, NEW st, NEW cf, Fits(session, st, cf)
    PROVE  Fits(Failed(session), st, cf)
<1>1. session \in Sessions /\ session.plan \in Plans \cup {NoPlan}
  BY DEF Fits, Sessions
<1>2. activeStep(session) \in StepIds
  BY <1>1, StepFacts DEF activeStep, Plans, NoPlan, Last
<1>3. /\ Failed(session) \in Sessions
      /\ Failed(session).call = NoCall
  BY <1>1, <1>2, CallTyped DEF Failed, Sessions, AnyCall
<1>4. LET t == Failed(session)
      IN  /\ t.load = session.load /\ t.known = session.known
          /\ t.selected = session.selected /\ t.plan = session.plan
          /\ t.preview = session.preview /\ t.dialog = session.dialog
  BY <1>1 DEF Failed, Sessions
<1> QED
  BY <1>3, <1>4, CallTyped, Calm

\* The session of a command that succeeded shows the recorded revision, and
\* goes on with the next handoff only if that was confirmed with it.
LEMMA RepliedFits ==
    ASSUME NEW st \in Revisions, NEW cf \in Confirmations,
           NEW s, Fits(s, st, cf), NEW r,
           s.call.op \in Recording,
           [profile |-> s.call.of.profile, revision |-> r] \in Plans,
           st[s.call.of.profile] = r
    PROVE  /\ Fits(Replied(s, s.call, r), st, cf)
           /\ Replied(s, s.call, r).selected = s.selected
<1> DEFINE c == s.call
           plan == [profile |-> c.of.profile, revision |-> r]
           shown == [ s EXCEPT !.plan = plan,
                            !.call = Call("ending", NoPlan),
                            !.failedCheck = IF c.auto THEN "none" ELSE @ ]
           t == Replied(s, c, r)
<1>1. /\ s \in Sessions /\ c \in AnyCall /\ c.of = s.plan /\ s.plan # NoPlan
      /\ s.load = "none" /\ s.plan.profile = s.selected
      /\ Backed(c, cf) /\ s.plan \in Plans
      /\ \A p \in s.known : st[p] >= 0
  BY DEF Fits, Waits, Knows, Sessions, OnThePlan, Recording
<1>2. shown \in Sessions
  BY <1>1, CallTyped, StepFacts DEF Sessions, StepIds, Operations
<1>3. /\ shown.load = "none" /\ shown.known = s.known
      /\ shown.selected = s.selected /\ shown.plan = plan
      /\ shown.preview = s.preview /\ shown.dialog = s.dialog
      /\ shown.call = Call("ending", NoPlan)
      /\ shown.recommendation = s.recommendation
  BY <1>1 DEF Sessions
<1>4. plan \in Plans /\ plan # NoPlan /\ plan \in AnyPlan /\ r \in Int
      /\ plan.profile = s.selected /\ plan.revision <= st[s.selected]
      /\ plan.profile = c.of.profile /\ plan.revision = r
  BY <1>1, StepFacts DEF Plans, Last
<1>5. Fits(shown, st, cf)
  <2>1. shown.call.op = "ending"
    BY <1>3, CallTyped, StepFacts DEF Operations
  <2>2. Knows(shown, st)
    BY <1>1, <1>3, <1>4 DEF Knows
  <2>3. Waits(shown, cf)
    BY <1>1, <1>3, <1>4, <2>1 DEF Waits, Backed, OnThePlan, Recording, Fits
  <2> QED
    BY <1>2, <2>2, <2>3 DEF Fits
<1> HIDE DEF plan, shown
<1>6. t = CASE c.op = "confirm" /\ c.setup
                 /\ activeStep(shown) = "configureFirmwareSetup" ->
                 [ shown EXCEPT !.call = Call("preview", shown.plan) ]
            [] c.op = "verifyDriver" ->
                 [ Recommend(shown) EXCEPT
                     !.call = IF activeStep(shown) = "writeNvstrapsConfiguration"
                              THEN Call("recommend", shown.plan) ELSE @ ]
            [] OTHER -> shown
  BY DEF Replied, shown, plan
<1>7. CASE /\ c.op = "confirm" /\ c.setup
           /\ activeStep(shown) = "configureFirmwareSetup"
  <2> DEFINE d == Call("preview", shown.plan)
  <2>1. t = [shown EXCEPT !.call = d]
    BY <1>6, <1>7
  <2>2. d \in AnyCall /\ d.op = "preview" /\ d.of = plan /\ ~d.setup
    BY <1>3, <1>4, CallTyped DEF Operations
  <2>3. /\ ActiveAt(plan.revision) = "configureFirmwareSetup"
        /\ "configureFirmwareSetup" \in cf[plan.profile]
    BY <1>1, <1>3, <1>4, <1>7 DEF activeStep, Backed
  <2>4. Backed(d, cf)
    BY <2>2, <2>3 DEF Backed
  <2> HIDE DEF d
  <2>5. t \in Sessions /\ t.call = d
    BY <1>2, <2>1, <2>2 DEF Sessions
  <2>6. /\ t.load = "none" /\ t.known = shown.known
        /\ t.selected = shown.selected /\ t.plan = shown.plan
        /\ t.preview = shown.preview /\ t.dialog = shown.dialog
    BY <1>2, <1>3, <2>1 DEF Sessions
  <2> QED
    BY <1>3, <1>4, <1>5, <2>2, <2>4, <2>5, <2>6, Asked
<1>8. CASE c.op = "verifyDriver"
  <2> DEFINE d == IF activeStep(shown) = "writeNvstrapsConfiguration"
                  THEN Call("recommend", shown.plan) ELSE shown.call
  <2>1. t = [Recommend(shown) EXCEPT !.call = d]
    BY <1>2, <1>6, <1>8 DEF Recommend, Sessions
  <2>2. d \in AnyCall /\ d.op \in {"recommend", "ending"}
    <3>1. /\ "recommend" \in Operations /\ "ending" \in Operations
          /\ shown.plan \in AnyPlan /\ NoPlan \in AnyPlan
      BY <1>3, <1>4, StepFacts DEF Operations
    <3>2. /\ Call("recommend", shown.plan) \in AnyCall
          /\ Call("recommend", shown.plan).op = "recommend"
          /\ Call("ending", NoPlan) \in AnyCall
          /\ Call("ending", NoPlan).op = "ending"
      BY <3>1, CallTyped
    <3> QED
      BY <1>3, <3>2
  <2> HIDE DEF d
  <2>3. t \in Sessions /\ t.call = d
    <3> DEFINE rec == [ status |-> IF activeStep(shown) = "writeNvstrapsConfiguration"
                                   THEN "pending" ELSE "idle",
                        of |-> shown.plan ]
    <3>1. rec \in [status : Statuses, of : Plans \cup {NoPlan}]
      BY <1>3, <1>4 DEF Statuses
    <3>2. t = [[shown EXCEPT !.recommendation = rec] EXCEPT !.call = d]
      BY <2>1 DEF Recommend
    <3> HIDE DEF rec
    <3> QED
      BY <1>2, <2>2, <3>1, <3>2 DEF Sessions
  <2>4. /\ t.load = "none" /\ t.known = shown.known
        /\ t.selected = shown.selected /\ t.plan = shown.plan
        /\ t.preview = shown.preview /\ t.dialog = shown.dialog
    BY <1>2, <1>3, <2>1 DEF Sessions, Recommend
  <2>5. Backed(d, cf)
    BY <2>2 DEF Backed
  <2> QED
    BY <1>3, <1>4, <1>5, <2>2, <2>3, <2>4, <2>5, Asked DEF OnThePlan, Recording
<1>9. CASE /\ ~(/\ c.op = "confirm" /\ c.setup
                /\ activeStep(shown) = "configureFirmwareSetup")
           /\ c.op # "verifyDriver"
  BY <1>3, <1>5, <1>6, <1>9
<1> QED
  BY <1>7, <1>8, <1>9

LEMMA CallFacts ==
    ASSUME IInv
    PROVE  /\ session \in Sessions /\ session.call \in AnyCall
           /\ session.call.op # "none" => session.load = "none"
           /\ session.call.op \in OnThePlan =>
                 /\ session.plan \in Plans /\ session.call.of = session.plan
                 /\ session.load = "none" /\ session.plan # NoPlan
           /\ session.call.op \in Recording => OrphanFits(session.call, confirmed)
           /\ Backed(session.call, confirmed)
<1>1. /\ session \in Sessions /\ Knows(session, stored)
      /\ Waits(session, confirmed)
  BY DEF IInv, Fits
<1>2. session.call \in AnyCall /\ session.plan \in Plans \cup {NoPlan}
  BY <1>1 DEF Sessions
<1>3. session.call.op # "none" => session.load = "none"
  BY <1>1 DEF Knows
<1>4. session.call.op \in OnThePlan =>
         /\ session.plan \in Plans /\ session.call.of = session.plan
         /\ session.load = "none" /\ session.plan # NoPlan
  BY <1>1, <1>2, <1>3 DEF Waits, OnThePlan, Recording
<1> QED
  BY <1>1, <1>2, <1>3, <1>4 DEF Waits, OrphanFits, OnThePlan

LEMMA ReplyInv == ASSUME IInv, Reply PROVE IInv'
<1>0. PICK c : c = session.call
  OBVIOUS
<1>1. /\ c.op \in Recording /\ UNCHANGED <<confirmed, orphans, refreshing>>
      /\ \/ Succeeds(c) /\ Show(Replied(session, c, Records(c)), ui)
         \/ Fails(c) /\ Show(Failed(session), ui)
  BY <1>0 DEF Reply
<1>2. OrphanFits(c, confirmed) /\ RecordsOK /\ Fits(session, stored, confirmed)
  BY <1>0, <1>1, CallFacts DEF IInv
<1>3. RecordsOK' /\ Growing
  BY <1>1, <1>2, OutcomeSound
<1>4. Fits(session, stored', confirmed)
  BY <1>1, <1>2, <1>3, FitsGrows DEF RecordsOK, Growing
<1>5. Fits(session', stored', confirmed') /\ remembered' \in {remembered, session'.selected}
  <2>1. CASE Succeeds(c) /\ Show(Replied(session, c, Records(c)), ui)
    <3>1. /\ stored'[c.of.profile] = Records(c)
          /\ [profile |-> c.of.profile, revision |-> Records(c)] \in Plans
      BY <1>1, <1>2, <2>1, SuccessSound
    <3>2. PICK r : r = Records(c)
      OBVIOUS
    <3>3. /\ Fits(Replied(session, c, r), stored', confirmed)
      BY <1>0, <1>1, <1>2, <1>3, <1>4, <3>1, <3>2, RepliedFits DEF RecordsOK
    <3>4. /\ session' = Replied(session, c, r)
          /\ remembered' \in {remembered, session'.selected}
      BY <2>1, <3>2 DEF Show
    <3> QED
      BY <1>1, <3>3, <3>4
  <2>2. CASE Fails(c) /\ Show(Failed(session), ui)
    <3>1. Fits(Failed(session), stored', confirmed)
      BY <1>4, FailedFits
    <3>2. /\ session' = Failed(session)
          /\ remembered' \in {remembered, session'.selected}
      BY <2>2 DEF Show
    <3> QED
      BY <1>1, <3>1, <3>2
  <2> QED
    BY <1>1, <2>1, <2>2
<1> QED
  BY <1>1, <1>3, <1>5, Closing DEF IInv

LEMMA OrphanReplyInv == ASSUME IInv, OrphanReply PROVE IInv'
<1>1. PICK c \in orphans : /\ Succeeds(c) \/ Fails(c)
                           /\ Unheard(c)
                           /\ orphans' = orphans \ {c}
  BY DEF OrphanReply
<1>2. UNCHANGED <<remembered, session, confirmed, refreshing>>
  BY <1>1 DEF OrphanReply, Unheard
<1>3. /\ OrphanFits(c, confirmed) /\ RecordsOK
      /\ Fits(session, stored, confirmed)
  BY <1>1 DEF IInv
<1>4. RecordsOK' /\ Growing
  BY <1>1, <1>2, <1>3, OutcomeSound
<1>5. Fits(session, stored', confirmed)
  BY <1>2, <1>3, <1>4, FitsGrows DEF RecordsOK, Growing
<1> QED
  BY <1>1, <1>2, <1>4, <1>5, Closing DEF IInv

LEMMA FinishInv == ASSUME IInv, Finish PROVE IInv'
<1>1. /\ session' = [session EXCEPT !.call = NoCall]
      /\ remembered' \in {remembered, session'.selected}
      /\ UNCHANGED <<stored, saved, confirmed, orphans, refreshing>>
  BY DEF Finish, Show, Keeps
<1>2. session' \in Sessions /\ session'.call = NoCall
  BY <1>1, CallTyped, CallFacts DEF Sessions
<1>3. /\ session'.load = session.load /\ session'.known = session.known
      /\ session'.selected = session.selected /\ session'.plan = session.plan
      /\ session'.preview = session.preview /\ session'.dialog = session.dialog
  BY <1>1, CallFacts DEF Sessions
<1>4. Fits(session', stored, confirmed)
  BY <1>2, <1>3, CallTyped, Calm DEF IInv
<1> QED
  BY <1>1, <1>4, Shown

\* An answer that fails records nothing and ends the command.
LEMMA FailureInv ==
    ASSUME IInv, UNCHANGED <<stored, saved, confirmed, orphans, refreshing>>,
           session' = Failed(session),
           remembered' \in {remembered, session'.selected}
    PROVE  IInv'
BY FailedFits, Shown DEF IInv

\* The confirmation that follows a preview is of the step that was previewed.
LEMMA PreviewReplyInv == ASSUME IInv, PreviewReply PROVE IInv'
<1> DEFINE of == session.call.of
           preview == RecordedAt(of.profile)
           asks == [ session EXCEPT !.call = NoCall, !.dialog = "manual",
                                    !.preview = preview ]
           goes == [ session EXCEPT !.call.op = "confirm",
                                    !.call.seen = preview ]
           t == IF activeStep(session) = OPTIONAL_FINAL_STEP THEN asks ELSE goes
<1>1. /\ UNCHANGED <<stored, saved, confirmed, orphans, refreshing>>
      /\ remembered' \in {remembered, session'.selected}
      /\ session.call.op = "preview"
  BY DEF PreviewReply, Answers, Show, records
<1>2. \/ session' = Failed(session)
      \/ /\ ActiveAt(preview.revision) \in Handoff \cup {OPTIONAL_FINAL_STEP}
         /\ Matches(preview, of)
         /\ session' = t
  BY DEF PreviewReply, Answers, Show
<1>3. /\ session \in Sessions /\ session.call \in AnyCall
      /\ Fits(session, stored, confirmed)
      /\ session.plan \in Plans /\ of = session.plan
      /\ session.load = "none" /\ session.plan # NoPlan
      /\ Backed(session.call, confirmed)
  BY <1>1, CallFacts DEF OnThePlan, IInv
<1>4. ASSUME ActiveAt(preview.revision) \in Handoff \cup {OPTIONAL_FINAL_STEP},
             Matches(preview, of), session' = t
      PROVE  Fits(t, stored, confirmed)
  <2>1. preview = session.plan /\ preview \in Plans /\ preview \in AnyPlan
    BY <1>3, <1>4, StepFacts DEF Matches
  <2> HIDE DEF preview
  <2>2. CASE activeStep(session) = OPTIONAL_FINAL_STEP
    <3>1. t = asks
      BY <2>2
    <3>2. asks \in Sessions
      BY <1>3, <2>1, CallTyped DEF Sessions, Dialogs
    <3>3. /\ asks.load = "none" /\ asks.known = session.known
          /\ asks.selected = session.selected /\ asks.plan = session.plan
          /\ asks.call = NoCall /\ asks.preview = preview
          /\ asks.dialog = "manual"
      BY <1>3 DEF Sessions
    <3>4. Knows(asks, stored)
      BY <1>3, <3>3 DEF Fits, Knows
    <3>5. ActiveAt(asks.preview.revision) = OPTIONAL_FINAL_STEP
      BY <2>1, <2>2, <3>3 DEF activeStep
    <3>6. asks.plan # NoPlan /\ asks.preview \in Plans
      BY <1>3, <2>1, <3>3
    <3> HIDE DEF asks
    <3>7. Waits(asks, confirmed)
      BY <3>3, <3>5, <3>6, CallTyped
         DEF Waits, Backed, OnThePlan, Recording
    <3> QED
      BY <3>1, <3>2, <3>4, <3>7 DEF Fits
  <2>3. CASE activeStep(session) # OPTIONAL_FINAL_STEP
    <3> DEFINE d == [session.call EXCEPT !.op = "confirm", !.seen = preview]
    <3>1. t = [session EXCEPT !.call = d]
      BY <1>3, <2>3 DEF Sessions, AnyCall
    <3>2. /\ d \in AnyCall /\ d.op = "confirm" /\ d.seen = preview
          /\ d.of = of /\ d.setup = session.call.setup
      BY <1>3, <2>1 DEF AnyCall, Operations, Recording
    <3>3. ActiveAt(preview.revision) \in Handoff
      BY <1>4, <2>1, <2>3 DEF activeStep
    <3>4. ActiveAt(preview.revision) \in confirmed[of.profile]
      BY <1>1, <1>3, <2>1, <3>3 DEF Backed
    <3>5. Backed(d, confirmed)
      BY <1>1, <1>3, <2>1, <3>2, <3>3, <3>4 DEF Backed, Explicit
    <3> HIDE DEF d
    <3>6. t \in Sessions /\ t.call = d
      BY <1>3, <3>1, <3>2 DEF Sessions
    <3>7. /\ t.load = "none" /\ t.known = session.known
          /\ t.selected = session.selected /\ t.plan = session.plan
          /\ t.preview = session.preview /\ t.dialog = session.dialog
      BY <1>3, <3>1 DEF Sessions
    <3> HIDE DEF t
    <3> QED
      BY <1>3, <3>2, <3>5, <3>6, <3>7, Asked
  <2> QED
    BY <2>2, <2>3
<1> QED
  BY <1>1, <1>2, <1>4, FailureInv, Shown

LEMMA RebootPreviewReplyInv == ASSUME IInv, RebootPreviewReply PROVE IInv'
<1> DEFINE of == session.call.of
           Opens(dialog) == [ session EXCEPT !.call = NoCall, !.dialog = dialog,
                                             !.preview = of ]
<1>1. /\ UNCHANGED <<stored, saved, confirmed, orphans, refreshing>>
      /\ remembered' \in {remembered, session'.selected}
      /\ session.call.op \in {"previewReboot", "previewConfigurationReboot"}
  BY DEF RebootPreviewReply, Answers, Show, records
<1>2. \/ session' = Failed(session)
      \/ \E dialog \in {"reboot", "configurationReboot"} :
            session' = Opens(dialog)
  BY DEF RebootPreviewReply, Answers, Show
<1>3. /\ session \in Sessions /\ Fits(session, stored, confirmed)
      /\ of \in Plans /\ session.load = "none" /\ session.plan # NoPlan
  BY <1>1, CallFacts DEF OnThePlan, IInv
<1>4. ASSUME NEW dialog \in {"reboot", "configurationReboot"},
             session' = Opens(dialog)
      PROVE  Fits(session', stored, confirmed)
  <2>1. session' \in Sessions
    BY <1>3, <1>4, CallTyped, StepFacts DEF Sessions, Dialogs
  <2>2. /\ session'.load = "none" /\ session'.known = session.known
        /\ session'.selected = session.selected
        /\ session'.plan = session.plan /\ session'.call = NoCall
        /\ session'.preview = of /\ session'.dialog = dialog
    BY <1>3, <1>4 DEF Sessions
  <2>3. Knows(session', stored)
    BY <1>3, <2>2 DEF Fits, Knows
  <2>4. Waits(session', confirmed)
    BY <1>3, <2>2, CallTyped DEF Waits, Backed, OnThePlan, Recording
  <2> QED
    BY <2>1, <2>3, <2>4 DEF Fits
<1> QED
  BY <1>1, <1>2, <1>4, FailureInv, Shown

LEMMA RecommendationReplyInv == ASSUME IInv, RecommendationReply PROVE IInv'
<1> DEFINE r == session.recommendation
           call == IF session.call.op = "recommend" THEN NoCall ELSE session.call
           ends == [session EXCEPT !.call = call]
           Rec(status) == [r EXCEPT !.status = status]
<1>1. /\ UNCHANGED <<stored, saved, confirmed, orphans, refreshing>>
      /\ remembered' \in {remembered, session'.selected}
  BY DEF RecommendationReply, Show, records
<1>2. /\ session \in Sessions /\ call \in AnyCall
      /\ call \in {session.call, NoCall}
  BY CallFacts, CallTyped
<1>3. /\ ends \in Sessions /\ ends.call = call /\ ends.recommendation = r
      /\ ends.load = session.load /\ ends.known = session.known
      /\ ends.selected = session.selected /\ ends.plan = session.plan
      /\ ends.preview = session.preview /\ ends.dialog = session.dialog
  BY <1>2 DEF Sessions
<1>4. \/ session' = [ends EXCEPT !.recommendation.status =
                        IF r.of = session.plan THEN "ready" ELSE "dropped"]
      \/ session' = [ends EXCEPT !.recommendation.status = "error",
                                 !.error = TRUE]
  BY <1>2 DEF RecommendationReply, Show, Sessions
<1> HIDE DEF call, ends
<1>5. \A status \in Statuses :
         Rec(status) \in [status : Statuses, of : Plans \cup {NoPlan}]
  BY <1>2 DEF Sessions
<1>6. \E status \in Statuses :
         \/ session' = [ends EXCEPT !.recommendation = Rec(status)]
         \/ session' = [ends EXCEPT !.recommendation = Rec(status),
                                    !.error = TRUE]
  BY <1>3, <1>4 DEF Statuses, Sessions
<1>7. session' \in Sessions
  <2>1. PICK rec \in [status : Statuses, of : Plans \cup {NoPlan}] :
           \/ session' = [ends EXCEPT !.recommendation = rec]
           \/ session' = [ends EXCEPT !.recommendation = rec, !.error = TRUE]
    BY <1>5, <1>6
  <2> HIDE DEF Rec
  <2> QED
    BY <1>3, <2>1 DEF Sessions
<1> HIDE DEF Rec
<1>8. /\ session'.load = session.load /\ session'.known = session.known
      /\ session'.selected = session.selected /\ session'.plan = session.plan
      /\ session'.preview = session.preview /\ session'.dialog = session.dialog
      /\ session'.call = call
  BY <1>3, <1>6 DEF Sessions
<1>9. Fits(session', stored, confirmed)
  BY <1>2, <1>7, <1>8, CallTyped, Calm DEF IInv
<1> QED
  BY <1>1, <1>9, Shown

LEMMA ExportReplyInv == ASSUME IInv, ExportReply PROVE IInv'
<1>1. /\ UNCHANGED <<stored, saved, confirmed, orphans, refreshing>>
      /\ remembered' \in {remembered, session'.selected}
  BY DEF ExportReply, Answers, Show, records
<1>2. \/ session' = Failed(session)
      \/ session' = [session EXCEPT !.call = NoCall, !.receipt = session.selected]
  BY DEF ExportReply, Answers, Show
<1>3. CASE session' = [session EXCEPT !.call = NoCall, !.receipt = session.selected]
  <2>1. session' \in Sessions /\ session'.call = NoCall
    BY <1>3, CallTyped, CallFacts DEF Sessions
  <2>2. /\ session'.load = session.load /\ session'.known = session.known
        /\ session'.selected = session.selected /\ session'.plan = session.plan
        /\ session'.preview = session.preview /\ session'.dialog = session.dialog
    BY <1>3, CallFacts DEF Sessions
  <2>3. Fits(session', stored, confirmed)
    BY <2>1, <2>2, CallTyped, Calm DEF IInv
  <2> QED
    BY <1>1, <2>3, Shown
<1> QED
  BY <1>1, <1>2, <1>3, FailureInv

LEMMA FirmwareReplyInv == ASSUME IInv, FirmwareReply PROVE IInv'
<1>1. /\ UNCHANGED <<stored, saved, confirmed, orphans, refreshing>>
      /\ remembered' \in {remembered, session'.selected}
  BY DEF FirmwareReply, Answers, Show, records
<1>2. \/ session' = Failed(session)
      \/ \E p \in Profiles :
            session' = [session EXCEPT !.call = NoCall, !.firmware = p]
  BY DEF FirmwareReply, Answers, Show
<1>3. ASSUME NEW p \in Profiles,
             session' = [session EXCEPT !.call = NoCall, !.firmware = p]
      PROVE  Fits(session', stored, confirmed)
  <2>1. session' \in Sessions /\ session'.call = NoCall
    BY <1>3, CallTyped, CallFacts DEF Sessions, AnyProfile
  <2>2. /\ session'.load = session.load /\ session'.known = session.known
        /\ session'.selected = session.selected /\ session'.plan = session.plan
        /\ session'.preview = session.preview /\ session'.dialog = session.dialog
    BY <1>3, CallFacts DEF Sessions
  <2> QED
    BY <2>1, <2>2, CallTyped, Calm DEF IInv
<1> QED
  BY <1>1, <1>2, <1>3, FailureInv, Shown

LEMMA ProfileReplyInv == ASSUME IInv, ProfileReply PROVE IInv'
<1>0. PICK p : p = session.call.of.profile
  OBVIOUS
<1> DEFINE r == IF stored[p] = -1 THEN 0 ELSE stored[p]
           plan == [profile |-> p, revision |-> r]
<1>1. /\ session.call.op = "profile"
      /\ stored' = [stored EXCEPT ![p] = r] \/ stored' = stored
      /\ UNCHANGED <<saved, confirmed, orphans, refreshing>>
      /\ remembered' \in {remembered, session'.selected}
      /\ \/ session' = Failed(session)
         \/ /\ stored' = [stored EXCEPT ![p] = r]
            /\ session' = [ session EXCEPT
                              !.call = NoCall, !.known = @ \cup {p},
                              !.selected = p, !.plan = plan,
                              !.creations = @ + 1 ]
  BY <1>0 DEF ProfileReply, Show
<1>2. /\ session \in Sessions /\ session.load = "none"
      /\ Fits(session, stored, confirmed)
      /\ p \in Profiles
  BY <1>0, <1>1, CallFacts DEF IInv, Fits, Waits
<1>3. /\ stored \in Revisions /\ confirmed \in Confirmations
      /\ stored[p] \in -1..10 /\ Last = 10 /\ r \in 0..10
  BY <1>2, StepFacts DEF IInv, RecordsOK, Revisions
<1>4. stored' \in Revisions /\ \A q \in Profiles : stored[q] <= stored'[q]
  BY <1>1, <1>2, <1>3 DEF Revisions
<1>5. Vouched(stored', confirmed)
  <2>1. \A q \in Profiles : \A i \in 1..stored'[q] : i \in 1..stored[q]
    BY <1>1, <1>2, <1>3, <1>4 DEF Revisions
  <2> QED
    BY <2>1 DEF Vouched, IInv, RecordsOK
<1>6. RecordsOK' /\ Growing
  BY <1>1, <1>4, <1>5 DEF RecordsOK, Growing, IInv
<1>7. Fits(session, stored', confirmed)
  BY <1>2, <1>3, <1>4, FitsGrows
<1>8. CASE session' = Failed(session)
  <2>1. Fits(session', stored', confirmed)
    BY <1>7, <1>8, FailedFits
  <2> QED
    BY <1>1, <1>6, <2>1, Closing DEF IInv
<1>9. CASE /\ stored' = [stored EXCEPT ![p] = r]
           /\ session' = [ session EXCEPT
                             !.call = NoCall, !.known = @ \cup {p},
                             !.selected = p, !.plan = plan,
                             !.creations = @ + 1 ]
  <2>1. plan \in Plans /\ plan # NoPlan /\ plan.profile = p /\ plan.revision = r
    BY <1>2, <1>3, StepFacts DEF Plans, Last
  <2>2. stored'[p] = r
    BY <1>2, <1>3, <1>9 DEF Revisions
  <2> HIDE DEF plan, r
  <2>3. session' \in Sessions
    <3>1. /\ session.creations + 1 \in Nat
          /\ session.known \cup {p} \in SUBSET Profiles
          /\ NoCall \in AnyCall /\ p \in AnyProfile
      BY <1>2, CallTyped DEF Sessions, AnyProfile
    <3> QED
      BY <1>2, <1>9, <2>1, <3>1 DEF Sessions
  <2>4. /\ session'.load = "none" /\ session'.known = session.known \cup {p}
        /\ session'.selected = p /\ session'.plan = plan
        /\ session'.call = NoCall /\ session'.dialog = session.dialog
        /\ session'.preview = session.preview
    BY <1>2, <1>9 DEF Sessions
  <2>5. Knows(session', stored')
    BY <1>3, <1>7, <2>1, <2>2, <2>4 DEF Fits, Knows, r
  <2>6. Waits(session', confirmed)
    BY <1>2, <2>1, <2>4, CallTyped DEF Fits, Waits, Backed, OnThePlan, Recording
  <2>7. Fits(session', stored', confirmed)
    BY <2>3, <2>5, <2>6 DEF Fits
  <2> QED
    BY <1>1, <1>6, <2>7, Closing DEF IInv
<1> QED
  BY <1>1, <1>8, <1>9

LEMMA LoadFailsInv ==
    ASSUME IInv, LoadFails,
           UNCHANGED <<stored, saved, confirmed, orphans, refreshing>>
    PROVE  IInv'
<1>1. /\ session' = [session EXCEPT !.load = "none", !.error = TRUE]
      /\ remembered' \in {remembered, session'.selected}
  BY DEF LoadFails, Show
<1>2. session \in Sessions /\ Fits(session, stored, confirmed)
  BY CallFacts DEF IInv
<1>3. /\ session' \in Sessions
      /\ session'.load = "none" /\ session'.known = session.known
      /\ session'.selected = session.selected /\ session'.plan = session.plan
      /\ session'.preview = session.preview /\ session'.dialog = session.dialog
      /\ session'.call = session.call
  BY <1>1, <1>2 DEF Sessions
<1>4. Fits(session', stored, confirmed)
  BY <1>2, <1>3 DEF Fits, Knows, Waits
<1> QED
  BY <1>1, <1>4, Shown

LEMMA ListReplyInv == ASSUME IInv, ListReply PROVE IInv'
<1> DEFINE known == {p \in Profiles : stored[p] >= 0}
<1>1. /\ session.load = "list"
      /\ UNCHANGED <<stored, saved, confirmed, orphans, refreshing>>
      /\ \/ LoadFails
         \/ /\ session' = [session EXCEPT !.load = "none"]
            /\ remembered' \in {remembered, session'.selected}
         \/ \E p \in known :
               /\ session' = [ session EXCEPT !.load = "plan", !.known = known,
                                              !.selected = p ]
               /\ remembered' \in {remembered, session'.selected}
  BY DEF ListReply, Show, records
<1>2. /\ session \in Sessions /\ Fits(session, stored, confirmed)
      /\ session.plan = NoPlan /\ session.call.op = "none"
      /\ session.dialog = "none" /\ known \subseteq Profiles
  BY <1>1, CallFacts DEF IInv, Fits, Knows
<1>3. CASE /\ session' = [session EXCEPT !.load = "none"]
           /\ remembered' \in {remembered, session'.selected}
  <2>1. /\ session' \in Sessions
        /\ session'.load = "none" /\ session'.known = session.known
        /\ session'.selected = session.selected /\ session'.plan = session.plan
        /\ session'.preview = session.preview /\ session'.dialog = session.dialog
        /\ session'.call = session.call
    BY <1>2, <1>3 DEF Sessions
  <2>2. Fits(session', stored, confirmed)
    BY <1>2, <2>1 DEF Fits, Knows, Waits
  <2> QED
    BY <1>1, <1>3, <2>2, Shown
<1>4. ASSUME NEW p \in known,
             session' = [ session EXCEPT !.load = "plan", !.known = known,
                                         !.selected = p ],
             remembered' \in {remembered, session'.selected}
      PROVE  IInv'
  <2>1. \A q \in known : stored[q] >= 0
    OBVIOUS
  <2> HIDE DEF known
  <2>2. /\ session' \in Sessions
        /\ session'.load = "plan" /\ session'.known = known
        /\ session'.selected = p /\ session'.plan = NoPlan
        /\ session'.preview = session.preview /\ session'.dialog = "none"
        /\ session'.call = session.call
    BY <1>2, <1>4 DEF Sessions, AnyProfile
  <2>3. Fits(session', stored, confirmed)
    BY <1>2, <2>1, <2>2 DEF Fits, Knows, Waits
  <2> QED
    BY <1>1, <1>4, <2>3, Shown
<1> QED
  BY <1>1, <1>3, <1>4, LoadFailsInv

LEMMA PlanReplyInv == ASSUME IInv, PlanReply PROVE IInv'
<1> DEFINE plan == RecordedAt(session.selected)
           loads == [session EXCEPT !.load = "none", !.plan = plan]
<1>1. /\ session.load = "plan"
      /\ UNCHANGED <<stored, saved, confirmed, orphans, refreshing>>
      /\ \/ LoadFails
         \/ /\ session' = Recommend(loads)
            /\ remembered' \in {remembered, session'.selected}
  BY DEF PlanReply, Show, records
<1>2. /\ session \in Sessions /\ Fits(session, stored, confirmed)
      /\ session.plan = NoPlan /\ session.call.op = "none"
      /\ session.dialog = "none" /\ session.selected \in session.known
      /\ session.selected \in Profiles /\ stored[session.selected] >= 0
      /\ stored \in Revisions
  BY <1>1, CallFacts DEF IInv, Fits, Knows, Sessions, RecordsOK
<1>3. /\ plan \in Plans /\ plan # NoPlan /\ plan.profile = session.selected
      /\ plan.revision = stored[session.selected]
      /\ plan.revision <= stored[session.selected]
  <2>1. stored[session.selected] \in 0..Last /\ stored[session.selected] \in Int
    BY <1>2, StepFacts DEF Revisions
  <2>2. stored[session.selected] <= stored[session.selected]
    BY <2>1
  <2>3. plan = [profile |-> session.selected, revision |-> stored[session.selected]]
    BY DEF RecordedAt
  <2>4. plan \in Plans
    BY <1>2, <2>1, <2>3 DEF Plans, Last
  <2> QED
    BY <2>2, <2>3, <2>4, StepFacts
<1> HIDE DEF plan
<1>4. CASE /\ session' = Recommend(loads)
           /\ remembered' \in {remembered, session'.selected}
  <2> DEFINE rec == [ status |-> IF activeStep(loads) = "writeNvstrapsConfiguration"
                                 THEN "pending" ELSE "idle",
                      of |-> loads.plan ]
  <2>1. loads \in Sessions /\ loads.plan = plan
    BY <1>2, <1>3 DEF Sessions
  <2>2. rec \in [status : Statuses, of : Plans \cup {NoPlan}]
    BY <1>3, <2>1 DEF Statuses
  <2>3. session' = [session EXCEPT !.load = "none", !.plan = plan,
                                   !.recommendation = rec]
    BY <1>2, <1>4 DEF Recommend, Sessions
  <2> HIDE DEF rec
  <2>4. session' \in Sessions
    BY <1>2, <1>3, <2>2, <2>3 DEF Sessions
  <2>5. /\ session'.load = "none" /\ session'.known = session.known
        /\ session'.selected = session.selected /\ session'.plan = plan
        /\ session'.preview = session.preview /\ session'.dialog = "none"
        /\ session'.call = session.call
    BY <1>2, <2>3 DEF Sessions
  <2>6. Knows(session', stored)
    BY <1>2, <1>3, <2>5 DEF Fits, Knows
  <2>7. Waits(session', confirmed)
    BY <1>2, <2>5 DEF Fits, Waits, OnThePlan, Recording
  <2> QED
    BY <1>1, <1>4, <2>4, <2>6, <2>7, Shown DEF Fits
<1> QED
  BY <1>1, <1>4, LoadFailsInv

LEMMA RefreshedInv == ASSUME IInv, Refreshed PROVE IInv'
<1>1. /\ session' = NewSession
      /\ remembered' \in {remembered, session'.selected}
      /\ UNCHANGED <<stored, saved, confirmed>> /\ refreshing' = FALSE
      /\ orphans' = IF session.call.op \in Recording
                    THEN orphans \cup {session.call} ELSE orphans
  BY DEF Refreshed, Show, records
<1>2. \A c \in orphans' : c \in orphans \/ OrphanFits(c, confirmed)
  BY <1>1, CallFacts
<1>3. RecordsOK'
  BY <1>1 DEF IInv, RecordsOK
<1>4. Growing
  BY <1>1, StepFacts DEF Growing, IInv, RecordsOK, Revisions
<1>5. Fits(session', stored', confirmed')
  BY <1>1, NewSessionFits
<1> QED
  BY <1>1, <1>2, <1>3, <1>4, <1>5, Closing

-----------------------------------------------------------------------------

\* A step of the page that leaves the session as it is.
LEMMA TurnInv ==
    ASSUME IInv, UNCHANGED <<stored, saved, confirmed, orphans, refreshing>>,
           session' = session, remembered' \in {remembered, session'.selected}
    PROVE  IInv'
BY Shown DEF IInv

\* A session that changes only what the page does not act on, or closes a
\* dialog.
LEMMA CalmInv ==
    ASSUME IInv, UNCHANGED <<stored, saved, confirmed, orphans, refreshing>>,
           session' \in Sessions, session'.load = session.load,
           session'.known = session.known,
           session'.selected = session.selected,
           session'.plan = session.plan, session'.preview = session.preview,
           session'.call = session.call,
           session'.dialog \in {session.dialog, "none"},
           remembered' \in {remembered, session'.selected}
    PROVE  IInv'
<1>1. Fits(session', stored, confirmed)
  BY Calm DEF IInv
<1> QED
  BY <1>1, Shown

\* What Run leaves of the session.
LEMMA RunFacts ==
    ASSUME IInv, NEW c \in AnyCall
    PROVE  LET t == Run(c)
           IN  /\ t \in Sessions /\ t.call = c
               /\ t.load = session.load /\ t.known = session.known
               /\ t.selected = session.selected /\ t.plan = session.plan
               /\ t.preview = session.preview /\ t.dialog = session.dialog
BY CallFacts DEF Run, Sessions

\* A command sent from the page, with nothing to confirm.
LEMMA SendInv ==
    ASSUME IInv, UNCHANGED <<stored, saved, confirmed, orphans, refreshing>>,
           NEW c \in AnyCall, session' = Run(c),
           remembered' \in {remembered, session'.selected},
           session.load = "none",
           c.op \in OnThePlan => session.plan # NoPlan /\ c.of = session.plan,
           c.op = "profile" => c.of.profile \in Profiles,
           Backed(c, confirmed)
    PROVE  IInv'
<1>1. Fits(session, stored, confirmed)
  BY DEF IInv
<1>2. Fits(session', stored, confirmed)
  BY <1>1, RunFacts, Asked
<1> QED
  BY <1>2, Shown

\* A command that confirms steps of the plan on the page.
LEMMA ConfirmInv ==
    ASSUME IInv, UNCHANGED <<stored, saved, orphans, refreshing>>,
           NEW c \in AnyCall, NEW p \in Profiles, NEW steps \in SUBSET Explicit,
           Confirms(p, steps),
           session' \in Sessions, session'.call = c,
           session'.load = session.load, session'.known = session.known,
           session'.selected = session.selected, session'.plan = session.plan,
           session'.preview = session.preview,
           session'.dialog \in {session.dialog, "none"},
           remembered' \in {remembered, session'.selected},
           session.load = "none", c.op # "profile",
           c.op \in OnThePlan => session.plan # NoPlan /\ c.of = session.plan,
           Backed(c, confirmed')
    PROVE  IInv'
<1>1. RecordsOK' /\ Growing /\ Fits(session, stored', confirmed')
  BY ConfirmsMore
<1>2. Fits(session', stored', confirmed')
  BY <1>1, Asked
<1> QED
  BY <1>1, <1>2, Closing DEF IInv

\* A command on the plan of the page that asks for no confirmation.
LEMMA PlainCall ==
    ASSUME IInv, session.plan # NoPlan,
           NEW op \in Operations \ {"preview", "confirm", "saveConfig", "profile"}
    PROVE  LET c == Call(op, session.plan)
           IN  /\ c \in AnyCall /\ c.op = op /\ c.of = session.plan
               /\ Backed(c, confirmed)
<1>1. session.plan \in AnyPlan
  BY StepFacts, CallFacts DEF Sessions
<1> QED
  BY <1>1, CallTyped DEF Backed

LEMMA AutoCheckInv ==
    ASSUME IInv, UNCHANGED <<stored, saved, confirmed, orphans, refreshing>>,
           session.load = "none",
           activeStep(session) \in DriverSteps
               \cup {"rebootAfterConfiguration", "verifyResizableBar"},
           session' = autoCheck, remembered' \in {remembered, session'.selected}
    PROVE  IInv'
<1> DEFINE op == CheckOf(activeStep(session))
           d == Call(op, session.plan)
           c == [d EXCEPT !.auto = TRUE]
<1>1. session.plan # NoPlan
  BY ScreenFacts DEF DriverSteps
<1>2. op \in {"verifyDriver", "verifyBoot", "collectBar"}
  BY DEF CheckOf, DriverSteps
<1>3. op \in Operations \ {"preview", "confirm", "saveConfig", "profile"}
  BY <1>2 DEF Operations, Recording
<1> HIDE DEF op
<1>4. d \in AnyCall /\ d.op = op /\ d.of = session.plan /\ Backed(d, confirmed)
  BY <1>1, <1>3, PlainCall
<1> HIDE DEF d
<1>5. c \in AnyCall /\ c.op = op /\ c.of = session.plan /\ Backed(c, confirmed)
  BY <1>2, <1>4 DEF AnyCall, Backed
<1> HIDE DEF c
<1>6. session' = [Run(c) EXCEPT !.failedCheck = "none"]
  BY DEF autoCheck, c, d, op
<1>7. /\ session' \in Sessions /\ session'.call = c
      /\ session'.load = session.load /\ session'.known = session.known
      /\ session'.selected = session.selected /\ session'.plan = session.plan
      /\ session'.preview = session.preview /\ session'.dialog = session.dialog
  BY <1>5, <1>6, RunFacts DEF Sessions, StepIds
<1>8. Fits(session', stored, confirmed)
  BY <1>1, <1>2, <1>5, <1>7, Asked DEF IInv
<1> QED
  BY <1>8, Shown

-----------------------------------------------------------------------------

LEMMA EffectInv == ASSUME IInv, Effect PROVE IInv'
<1>1. CASE RememberExport
  BY <1>1, TurnInv DEF RememberExport, Show, records
<1>2. CASE EndNew
  BY <1>2, TurnInv DEF EndNew, Show, Keeps
<1>3. CASE Unclaim
  BY <1>3, TurnInv DEF Unclaim, Show, Keeps
<1>4. CASE AutoCheck
  <2>1. /\ UNCHANGED <<stored, saved, confirmed, orphans, refreshing>>
        /\ Mounted /\ Screen \in AUTO_CHECK_SCREENS
        /\ session' = autoCheck
        /\ remembered' \in {remembered, session'.selected}
    BY <1>4 DEF AutoCheck, CheckDue, Show, Keeps
  <2>2. /\ session.load = "none"
        /\ activeStep(session) \in DriverSteps
              \cup {"rebootAfterConfiguration", "verifyResizableBar"}
    BY <2>1, ScreenFacts DEF Mounted, loaded
  <2> QED
    BY <2>1, <2>2, AutoCheckInv
<1>5. CASE AutoPrepare
  <2> DEFINE c == Call("prepare", session.plan)
  <2>1. /\ UNCHANGED <<stored, saved, confirmed, orphans, refreshing>>
        /\ Mounted /\ Screen = "making"
        /\ session' = Run(c)
        /\ remembered' \in {remembered, session'.selected}
    BY <1>5 DEF AutoPrepare, PrepareDue, Show, Keeps
  <2>2. session.load = "none" /\ session.plan # NoPlan
    BY <2>1, ScreenFacts DEF Mounted, loaded
  <2>3. "prepare" \in Operations \ {"preview", "confirm", "saveConfig", "profile"}
    BY DEF Operations, Recording
  <2>4. /\ c \in AnyCall /\ c.op = "prepare" /\ c.of = session.plan
        /\ Backed(c, confirmed)
    BY <2>2, <2>3, PlainCall
  <2> HIDE DEF c
  <2> QED
    BY <2>1, <2>2, <2>4, SendInv
<1> QED
  BY <1>1, <1>2, <1>3, <1>4, <1>5 DEF Effect

-----------------------------------------------------------------------------

LEMMA OnFacts ==
    ASSUME NEW screen, On(screen)
    PROVE  /\ session.load = "none" /\ Screen = screen
           /\ session.call.op = "none"
BY DEF On, Mounted, loaded, Open, busyAction

\* A button that sends a command on the plan of the page.
LEMMA PlainCommandInv ==
    ASSUME IInv, NEW op \in Operations \ {"preview", "confirm", "saveConfig",
                                          "profile"},
           session.plan # NoPlan, session.load = "none",
           session' = Run(Call(op, session.plan)),
           remembered' \in {remembered, session'.selected},
           UNCHANGED <<stored, saved, confirmed, orphans, refreshing>>
    PROVE  IInv'
<1> DEFINE c == Call(op, session.plan)
<1>1. /\ c \in AnyCall /\ c.op = op /\ c.of = session.plan
      /\ Backed(c, confirmed)
  BY PlainCall
<1> HIDE DEF c
<1>2. session' = Run(c)
  BY DEF c
<1> QED
  BY <1>1, <1>2, SendInv

LEMMA ButtonsInv ==
    ASSUME IInv,
           \/ Prepare \/ SaveToUsb \/ RestartIntoBios \/ RestartNow
           \/ verifyConfigurationBoot \/ CollectAgain
    PROVE  IInv'
<1>1. \E op \in {"prepare", "export", "previewReboot",
                 "previewConfigurationReboot", "verifyBoot", "collectBar"} :
         /\ session' = Run(Call(op, session.plan))
         /\ remembered' \in {remembered, session'.selected}
         /\ UNCHANGED <<stored, saved, confirmed, orphans, refreshing>>
  BY DEF Prepare, SaveToUsb, RestartIntoBios, RestartNow,
         verifyConfigurationBoot, CollectAgain, Command, Sends, Show, records
<1>2. \E screen \in {"making", "save", "guide", "missing", "restart",
                     "checkingResult"} : On(screen)
  BY DEF Prepare, SaveToUsb, RestartIntoBios, RestartNow,
         verifyConfigurationBoot, CollectAgain
<1>3. session.load = "none" /\ session.plan # NoPlan
  BY <1>2, OnFacts, ScreenFacts
<1>4. PICK op \in {"prepare", "export", "previewReboot",
                   "previewConfigurationReboot", "verifyBoot", "collectBar"} :
         /\ session' = Run(Call(op, session.plan))
         /\ remembered' \in {remembered, session'.selected}
         /\ UNCHANGED <<stored, saved, confirmed, orphans, refreshing>>
  BY <1>1
<1>5. op \in Operations \ {"preview", "confirm", "saveConfig", "profile"}
  BY DEF Operations, Recording
<1> QED
  BY <1>3, <1>4, <1>5, PlainCommandInv

LEMMA FirmwareButtonsInv ==
    ASSUME IInv, ChooseFirmware \/ CreateProfile PROVE IInv'
<1>1. CASE ChooseFirmware
  <2> DEFINE c == Call("firmware", NoPlan)
  <2>1. /\ session.load = "none" /\ session' = Run(c)
        /\ remembered' \in {remembered, session'.selected}
        /\ UNCHANGED <<stored, saved, confirmed, orphans, refreshing>>
    BY <1>1, OnFacts DEF ChooseFirmware, Command, Sends, Show, records
  <2>2. c \in AnyCall /\ c.op = "firmware"
    BY CallTyped, StepFacts DEF Operations
  <2> HIDE DEF c
  <2>3. Backed(c, confirmed)
    BY <2>2 DEF Backed
  <2> QED
    BY <2>1, <2>2, <2>3, SendInv DEF OnThePlan, Recording
<1>2. CASE CreateProfile
  <2> DEFINE of == [profile |-> session.firmware, revision |-> -1]
             c == Call("profile", of)
  <2>1. /\ session.load = "none" /\ session' = Run(c)
        /\ remembered' \in {remembered, session'.selected}
        /\ UNCHANGED <<stored, saved, confirmed, orphans, refreshing>>
        /\ Screen = "routes"
    BY <1>2, OnFacts DEF CreateProfile, Command, Sends, Show, records
  <2>2. session.firmware \in Profiles
    BY <2>1, ScreenFacts, CallFacts DEF Sessions, AnyProfile
  <2>3. of \in AnyPlan /\ of.profile \in Profiles
    BY <2>2, StepFacts DEF AnyPlan, AnyProfile
  <2> HIDE DEF of
  <2>4. "profile" \in Operations
    BY DEF Operations
  <2>5. c \in AnyCall /\ c.op = "profile" /\ c.of.profile \in Profiles
    BY <2>3, <2>4, CallTyped
  <2> HIDE DEF c
  <2>6. Backed(c, confirmed)
    BY <2>5 DEF Backed
  <2> QED
    BY <2>1, <2>5, <2>6, SendInv DEF OnThePlan, Recording
<1> QED
  BY <1>1, <1>2

\* The return record: what its button names is confirmed with the command.
LEMMA HandoffInv == ASSUME IInv, NEW setup \in BOOLEAN, RecordHandoff(setup) PROVE IInv'
<1> DEFINE flash == activeStep(session) = "flashWithVendorRoute"
           d == Call("preview", session.plan)
           c == [d EXCEPT !.setup = setup]
           p == session.plan.profile
           steps == (IF flash THEN {"flashWithVendorRoute"} ELSE {})
                    \cup (IF setup THEN {"configureFirmwareSetup"} ELSE {})
<1>1. /\ On("returnRecord") /\ (setup \/ flash)
      /\ session' = Run(c) /\ remembered' \in {remembered, session'.selected}
      /\ UNCHANGED <<stored, saved, orphans, refreshing>>
      /\ Confirms(p, steps)
  BY DEF RecordHandoff, Sends, Show, records
<1>2. /\ session.load = "none" /\ session.plan # NoPlan
      /\ activeStep(session) \in Handoff
  BY <1>1, OnFacts, ScreenFacts
<1>3. session.plan \in Plans /\ p \in Profiles
  BY <1>2, CallFacts DEF Sessions, Plans
<1>4. steps \in SUBSET Explicit
  BY DEF Explicit, Handoff
<1>5. /\ c \in AnyCall /\ c.op = "preview" /\ c.of = session.plan
      /\ c.setup = setup
  <2>1. d \in AnyCall /\ d.op = "preview" /\ d.of = session.plan
    BY <1>3, StepFacts, CallTyped DEF Operations
  <2> HIDE DEF d
  <2> QED
    BY <2>1 DEF AnyCall
<1>6. confirmed'[p] = confirmed[p] \cup steps
  BY <1>1, <1>3, <1>4, ConfirmsMore
<1>7. /\ setup => "configureFirmwareSetup" \in confirmed'[p]
      /\ activeStep(session) \in confirmed'[p]
  BY <1>1, <1>2, <1>6 DEF Handoff
<1> HIDE DEF c
<1>8. Backed(c, confirmed')
  BY <1>5, <1>7 DEF Backed, activeStep
<1>9. /\ session' \in Sessions /\ session'.call = c
      /\ session'.load = session.load /\ session'.known = session.known
      /\ session'.selected = session.selected /\ session'.plan = session.plan
      /\ session'.preview = session.preview /\ session'.dialog = session.dialog
  BY <1>1, <1>5, RunFacts
<1> HIDE DEF steps, p
<1> QED
  BY <1>1, <1>2, <1>3, <1>4, <1>5, <1>8, <1>9, ConfirmInv

LEMMA SaveConfigInv == ASSUME IInv, SaveConfig PROVE IInv'
<1> DEFINE c == Call("saveConfig", session.plan)
           p == session.plan.profile
           steps == {"writeNvstrapsConfiguration"}
<1>1. /\ On("turnOn")
      /\ session' = Run(c) /\ remembered' \in {remembered, session'.selected}
      /\ UNCHANGED <<stored, saved, orphans, refreshing>>
      /\ Confirms(p, steps)
  BY DEF SaveConfig, Sends, Show, records
<1>2. session.load = "none" /\ session.plan # NoPlan
  BY <1>1, OnFacts, ScreenFacts
<1>3. session.plan \in Plans /\ p \in Profiles
  BY <1>2, CallFacts DEF Sessions, Plans
<1>4. steps \in SUBSET Explicit
  BY DEF Explicit
<1>5. c \in AnyCall /\ c.op = "saveConfig" /\ c.of = session.plan
  BY <1>3, StepFacts, CallTyped DEF Operations, Recording
<1>6. "writeNvstrapsConfiguration" \in confirmed'[p]
  BY <1>1, <1>3, <1>4, ConfirmsMore
<1> HIDE DEF c
<1>7. Backed(c, confirmed')
  BY <1>5, <1>6 DEF Backed
<1>8. /\ session' \in Sessions /\ session'.call = c
      /\ session'.load = session.load /\ session'.known = session.known
      /\ session'.selected = session.selected /\ session'.plan = session.plan
      /\ session'.preview = session.preview /\ session'.dialog = session.dialog
  BY <1>1, <1>5, RunFacts
<1> HIDE DEF steps, p
<1> QED
  BY <1>1, <1>2, <1>3, <1>4, <1>5, <1>7, <1>8, ConfirmInv

\* The dialog of the games page: what it previewed is what is confirmed.
LEMMA ConfirmManualInv == ASSUME IInv, ConfirmManual PROVE IInv'
<1> DEFINE d == Call("confirm", session.plan)
           c == [d EXCEPT !.seen = session.preview]
           p == session.preview.profile
           step == ActiveAt(session.preview.revision)
           steps == {step}
<1>1. /\ session.preview = session.plan /\ session.dialog = "manual"
      /\ session' = [Run(c) EXCEPT !.dialog = "none"]
      /\ remembered' \in {remembered, session'.selected}
      /\ UNCHANGED <<stored, saved, orphans, refreshing>>
      /\ Confirms(p, steps)
  BY DEF ConfirmManual, Matches, Confirming, Show, records
<1>2. /\ session \in Sessions /\ session.plan # NoPlan
      /\ session.preview \in Plans /\ step = OPTIONAL_FINAL_STEP
      /\ session.load = "none"
  BY <1>1, CallFacts DEF IInv, Fits, Waits, Knows
<1>3. session.plan \in Plans /\ p \in Profiles
  BY <1>1, <1>2 DEF Plans
<1>4. steps \in SUBSET Explicit
  BY <1>2 DEF Explicit
<1>5. /\ c \in AnyCall /\ c.op = "confirm" /\ c.of = session.plan
      /\ ~c.setup /\ c.seen = session.preview
  <2>1. d \in AnyCall /\ d.op = "confirm" /\ d.of = session.plan /\ ~d.setup
    BY <1>3, StepFacts, CallTyped DEF Operations, Recording
  <2>2. session.preview \in AnyPlan
    BY <1>2, StepFacts
  <2> HIDE DEF d
  <2> QED
    BY <2>1, <2>2 DEF AnyCall
<1>6. step \in Explicit \cap confirmed'[p]
  BY <1>1, <1>3, <1>4, ConfirmsMore
<1> HIDE DEF c
<1>7. Backed(c, confirmed')
  BY <1>1, <1>5, <1>6 DEF Backed
<1>8. /\ session' \in Sessions /\ session'.call = c
      /\ session'.load = session.load /\ session'.known = session.known
      /\ session'.selected = session.selected /\ session'.plan = session.plan
      /\ session'.preview = session.preview /\ session'.dialog = "none"
  BY <1>1, <1>5, RunFacts DEF Sessions, Dialogs
<1> HIDE DEF steps, p
<1> QED
  BY <1>1, <1>2, <1>3, <1>4, <1>5, <1>7, <1>8, ConfirmInv

LEMMA OpenManualInv == ASSUME IInv, OpenManual PROVE IInv'
<1> DEFINE c == Call("preview", session.plan)
<1>1. /\ activeStep(session) = OPTIONAL_FINAL_STEP
      /\ session' = Run(c) /\ remembered' \in {remembered, session'.selected}
      /\ UNCHANGED <<stored, saved, confirmed, orphans, refreshing>>
  BY DEF OpenManual, Sends, Show, records
<1>2. session.plan \in Plans /\ session.plan # NoPlan /\ session.load = "none"
  BY <1>1, ScreenFacts, StepFacts DEF IInv, Fits, Knows, OPTIONAL_FINAL_STEP
<1>3. c \in AnyCall /\ c.op = "preview" /\ c.of = session.plan /\ ~c.setup
  BY <1>2, StepFacts, CallTyped DEF Operations
<1>4. ActiveAt(session.plan.revision) \notin Handoff
  BY <1>1 DEF activeStep, Handoff, OPTIONAL_FINAL_STEP
<1> HIDE DEF c
<1>5. Backed(c, confirmed)
  BY <1>3, <1>4 DEF Backed
<1> QED
  BY <1>1, <1>2, <1>3, <1>5, SendInv

-----------------------------------------------------------------------------

\* A closed application keeps the records and forgets the rest.
LEMMA ClosedInv ==
    ASSUME IInv, Closed, UNCHANGED stored,
           saved' \in [Profiles -> {"never", "thisBoot", "before"}]
    PROVE  IInv'
<1>1. /\ session' = NewSession /\ orphans' = {} /\ refreshing' = FALSE
      /\ remembered' \in {remembered, session'.selected}
      /\ UNCHANGED <<stored, confirmed>>
  BY DEF Closed, Show
<1>2. RecordsOK'
  BY <1>1 DEF IInv, RecordsOK
<1>3. Growing
  BY <1>1, StepFacts DEF Growing, IInv, RecordsOK, Revisions
<1>4. Fits(session', stored', confirmed')
  BY <1>1, NewSessionFits
<1> QED
  BY <1>1, <1>2, <1>3, <1>4, Closing

LEMMA BootInv == ASSUME IInv, NEW flash \in BOOLEAN, Boot(flash) PROVE IInv'
<1>1. /\ Closed /\ UNCHANGED stored
      /\ saved' = [p \in Profiles |-> Aged(saved[p])]
  BY DEF Boot
<1>2. saved' \in [Profiles -> {"never", "thisBoot", "before"}]
  BY <1>1 DEF IInv, RecordsOK, Aged
<1> QED
  BY <1>1, <1>2, ClosedInv

\* A dialog that only closes.
LEMMA DismissInv ==
    ASSUME IInv, UNCHANGED <<stored, saved, confirmed, orphans, refreshing>>,
           NEW error \in BOOLEAN,
           session' = [session EXCEPT !.dialog = "none", !.error = error],
           remembered' \in {remembered, session'.selected}
    PROVE  IInv'
<1>1. /\ session' \in Sessions /\ session'.call = session.call
      /\ session'.load = session.load /\ session'.known = session.known
      /\ session'.selected = session.selected /\ session'.plan = session.plan
      /\ session'.preview = session.preview /\ session'.dialog = "none"
  BY CallFacts DEF Sessions, Dialogs
<1> QED
  BY <1>1, CalmInv

LEMMA RestartsInv ==
    ASSUME IInv, \/ ConfirmReboot \/ ConfirmConfigurationReboot
                 \/ BootAgain \/ BootAnyway
    PROVE  IInv'
<1>1. \/ \E flash \in BOOLEAN : Boot(flash)
      \/ /\ session' = [session EXCEPT !.dialog = "none", !.error = TRUE]
         /\ remembered' \in {remembered, session'.selected}
         /\ UNCHANGED <<stored, saved, confirmed, orphans, refreshing>>
  <2>1. CASE ConfirmReboot
    <3>1. (activeStep(session) = "flashWithVendorRoute") \in BOOLEAN
      OBVIOUS
    <3> QED
      BY <2>1, <3>1 DEF ConfirmReboot, Show, records
  <2>2. CASE ConfirmConfigurationReboot
    BY <2>2 DEF ConfirmConfigurationReboot, Show, records
  <2>3. CASE BootAgain
    BY <2>3 DEF BootAgain
  <2>4. CASE BootAnyway
    BY <2>4 DEF BootAnyway
  <2> QED
    BY <2>1, <2>2, <2>3, <2>4
<1> QED
  BY <1>1, BootInv, DismissInv

LEMMA CloseModalsInv == ASSUME IInv, closeModals PROVE IInv'
<1>1. /\ session' = [session EXCEPT !.dialog = "none"]
      /\ remembered' \in {remembered, session'.selected}
      /\ UNCHANGED <<stored, saved, confirmed, orphans, refreshing>>
  BY DEF closeModals, Show, records
<1>2. /\ session' \in Sessions /\ session'.call = session.call
      /\ session'.load = session.load /\ session'.known = session.known
      /\ session'.selected = session.selected /\ session'.plan = session.plan
      /\ session'.preview = session.preview /\ session'.dialog = "none"
  BY <1>1, CallFacts DEF Sessions, Dialogs
<1> QED
  BY <1>1, <1>2, CalmInv

LEMMA CheckAgainInv == ASSUME IInv, CheckAgain PROVE IInv'
<1>1. /\ session' = autoCheck
      /\ remembered' \in {remembered, session'.selected}
      /\ UNCHANGED <<stored, saved, confirmed, orphans, refreshing>>
      /\ \/ On("checkFailed")
         \/ On("missing") /\ activeStep(session) \in DriverSteps
  BY DEF CheckAgain, Show, Keeps
<1>2. session.load = "none" /\ activeStep(session) \in DriverSteps
  BY <1>1, OnFacts, ScreenFacts
<1> QED
  BY <1>1, <1>2, AutoCheckInv

LEMMA RetryRecommendationInv == ASSUME IInv, RetryRecommendation PROVE IInv'
<1> DEFINE rec == [ status |-> IF activeStep(session) = "writeNvstrapsConfiguration"
                               THEN "pending" ELSE "idle",
                    of |-> session.plan ]
<1>1. /\ session' = [session EXCEPT !.recommendation = rec]
      /\ remembered' \in {remembered, session'.selected}
      /\ UNCHANGED <<stored, saved, confirmed, orphans, refreshing>>
  BY DEF RetryRecommendation, Recommend, Show, Keeps
<1>2. rec \in [status : Statuses, of : Plans \cup {NoPlan}]
  BY CallFacts DEF Statuses, Sessions
<1> HIDE DEF rec
<1>3. /\ session' \in Sessions /\ session'.call = session.call
      /\ session'.load = session.load /\ session'.known = session.known
      /\ session'.selected = session.selected /\ session'.plan = session.plan
      /\ session'.preview = session.preview /\ session'.dialog = session.dialog
  BY <1>1, <1>2, CallFacts DEF Sessions
<1> QED
  BY <1>1, <1>3, CalmInv

LEMMA SelectProfileInv ==
    ASSUME IInv, NEW p \in Profiles, SelectProfile(p) PROVE IInv'
<1>1. /\ p \in session.known
      /\ session' = IF p = session.selected THEN session
                    ELSE resetProfileProjection(session, p)
      /\ remembered' \in {remembered, session'.selected}
      /\ UNCHANGED <<stored, saved, confirmed, orphans, refreshing>>
  BY DEF SelectProfile, Show, records
<1>2. CASE session' = session
  BY <1>1, <1>2, TurnInv
<1>3. CASE session' = resetProfileProjection(session, p)
  <2>1. Fits(session', stored, confirmed)
    BY <1>1, <1>3, ResetFits DEF IInv
  <2> QED
    BY <1>1, <2>1, Shown
<1> QED
  BY <1>1, <1>2, <1>3

LEMMA StartNewInv == ASSUME IInv, startNewPreparation PROVE IInv'
<1>1. /\ session' = [session EXCEPT !.firmware = NoProfile]
      /\ remembered' \in {remembered, session'.selected}
      /\ UNCHANGED <<stored, saved, confirmed, orphans, refreshing>>
  BY DEF startNewPreparation, Show, records
<1>2. /\ session' \in Sessions /\ session'.call = session.call
      /\ session'.load = session.load /\ session'.known = session.known
      /\ session'.selected = session.selected /\ session'.plan = session.plan
      /\ session'.preview = session.preview /\ session'.dialog = session.dialog
  BY <1>1, CallFacts DEF Sessions, AnyProfile
<1> QED
  BY <1>1, <1>2, CalmInv

LEMMA TurnsInv ==
    ASSUME IInv, \/ GoInstall \/ Claim \/ ShowSteps \/ BackToCurrent
                 \/ \E page \in {"home", "install", "profiles", "games"} : Go(page)
    PROVE  IInv'
<1>1. /\ UNCHANGED <<stored, saved, confirmed, orphans, refreshing>>
      /\ session' = session /\ remembered' \in {remembered, session'.selected}
  BY DEF GoInstall, Claim, ShowSteps, BackToCurrent, Go, Turn, Show, records
<1> QED
  BY <1>1, TurnInv

LEMMA RefreshInv == ASSUME IInv, Refresh PROVE IInv'
<1>1. /\ UNCHANGED <<stored, saved, confirmed, orphans, session, remembered>>
      /\ refreshing' = TRUE
  BY DEF Refresh, records, storage
<1>2. RecordsOK'
  BY <1>1 DEF IInv, RecordsOK
<1>3. Growing
  BY <1>1, StepFacts DEF Growing, IInv, RecordsOK, Revisions
<1> QED
  BY <1>1, <1>2, <1>3, Closing DEF IInv

LEMMA RelaunchInv == ASSUME IInv, Relaunch PROVE IInv'
<1>1. Closed /\ UNCHANGED <<stored, saved>>
  BY DEF Relaunch, records
<1> QED
  BY <1>1, ClosedInv DEF IInv, RecordsOK

-----------------------------------------------------------------------------

LEMMA InitInv == Init => IInv
<1> SUFFICES ASSUME Init PROVE IInv
  OBVIOUS
<1>1. /\ stored \in [Profiles -> {-1, 0}]
      /\ saved = [p \in Profiles |-> "never"]
      /\ remembered = NoProfile /\ refreshing = FALSE
      /\ session = NewSession /\ orphans = {}
      /\ confirmed = [p \in Profiles |-> {}]
  BY DEF Init
<1>2. stored \in Revisions /\ confirmed \in Confirmations
  BY <1>1, StepFacts DEF Revisions, Confirmations
<1>3. Vouched(stored, confirmed)
  BY <1>1 DEF Vouched
<1>4. Fits(session, stored, confirmed)
  BY <1>1, NewSessionFits
<1> QED
  BY <1>1, <1>2, <1>3, <1>4 DEF IInv, RecordsOK, AnyProfile

LEMMA StepInv == IInv /\ [Next]_vars => IInv'
<1> SUFFICES ASSUME IInv, [Next]_vars PROVE IInv'
  OBVIOUS
<1>1. CASE UNCHANGED vars
  BY <1>1, TurnInv DEF vars
<1>2. CASE Replies
  BY <1>2, ReplyInv, FinishInv, PreviewReplyInv, RebootPreviewReplyInv,
     RecommendationReplyInv, ExportReplyInv, FirmwareReplyInv, ProfileReplyInv,
     ListReplyInv, PlanReplyInv, RefreshedInv DEF Replies
<1>3. CASE OrphanReply
  BY <1>3, OrphanReplyInv
<1>4. CASE Effect
  BY <1>4, EffectInv
<1>5. CASE RecordBoth \/ RecordInstallOnly
  BY <1>5, HandoffInv DEF RecordBoth, RecordInstallOnly
<1>6. CASE Follow
  BY <1>5, <1>6, FirmwareButtonsInv, ButtonsInv, RestartsInv, CheckAgainInv,
     RetryRecommendationInv, SaveConfigInv, TurnsInv, ConfirmManualInv,
     SelectProfileInv DEF Follow
<1>7. CASE Wander
  BY <1>5, <1>7, ButtonsInv, OpenManualInv, CloseModalsInv, RestartsInv,
     RelaunchInv, TurnsInv, StartNewInv, RefreshInv DEF Wander
<1> QED
  BY <1>1, <1>2, <1>3, <1>4, <1>6, <1>7 DEF Next

THEOREM InductiveInvariant == Spec => []IInv
BY InitInv, StepInv, PTL DEF Spec

\* Records, page and storage are of the right kind in every state.
THEOREM TypeCorrect == Spec => []TypeOK
<1>1. IInv => TypeOK
  <2> SUFFICES ASSUME IInv PROVE TypeOK
    OBVIOUS
  <2>1. session \in Sessions
    BY CallFacts
  <2> QED
    BY <2>1 DEF IInv, RecordsOK, TypeOK, Revisions, Last, AnyProfile, Sessions
<1> QED
  BY <1>1, InductiveInvariant, PTL

\* The flash, the settings, the configuration and the optional last step are
\* recorded only when a screen that showed this step of this profile was
\* confirmed: across refreshed snapshots, replies nobody waits for, restarts of
\* the application and previews of an older plan (verification-actions.ts).
THEOREM Confirmed == Spec => []OnlyConfirmed
<1>1. IInv => OnlyConfirmed
  BY DEF IInv, RecordsOK, Vouched, OnlyConfirmed
<1> QED
  BY <1>1, InductiveInvariant, PTL

\* Whatever replies are under way, the plan on the page is the selected
\* profile's and claims no step that is not stored (session.ts, Session.run).
THEOREM Selected == Spec => []ShowsTheSelected
<1>1. IInv => ShowsTheSelected
  BY DEF IInv, Fits, Knows, ShowsTheSelected
<1> QED
  BY <1>1, InductiveInvariant, PTL

=============================================================================

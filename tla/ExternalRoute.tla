--------------------------- MODULE ExternalRoute ----------------------------
(***************************************************************************)
(* The route without a BIOS change, over restarts: the page and the        *)
(* commands of the application, the files on the medium, the boot          *)
(* variables of the firmware, and the two EFI programs.                    *)
(*                                                                         *)
(*   src-tauri/src/external_boot/core.rs        prepare_diagnostic,        *)
(*       write_loader, make_permanent, remove, inspect, apply_boot_change  *)
(*   crates/nvstraps-external-tool/src/media.rs         files, ownership   *)
(*   crates/nvstraps-external-tool/src/boot_entries.rs  Boot#### entries   *)
(*   crates/nvstraps-external-efi/src/app.rs    diagnostic, loader         *)
(*   src/external-boot/model.ts, src/guided/external-boot.tsx   the page   *)
(*                                                                         *)
(* A command is the list of the writes it makes, each one file replaced or *)
(* removed or one firmware variable set, and it may end after any of them: *)
(* a write fails, the process dies or the power goes.  Nobody else writes  *)
(* the medium or the variables while it runs, so that it computes its      *)
(* writes when it starts.  A boot walks BootNext and BootOrder until       *)
(* Windows starts.  The register writes of the loader are ExternalLoader.  *)
(***************************************************************************)
EXTENDS Naturals, Sequences, FiniteSets, SequencesExt

CONSTANTS Machines,          \* the hardware a diagnostic may find
          Managers,          \* the versions of Windows Boot Manager
          FirstMachine,      \* the hardware at first
          FirstManager,      \* the boot manager at first
          Foreign,           \* Boot#### numbers of others, in BootOrder
          Hidden,            \* Boot#### numbers of others, not in BootOrder
          MaxNumber,         \* bound: the largest Boot#### number
          Databases,         \* what db may hold of the application
          Disturbances,      \* what may go wrong, see Disturb
          MaxDisturbances,   \* bound: how often something goes wrong
          None

\* The number of the Windows Boot Manager entry.
Windows == 0

Numbers == 0 .. MaxNumber

Stages == {"diagnostic", "loader"}

Plans == [source : Machines, handoff : Managers]

ASSUME RouteAssumption ==
    /\ MaxNumber \in Nat /\ MaxDisturbances \in Nat
    /\ None \notin Numbers \cup Machines
    /\ None \notin Stages \cup {"windows", "foreign"}
    /\ None \notin Plans
    /\ FirstMachine \in Machines /\ FirstManager \in Managers
    /\ Foreign \subseteq Numbers \ {Windows}
    /\ Hidden \subseteq Numbers \ (Foreign \cup {Windows})
    /\ Databases \subseteq SUBSET {"certificate", "diagnostic", "loader"}

VARIABLES
    mode,            \* the medium: "esp" (install) or "usb" (experiment)
    files,           \* the files of the medium
    variables,       \* the Boot#### variables
    order, next,     \* BootOrder and BootNext
    machine,         \* what a fresh diagnostic finds
    manager,         \* the installed Windows Boot Manager
    secureBoot,      \* Secure Boot: whether it is on, and what db holds
    cmd,             \* the writes the running command still has to make
    chain,           \* the entries this boot still has to try, None the drive;
                     \* <<>> when Windows runs
    restarted,       \* the PC booted since the stage was written
    widened,         \* the loader started this Windows
    tried,           \* history: the hardware a trial has succeeded on
    disturbances     \* how many disturbances there were

firmware == <<variables, order, next>>
history == <<tried, disturbances>>
vars == <<mode, files, firmware, machine, manager, secureBoot, cmd, chain,
          restarted, widened, history>>

-----------------------------------------------------------------------------
(* The medium.                                                             *)

NoFiles == [report |-> None, plan |-> None, receipts |-> {}, torn |-> {},
            error |-> None, diagnostic |-> FALSE, loader |-> FALSE,
            boot |-> None, owner |-> None, certificate |-> None]

\* usb_boot_is_owned: owner.json holds the digest of the image of its stage.
usb_boot_is_owned == files.owner # None /\ files.boot = files.owner
usb_boot_is_foreign == files.boot # None /\ ~usb_boot_is_owned

\* One file that is not a receipt fails the whole inspection.
newest_receipt_fails == files.torn # {}

\* One write of a command: a file replaced or removed, a variable set.
File(name, value) == [store |-> "file", key |-> name, value |-> value]
Receipt(of) == [store |-> "receipt", key |-> of, value |-> None]
Variable(n, value) == [store |-> "variable", key |-> n, value |-> value]
BootOrder(value) == [store |-> "order", key |-> None, value |-> value]
BootNext(value) == [store |-> "next", key |-> None, value |-> value]
\* The status a finished command answers with.
Answer(command) == [store |-> "answer", key |-> command, value |-> None]

\* The lines of last-error.txt; inspect hands the whole text to the page.
write_last_error(program, reason) == <<"schema=1", program, reason>>

\* What last-error.txt tells its reader: this is not the planned hardware.
SaysMismatch == files.error = write_last_error("loader", "mismatch")

delete_receipts ==
    LET All == SetToSeq(files.receipts \cup files.torn)
    IN  [i \in DOMAIN All |-> Receipt(All[i])]

\* write_owner and read_owner: the stage, and on a drive the image's digest.
Owner(stage) == File("owner", stage)

Image(stage) ==
    IF mode = "usb" THEN File("boot", stage) ELSE File(stage, TRUE)

write_diagnostic_stage ==
    <<File("report", None), File("plan", None)>>
    \o delete_receipts
    \o <<File("error", None), Image("diagnostic"), Owner("diagnostic")>>

write_loader_stage(plan) ==
    <<File("plan", plan)>>
    \o delete_receipts
    \o <<File("error", None), Image("loader"), Owner("loader")>>

\* media::remove: ownership of the USB boot file is read first.
remove_media ==
    <<File("report", None), File("plan", None), File("error", None),
      File("diagnostic", FALSE), File("loader", FALSE), File("owner", None)>>
    \o delete_receipts
    \o (IF mode = "usb" /\ usb_boot_is_owned
        THEN <<File("boot", None)>> ELSE <<>>)

-----------------------------------------------------------------------------
(* Secure Boot.  db holds the certificate of the project, the digest of a  *)
(* program, both or neither; the programs are signed.                      *)

Secures == [on : BOOLEAN, db : Databases]

trusts == "certificate" \in secureBoot.db \/ Stages \subseteq secureBoot.db

\* refuse_secure_boot, and secureBootReady of the page.
refuse_secure_boot == secureBoot.on /\ ~trusts

\* The firmware itself starts what the certificate or a digest allows.
FirmwareStarts(stage) ==
    secureBoot.on => secureBoot.db \cap {"certificate", stage} # {}

\* write_certificate: a file is never replaced.
write_certificate ==
    IF files.certificate = None THEN <<File("certificate", "ours")>> ELSE <<>>

-----------------------------------------------------------------------------
(* The boot entries.                                                       *)

\* The numbers of a finite set in ascending order.
Ascending(S) ==
    [i \in 1 .. Cardinality(S) |->
        CHOOSE n \in S : Cardinality({m \in S : m <= n}) = i]

\* Vec::retain: what is left of s when only the numbers of T stay.
Retain(s, T) ==
    LET kept == Ascending({i \in DOMAIN s : s[i] \in T})
    IN  [i \in DOMAIN kept |-> s[kept[i]]]

Owned(n) == variables[n] \in Stages
NotOwned == {n \in Numbers : ~Owned(n)}

\* read_boot_state: only the variables that BootOrder names are read.
Entries == {n \in Range(order) : variables[n] # None}

owned_entry(kind) ==
    LET At == {i \in DOMAIN order : variables[order[i]] = kind}
    IN  IF At = {} THEN None ELSE order[CHOOSE i \in At : \A j \in At : i <= j]

free_number_NotOwned ==
    LET Free == NotOwned
    IN  IF Free = {} THEN None
        ELSE CHOOSE n \in Free : \A m \in Free : n <= m

\* The used numbers are those of BootOrder; Entries are among them.
free_number ==
    LET Free == Numbers \ Range(order)
    IN  IF Free = {} THEN None
        ELSE CHOOSE n \in Free : \A m \in Free : n <= m

windows_boot_manager == \E n \in Entries : variables[n] = "windows"

Number(kind) ==
    IF owned_entry(kind) # None THEN owned_entry(kind) ELSE free_number

schedule_First(kind) ==
    <<Variable(Number(kind), kind)>>
    \o (IF Number(kind) \in Range(order) THEN <<>>
        ELSE <<BootOrder(<<Number(kind)>> \o order)>>)
    \o <<BootNext(Number(kind))>>

schedule(kind) ==
    <<Variable(Number(kind), kind)>>
    \o (IF Number(kind) \in Range(order) THEN <<>>
        ELSE <<BootOrder(Append(order, Number(kind)))>>)
    \o <<BootNext(Number(kind))>>

\* make_first and make_permanent: the loader first, the diagnostic entry deleted.
LoaderFirst ==
    <<owned_entry("loader")>>
    \o Retain(order, Numbers \ {owned_entry("loader"), owned_entry("diagnostic")})

make_first ==
    LET Diagnostic == owned_entry("diagnostic")
    IN  (IF Diagnostic = None THEN <<>> ELSE <<Variable(Diagnostic, None)>>)
        \o (IF LoaderFirst = order THEN <<>> ELSE <<BootOrder(LoaderFirst)>>)
        \o (IF Diagnostic # None /\ next = Diagnostic
            THEN <<BootNext(None)>> ELSE <<>>)

remove_owned ==
    LET All == Ascending({n \in Entries : Owned(n)})
        Left == Retain(order, NotOwned)
    IN  [i \in DOMAIN All |-> Variable(All[i], None)]
        \o (IF Left = order THEN <<>> ELSE <<BootOrder(Left)>>)
        \o (IF next # None /\ next \in Range(All)
            THEN <<BootNext(None)>> ELSE <<>>)

loader_first == order # <<>> /\ owned_entry("loader") = Head(order)

-----------------------------------------------------------------------------
(* The page: the screen it shows in Windows, and what it offers there.     *)

\* An invalid receipt fails inspect, and the page offers only to read again.
externalScreen ==
    IF newest_receipt_fails THEN "failed"
    ELSE IF files.owner = None THEN
        IF refuse_secure_boot THEN "blocked" ELSE "choose"
    ELSE IF mode = "esp" /\ loader_first THEN "installed"
    ELSE IF files.owner = "diagnostic" THEN
        IF files.report # None THEN "pickGpu"
        ELSE IF restarted THEN "diagnosticMissing" ELSE "diagnosticReady"
    ELSE
        IF files.receipts # {} THEN "result"
        ELSE IF restarted THEN "loaderMissing" ELSE "loaderReady"

InWindows == chain = <<>> /\ cmd = <<>>

On(screen) == InWindows /\ externalScreen = screen

successor_changed == files.plan # None /\ files.plan.handoff # manager

\* LoaderMissing compares the text of last-error.txt with the bare reason.
rediagnose == files.error = <<"mismatch">> \/ files.plan = None

-----------------------------------------------------------------------------

TypeOK ==
    /\ mode \in {"esp", "usb"}
    /\ files \in [report : Machines \cup {None}, plan : Plans \cup {None},
                  receipts : SUBSET Machines, torn : SUBSET Machines,
                  error : {None, write_last_error("diagnostic", "other")}
                          \cup {write_last_error("loader", r) :
                                   r \in {"mismatch", "other"}},
                  diagnostic : BOOLEAN, loader : BOOLEAN,
                  boot : Stages \cup {None, "foreign"},
                  owner : Stages \cup {None},
                  certificate : {None, "ours", "other"}]
    /\ variables \in [Numbers -> Stages \cup {None, "windows", "foreign"}]
    /\ order \in Seq(Numbers) /\ IsInjective(order)
    /\ next \in Numbers \cup {None}
    /\ machine \in Machines /\ manager \in Managers
    /\ secureBoot \in [on : BOOLEAN, db : SUBSET (Stages \cup {"certificate"})]
    /\ chain \in Seq(Numbers \cup {None})
    /\ restarted \in BOOLEAN /\ widened \in BOOLEAN
    /\ tried \subseteq Machines
    /\ disturbances \in 0 .. MaxDisturbances
    /\ chain # <<>> => cmd = <<>>

\* A drive may hold a boot file of others, the medium another file with the
\* name of the certificate.
FirstFiles ==
    {[NoFiles EXCEPT !.boot = b, !.certificate = c] :
        b \in IF mode = "usb" THEN {None, "foreign"} ELSE {None},
        c \in IF secureBoot.on THEN {None, "other"} ELSE {None}}

Init ==
    /\ mode \in {"esp", "usb"}
    /\ secureBoot \in [on : BOOLEAN, db : {{}}]
    /\ files \in FirstFiles
    /\ variables = [n \in Numbers |->
                       IF n = Windows THEN "windows"
                       ELSE IF n \in Foreign \cup Hidden THEN "foreign"
                       ELSE None]
    /\ order = <<Windows>> \o Ascending(Foreign)
    /\ next = None
    /\ machine = FirstMachine /\ manager = FirstManager
    /\ cmd = <<>> /\ chain = <<>>
    /\ restarted = FALSE /\ widened = FALSE
    /\ tried = {} /\ disturbances = 0

-----------------------------------------------------------------------------
(* The commands.                                                           *)

Start(command, writes) ==
    /\ cmd' = Append(writes, Answer(command))
    /\ UNCHANGED <<mode, files, firmware, machine, manager, secureBoot, chain, restarted,
                   widened, history>>

\* resolve_medium: the partition of Windows Boot Manager, or the drive.
resolve_medium == mode = "esp" => windows_boot_manager

\* The drive is refused, and an entry of the partition needs a number.
Usable(stage) ==
    IF mode = "esp" THEN Number(stage) # None ELSE ~usb_boot_is_foreign

prepare_diagnostic ==
    /\ ~refuse_secure_boot
    /\ resolve_medium /\ Usable("diagnostic")
    /\ Start("prepare_diagnostic",
             write_diagnostic_stage
             \o IF mode = "esp" THEN schedule("diagnostic") ELSE <<>>)

Choose == On("choose") /\ prepare_diagnostic

DiagnoseAgain ==
    /\ \/ On("diagnosticMissing") \/ On("pickGpu") \/ On("loaderMissing")
       \/ On("result") /\ ~widened
    /\ prepare_diagnostic

PrepareDiagnostic == Choose \/ DiagnoseAgain

\* make_plan plans for the machine of the report.
write_loader ==
    /\ ~refuse_secure_boot
    /\ files.report # None
    /\ windows_boot_manager
    /\ Usable("loader")
    /\ Start("write_loader",
             write_loader_stage([source |-> files.report, handoff |-> manager])
             \o IF mode = "esp" THEN schedule("loader") ELSE <<>>)

PickGpu == On("pickGpu") /\ write_loader

TryAgain == On("loaderMissing") /\ ~rediagnose /\ write_loader

Repin == On("installed") /\ successor_changed /\ write_loader

WriteLoader == PickGpu \/ TryAgain \/ Repin

MakePermanent ==
    /\ On("result") /\ widened /\ mode = "esp"
    /\ windows_boot_manager
    /\ files.owner = "loader" /\ files.receipts # {}
    /\ owned_entry("loader") # None
    /\ Start("make_permanent", make_first)

\* The button of every screen after the first.
RemoveRoute ==
    /\ InWindows /\ externalScreen \notin {"failed", "blocked", "choose"}
    /\ resolve_medium
    /\ Start("remove",
             (IF mode = "esp" THEN remove_owned ELSE <<>>) \o remove_media)

SaveCertificate ==
    /\ On("blocked") /\ files.certificate # "other"
    /\ Start("save_certificate", write_certificate)

\* The next write of the command.
Step ==
    /\ cmd # <<>>
    /\ cmd' = Tail(cmd)
    /\ LET w == Head(cmd)
       IN  /\ files' = CASE w.store = "file" -> [files EXCEPT ![w.key] = w.value]
                         [] w.store = "receipt" ->
                               [files EXCEPT !.receipts = @ \ {w.key},
                                             !.torn = @ \ {w.key}]
                         [] OTHER -> files
           /\ variables' = IF w.store = "variable"
                           THEN [variables EXCEPT ![w.key] = w.value]
                           ELSE variables
           /\ order' = IF w.store = "order" THEN w.value ELSE order
           /\ next' = IF w.store = "next" THEN w.value ELSE next
           /\ restarted' = (restarted /\ ~(w.store = "file" /\ w.key = "owner"))
    /\ UNCHANGED <<mode, machine, manager, secureBoot, chain, widened, history>>

-----------------------------------------------------------------------------
(* A boot.                                                                 *)

\* The firmware takes BootNext, then BootOrder; the user may choose the drive.
Boot(fromDrive) ==
    /\ chain' = (IF fromDrive THEN <<None>> ELSE <<>>)
                \o (IF next = None THEN <<>> ELSE <<next>>) \o order
    /\ next' = None
    /\ cmd' = <<>>
    /\ restarted' = TRUE /\ widened' = FALSE

Drive == mode = "usb" /\ files.boot # None

\* An installed plan that was written again and not tried yet.
untried == next # None \/ (files.receipts = {} /\ files.error = None)

\* The restart the page asks for on the two waiting screens, and the next
\* start of a PC whose installed plan was written again.
Restart ==
    /\ \/ On("diagnosticReady") \/ On("loaderReady")
       \/ On("installed") /\ untried
    /\ Boot(Drive)
    /\ UNCHANGED <<mode, files, variables, order, machine, manager, secureBoot, history>>

Found(entry) ==
    IF entry = None THEN files.boot
    ELSE LET kind == variables[entry]
         IN  IF kind \in Stages /\ ~files[kind] THEN None ELSE kind

Program ==
    LET image == Found(Head(chain))
    IN  IF image \in Stages /\ ~FirmwareStarts(image) THEN None ELSE image

InFirmware == chain # <<>>

\* A restart into BIOS setup, where the certificate on the drive is appended
\* to db, Secure Boot is turned off, or the drive gets another file name.
EnrollCertificate ==
    /\ On("blocked") /\ files.certificate = "ours"
    /\ secureBoot' = [secureBoot EXCEPT !.db = @ \cup {"certificate"}]
    /\ Boot(FALSE)
    /\ UNCHANGED <<mode, files, variables, order, machine, manager, history>>

TurnSecureBootOff ==
    /\ InWindows /\ refuse_secure_boot
    /\ secureBoot' = [secureBoot EXCEPT !.on = FALSE]
    /\ Boot(FALSE)
    /\ UNCHANGED <<mode, files, variables, order, machine, manager, history>>

RenameOther ==
    /\ On("blocked") /\ files.certificate = "other"
    /\ files' = [files EXCEPT !.certificate = None]
    /\ UNCHANGED <<mode, firmware, machine, manager, secureBoot, cmd, chain,
                   restarted, widened, history>>

\* An entry without a variable or an image, of another program, or one that
\* Secure Boot refuses.
SkipEntry ==
    /\ InFirmware /\ Program \in {None, "foreign"}
    /\ chain' = Tail(chain)
    /\ UNCHANGED <<mode, files, firmware, machine, manager, secureBoot, cmd, restarted,
                   widened, history>>

StartWindows ==
    /\ InFirmware /\ Program = "windows"
    /\ chain' = <<>>
    /\ UNCHANGED <<mode, files, firmware, machine, manager, secureBoot, cmd, restarted,
                   widened, history>>

\* diagnostic: save_new refuses a report with other contents.
RunDiagnostic ==
    /\ InFirmware /\ Program = "diagnostic"
    /\ chain' = Tail(chain)
    /\ files' = IF files.report \in {None, machine}
                THEN [files EXCEPT !.report = machine, !.error = None]
                ELSE [files EXCEPT
                         !.error = write_last_error("diagnostic", "other")]
    /\ UNCHANGED <<mode, firmware, machine, manager, secureBoot, cmd, restarted, widened,
                   history>>

Refusal_Unnamed == "other"

Refusal ==
    IF files.plan # None /\ files.plan.source # machine THEN "mismatch"
    ELSE "other"

Accepts ==
    /\ files.plan # None
    /\ files.plan.source = machine
    /\ files.plan.handoff = manager
    /\ machine \notin files.torn

RunLoader ==
    /\ InFirmware /\ Program = "loader"
    /\ IF Accepts
       THEN /\ files' = [files EXCEPT !.receipts = @ \cup {machine},
                                      !.error = None]
            /\ chain' = <<>> /\ widened' = TRUE
            /\ tried' = tried \cup {machine}
       ELSE /\ files' = [files EXCEPT
                            !.error = write_last_error("loader", Refusal)]
            /\ chain' = Tail(chain)
            /\ UNCHANGED <<widened, tried>>
    /\ UNCHANGED <<mode, firmware, machine, manager, secureBoot, cmd, restarted,
                   disturbances>>

-----------------------------------------------------------------------------
(* What goes wrong.                                                        *)

Disturb(kind) ==
    /\ kind \in Disturbances
    /\ disturbances < MaxDisturbances
    /\ disturbances' = disturbances + 1

\* A write fails or the process dies: the command ends where it is.
Abort ==
    /\ Disturb("abort")
    /\ cmd # <<>>
    /\ cmd' = <<>>
    /\ UNCHANGED <<mode, files, firmware, machine, manager, secureBoot, chain, restarted,
                   widened, tried>>

\* The PC restarts at a time of its own, also during a command or a boot.
SpareBoot ==
    /\ Disturb("spareBoot")
    /\ Boot(FALSE)
    /\ UNCHANGED <<mode, files, variables, order, machine, manager, secureBoot, tried>>

\* The loader gives up: a register does not hold its value, space is taken.
LoaderFails ==
    /\ Disturb("loaderFails")
    /\ InFirmware /\ Program = "loader" /\ Accepts
    /\ chain' = Tail(chain)
    /\ files' = [files EXCEPT !.error = write_last_error("loader", "other")]
    /\ UNCHANGED <<mode, firmware, machine, manager, secureBoot, cmd, restarted, widened,
                   tried>>

\* write_new: the receipt was created and could not be written.
ReceiptTorn ==
    /\ Disturb("receiptTorn")
    /\ InFirmware /\ Program = "loader" /\ Accepts
    /\ machine \notin files.receipts
    /\ chain' = Tail(chain)
    /\ files' = [files EXCEPT !.torn = @ \cup {machine},
                              !.error = write_last_error("loader", "other")]
    /\ UNCHANGED <<mode, firmware, machine, manager, secureBoot, cmd, restarted, widened,
                   tried>>

\* Windows replaces its boot manager, and may put its entry first.
ManagerUpdated ==
    /\ Disturb("managerUpdated")
    /\ InWindows
    /\ manager' \in Managers \ {manager}
    /\ order' \in {order, <<Windows>> \o Retain(order, Numbers \ {Windows})}
    /\ UNCHANGED <<mode, files, variables, next, machine, secureBoot, cmd, chain,
                   restarted, widened, tried>>

\* A card, a monitor or a firmware setting changes what a diagnostic finds.
MachineChanged ==
    /\ Disturb("machineChanged")
    /\ InWindows
    /\ machine' \in Machines \ {machine}
    /\ Boot(FALSE)
    /\ UNCHANGED <<mode, files, variables, order, manager, secureBoot, tried>>

\* The owner of the PC or a firmware update changes Secure Boot or db.
SecureBootChanged ==
    /\ Disturb("secureBootChanged")
    /\ InWindows
    /\ secureBoot' \in Secures \ {secureBoot}
    /\ Boot(FALSE)
    /\ UNCHANGED <<mode, files, variables, order, machine, manager, tried>>

Next ==
    \/ SaveCertificate \/ EnrollCertificate \/ TurnSecureBootOff \/ RenameOther
    \/ PrepareDiagnostic \/ WriteLoader \/ MakePermanent \/ RemoveRoute \/ Step
    \/ Restart \/ SkipEntry \/ StartWindows \/ RunDiagnostic \/ RunLoader
    \/ Abort \/ SpareBoot \/ LoaderFails \/ ReceiptTorn
    \/ ManagerUpdated \/ MachineChanged \/ SecureBootChanged

Spec == Init /\ [][Next]_vars

\* The button an operator who wants the larger BAR presses, and who reads the
\* reason that the page shows word for word.
\* On a screen that the choice led to, Secure Boot shows as a refusal that
\* asks for the certificate or for Secure Boot off; the installed screen says
\* nothing, and its reader starts again.
Helpful ==
    \/ RenameOther \/ EnrollCertificate
    \/ files.certificate = None /\ SaveCertificate
    \/ On("choose") /\ PrepareDiagnostic
    \/ TurnSecureBootOff
          /\ \/ On("diagnosticMissing") \/ On("pickGpu") \/ On("loaderMissing")
             \/ On("result") /\ ~widened
             \/ On("installed") /\ successor_changed
    \/ On("diagnosticReady") /\ Restart
    \/ On("diagnosticMissing") /\ PrepareDiagnostic
    \/ On("pickGpu") /\ WriteLoader
    \/ On("loaderReady") /\ Restart
    \/ On("loaderMissing") /\ ~SaysMismatch /\ WriteLoader
    \/ On("loaderMissing")
          /\ (SaysMismatch \/ rediagnose \/ files.report = None)
          /\ PrepareDiagnostic
    \/ On("result") /\ ~widened /\ PrepareDiagnostic
    \/ On("result") /\ MakePermanent
    \/ On("result") /\ widened /\ mode = "esp"
                     /\ owned_entry("loader") = None /\ RemoveRoute
    \/ On("installed") /\ WriteLoader
    \/ On("installed") /\ ~successor_changed /\ FirmwareStarts("loader") /\ Restart
    \/ On("installed") /\ ~successor_changed /\ ~untried
                        /\ files.error # None /\ RemoveRoute
    \/ On("installed") /\ ~successor_changed /\ ~FirmwareStarts("loader")
                        /\ RemoveRoute

\* A running command goes on, a boot goes on, and the operator perseveres.
FairSpec ==
    /\ Spec
    /\ WF_vars(Step)
    /\ WF_vars(SkipEntry \/ StartWindows \/ RunDiagnostic \/ RunLoader)
    /\ WF_vars(Helpful)

-----------------------------------------------------------------------------
(* What the route promises.                                                *)

IsForeign(n) == n \in {Windows} \cup Foreign \cup Hidden

\* docs/EXTERNAL_EFI.md:59 and boot_entries.rs:108: no Boot#### variable and
\* no boot file of others is written or deleted, whatever is interrupted.
ForeignUntouched ==
    [][/\ \A n \in Numbers : IsForeign(n) => variables'[n] = variables[n]
       /\ files.boot = "foreign" => files'.boot = "foreign"]_vars

\* docs/EXTERNAL_EFI.md:32: the loader goes first only after a good try.  The
\* first entry is the loader only if it has a plan for hardware on which it
\* has started Windows.
FirstIsTried ==
    loader_first => files.plan # None /\ files.plan.source \in tried

Installed ==
    /\ InWindows /\ loader_first /\ FirmwareStarts("loader")
    /\ files.plan = [source |-> machine, handoff |-> manager]

Shown == On("result") /\ widened

\* An invalid receipt on the medium; a boot file on the drive that is not
\* proven to be the application's, of another origin or its own.
Refused ==
    \/ newest_receipt_fails
    \/ mode = "usb" /\ usb_boot_is_foreign

\* docs/EXTERNAL_EFI.md:41: the page continues where it stopped.  Whatever is
\* interrupted, an operator who in the end presses only the helpful button
\* gets the loader installed, with a plan for the hardware and the boot
\* manager of the PC, and with Secure Boot as it is set, or from a drive the
\* result of a trial; unless the medium is in one of the two states that stop
\* the page for good.
Continues ==
    <>[][PrepareDiagnostic \/ WriteLoader \/ RemoveRoute \/ SaveCertificate
             \/ Restart => Helpful]_vars
        => <>[](Installed \/ Shown \/ Refused)

=============================================================================

--------------------------- MODULE ExternalLoader ---------------------------
(***************************************************************************)
(* The loader of the external EFI route, boot after boot: it checks the    *)
(* plan, moves and enlarges BAR1, saves a receipt and starts Windows Boot  *)
(* Manager, or undoes everything and returns to the firmware.              *)
(*                                                                         *)
(*   crates/nvstraps-external/src/execute.rs    apply and restore          *)
(*   crates/nvstraps-external-efi/src/app.rs    run, save_new, the halt    *)
(*   crates/nvstraps-external-efi/src/native.rs the registers              *)
(*                                                                         *)
(* One action is one checked register write (a write and its readback).    *)
(* A write may be reported as failed whether or not the register took it.  *)
(* Power may be lost between any two actions: the registers start over,    *)
(* the receipt file on the medium does not.                                *)
(*                                                                         *)
(* Addresses and sizes are counted in units of 64 MiB, so that an aperture *)
(* of selector s is 2^s long, and the two address registers hold the parts *)
(* of an address above and below 4 GiB.  A command register is the set of  *)
(* the bits the executor touches.  How the destination of a plan is found, *)
(* and what else is on the bus, is LoaderPlan and PlannedLoader.           *)
(***************************************************************************)
EXTENDS Integers, Sequences, StrapPlan, Spans

CONSTANTS InitialCommands,  \* command register contents before the loader
          InitialStraps,    \* strap registers before the loader
          Bases,            \* where firmware may have placed BAR1
          Destinations,     \* where a plan may place it
          Requests,         \* the sizes a plan may ask for, as selectors
          MaxBoots          \* bound: boots of the machine

Command == {"memory", "busMaster"}

ASSUME ConstantsAssumption ==
    /\ InitialCommands \subseteq SUBSET Command
    /\ InitialStraps \subseteq StrapRegisters
    /\ Bases \subseteq Nat
    /\ Destinations \subseteq Nat
    /\ Requests \subseteq PlannedSelectors
    /\ MaxBoots \in Nat

VARIABLES
    \* The hardware.
    command,   \* the command register
    high,      \* BAR1's upper address register
    low,       \* BAR1's lower address register
    straps,    \* the strap registers behind BAR0
    reserved,  \* the loader owns the plan's destination
    \* The medium and the plan on it.
    plan,      \* the plan's selector and destination, and what its source saw
    receipt,   \* the receipt file: "absent", "partial" or "complete"
    \* The control state of the loader.
    at,        \* the operation in progress, or how the boot ended
    k,         \* the position in that operation's writes
    saved,     \* Saved
    image,     \* the successor: "none", "loaded" or "started"
    firmware,  \* history: the registers as firmware left them this boot
    measured,  \* history: some boot measured the planned aperture
    boots      \* history: boots so far

registers == <<command, high, low, straps>>
medium == <<plan, receipt>>
history == <<firmware, measured, boots>>
vars == <<registers, reserved, medium, at, k, saved, image, history>>

Apertures == [n \in 0 .. 10 |-> 2 ^ n]

\* The length of BAR1 the straps select.
Aperture(s) == Apertures[s.set0.part + s.set1.part]

Registers == [command: SUBSET Command, high: Nat, low: 0 .. FourGiB - 1,
              straps: StrapRegisters]

\* A BAR register does not hold the address bits below the aperture: what a
\* read returns of the contents v.
HeldHigh(v, s) == IF Aperture(s) <= FourGiB THEN v ELSE v - (v % (Aperture(s) \div FourGiB))
HeldLow(v, s) == IF Aperture(s) >= FourGiB THEN 0 ELSE v - (v % Aperture(s))

\* The addresses BAR1 answers to when memory decoding is on: start and end.
Decoded ==
    LET start == HeldHigh(high, straps) * FourGiB + HeldLow(low, straps)
    IN  [start |-> start, end |-> start + Aperture(straps)]

Size == Apertures[plan.selector]

Reservation == [start |-> plan.destination, end |-> plan.destination + Size]

FirmwareSpan ==
    LET start == firmware.high * FourGiB + firmware.low
    IN  [start |-> start, end |-> start + Aperture(firmware.straps)]

-----------------------------------------------------------------------------

Set(r, v) == [register |-> r, value |-> v]

\* The planned strap writes, set0 before set1.
StrapWrites ==
    LET planned(r) == IF r \in planned_writes(saved.straps, plan.selector)
                      THEN <<Set(r, StrapWritten(plan.selector, r))>> ELSE <<>>
    IN  planned("set0") \o planned("set1")

\* The writes of apply up to the measurement, and after it.
ApplyWrites ==
    <<Set("command", saved.command \ Command),
      Set("high", plan.destination \div FourGiB),
      Set("low", plan.destination % FourGiB),
      Set("command", (saved.command \ {"busMaster"}) \cup {"memory"})>>
    \o StrapWrites
    \o <<Set("command", saved.command \ Command)>>

EnableWrites ==
    <<Set("high", plan.destination \div FourGiB),
      Set("low", plan.destination % FourGiB),
      Set("command", saved.command \ {"busMaster"})>>

\* Faulty variants of restore: the old address and the decode bits come back
\* before the straps, and bus mastering is enabled while BAR1 is still moved.
RestoreWrites_AddressFirst ==
    <<Set("command", saved.command \ Command),
      Set("high", saved.high),
      Set("low", saved.low),
      Set("command", (saved.command \ {"busMaster"}) \cup {"memory"}),
      Set("set0", saved.straps.set0),
      Set("set1", saved.straps.set1),
      Set("command", saved.command)>>

RestoreWrites_EarlyDma ==
    <<Set("command", saved.command \ Command),
      Set("high", plan.destination \div FourGiB),
      Set("low", plan.destination % FourGiB),
      Set("command", saved.command \cup {"memory"}),
      Set("set0", saved.straps.set0),
      Set("set1", saved.straps.set1),
      Set("command", saved.command \ Command),
      Set("high", saved.high),
      Set("low", saved.low),
      Set("command", saved.command)>>

RestoreWrites ==
    <<Set("command", saved.command \ Command),
      Set("high", plan.destination \div FourGiB),
      Set("low", plan.destination % FourGiB),
      Set("command", (saved.command \ {"busMaster"}) \cup {"memory"}),
      Set("set0", saved.straps.set0),
      Set("set1", saved.straps.set1),
      Set("command", saved.command \ Command),
      Set("high", saved.high),
      Set("low", saved.low),
      Set("command", saved.command)>>

\* The register write itself: the straps are reached through BAR0, which
\* answers only while memory decoding is on.
Write(w) ==
    CASE w.register = "command" -> command' = w.value /\ UNCHANGED <<high, low, straps>>
      [] w.register = "high" -> high' = w.value /\ UNCHANGED <<command, low, straps>>
      [] w.register = "low" -> low' = w.value /\ UNCHANGED <<command, high, straps>>
      [] w.register \in {"set0", "set1"} ->
            /\ straps' = IF "memory" \in command
                         THEN [straps EXCEPT ![w.register] = w.value] ELSE straps
            /\ UNCHANGED <<command, high, low>>

Read(r) ==
    CASE r = "command" -> command
      [] r = "high" -> HeldHigh(high, straps)
      [] r = "low" -> HeldLow(low, straps)
      [] OTHER -> straps[r]

Current == [command |-> command, high |-> high, low |-> low, straps |-> straps]

Goto(phase) ==
    /\ at' = phase
    /\ k' = 1

(***************************************************************************)
(* write_checked: the k-th write of the list reaches its register and      *)
(* reads back.  After the last one the loader goes on to the next phase.   *)
(***************************************************************************)
WriteChecked(list, next) ==
    /\ \E w \in {list[k]} :
          /\ Write(w)
          /\ Read(w.register)' = w.value
    /\ \/ k < Len(list) /\ k' = k + 1 /\ UNCHANGED at
       \/ k = Len(list) /\ Goto(next)

(***************************************************************************)
(* write_checked returns an error - from the write, from the read, or      *)
(* because they differ - with or without the register having changed.      *)
(***************************************************************************)
WriteFails(list, next) ==
    /\ \/ Write(list[k])
       \/ UNCHANGED registers
    /\ Goto(next)

-----------------------------------------------------------------------------

Ended == {"successor", "returned", "halted"}

Phases == {"start", "load", "check", "reserve", "apply", "measure", "enable",
           "openReceipt", "writeReceipt", "handoff", "restore", "release"} \cup Ended

PlacedBy(source, sel, destination) ==
    /\ "memory" \in source.command
    /\ (source.high * FourGiB + source.low) % Aperture(source.straps) = 0
    /\ Aperture(source.straps) < Apertures[sel]
    /\ destination % Apertures[sel] = 0

Placements ==
    {[command |-> c, high |-> b \div FourGiB, low |-> b % FourGiB, straps |-> s] :
        c \in InitialCommands, b \in Bases, s \in InitialStraps}

TypeOK ==
    /\ Current \in Registers
    /\ reserved \in BOOLEAN
    /\ plan.selector \in PlannedSelectors
    /\ plan.destination \in Nat
    /\ plan.source \in Registers
    /\ receipt \in {"absent", "partial", "complete"}
    /\ at \in Phases
    /\ k \in 1 .. 10
    /\ saved \in Registers
    /\ image \in {"none", "loaded", "started"}
    /\ firmware \in Registers
    /\ measured \in BOOLEAN
    /\ boots \in 0 .. MaxBoots

\* A medium with a plan that make_plan built from the diagnostic of this
\* machine; a plan that was not is refused by the first action.
Init ==
    /\ \E source \in Placements, sel \in Requests, d \in Destinations :
          /\ PlacedBy(source, sel, d)
          /\ plan = [selector |-> sel, destination |-> d, source |-> source]
          /\ firmware = source
    /\ ~ Overlaps(FirmwareSpan, Reservation)
    /\ command = firmware.command
    /\ high = firmware.high
    /\ low = firmware.low
    /\ straps = firmware.straps
    /\ reserved = FALSE
    /\ receipt = "absent"
    /\ at = "start"
    /\ k = 1
    /\ saved = firmware
    /\ image = "none"
    /\ measured = FALSE
    /\ boots = 0

-----------------------------------------------------------------------------

\* run before the successor is loaded: the plan cannot be read or is not for
\* the machine as the fresh snapshot shows it.
Refuse ==
    /\ at = "start"
    /\ Goto("returned")
    /\ UNCHANGED <<registers, reserved, medium, saved, image, history>>

Validate ==
    /\ at = "start"
    /\ Current = plan.source
    /\ Goto("load")
    /\ UNCHANGED <<registers, reserved, medium, saved, image, history>>

\* prepare_handoff: the pinned successor is missing, ambiguous or refused by
\* the firmware, or it is loaded.
PrepareHandoff ==
    /\ at = "load"
    /\ \/ Goto("returned") /\ UNCHANGED image
       \/ Goto("check") /\ image' = "loaded"
    /\ UNCHANGED <<registers, reserved, medium, saved, history>>

\* An error of apply before its first write: the successor is unloaded.
ApplyRefuses ==
    /\ at \in {"check", "reserve"}
    /\ Goto("returned")
    /\ image' = "none"
    /\ UNCHANGED <<registers, reserved, medium, saved, history>>

\* apply's own snapshot and the registers it saves must agree with the plan.
Check ==
    /\ at = "check"
    /\ Current = plan.source
    /\ saved' = Current
    /\ Goto("reserve")
    /\ UNCHANGED <<registers, reserved, medium, image, history>>

Reserve ==
    /\ at = "reserve"
    /\ reserved' = TRUE
    /\ Goto("apply")
    /\ UNCHANGED <<registers, medium, saved, image, history>>

Apply ==
    /\ at = "apply"
    /\ \/ WriteChecked(ApplyWrites, "measure")
       \/ WriteFails(ApplyWrites, "restore")
    /\ UNCHANGED <<reserved, medium, saved, image, history>>

\* What a probe that failed may leave in the address registers: all ones.
AllOnes == 4095

(***************************************************************************)
(* aperture: writes all ones to the address registers, reads the mask back *)
(* and restores them, with decoding off.  When an access fails, one or     *)
(* both registers may keep the ones.                                       *)
(***************************************************************************)
Measure ==
    /\ at = "measure"
    /\ \/ /\ command \cap Command = {}
          /\ Aperture(straps) = Size
          /\ measured' = TRUE
          /\ Goto("enable")
          /\ UNCHANGED registers
       \/ /\ command \cap Command = {}
          /\ high' \in {high, AllOnes}
          /\ low' \in {low, FourGiB - 1}
          /\ Goto("restore")
          /\ UNCHANGED <<command, straps, measured>>
       \/ /\ Goto("restore")
          /\ UNCHANGED <<registers, measured>>
    /\ UNCHANGED <<reserved, medium, saved, image, firmware, boots>>

Enable ==
    /\ at = "enable"
    /\ \/ WriteChecked(EnableWrites, "openReceipt")
       \/ WriteFails(EnableWrites, "restore")
    /\ UNCHANGED <<reserved, medium, saved, image, history>>

\* Faulty variant: a receipt that cannot be created is left out.
OpenReceipt_Optional ==
    /\ at = "openReceipt"
    /\ \/ receipt = "absent" /\ Goto("writeReceipt") /\ receipt' = "partial"
       \/ Goto("handoff") /\ UNCHANGED receipt
    /\ UNCHANGED <<registers, reserved, plan, saved, image, history>>

(***************************************************************************)
(* save_new: the name of a receipt is the hash of its contents, which are  *)
(* those of the plan, so a complete receipt of an earlier boot is the same *)
(* file.  A file cut short is a different one and refuses the save.        *)
(***************************************************************************)
OpenReceipt ==
    /\ at = "openReceipt"
    /\ \/ receipt = "complete" /\ Goto("handoff") /\ UNCHANGED receipt
       \/ receipt = "absent" /\ Goto("writeReceipt") /\ receipt' = "partial"
       \/ Goto("restore") /\ UNCHANGED receipt
    /\ UNCHANGED <<registers, reserved, plan, saved, image, history>>

WriteReceipt ==
    /\ at = "writeReceipt"
    /\ \/ Goto("handoff") /\ receipt' = "complete"
       \/ Goto("restore") /\ receipt' \in {"partial", "complete"}
    /\ UNCHANGED <<registers, reserved, plan, saved, image, history>>

StartImage ==
    /\ at = "handoff"
    /\ image' = "started"
    /\ Goto("successor")
    /\ UNCHANGED <<registers, reserved, medium, saved, history>>

\* start_image failed, or the successor gave up: it normally never returns.
SuccessorReturns ==
    /\ at = "successor"
    /\ Goto("restore")
    /\ UNCHANGED <<registers, reserved, medium, saved, image, history>>

\* Faulty variant: a failed restore falls back to the firmware all the same.
Restore_Fallback ==
    /\ at = "restore"
    /\ \/ WriteChecked(RestoreWrites, "release") /\ UNCHANGED image
       \/ WriteFails(RestoreWrites, "returned") /\ image' = "none"
    /\ UNCHANGED <<reserved, medium, saved, history>>

\* restore: the first error ends it; the loader then unloads the successor
\* and halts (halt_failed_restore).
Restore ==
    /\ at = "restore"
    /\ \/ WriteChecked(RestoreWrites, "release") /\ UNCHANGED image
       \/ WriteFails(RestoreWrites, "halted") /\ image' = "none"
    /\ UNCHANGED <<reserved, medium, saved, history>>

Release ==
    /\ at = "release"
    /\ image' = "none"
    /\ \/ reserved' = FALSE /\ Goto("returned")
       \/ UNCHANGED reserved /\ Goto("halted")
    /\ UNCHANGED <<registers, medium, saved, history>>

\* The machine is switched off and on.  Firmware places BAR1 anew, as before
\* or elsewhere.
PowerCycle ==
    /\ boots < MaxBoots
    /\ boots' = boots + 1
    /\ firmware' \in {f \in Placements :
                         /\ f.straps = plan.source.straps
                         /\ PlacedBy(f, plan.selector, plan.destination)}
    /\ command' = firmware'.command
    /\ high' = firmware'.high
    /\ low' = firmware'.low
    /\ straps' = firmware'.straps
    /\ reserved' = FALSE
    /\ Goto("start")
    /\ saved' = firmware'
    /\ image' = "none"
    /\ UNCHANGED <<medium, measured>>

LoaderStep ==
    \/ Refuse \/ Validate \/ PrepareHandoff \/ ApplyRefuses \/ Check \/ Reserve
    \/ Apply \/ Measure \/ Enable \/ OpenReceipt \/ WriteReceipt \/ StartImage
    \/ Restore \/ Release

Next == LoaderStep \/ SuccessorReturns \/ PowerCycle

\* The loader is one sequential program that waits for nothing.
Spec == Init /\ [][Next]_vars /\ WF_vars(LoaderStep)

-----------------------------------------------------------------------------

Moved == <<high, low, straps>> # <<firmware.high, firmware.low, firmware.straps>>

(***************************************************************************)
(* While memory decoding is on, BAR1 answers only to the addresses the     *)
(* firmware gave it or to the destination the loader has reserved - also   *)
(* between the strap writes, after any failed write, and after a restore   *)
(* that gave up (the ordering comments of apply and restore).              *)
(***************************************************************************)
DecodesOwnSpace ==
    "memory" \in command =>
        \/ Contains(FirmwareSpan, Decoded)
        \/ reserved /\ Contains(Reservation, Decoded)

(***************************************************************************)
(* From the first change of an address or a strap until the last of them   *)
(* is undone the GPU cannot master the bus, whatever fails.                *)
(***************************************************************************)
DmaOffWhileMoved == Moved => "busMaster" \notin command

(***************************************************************************)
(* The loader gives the machine back to the firmware only with every       *)
(* register as firmware left it, the destination released and no successor *)
(* in memory.  Every other failure halts.                                  *)
(***************************************************************************)
FallbackIsClean ==
    at = "returned" => Current = firmware /\ ~ reserved /\ image = "none"

(***************************************************************************)
(* Windows Boot Manager is started only with BAR1 answering to exactly the *)
(* reserved destination, at the measured size, with a complete receipt.    *)
(***************************************************************************)
HandoffIsMeasured ==
    at = "successor" =>
        /\ reserved
        /\ "memory" \in command
        /\ Decoded = Reservation
        /\ measured
        /\ receipt = "complete"

=============================================================================

------------------------- MODULE DeviceTransaction -------------------------
(***************************************************************************)
(* One firmware device transaction as the UEFI adapter performs it: every  *)
(* PCI configuration write, every MMIO strap write and every S3 boot       *)
(* script record is a step, and each of them but the MMIO writes may fail. *)
(*                                                                         *)
(*   crates/nvstraps-uefi/src/pci.rs           the bridge and BAR0 remaps  *)
(*   crates/nvstraps-uefi/src/straps.rs        the strap writes            *)
(*   crates/nvstraps-uefi/src/uefi_adapter.rs  the mapping of the faults   *)
(*   crates/nvstraps-uefi/src/s3.rs            the boot script             *)
(*                                                                         *)
(* Addresses are abstracted: a window register holds what the firmware     *)
(* left there or the value that exposes the GPU's BAR0 ("window").  The    *)
(* command register keeps its three decode bits, because the remap ORs     *)
(* them into whatever the firmware left.                                   *)
(*                                                                         *)
(* The configuration errors of the remaps, of the MMIO proof and of the    *)
(* plan are left out: a DeviceTransaction holds a ValidatedGpuWindow and a *)
(* selector that is at most MAX_BAR_SIZE_SELECTOR, for which bridge_remap, *)
(* device_remap, assume_mapped and plan_bar1_straps return Ok.             *)
(***************************************************************************)
EXTENDS Integers, Sequences, StrapPlan

CONSTANTS InitialCommands,  \* command register contents firmware may leave
          InitialStraps,    \* strap register contents before the transaction
          Requests,         \* the bar_size_selectors requested
          NoFault

Command == {"io", "memory", "busMaster"}      \* REQUIRED_COMMAND_BITS

ASSUME ConstantsAssumption ==
    /\ InitialCommands \subseteq SUBSET Command
    /\ InitialStraps \subseteq StrapRegisters
    /\ Requests \subseteq Selectors
    /\ NoFault \notin {"BridgeConfig", "BridgeRestore", "DeviceConfig",
                       "DeviceRestore", "WriteS3SaveState"}

Locations == {"BridgeConfig", "BridgeRestore", "DeviceConfig",
              "DeviceRestore", "WriteS3SaveState"}

MaybeFault == Locations \cup {NoFault}

VARIABLES
    \* The hardware.
    bridge,        \* the bridge's command, io and memory registers
    device,        \* the GPU's command and BAR0 registers
    straps,        \* the two strap registers behind BAR0
    script,        \* what the S3 boot script replays on resume
    \* The request and the boot.
    selector,      \* DeviceTransaction::bar_size_selector
    resume,        \* S3Script::is_enabled
    firmware,      \* history: the registers as firmware left them
    \* The control state of the transaction.
    at,            \* the operation in progress
    k,             \* the position in that operation's list of writes
    bridgeSaved,   \* BridgeSavedConfig
    deviceSaved,   \* DeviceSavedConfig
    acquired,      \* the device remap returned Ok
    changed,       \* StrapPlan::reported_changed
    resumeFault,   \* StrapApplyResult::resume_error
    fault,         \* the fault of the operation being undone or restored
    deviceFault,   \* the fault the device remap or its restore returned
    receipt        \* the DeviceTransactionReceipt once at = "done"

hardware == <<bridge, device, straps, script>>
request == <<selector, resume, firmware>>
saved == <<bridgeSaved, deviceSaved>>
results == <<acquired, changed, resumeFault, deviceFault, receipt>>
vars == <<hardware, request, at, k, saved, fault, results>>

-----------------------------------------------------------------------------

\* Faulty variants of the lists below: the bridge's decode bits never set, the
\* GPU's BAR0 never restored, the bus numbers never recorded.
BridgeRemapOrder_NoCommand == <<"memory", "io", "io">>
DeviceRestoreOrder_NoBar0 == <<"command", "command">>
\* The order of the register writes and of the script records.
BridgeRemapOrder == <<"memory", "io", "command">>
BridgeRestoreOrder == <<"command", "io", "memory">>
BridgeRecords == <<"bus", "memory", "io", "command">>
DeviceRemapOrder == <<"bar0", "command">>
DeviceRestoreOrder == <<"command", "bar0">>
DeviceRecords == <<"bar0", "command">>
StrapOrder == <<"set0", "set1">>

BridgeRegisters == [command: SUBSET Command, io: {"firmware", "window"},
                    memory: {"firmware", "window"}]
DeviceRegisters == [command: SUBSET Command, bar0: {"firmware", "window"}]

FirmwareBridge(c) == [command |-> c, io |-> "firmware", memory |-> "firmware"]
FirmwareDevice(c) == [command |-> c, bar0 |-> "firmware"]

\* bridge_remap and device_remap: the value a remapped register receives.
remapped(old, r) == IF r = "command" THEN old.command \cup Command ELSE "window"

Records == {<<"bridge", r>> : r \in {"bus", "memory", "io", "command"}} \cup
           {<<"device", r>> : r \in {"bar0", "command"}} \cup
           {<<"strap", r>> : r \in {"set0", "set1"}}

Receipt(kind, first, second) ==
    [kind |-> kind, first |-> first, second |-> second]

NoReceipt == Receipt("None", NoFault, NoFault)

Kinds == {"None", "BridgeRemapFailed", "DeviceRemapFailed",
          "RestorationFailed", "Completed"}

Receipts == [kind: Kinds, first: MaybeFault, second: MaybeFault]

Phases == {"readBridge", "remapBridge", "recordBridge", "undoBridge",
           "readDevice", "remapDevice", "recordDevice", "undoDevice",
           "plan", "writeStrap", "recordStrap",
           "restoreDevice", "restoreBridge", "done"}

\* The number of writes in the list of a phase.
Writes(phase) ==
    CASE phase = "recordBridge" -> 4
      [] phase \in {"remapBridge", "undoBridge", "restoreBridge"} -> 3
      [] phase \in {"remapDevice", "recordDevice", "undoDevice",
                    "restoreDevice", "writeStrap", "recordStrap"} -> 2
      [] OTHER -> 1

HardwareOK ==
    /\ bridge \in BridgeRegisters
    /\ device \in DeviceRegisters
    /\ straps \in StrapRegisters
    /\ script \in Seq(Records)

RequestOK ==
    /\ selector \in Selectors
    /\ resume \in BOOLEAN
    /\ firmware \in [bridge: {FirmwareBridge(c) : c \in SUBSET Command},
                     device: {FirmwareDevice(c) : c \in SUBSET Command},
                     straps: StrapRegisters]

ControlOK ==
    /\ at \in Phases
    /\ k \in 1 .. Writes(at)

LocalsOK ==
    /\ bridgeSaved \in BridgeRegisters
    /\ deviceSaved \in DeviceRegisters
    /\ acquired \in BOOLEAN
    /\ changed \in BOOLEAN
    /\ resumeFault \in MaybeFault
    /\ fault \in MaybeFault
    /\ deviceFault \in MaybeFault
    /\ receipt \in Receipts

TypeOK == HardwareOK /\ RequestOK /\ ControlOK /\ LocalsOK

\* The snapshots mean nothing before they are read.
Init ==
    /\ \E b, d \in InitialCommands, s \in InitialStraps :
          firmware = [bridge |-> FirmwareBridge(b),
                      device |-> FirmwareDevice(d),
                      straps |-> s]
    /\ bridge = firmware.bridge
    /\ device = firmware.device
    /\ straps = firmware.straps
    /\ script = <<>>
    /\ selector \in Requests
    /\ resume \in BOOLEAN
    /\ at = "readBridge"
    /\ k = 1
    /\ bridgeSaved = FirmwareBridge({})
    /\ deviceSaved = FirmwareDevice({})
    /\ acquired = FALSE
    /\ changed = FALSE
    /\ resumeFault = NoFault
    /\ fault = NoFault
    /\ deviceFault = NoFault
    /\ receipt = NoReceipt

-----------------------------------------------------------------------------

Goto(phase) ==
    /\ at' = phase
    /\ k' = 1

\* On to the next of n writes, or to the next phase after the last of them.
Advance(n, phase) ==
    \/ /\ k < n
       /\ k' = k + 1
       /\ UNCHANGED at
    \/ /\ k = n
       /\ Goto(phase)

Finish(result) ==
    /\ Goto("done")
    /\ receipt' = result

\* One write_u32 to a register file, with its result.  A failed write may or
\* may not have reached the register.
WriteBridge(r, value, ok) ==
    \/ bridge' = [bridge EXCEPT ![r] = value]
    \/ ~ok /\ UNCHANGED bridge

WriteDevice(r, value, ok) ==
    \/ device' = [device EXCEPT ![r] = value]
    \/ ~ok /\ UNCHANGED device

(***************************************************************************)
(* save_and_remap_bridge: read the registers; write memory, io, command;   *)
(* record the bus numbers and the three writes in the boot script.  A      *)
(* fault of a write or of a record restores all three registers, and a     *)
(* fault of that restore replaces the one that caused it.                  *)
(***************************************************************************)
ReadBridge ==
    /\ at = "readBridge"
    /\ UNCHANGED <<hardware, request, deviceSaved, fault,
                   acquired, changed, resumeFault, deviceFault>>
    /\ \/ /\ bridgeSaved' = bridge
          /\ Goto("remapBridge")
          /\ UNCHANGED receipt
       \/ /\ Finish(Receipt("BridgeRemapFailed", "BridgeConfig", NoFault))
          /\ UNCHANGED bridgeSaved

RemapBridge ==
    /\ at = "remapBridge"
    /\ UNCHANGED <<device, straps, script, request, saved, results>>
    /\ \E ok \in BOOLEAN :
          /\ WriteBridge(BridgeRemapOrder[k],
                         remapped(bridgeSaved, BridgeRemapOrder[k]), ok)
          /\ \/ /\ ok
                /\ Advance(3, IF resume THEN "recordBridge" ELSE "readDevice")
                /\ UNCHANGED fault
             \/ /\ ~ok
                /\ fault' = "BridgeConfig"
                /\ Goto("undoBridge")

RecordBridge ==
    /\ at = "recordBridge"
    /\ UNCHANGED <<bridge, device, straps, request, saved, results>>
    /\ \/ /\ script' = Append(script, <<"bridge", BridgeRecords[k]>>)
          /\ Advance(4, "readDevice")
          /\ UNCHANGED fault
       \/ /\ fault' = "WriteS3SaveState"
          /\ Goto("undoBridge")
          /\ UNCHANGED script

UndoBridge ==
    /\ at = "undoBridge"
    /\ UNCHANGED <<device, straps, script, request, saved,
                   acquired, changed, resumeFault, deviceFault>>
    /\ \E ok \in BOOLEAN :
          /\ WriteBridge(BridgeRestoreOrder[k], bridgeSaved[BridgeRestoreOrder[k]], ok)
          /\ fault' = IF ok THEN fault ELSE "BridgeRestore"
          /\ \/ /\ k < 3
                /\ k' = k + 1
                /\ UNCHANGED <<at, receipt>>
             \/ /\ k = 3
                /\ Finish(Receipt("BridgeRemapFailed", fault', NoFault))

(***************************************************************************)
(* save_and_remap_device_bar0: the same for the GPU's BAR0 and command.    *)
(* Whatever it returns, the bridge is restored afterwards.                 *)
(***************************************************************************)
\* (Faulty variant: a failed read returns before the bridge is restored.)
ReadDevice_EarlyReturn ==
    /\ at = "readDevice"
    /\ UNCHANGED <<hardware, request, bridgeSaved, fault,
                   acquired, changed, resumeFault, deviceFault>>
    /\ \/ /\ deviceSaved' = device
          /\ Goto("remapDevice")
          /\ UNCHANGED receipt
       \/ /\ Finish(Receipt("DeviceRemapFailed", "DeviceConfig", NoFault))
          /\ UNCHANGED deviceSaved

ReadDevice ==
    /\ at = "readDevice"
    /\ UNCHANGED <<hardware, request, bridgeSaved, fault,
                   acquired, changed, resumeFault, receipt>>
    /\ \/ /\ deviceSaved' = device
          /\ Goto("remapDevice")
          /\ UNCHANGED deviceFault
       \/ /\ deviceFault' = "DeviceConfig"
          /\ Goto("restoreBridge")
          /\ UNCHANGED deviceSaved

RemapDevice ==
    /\ at = "remapDevice"
    /\ UNCHANGED <<bridge, straps, script, request, saved, results>>
    /\ \E ok \in BOOLEAN :
          /\ WriteDevice(DeviceRemapOrder[k],
                         remapped(deviceSaved, DeviceRemapOrder[k]), ok)
          /\ \/ /\ ok
                /\ Advance(2, IF resume THEN "recordDevice" ELSE "plan")
                /\ UNCHANGED fault
             \/ /\ ~ok
                /\ fault' = "DeviceConfig"
                /\ Goto("undoDevice")

RecordDevice ==
    /\ at = "recordDevice"
    /\ UNCHANGED <<bridge, device, straps, request, saved, results>>
    /\ \/ /\ script' = Append(script, <<"device", DeviceRecords[k]>>)
          /\ Advance(2, "plan")
          /\ UNCHANGED fault
       \/ /\ fault' = "WriteS3SaveState"
          /\ Goto("undoDevice")
          /\ UNCHANGED script

UndoDevice ==
    /\ at = "undoDevice"
    /\ UNCHANGED <<bridge, straps, script, request, saved,
                   acquired, changed, resumeFault, receipt>>
    /\ \E ok \in BOOLEAN :
          /\ WriteDevice(DeviceRestoreOrder[k], deviceSaved[DeviceRestoreOrder[k]], ok)
          /\ LET f == IF ok THEN fault ELSE "DeviceRestore"
             IN  \/ /\ k < 2
                    /\ k' = k + 1
                    /\ fault' = f
                    /\ UNCHANGED <<at, deviceFault>>
                 \/ /\ k = 2
                    /\ Goto("restoreBridge")
                    /\ deviceFault' = f
                    /\ fault' = NoFault

(***************************************************************************)
(* configure_bar1_size: plan from the live registers, then write and       *)
(* record each register the plan changes.  A record that fails does not    *)
(* stop the writes; the first such fault is kept.                          *)
(***************************************************************************)
\* The first planned register at or after position i of StrapOrder, or 3.
NextStrap(i) ==
    LET later == {j \in i .. 2 :
                     StrapOrder[j] \in planned_writes(straps, selector)}
    IN  IF later = {} THEN 3 ELSE CHOOSE j \in later : \A l \in later : j <= l

GotoStrap(i) ==
    IF NextStrap(i) = 3 THEN Goto("restoreDevice")
    ELSE at' = "writeStrap" /\ k' = NextStrap(i)

Plan ==
    /\ at = "plan"
    /\ acquired' = TRUE
    /\ changed' = reported_changed(straps, selector)
    /\ GotoStrap(1)
    /\ UNCHANGED <<hardware, request, saved, fault,
                   resumeFault, deviceFault, receipt>>

WriteStrap ==
    /\ at = "writeStrap"
    /\ LET r == StrapOrder[k]
       IN  straps' = [straps EXCEPT ![r] = StrapWritten(selector, r)]
    /\ IF resume THEN at' = "recordStrap" /\ UNCHANGED k
       ELSE GotoStrap(k + 1)
    /\ UNCHANGED <<bridge, device, script, request, saved, fault, results>>

RecordStrap ==
    /\ at = "recordStrap"
    /\ GotoStrap(k + 1)
    /\ \/ /\ script' = Append(script, <<"strap", StrapOrder[k]>>)
          /\ UNCHANGED resumeFault
       \/ /\ resumeFault' = "WriteS3SaveState"
          /\ UNCHANGED script
    /\ UNCHANGED <<bridge, device, straps, request, saved, fault,
                   acquired, changed, deviceFault, receipt>>

(***************************************************************************)
(* restore_device_bar0 and restore_bridge write every register even when   *)
(* an earlier write failed.                                                *)
(***************************************************************************)
RestoreDevice ==
    /\ at = "restoreDevice"
    /\ UNCHANGED <<bridge, straps, script, request, saved,
                   acquired, changed, resumeFault, receipt>>
    /\ \E ok \in BOOLEAN :
          /\ WriteDevice(DeviceRestoreOrder[k], deviceSaved[DeviceRestoreOrder[k]], ok)
          /\ LET f == IF ok THEN fault ELSE "DeviceRestore"
             IN  \/ /\ k < 2
                    /\ k' = k + 1
                    /\ fault' = f
                    /\ UNCHANGED <<at, deviceFault>>
                 \/ /\ k = 2
                    /\ Goto("restoreBridge")
                    /\ deviceFault' = f
                    /\ fault' = NoFault

\* Faulty variant: the result of the bridge restore is dropped after a failed
\* device remap.
Outcome_Dropped(bridgeFault) ==
    IF ~acquired
    THEN Receipt("DeviceRemapFailed", deviceFault, NoFault)
    ELSE IF deviceFault # NoFault \/ bridgeFault # NoFault
    THEN Receipt("RestorationFailed", deviceFault, bridgeFault)
    ELSE Receipt("Completed", resumeFault, NoFault)

\* The value execute_device_transaction returns once the bridge restore
\* returned bridgeFault.
Outcome(bridgeFault) ==
    IF ~acquired
    THEN Receipt("DeviceRemapFailed", deviceFault, bridgeFault)
    ELSE IF deviceFault # NoFault \/ bridgeFault # NoFault
    THEN Receipt("RestorationFailed", deviceFault, bridgeFault)
    ELSE Receipt("Completed", resumeFault, NoFault)

RestoreBridge ==
    /\ at = "restoreBridge"
    /\ UNCHANGED <<device, straps, script, request, saved,
                   acquired, changed, resumeFault, deviceFault>>
    /\ \E ok \in BOOLEAN :
          /\ WriteBridge(BridgeRestoreOrder[k], bridgeSaved[BridgeRestoreOrder[k]], ok)
          /\ fault' = IF ok THEN fault ELSE "BridgeRestore"
          /\ \/ /\ k < 3
                /\ k' = k + 1
                /\ UNCHANGED <<at, receipt>>
             \/ /\ k = 3
                /\ Finish(Outcome(fault'))

Next ==
    \/ ReadBridge \/ RemapBridge \/ RecordBridge \/ UndoBridge
    \/ ReadDevice \/ RemapDevice \/ RecordDevice \/ UndoDevice
    \/ Plan \/ WriteStrap \/ RecordStrap
    \/ RestoreDevice \/ RestoreBridge

\* The transaction is a sequential function: it runs until it returns.
Spec == Init /\ [][Next]_vars /\ WF_vars(Next)

-----------------------------------------------------------------------------

BridgeMapped ==
    bridge = [command |-> firmware.bridge.command \cup Command,
              io |-> "window", memory |-> "window"]

DeviceMapped ==
    device = [command |-> firmware.device.command \cup Command,
              bar0 |-> "window"]

\* The straps are written only while the bridge forwards the window and the
\* GPU decodes it: configure_bar1_size runs between both remaps and both
\* restores, whatever failed before.
StrapsOnlyThroughWindow ==
    [][straps' # straps => BridgeMapped /\ DeviceMapped]_vars

\* Reverse acquisition order: as long as the GPU's registers are not those
\* firmware left, the bridge still forwards the window, unless restoring the
\* GPU failed and the transaction knows it.
BridgeOutlivesDevice ==
    device # firmware.device =>
        BridgeMapped \/ deviceFault = "DeviceRestore"

Blames(location) == receipt.first = location \/ receipt.second = location

\* A receipt never hides a register that was not restored: every register is
\* as firmware left it, or the receipt names the restore that failed.  It
\* holds after a failure of any write or record.
RestoredOrReported ==
    at = "done" =>
        /\ bridge = firmware.bridge \/ Blames("BridgeRestore")
        /\ device = firmware.device \/ Blames("DeviceRestore")

\* What replaying the strap records of the boot script makes of the straps
\* that are in force again after a resume.
Replayed(r) ==
    IF \E i \in DOMAIN script : script[i] = <<"strap", r>>
    THEN StrapWritten(selector, r) ELSE firmware.straps[r]

\* A completed transaction left the straps at the requested size, and unless
\* it reports a resume fault an S3 resume programs the same straps again.
CompletedIsProgrammed ==
    receipt.kind = "Completed" =>
        /\ straps.set0.part + straps.set1.part = selector
        /\ resume /\ receipt.first = NoFault =>
              \A r \in {"set0", "set1"} : straps[r] = Replayed(r)

-----------------------------------------------------------------------------

(***************************************************************************)
(* The adapter's calls as execute_device_transaction sees them.            *)
(***************************************************************************)
PolicyAt ==
    CASE at \in {"readBridge", "remapBridge", "recordBridge", "undoBridge"}
            -> "remapBridge"
      [] at \in {"readDevice", "remapDevice", "recordDevice", "undoDevice"}
            -> "remapDevice"
      [] at \in {"plan", "writeStrap", "recordStrap"} -> "program"
      [] OTHER -> at

PolicyHeld ==
    (IF PolicyAt = "remapBridge" \/ receipt.kind = "BridgeRemapFailed"
        \/ (at = "done" /\ receipt.second = NoFault)
     THEN {} ELSE {"bridge"})
    \cup
    (IF PolicyAt \in {"program", "restoreDevice"}
        \/ (acquired /\ deviceFault # NoFault)
     THEN {"device"} ELSE {})

PolicyStrap ==
    [err |-> NoFault,
     resume |-> IF at \in {"restoreDevice", "restoreBridge", "done"}
                THEN resumeFault ELSE NoFault]

Policy == INSTANCE ExecutionPolicy WITH
              Faults <- Locations,
              at <- PolicyAt,
              held <- PolicyHeld,
              strap <- PolicyStrap

\* The UEFI adapter implements the transaction policy of execution.rs.
ImplementsPolicy == Policy!Spec

=============================================================================

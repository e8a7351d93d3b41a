---------------------- MODULE DeviceTransactionProofs ----------------------
(***************************************************************************)
(* Proofs about DeviceTransaction, for every set of firmware register      *)
(* contents and every requested selector.                                  *)
(***************************************************************************)
EXTENDS DeviceTransaction, TLAPS

\* The two parts of a selector fit their fields and add up to the selector,
\* so the plan programs the aperture that was asked for (target_parts).
LEMMA TargetParts ==
    ASSUME NEW s \in Selectors
    PROVE  /\ target_parts(s).set0 \in Part1
           /\ target_parts(s).set1 \in Part2
           /\ target_parts(s).set0 + target_parts(s).set1 = s
BY DEF Selectors, MAX_BAR_SIZE_SELECTOR, target_parts, Part1, Part2

\* A planned write keeps the strap registers well formed.
LEMMA StrapTyped ==
    ASSUME NEW before \in StrapRegisters, NEW s \in Selectors,
           NEW r \in {"set0", "set1"}
    PROVE  [before EXCEPT ![r] = StrapWritten(s, r)] \in StrapRegisters
<1>1. /\ target_parts(s).set0 \in Part1
      /\ target_parts(s).set1 \in Part2
    BY TargetParts
<1>2. CASE r = "set0"
  <2>1. StrapWritten(s, "set0") \in [part: Part1, enable: BOOLEAN]
    BY <1>1 DEF StrapWritten
  <2> QED
    BY <1>2, <2>1 DEF StrapRegisters
<1>3. CASE r = "set1"
  <2>1. StrapWritten(s, "set1") \in [part: Part2, enable: BOOLEAN]
    BY <1>1 DEF StrapWritten
  <2> QED
    BY <1>3, <2>1 DEF StrapRegisters
<1> QED
    BY <1>2, <1>3

-----------------------------------------------------------------------------

\* The phases in which the bridge forwards the window, and those in which
\* the GPU decodes it as well.
BridgeUse == {"recordBridge", "readDevice", "remapDevice", "recordDevice",
              "undoDevice", "plan", "writeStrap", "recordStrap",
              "restoreDevice"}
DeviceUse == {"recordDevice", "plan", "writeStrap", "recordStrap"}

\* How far the writes of each phase have got.  A restore that has not failed
\* has put back every register it has passed.
BridgeInv ==
    /\ at \notin {"readBridge", "done"} => bridgeSaved = firmware.bridge
    /\ at = "readBridge" => bridge = firmware.bridge
    /\ at = "remapBridge" =>
          /\ bridge.command = firmware.bridge.command
          /\ k > 1 => bridge.memory = "window"
          /\ k > 2 => bridge.io = "window"
    /\ at \in BridgeUse => BridgeMapped
    /\ at \in {"undoBridge", "restoreBridge"} =>
          /\ fault # "BridgeRestore" =>
                /\ k > 1 => bridge.command = firmware.bridge.command
                /\ k > 2 => bridge.io = "firmware"
    /\ at = "restoreBridge" /\ k = 1 => BridgeMapped
    /\ at = "done" => bridge = firmware.bridge \/ Blames("BridgeRestore")

DeviceInv ==
    /\ at \in {"readBridge", "remapBridge", "recordBridge", "undoBridge",
              "readDevice"} => device = firmware.device
    /\ at \in {"remapDevice", "undoDevice", "restoreDevice"} \cup DeviceUse
          => deviceSaved = firmware.device
    /\ at = "remapDevice" =>
          /\ device.command = firmware.device.command
          /\ k > 1 => device.bar0 = "window"
    /\ at \in DeviceUse => DeviceMapped
    /\ at \in {"undoDevice", "restoreDevice"} =>
          /\ fault # "DeviceRestore" =>
                (k > 1 => device.command = firmware.device.command)
    /\ at \in {"restoreBridge", "done"} =>
          device = firmware.device \/ deviceFault = "DeviceRestore"
    /\ at = "done" => device = firmware.device \/ Blames("DeviceRestore")

IInv == TypeOK /\ BridgeInv /\ DeviceInv


-----------------------------------------------------------------------------

LEMMA BridgeTyped ==
    ASSUME bridge \in BridgeRegisters, bridgeSaved \in BridgeRegisters,
           NEW r \in {"command", "io", "memory"}, NEW ok \in BOOLEAN,
           \/ WriteBridge(r, remapped(bridgeSaved, r), ok)
           \/ WriteBridge(r, bridgeSaved[r], ok)
    PROVE  bridge' \in BridgeRegisters
BY DEF WriteBridge, remapped, BridgeRegisters, Command

LEMMA DeviceTyped ==
    ASSUME device \in DeviceRegisters, deviceSaved \in DeviceRegisters,
           NEW r \in {"command", "bar0"}, NEW ok \in BOOLEAN,
           \/ WriteDevice(r, remapped(deviceSaved, r), ok)
           \/ WriteDevice(r, deviceSaved[r], ok)
    PROVE  device' \in DeviceRegisters
BY DEF WriteDevice, remapped, DeviceRegisters, Command

\* A receipt built from two possible faults is typed.
LEMMA ReceiptTyped ==
    ASSUME NEW kind \in Kinds, NEW f \in MaybeFault, NEW g \in MaybeFault
    PROVE  Receipt(kind, f, g) \in Receipts
BY DEF Receipt, Receipts

\* The next planned strap register is one of the two, or there is none.
LEMMA NextStrapIn ==
    ASSUME NEW i \in 1 .. 3
    PROVE  NextStrap(i) \in i .. 3
<1> DEFINE later == {j \in i .. 2 :
                        StrapOrder[j] \in planned_writes(straps, selector)}
<1>1. CASE later = {}
    BY <1>1 DEF NextStrap
<1>2. CASE later # {}
  <2>1. \E j \in later : \A l \in later : j <= l
    <3>1. CASE i \in later
        BY <3>1
    <3>2. CASE i \notin later
        BY <3>2, <1>2
    <3> QED BY <3>1, <3>2
  <2> QED
    BY <1>2, <2>1 DEF NextStrap
<1> QED
    BY <1>1, <1>2

\* Going to the next planned strap register keeps the position in its list.
LEMMA GotoStrapTyped ==
    ASSUME NEW i \in 1 .. 3, GotoStrap(i)
    PROVE  /\ at' \in {"writeStrap", "restoreDevice"}
           /\ k' \in 1 .. 2
           /\ at' = "restoreDevice" => k' = 1
BY NextStrapIn DEF GotoStrap, Goto

LEMMA RecordTyped ==
    ASSUME script \in Seq(Records), NEW e \in Records
    PROVE  Append(script, e) \in Seq(Records)
OBVIOUS

-----------------------------------------------------------------------------

LEMMA TypeInit == Init => TypeOK
<1> SUFFICES ASSUME Init PROVE TypeOK
    OBVIOUS
<1>1. PICK b \in InitialCommands, d \in InitialCommands, s \in InitialStraps :
          firmware = [bridge |-> FirmwareBridge(b),
                      device |-> FirmwareDevice(d), straps |-> s]
    BY DEF Init
<1>2. /\ b \in SUBSET Command
      /\ d \in SUBSET Command
      /\ s \in StrapRegisters
      /\ selector \in Selectors
    BY ConstantsAssumption DEF Init
<1>3. HardwareOK
  <2>1. /\ bridge = FirmwareBridge(b)
        /\ device = FirmwareDevice(d)
        /\ straps = s
        /\ script = <<>>
    BY <1>1 DEF Init
  <2> QED
    BY <2>1, <1>2 DEF HardwareOK, BridgeRegisters, DeviceRegisters,
                      FirmwareBridge, FirmwareDevice
<1>4. RequestOK
    BY <1>1, <1>2 DEF RequestOK, Init
<1>5. ControlOK
    BY DEF ControlOK, Init, Phases, Writes
<1>6. LocalsOK
    BY DEF LocalsOK, Init, MaybeFault, NoReceipt, Receipt, Receipts, Kinds,
           BridgeRegisters, DeviceRegisters, FirmwareBridge, FirmwareDevice
<1> QED
    BY <1>3, <1>4, <1>5, <1>6 DEF TypeOK

\* What an action leaves alone keeps its type.
LEMMA RequestStep == RequestOK /\ UNCHANGED request => RequestOK'
BY DEF RequestOK, request

LEMMA TypeStep == TypeOK /\ [Next]_vars => TypeOK'
<1> SUFFICES ASSUME TypeOK, [Next]_vars PROVE TypeOK'
    OBVIOUS
<1>0. HardwareOK /\ RequestOK /\ ControlOK /\ LocalsOK
    BY DEF TypeOK
<1> USE <1>0, RequestStep
<1>1. CASE ReadBridge
  <2> USE <1>1
  <2>1. HardwareOK' /\ RequestOK'
    BY DEF ReadBridge, HardwareOK, hardware
  <2>2. ControlOK'
    BY DEF ReadBridge, ControlOK, Goto, Finish, Phases, Writes
  <2>3. LocalsOK'
    BY ReceiptTyped DEF ReadBridge, LocalsOK, HardwareOK, Finish, Kinds, MaybeFault, Locations
  <2> QED BY <2>1, <2>2, <2>3 DEF TypeOK
<1>2. CASE RemapBridge
  <2> USE <1>2
  <2>1. PICK ok \in BOOLEAN :
           WriteBridge(BridgeRemapOrder[k],
                       remapped(bridgeSaved, BridgeRemapOrder[k]), ok)
    BY DEF RemapBridge
  <2>2. HardwareOK' /\ RequestOK'
    <3>1. BridgeRemapOrder[k] \in {"command", "io", "memory"}
      BY DEF RemapBridge, ControlOK, Writes, BridgeRemapOrder
    <3>2. bridge' \in BridgeRegisters
      BY <2>1, <3>1, BridgeTyped DEF HardwareOK, LocalsOK
    <3> QED BY <3>2 DEF RemapBridge, HardwareOK
  <2>3. ControlOK'
    BY DEF RemapBridge, ControlOK, Goto, Advance, Phases, Writes
  <2>4. LocalsOK'
    BY DEF RemapBridge, LocalsOK, saved, results, MaybeFault, Locations
  <2> QED BY <2>2, <2>3, <2>4 DEF TypeOK
<1>3. CASE RecordBridge
  <2> USE <1>3
  <2>1. HardwareOK' /\ RequestOK'
    <3>1. <<"bridge", BridgeRecords[k]>> \in Records
      BY DEF RecordBridge, ControlOK, Writes, BridgeRecords, Records
    <3> QED BY <3>1, RecordTyped DEF RecordBridge, HardwareOK
  <2>2. ControlOK'
    BY DEF RecordBridge, ControlOK, Goto, Advance, Phases, Writes
  <2>3. LocalsOK'
    BY DEF RecordBridge, LocalsOK, saved, results, MaybeFault, Locations
  <2> QED BY <2>1, <2>2, <2>3 DEF TypeOK
<1>4. CASE UndoBridge
  <2> USE <1>4
  <2>1. PICK ok \in BOOLEAN :
           WriteBridge(BridgeRestoreOrder[k],
                       bridgeSaved[BridgeRestoreOrder[k]], ok)
    BY DEF UndoBridge
  <2>2. HardwareOK' /\ RequestOK'
    <3>1. BridgeRestoreOrder[k] \in {"command", "io", "memory"}
      BY DEF UndoBridge, ControlOK, Writes, BridgeRestoreOrder
    <3>2. bridge' \in BridgeRegisters
      BY <2>1, <3>1, BridgeTyped DEF HardwareOK, LocalsOK
    <3> QED BY <3>2 DEF UndoBridge, HardwareOK
  <2>3. ControlOK'
    BY DEF UndoBridge, ControlOK, Goto, Finish, Phases, Writes
  <2>4. LocalsOK'
    <3>1. fault' \in MaybeFault
      BY DEF UndoBridge, LocalsOK, MaybeFault, Locations
    <3>2. receipt' \in Receipts
      BY <3>1, ReceiptTyped DEF UndoBridge, LocalsOK, Finish, Kinds, MaybeFault
    <3> QED BY <3>1, <3>2 DEF UndoBridge, LocalsOK, saved
  <2> QED BY <2>2, <2>3, <2>4 DEF TypeOK
<1>5. CASE ReadDevice
  <2> USE <1>5
  <2>1. HardwareOK' /\ RequestOK'
    BY DEF ReadDevice, HardwareOK, hardware
  <2>2. ControlOK'
    BY DEF ReadDevice, ControlOK, Goto, Phases, Writes
  <2>3. LocalsOK'
    BY DEF ReadDevice, LocalsOK, HardwareOK, MaybeFault, Locations
  <2> QED BY <2>1, <2>2, <2>3 DEF TypeOK
<1>6. CASE RemapDevice
  <2> USE <1>6
  <2>1. PICK ok \in BOOLEAN :
           WriteDevice(DeviceRemapOrder[k],
                       remapped(deviceSaved, DeviceRemapOrder[k]), ok)
    BY DEF RemapDevice
  <2>2. HardwareOK' /\ RequestOK'
    <3>1. DeviceRemapOrder[k] \in {"command", "bar0"}
      BY DEF RemapDevice, ControlOK, Writes, DeviceRemapOrder
    <3>2. device' \in DeviceRegisters
      BY <2>1, <3>1, DeviceTyped DEF HardwareOK, LocalsOK
    <3> QED BY <3>2 DEF RemapDevice, HardwareOK
  <2>3. ControlOK'
    BY DEF RemapDevice, ControlOK, Goto, Advance, Phases, Writes
  <2>4. LocalsOK'
    BY DEF RemapDevice, LocalsOK, saved, results, MaybeFault, Locations
  <2> QED BY <2>2, <2>3, <2>4 DEF TypeOK
<1>7. CASE RecordDevice
  <2> USE <1>7
  <2>1. HardwareOK' /\ RequestOK'
    <3>1. <<"device", DeviceRecords[k]>> \in Records
      BY DEF RecordDevice, ControlOK, Writes, DeviceRecords, Records
    <3> QED BY <3>1, RecordTyped DEF RecordDevice, HardwareOK
  <2>2. ControlOK'
    BY DEF RecordDevice, ControlOK, Goto, Advance, Phases, Writes
  <2>3. LocalsOK'
    BY DEF RecordDevice, LocalsOK, saved, results, MaybeFault, Locations
  <2> QED BY <2>1, <2>2, <2>3 DEF TypeOK
<1>8. CASE UndoDevice
  <2> USE <1>8
  <2>1. PICK ok \in BOOLEAN :
           WriteDevice(DeviceRestoreOrder[k],
                       deviceSaved[DeviceRestoreOrder[k]], ok)
    BY DEF UndoDevice
  <2>2. HardwareOK' /\ RequestOK'
    <3>1. DeviceRestoreOrder[k] \in {"command", "bar0"}
      BY DEF UndoDevice, ControlOK, Writes, DeviceRestoreOrder
    <3>2. device' \in DeviceRegisters
      BY <2>1, <3>1, DeviceTyped DEF HardwareOK, LocalsOK
    <3> QED BY <3>2 DEF UndoDevice, HardwareOK
  <2>3. ControlOK'
    BY DEF UndoDevice, ControlOK, Goto, Phases, Writes
  <2>4. LocalsOK'
    BY DEF UndoDevice, LocalsOK, saved, MaybeFault, Locations
  <2> QED BY <2>2, <2>3, <2>4 DEF TypeOK
<1>9. CASE Plan
  <2> USE <1>9
  <2>1. HardwareOK' /\ RequestOK'
    BY DEF Plan, HardwareOK, hardware
  <2>2. ControlOK'
    BY GotoStrapTyped DEF Plan, ControlOK, Phases, Writes
  <2>3. LocalsOK'
    BY DEF Plan, LocalsOK, saved, reported_changed
  <2> QED BY <2>1, <2>2, <2>3 DEF TypeOK
<1>10. CASE WriteStrap
  <2> USE <1>10
  <2>1. HardwareOK' /\ RequestOK'
    <3>1. StrapOrder[k] \in {"set0", "set1"}
      BY DEF WriteStrap, ControlOK, Writes, StrapOrder
    <3>2. straps' \in StrapRegisters
      BY <3>1, StrapTyped DEF WriteStrap, HardwareOK, RequestOK
    <3> QED BY <3>2 DEF WriteStrap, HardwareOK
  <2>2. ControlOK'
    BY GotoStrapTyped DEF WriteStrap, ControlOK, Phases, Writes
  <2>3. LocalsOK'
    BY DEF WriteStrap, LocalsOK, saved, results
  <2> QED BY <2>1, <2>2, <2>3 DEF TypeOK
<1>11. CASE RecordStrap
  <2> USE <1>11
  <2>1. HardwareOK' /\ RequestOK'
    <3>1. <<"strap", StrapOrder[k]>> \in Records
      BY DEF RecordStrap, ControlOK, Writes, StrapOrder, Records
    <3> QED BY <3>1, RecordTyped DEF RecordStrap, HardwareOK
  <2>2. ControlOK'
    BY GotoStrapTyped DEF RecordStrap, ControlOK, Phases, Writes
  <2>3. LocalsOK'
    BY DEF RecordStrap, LocalsOK, saved, MaybeFault, Locations
  <2> QED BY <2>1, <2>2, <2>3 DEF TypeOK
<1>12. CASE RestoreDevice
  <2> USE <1>12
  <2>1. PICK ok \in BOOLEAN :
           WriteDevice(DeviceRestoreOrder[k],
                       deviceSaved[DeviceRestoreOrder[k]], ok)
    BY DEF RestoreDevice
  <2>2. HardwareOK' /\ RequestOK'
    <3>1. DeviceRestoreOrder[k] \in {"command", "bar0"}
      BY DEF RestoreDevice, ControlOK, Writes, DeviceRestoreOrder
    <3>2. device' \in DeviceRegisters
      BY <2>1, <3>1, DeviceTyped DEF HardwareOK, LocalsOK
    <3> QED BY <3>2 DEF RestoreDevice, HardwareOK
  <2>3. ControlOK'
    BY DEF RestoreDevice, ControlOK, Goto, Phases, Writes
  <2>4. LocalsOK'
    BY DEF RestoreDevice, LocalsOK, saved, MaybeFault, Locations
  <2> QED BY <2>2, <2>3, <2>4 DEF TypeOK
<1>13. CASE RestoreBridge
  <2> USE <1>13
  <2>1. PICK ok \in BOOLEAN :
           WriteBridge(BridgeRestoreOrder[k],
                       bridgeSaved[BridgeRestoreOrder[k]], ok)
    BY DEF RestoreBridge
  <2>2. HardwareOK' /\ RequestOK'
    <3>1. BridgeRestoreOrder[k] \in {"command", "io", "memory"}
      BY DEF RestoreBridge, ControlOK, Writes, BridgeRestoreOrder
    <3>2. bridge' \in BridgeRegisters
      BY <2>1, <3>1, BridgeTyped DEF HardwareOK, LocalsOK
    <3> QED BY <3>2 DEF RestoreBridge, HardwareOK
  <2>3. ControlOK'
    BY DEF RestoreBridge, ControlOK, Goto, Finish, Phases, Writes
  <2>4. LocalsOK'
    <3>1. fault' \in MaybeFault
      BY DEF RestoreBridge, LocalsOK, MaybeFault, Locations
    <3>2. Outcome(fault') \in Receipts
      BY <3>1, ReceiptTyped DEF Outcome, LocalsOK, Kinds, MaybeFault
    <3> QED BY <3>1, <3>2 DEF RestoreBridge, LocalsOK, Finish, saved
  <2> QED BY <2>2, <2>3, <2>4 DEF TypeOK
<1>14. CASE UNCHANGED vars
  BY <1>14 DEF vars, hardware, request, saved, results, TypeOK, HardwareOK,
               RequestOK, ControlOK, LocalsOK, Writes
<1> QED
  BY <1>1, <1>2, <1>3, <1>4, <1>5, <1>6, <1>7, <1>8, <1>9, <1>10, <1>11,
     <1>12, <1>13, <1>14 DEF Next

\* Every reachable state is well typed, the position in a list of writes
\* always in its range: no write of the transaction is ever out of its list.
THEOREM TypeCorrect == Spec => []TypeOK
<1> QED BY TypeInit, TypeStep, PTL DEF Spec

-----------------------------------------------------------------------------

\* A register file is determined by its registers.
LEMMA BridgeExt ==
    ASSUME NEW x \in BridgeRegisters, NEW y \in BridgeRegisters,
           x.command = y.command, x.io = y.io, x.memory = y.memory
    PROVE  x = y
BY DEF BridgeRegisters

LEMMA DeviceExt ==
    ASSUME NEW x \in DeviceRegisters, NEW y \in DeviceRegisters,
           x.command = y.command, x.bar0 = y.bar0
    PROVE  x = y
BY DEF DeviceRegisters

\* What firmware left in the registers.
LEMMA FirmwareTyped ==
    ASSUME RequestOK
    PROVE  /\ firmware.bridge \in BridgeRegisters
           /\ firmware.bridge.io = "firmware"
           /\ firmware.bridge.memory = "firmware"
           /\ firmware.device \in DeviceRegisters
           /\ firmware.device.bar0 = "firmware"
<1>1. PICK b \in SUBSET Command : firmware.bridge = FirmwareBridge(b)
  BY DEF RequestOK
<1>2. PICK d \in SUBSET Command : firmware.device = FirmwareDevice(d)
  BY DEF RequestOK
<1> QED
  BY <1>1, <1>2 DEF BridgeRegisters, DeviceRegisters, FirmwareBridge,
                    FirmwareDevice

\* A typed register file is the record of its registers.
LEMMA BridgeShape ==
    ASSUME TypeOK'
    PROVE  bridge' = [command |-> bridge'.command, io |-> bridge'.io,
                      memory |-> bridge'.memory]
BY DEF TypeOK, HardwareOK, BridgeRegisters

LEMMA DeviceShape ==
    ASSUME TypeOK'
    PROVE  device' = [command |-> device'.command, bar0 |-> device'.bar0]
BY DEF TypeOK, HardwareOK, DeviceRegisters

\* The effect of one register write.
LEMMA BridgeWrite ==
    ASSUME TypeOK, NEW r \in {"command", "io", "memory"}, NEW v,
           NEW ok \in BOOLEAN, WriteBridge(r, v, ok)
    PROVE  /\ ok => bridge'[r] = v
           /\ \A q \in {"command", "io", "memory"} \ {r} :
                  bridge'[q] = bridge[q]
BY DEF TypeOK, HardwareOK, BridgeRegisters, WriteBridge

LEMMA DeviceWrite ==
    ASSUME TypeOK, NEW r \in {"command", "bar0"}, NEW v,
           NEW ok \in BOOLEAN, WriteDevice(r, v, ok)
    PROVE  /\ ok => device'[r] = v
           /\ \A q \in {"command", "bar0"} \ {r} : device'[q] = device[q]
BY DEF TypeOK, HardwareOK, DeviceRegisters, WriteDevice

LEMMA InvInit == Init => BridgeInv /\ DeviceInv
BY DEF Init, BridgeInv, DeviceInv, BridgeUse, DeviceUse

\* Between the bridge remap and the bridge restore no action touches the
\* bridge, and the restore starts at its first write.
LEMMA BridgeInUse ==
    ASSUME TypeOK, [Next]_vars, at \in BridgeUse \ {"recordBridge"}
    PROVE  /\ UNCHANGED <<bridge, bridgeSaved, firmware>>
           /\ \/ at' \in BridgeUse
              \/ at' = "restoreBridge" /\ k' = 1
<1>1. CASE ReadDevice
  BY <1>1 DEF ReadDevice, BridgeUse, hardware, request, Goto
<1>2. CASE RemapDevice
  BY <1>2 DEF RemapDevice, BridgeUse, hardware, request, saved, Goto, Advance
<1>3. CASE RecordDevice
  BY <1>3 DEF RecordDevice, BridgeUse, hardware, request, saved, Goto, Advance
<1>4. CASE UndoDevice
  BY <1>4 DEF UndoDevice, BridgeUse, hardware, request, saved, Goto
<1>5. CASE Plan
  BY <1>5, GotoStrapTyped DEF Plan, BridgeUse, hardware, request, saved
<1>6. CASE WriteStrap
  BY <1>6, GotoStrapTyped
     DEF WriteStrap, BridgeUse, request, saved, TypeOK, ControlOK, Writes
<1>7. CASE RecordStrap
  BY <1>7, GotoStrapTyped
     DEF RecordStrap, BridgeUse, request, saved, TypeOK, ControlOK, Writes
<1>8. CASE RestoreDevice
  BY <1>8 DEF RestoreDevice, BridgeUse, hardware, request, saved, Goto
<1>9. CASE UNCHANGED vars
  BY <1>9 DEF vars, hardware, request, saved
<1> QED
  BY <1>1, <1>2, <1>3, <1>4, <1>5, <1>6, <1>7, <1>8, <1>9
     DEF Next, BridgeUse, ReadBridge, RemapBridge, RecordBridge, UndoBridge,
         RestoreBridge

\* The writes of a restore: after the last of them the bridge is as firmware
\* left it, unless a write failed.
LEMMA BridgeRestoring ==
    ASSUME TypeOK, TypeOK', BridgeInv, UNCHANGED <<bridgeSaved, firmware>>,
           at \in {"undoBridge", "restoreBridge"}, NEW ok \in BOOLEAN,
           WriteBridge(BridgeRestoreOrder[k],
                       bridgeSaved[BridgeRestoreOrder[k]], ok),
           fault' = IF ok THEN fault ELSE "BridgeRestore",
           fault' # "BridgeRestore"
    PROVE  /\ bridge'.command = firmware.bridge.command
           /\ k > 1 => bridge'.io = "firmware"
           /\ k > 2 => bridge' = firmware.bridge
<1>1. /\ ok
      /\ fault # "BridgeRestore"
      /\ k \in 1 .. 3
      /\ bridgeSaved = firmware.bridge
  BY DEF BridgeInv, TypeOK, ControlOK, Writes
<1>2. /\ firmware.bridge.io = "firmware"
      /\ firmware.bridge.memory = "firmware"
      /\ firmware.bridge \in BridgeRegisters
      /\ bridge' \in BridgeRegisters
  BY FirmwareTyped DEF TypeOK, HardwareOK
<1>3. CASE k = 1
  <2>1. WriteBridge("command", firmware.bridge.command, ok)
    BY <1>1, <1>3 DEF BridgeRestoreOrder
  <2>2. bridge'["command"] = firmware.bridge.command
    BY <2>1, <1>1, BridgeWrite
  <2> QED
    BY <2>2, <1>3
<1>4. CASE k = 2
  <2>1. WriteBridge("io", "firmware", ok)
    BY <1>1, <1>2, <1>4 DEF BridgeRestoreOrder
  <2>2. /\ bridge'["io"] = "firmware"
        /\ bridge'["command"] = bridge["command"]
    BY <2>1, <1>1, BridgeWrite
  <2>3. bridge.command = firmware.bridge.command
    BY <1>1, <1>4 DEF BridgeInv
  <2> QED
    BY <2>2, <2>3, <1>4
<1>5. CASE k = 3
  <2>1. WriteBridge("memory", "firmware", ok)
    BY <1>1, <1>2, <1>5 DEF BridgeRestoreOrder
  <2>2. /\ bridge'["memory"] = "firmware"
        /\ bridge'["io"] = bridge["io"]
        /\ bridge'["command"] = bridge["command"]
    BY <2>1, <1>1, BridgeWrite
  <2>3. /\ bridge.io = "firmware"
        /\ bridge.command = firmware.bridge.command
    BY <1>1, <1>5 DEF BridgeInv
  <2> QED
    BY <2>2, <2>3, <1>2, <1>5, BridgeExt
<1> QED
  BY <1>1, <1>3, <1>4, <1>5

LEMMA BridgeStep ==
    TypeOK /\ TypeOK' /\ BridgeInv /\ [Next]_vars => BridgeInv'
<1> SUFFICES ASSUME TypeOK, TypeOK', BridgeInv, [Next]_vars
             PROVE  BridgeInv'
    OBVIOUS
<1>1. CASE ReadBridge
  BY <1>1 DEF ReadBridge, hardware, request, Finish, Receipt, BridgeInv,
              BridgeUse, Goto
<1>2. CASE RemapBridge
  <2>1. PICK ok \in BOOLEAN :
           /\ WriteBridge(BridgeRemapOrder[k],
                          remapped(bridgeSaved, BridgeRemapOrder[k]), ok)
           /\ \/ ok /\ Advance(3, IF resume THEN "recordBridge"
                                          ELSE "readDevice")
              \/ ~ok /\ Goto("undoBridge")
    BY <1>2 DEF RemapBridge
  <2>2. /\ at = "remapBridge"
        /\ k \in 1 .. 3
        /\ UNCHANGED <<bridgeSaved, firmware>>
        /\ bridgeSaved = firmware.bridge
    BY <1>2 DEF RemapBridge, TypeOK, ControlOK, Writes, request, saved,
                BridgeInv
  <2>3. CASE ~ok
    BY <2>1, <2>2, <2>3 DEF BridgeInv, BridgeUse, Goto
  <2>4. CASE ok /\ k = 1
    <3>1. WriteBridge("memory", "window", ok)
      BY <2>1, <2>4 DEF BridgeRemapOrder, remapped
    <3>2. /\ bridge'.memory = "window"
          /\ bridge'.command = bridge.command
      BY <3>1, <2>4, BridgeWrite
    <3> QED
      BY <3>2, <2>1, <2>2, <2>4 DEF BridgeInv, BridgeUse, Goto, Advance
  <2>5. CASE ok /\ k = 2
    <3>1. WriteBridge("io", "window", ok)
      BY <2>1, <2>5 DEF BridgeRemapOrder, remapped
    <3>2. /\ bridge'.io = "window"
          /\ bridge'.memory = bridge.memory
          /\ bridge'.command = bridge.command
      BY <3>1, <2>5, BridgeWrite
    <3> QED
      BY <3>2, <2>1, <2>2, <2>5 DEF BridgeInv, BridgeUse, Goto, Advance
  <2>6. CASE ok /\ k = 3
    <3>1. WriteBridge("command", firmware.bridge.command \cup Command, ok)
      BY <2>1, <2>2, <2>6 DEF BridgeRemapOrder, remapped
    <3>2. /\ bridge'.io = bridge.io
          /\ bridge'.memory = bridge.memory
          /\ bridge'.command = firmware.bridge.command \cup Command
      BY <3>1, <2>6, BridgeWrite
    <3>3. bridge.io = "window" /\ bridge.memory = "window"
      BY <2>2, <2>6 DEF BridgeInv
    <3>4. BridgeMapped'
      BY <3>2, <3>3, <2>2, BridgeShape DEF BridgeMapped
    <3> QED
      BY <3>4, <2>1, <2>2, <2>6 DEF BridgeInv, BridgeUse, Goto, Advance
  <2> QED
    BY <2>2, <2>3, <2>4, <2>5, <2>6
<1>3. CASE RecordBridge
  BY <1>3 DEF RecordBridge, BridgeInv, BridgeUse, BridgeMapped, Goto, Advance,
              request, saved
<1>4. CASE UndoBridge
  <2>1. PICK ok \in BOOLEAN :
           /\ WriteBridge(BridgeRestoreOrder[k],
                          bridgeSaved[BridgeRestoreOrder[k]], ok)
           /\ fault' = IF ok THEN fault ELSE "BridgeRestore"
           /\ \/ k < 3 /\ k' = k + 1 /\ UNCHANGED at
              \/ k = 3 /\ at' = "done" /\ receipt'.first = fault'
    BY <1>4 DEF UndoBridge, Goto, Finish, Receipt
  <2>2. /\ at = "undoBridge"
        /\ k \in 1 .. 3
        /\ UNCHANGED <<bridgeSaved, firmware>>
    BY <1>4 DEF UndoBridge, TypeOK, ControlOK, Writes, request, saved
  <2>3. fault' # "BridgeRestore" =>
           /\ bridge'.command = firmware.bridge.command
           /\ k > 1 => bridge'.io = "firmware"
           /\ k > 2 => bridge' = firmware.bridge
    BY <2>1, <2>2, BridgeRestoring
  <2> QED
    BY <2>1, <2>2, <2>3 DEF BridgeInv, BridgeUse, Blames
<1>5. CASE at \in BridgeUse \ {"recordBridge"}
  BY <1>5, BridgeInUse DEF BridgeInv, BridgeUse, BridgeMapped
<1>6. CASE RestoreBridge
  <2>1. PICK ok \in BOOLEAN :
           /\ WriteBridge(BridgeRestoreOrder[k],
                          bridgeSaved[BridgeRestoreOrder[k]], ok)
           /\ fault' = IF ok THEN fault ELSE "BridgeRestore"
           /\ \/ k < 3 /\ k' = k + 1 /\ UNCHANGED at
              \/ k = 3 /\ at' = "done" /\ receipt' = Outcome(fault')
    BY <1>6 DEF RestoreBridge, Goto, Finish
  <2>2. /\ at = "restoreBridge"
        /\ k \in 1 .. 3
        /\ UNCHANGED <<bridgeSaved, firmware>>
    BY <1>6 DEF RestoreBridge, TypeOK, ControlOK, Writes, request, saved
  <2>3. fault' # "BridgeRestore" =>
           /\ bridge'.command = firmware.bridge.command
           /\ k > 1 => bridge'.io = "firmware"
           /\ k > 2 => bridge' = firmware.bridge
    BY <2>1, <2>2, BridgeRestoring
  <2>4. fault' = "BridgeRestore" => Outcome(fault').second = "BridgeRestore"
    BY ConstantsAssumption DEF Outcome, Receipt
  <2> QED
    BY <2>1, <2>2, <2>3, <2>4 DEF BridgeInv, BridgeUse, Blames
<1>7. CASE UNCHANGED vars
  BY <1>7 DEF vars, hardware, request, saved, results, BridgeInv, BridgeUse,
              BridgeMapped, Blames
<1> QED
  BY <1>1, <1>2, <1>3, <1>4, <1>5, <1>6, <1>7
     DEF Next, BridgeUse, ReadDevice, RemapDevice, RecordDevice, UndoDevice,
         Plan, WriteStrap, RecordStrap, RestoreDevice

\* Between the device remap and its restore no action touches the GPU's
\* registers; before the remap and after the restore neither.
LEMMA DeviceUntouched ==
    ASSUME TypeOK, [Next]_vars,
           at \notin {"remapDevice", "undoDevice", "restoreDevice"}
    PROVE  UNCHANGED <<device, firmware>>
BY DEF Next, ReadBridge, RemapBridge, RecordBridge, UndoBridge, ReadDevice,
       RemapDevice, RecordDevice, UndoDevice, Plan, WriteStrap, RecordStrap,
       RestoreDevice, RestoreBridge, vars, hardware, request

LEMMA DeviceRestoring ==
    ASSUME TypeOK, TypeOK', DeviceInv, UNCHANGED <<deviceSaved, firmware>>,
           at \in {"undoDevice", "restoreDevice"}, NEW ok \in BOOLEAN,
           WriteDevice(DeviceRestoreOrder[k],
                       deviceSaved[DeviceRestoreOrder[k]], ok),
           (IF ok THEN fault ELSE "DeviceRestore") # "DeviceRestore"
    PROVE  /\ device'.command = firmware.device.command
           /\ k > 1 => device' = firmware.device
<1>1. /\ ok
      /\ fault # "DeviceRestore"
      /\ k \in 1 .. 2
      /\ deviceSaved = firmware.device
  BY DEF DeviceInv, TypeOK, ControlOK, Writes
<1>2. /\ firmware.device.bar0 = "firmware"
      /\ firmware.device \in DeviceRegisters
      /\ device' \in DeviceRegisters
  BY FirmwareTyped DEF TypeOK, HardwareOK
<1>3. CASE k = 1
  <2>1. WriteDevice("command", firmware.device.command, ok)
    BY <1>1, <1>3 DEF DeviceRestoreOrder
  <2>2. device'["command"] = firmware.device.command
    BY <2>1, <1>1, DeviceWrite
  <2> QED
    BY <2>2, <1>3
<1>4. CASE k = 2
  <2>1. WriteDevice("bar0", "firmware", ok)
    BY <1>1, <1>2, <1>4 DEF DeviceRestoreOrder
  <2>2. /\ device'["bar0"] = "firmware"
        /\ device'["command"] = device["command"]
    BY <2>1, <1>1, DeviceWrite
  <2>3. device.command = firmware.device.command
    BY <1>1, <1>4 DEF DeviceInv
  <2> QED
    BY <2>2, <2>3, <1>2, DeviceExt
<1> QED
  BY <1>1, <1>3, <1>4

LEMMA DeviceStep ==
    TypeOK /\ TypeOK' /\ DeviceInv /\ [Next]_vars => DeviceInv'
<1> SUFFICES ASSUME TypeOK, TypeOK', DeviceInv, [Next]_vars
             PROVE  DeviceInv'
    OBVIOUS
<1>0. at \notin {"remapDevice", "undoDevice", "restoreDevice"}
        => UNCHANGED <<device, firmware>>
  BY DeviceUntouched
<1>1. CASE ReadBridge \/ RemapBridge \/ RecordBridge \/ UndoBridge
  BY <1>1, <1>0 DEF ReadBridge, RemapBridge, RecordBridge, UndoBridge,
        DeviceInv, DeviceUse, Goto, Finish, Advance
<1>2. CASE ReadDevice
  BY <1>2, <1>0 DEF ReadDevice, DeviceInv, DeviceUse, Goto
<1>3. CASE RemapDevice
  <2>1. PICK ok \in BOOLEAN :
           /\ WriteDevice(DeviceRemapOrder[k],
                          remapped(deviceSaved, DeviceRemapOrder[k]), ok)
           /\ \/ ok /\ Advance(2, IF resume THEN "recordDevice" ELSE "plan")
              \/ ~ok /\ Goto("undoDevice")
    BY <1>3 DEF RemapDevice
  <2>2. /\ at = "remapDevice"
        /\ k \in 1 .. 2
        /\ UNCHANGED <<deviceSaved, firmware>>
        /\ deviceSaved = firmware.device
    BY <1>3 DEF RemapDevice, TypeOK, ControlOK, Writes, request, saved,
                DeviceInv, DeviceUse
  <2>3. CASE ~ok
    BY <2>1, <2>2, <2>3 DEF DeviceInv, DeviceUse, Goto
  <2>4. CASE ok /\ k = 1
    <3>1. WriteDevice("bar0", "window", ok)
      BY <2>1, <2>4 DEF DeviceRemapOrder, remapped
    <3>2. /\ device'["bar0"] = "window"
          /\ device'["command"] = device["command"]
      BY <3>1, <2>4, DeviceWrite
    <3> QED
      BY <3>2, <2>1, <2>2, <2>4 DEF DeviceInv, DeviceUse, Goto, Advance
  <2>5. CASE ok /\ k = 2
    <3>1. WriteDevice("command", firmware.device.command \cup Command, ok)
      BY <2>1, <2>2, <2>5 DEF DeviceRemapOrder, remapped
    <3>2. /\ device'["bar0"] = device["bar0"]
          /\ device'["command"] = firmware.device.command \cup Command
      BY <3>1, <2>5, DeviceWrite
    <3>3. device.bar0 = "window"
      BY <2>2, <2>5 DEF DeviceInv
    <3>4. DeviceMapped'
      BY <3>2, <3>3, <2>2, DeviceShape DEF DeviceMapped
    <3> QED
      BY <3>4, <2>1, <2>2, <2>5 DEF DeviceInv, DeviceUse, Goto, Advance
  <2> QED
    BY <2>2, <2>3, <2>4, <2>5
<1>4. CASE RecordDevice
  BY <1>4, <1>0 DEF RecordDevice, DeviceInv, DeviceUse, DeviceMapped, Goto,
        Advance, saved
<1>5. CASE UndoDevice \/ RestoreDevice
  <2>1. PICK ok \in BOOLEAN :
           /\ WriteDevice(DeviceRestoreOrder[k],
                          deviceSaved[DeviceRestoreOrder[k]], ok)
           /\ \/ /\ k < 2 /\ k' = k + 1 /\ UNCHANGED at
                 /\ fault' = IF ok THEN fault ELSE "DeviceRestore"
              \/ /\ k = 2 /\ at' = "restoreBridge"
                 /\ deviceFault' = IF ok THEN fault ELSE "DeviceRestore"
    BY <1>5 DEF UndoDevice, RestoreDevice, Goto
  <2>2. /\ at \in {"undoDevice", "restoreDevice"}
        /\ k \in 1 .. 2
        /\ UNCHANGED <<deviceSaved, firmware>>
    BY <1>5 DEF UndoDevice, RestoreDevice, TypeOK, ControlOK, Writes, request,
                saved
  <2>3. (IF ok THEN fault ELSE "DeviceRestore") # "DeviceRestore" =>
           /\ device'.command = firmware.device.command
           /\ k > 1 => device' = firmware.device
    BY <2>1, <2>2, DeviceRestoring
  <2> QED
    BY <2>1, <2>2, <2>3 DEF DeviceInv, DeviceUse
<1>6. CASE Plan
  BY <1>6, <1>0, GotoStrapTyped DEF Plan, DeviceInv, DeviceUse, DeviceMapped,
        saved
<1>7. CASE WriteStrap \/ RecordStrap
  <2>1. k \in 1 .. 2
    BY <1>7 DEF WriteStrap, RecordStrap, TypeOK, ControlOK, Writes
  <2>2. at' \in {"writeStrap", "recordStrap", "restoreDevice"} /\ k' \in 1 .. 2
    BY <1>7, <2>1, GotoStrapTyped DEF WriteStrap, RecordStrap
  <2>3. at' = "restoreDevice" => k' = 1
    BY <1>7, <2>1, GotoStrapTyped DEF WriteStrap, RecordStrap
  <2> QED
    BY <1>7, <1>0, <2>2, <2>3 DEF WriteStrap, RecordStrap, DeviceInv,
        DeviceUse, DeviceMapped, saved
<1>8. CASE RestoreBridge
  <2>1. Outcome(fault').first = deviceFault \/ deviceFault # "DeviceRestore"
    BY ConstantsAssumption DEF Outcome, Receipt
  <2> QED
    BY <1>8, <1>0, <2>1 DEF RestoreBridge, DeviceInv, DeviceUse, Finish, Goto,
        Blames
<1>9. CASE UNCHANGED vars
  BY <1>9 DEF vars, hardware, request, saved, results, DeviceInv, DeviceUse,
        DeviceMapped, Blames
<1> QED
  BY <1>1, <1>2, <1>3, <1>4, <1>5, <1>6, <1>7, <1>8, <1>9 DEF Next

-----------------------------------------------------------------------------

THEOREM InductiveInvariant == Spec => []IInv
<1>1. Init => IInv
  BY TypeInit, InvInit DEF IInv
<1>2. IInv /\ [Next]_vars => IInv'
  BY TypeStep, BridgeStep, DeviceStep DEF IInv
<1> QED
  BY <1>1, <1>2, PTL DEF Spec

\* Whatever writes and records fail, the transaction ends with every register
\* as firmware left it or with a receipt that names the restore that failed.
THEOREM Restoration == Spec => []RestoredOrReported
<1>1. IInv => RestoredOrReported
  BY DEF IInv, BridgeInv, DeviceInv, RestoredOrReported
<1> QED
  BY <1>1, InductiveInvariant, PTL

\* The GPU's registers never differ from those of firmware while the bridge
\* has stopped forwarding the window, unless restoring the GPU failed.
THEOREM ReverseOrder == Spec => []BridgeOutlivesDevice
<1>1. IInv => BridgeOutlivesDevice
  BY DEF IInv, BridgeInv, DeviceInv, BridgeOutlivesDevice, BridgeUse,
         DeviceUse, TypeOK, ControlOK, Phases
<1> QED
  BY <1>1, InductiveInvariant, PTL

\* No strap register is ever written through an aperture that is not mapped.
THEOREM StrapsThroughWindow == Spec => StrapsOnlyThroughWindow
<1>1. IInv /\ [Next]_vars =>
         [straps' # straps => BridgeMapped /\ DeviceMapped]_vars
  <2> SUFFICES ASSUME IInv, [Next]_vars, straps' # straps
               PROVE  BridgeMapped /\ DeviceMapped
    OBVIOUS
  <2>1. WriteStrap
    BY DEF Next, ReadBridge, RemapBridge, RecordBridge, UndoBridge,
           ReadDevice, RemapDevice, RecordDevice, UndoDevice, Plan,
           RecordStrap, RestoreDevice, RestoreBridge, vars, hardware
  <2> QED
    BY <2>1 DEF WriteStrap, IInv, BridgeInv, DeviceInv, BridgeUse, DeviceUse
<1> QED
  BY <1>1, InductiveInvariant, PTL DEF Spec, StrapsOnlyThroughWindow

-----------------------------------------------------------------------------

Recorded(r) == \E i \in DOMAIN script : script[i] = <<"strap", r>>

\* A strap register the transaction has not written, and one it is done with:
\* its size field is the target, and a resume that was recorded without a
\* fault makes the same of it.
Untouched(r) == straps[r] = firmware.straps[r] /\ ~Recorded(r)

Settled(r) ==
    /\ straps[r].part = target_parts(selector)[r]
    /\ resume /\ resumeFault = NoFault => straps[r] = Replayed(r)

BeforeProgram == {"readBridge", "remapBridge", "recordBridge", "undoBridge",
                  "readDevice", "remapDevice", "recordDevice", "undoDevice",
                  "plan"}

StrapInv ==
    /\ at \in BeforeProgram =>
          ~acquired /\ Untouched("set0") /\ Untouched("set1")
    /\ at \in {"writeStrap", "recordStrap"} =>
          /\ k = 1 => Untouched("set1")
          /\ k = 2 => Settled("set0")
    /\ at = "writeStrap" => Untouched(StrapOrder[k])
    /\ at = "recordStrap" =>
          /\ resume
          /\ straps[StrapOrder[k]] = StrapWritten(selector, StrapOrder[k])
    /\ at = "restoreDevice" \/ (at \in {"restoreBridge", "done"} /\ acquired) =>
          Settled("set0") /\ Settled("set1")
    /\ receipt.kind = "Completed" =>
          at = "done" /\ acquired /\ receipt.first = resumeFault

\* Recording anything but a strap write leaves the strap records alone.
LEMMA RecordedAfter ==
    ASSUME script \in Seq(Records), NEW e, script' = Append(script, e), NEW r
    PROVE  Recorded(r)' <=> Recorded(r) \/ e = <<"strap", r>>
<1>1. /\ DOMAIN script = 1 .. Len(script)
      /\ DOMAIN script' = 1 .. (Len(script) + 1)
      /\ Len(script) \in Nat
      /\ \A i \in 1 .. Len(script) : script'[i] = script[i]
      /\ script'[Len(script) + 1] = e
  OBVIOUS
<1>2. ASSUME Recorded(r)' PROVE Recorded(r) \/ e = <<"strap", r>>
  <2>1. PICK i \in 1 .. (Len(script) + 1) : script'[i] = <<"strap", r>>
    BY <1>1, <1>2 DEF Recorded
  <2>2. CASE i = Len(script) + 1
    BY <1>1, <2>1, <2>2
  <2>3. CASE i \in 1 .. Len(script)
    <3>1. script[i] = <<"strap", r>>
      BY <1>1, <2>1, <2>3
    <3> QED
      BY <1>1, <2>3, <3>1 DEF Recorded
  <2> QED
    BY <1>1, <2>2, <2>3
<1>3. ASSUME Recorded(r) PROVE Recorded(r)'
  <2>1. PICK i \in 1 .. Len(script) : script[i] = <<"strap", r>>
    BY <1>1, <1>3 DEF Recorded
  <2>2. i \in 1 .. (Len(script) + 1) /\ script'[i] = <<"strap", r>>
    BY <1>1, <2>1
  <2> QED
    BY <1>1, <2>2 DEF Recorded
<1>4. ASSUME e = <<"strap", r>> PROVE Recorded(r)'
  <2>1. Len(script) + 1 \in DOMAIN script'
    BY <1>1
  <2> QED
    BY <1>1, <1>4, <2>1 DEF Recorded
<1> QED
  BY <1>2, <1>3, <1>4

LEMMA OtherRecords ==
    ASSUME NEW x, NEW y, NEW r
    PROVE  /\ <<"bridge", x>> # <<"strap", r>>
           /\ <<"device", x>> # <<"strap", r>>
           /\ <<"strap", x>> = <<"strap", r>> <=> x = r
OBVIOUS

\* A strap register the plan does not write has its target already.
LEMMA SkippedIsSettled ==
    ASSUME NEW r \in {"set0", "set1"}, Untouched(r)', UNCHANGED selector,
           straps'[r] = straps[r], r \notin planned_writes(straps, selector)
    PROVE  Settled(r)'
BY DEF Untouched, planned_writes, Settled, Replayed, Recorded

LEMMA SettledKept ==
    ASSUME NEW r, UNCHANGED <<script, selector, resume, firmware, resumeFault>>,
           straps'[r] = straps[r]
    PROVE  /\ Settled(r) => Settled(r)'
           /\ Untouched(r) => Untouched(r)'
BY DEF Settled, Untouched, Replayed, Recorded, StrapWritten

\* Where the loop of the strap writes goes from position i.
LEMMA NextStrapIs ==
    ASSUME NEW i \in 1 .. 3
    PROVE  /\ NextStrap(i) \in 1 .. 2 =>
                 StrapOrder[NextStrap(i)] \in planned_writes(straps, selector)
           /\ \A j \in i .. 2 :
                 j < NextStrap(i) =>
                     StrapOrder[j] \notin planned_writes(straps, selector)
<1> DEFINE later == {j \in i .. 2 :
                        StrapOrder[j] \in planned_writes(straps, selector)}
<1>1. CASE later = {}
    BY <1>1 DEF NextStrap
<1>2. CASE later # {}
  <2>1. \E j \in later : \A l \in later : j <= l
    <3>1. CASE i \in later
        BY <3>1
    <3>2. CASE i \notin later
        BY <3>2, <1>2
    <3> QED BY <3>1, <3>2
  <2> DEFINE n == CHOOSE j \in later : \A l \in later : j <= l
  <2>2. n \in later /\ \A l \in later : n <= l
    BY <2>1
  <2>3. NextStrap(i) = n
    BY <1>2 DEF NextStrap
  <2> QED
    BY <2>2, <2>3
<1> QED
    BY <1>1, <1>2

\* Moving on to the next planned strap register settles those in between.
LEMMA StrapLoop ==
    ASSUME NEW i \in 1 .. 3, GotoStrap(i), UNCHANGED selector,
           i = 1 => Untouched("set0")' /\ straps'["set0"] = straps["set0"],
           i < 3 => Untouched("set1")' /\ straps'["set1"] = straps["set1"],
           i > 1 => Settled("set0")',
           i > 2 => Settled("set1")',
           receipt'.kind # "Completed"
    PROVE  StrapInv'
<1> DEFINE n == NextStrap(i)
<1>1. n \in i .. 3
  BY NextStrapIn
<1>2. StrapOrder[1] = "set0" /\ StrapOrder[2] = "set1"
  BY DEF StrapOrder
<1>3. i = 1 /\ n > 1 => Settled("set0")'
  <2>1. i = 1 /\ n > 1 => "set0" \notin planned_writes(straps, selector)
    BY <1>1, <1>2, NextStrapIs
  <2> QED
    BY <2>1, SkippedIsSettled
<1>4. i < 3 /\ n > 2 => Settled("set1")'
  <2>1. i < 3 /\ n > 2 => "set1" \notin planned_writes(straps, selector)
    BY <1>1, <1>2, NextStrapIs
  <2> QED
    BY <2>1, SkippedIsSettled
<1>5. CASE n = 3
  <2>1. at' = "restoreDevice"
    BY <1>5 DEF GotoStrap, Goto
  <2>2. Settled("set0")' /\ Settled("set1")'
    BY <1>3, <1>4, <1>5
  <2> QED
    BY <2>1, <2>2 DEF StrapInv, BeforeProgram
<1>6. CASE n \in 1 .. 2
  <2>1. at' = "writeStrap" /\ k' = n
    BY <1>6 DEF GotoStrap
  <2>2. /\ k' = 1 => Untouched("set0")'
        /\ k' = 2 => Untouched("set1")'
    BY <1>1, <1>6, <2>1
  <2>3. /\ k' = 1 => Untouched("set1")'
        /\ k' = 2 => Settled("set0")'
    BY <1>1, <1>3, <1>6, <2>1
  <2>4. Untouched(StrapOrder[k])'
    <3>1. /\ k' = 1 => StrapOrder[k'] = "set0"
          /\ k' = 2 => StrapOrder[k'] = "set1"
          /\ k' \in 1 .. 2
      BY <1>2, <1>6, <2>1
    <3> QED
      BY <2>2, <3>1 DEF Untouched, Recorded, StrapOrder
  <2> QED
    BY <2>1, <2>3, <2>4 DEF StrapInv, BeforeProgram
<1> QED
  BY <1>1, <1>5, <1>6

LEMMA StrapInit == Init => StrapInv
BY DEF Init, StrapInv, BeforeProgram, Untouched, Recorded, NoReceipt, Receipt

\* The actions in front of the strap writes leave the straps and their records
\* alone, and do not complete anything.
LEMMA StrapBefore ==
    ASSUME TypeOK, [Next]_vars, at \in BeforeProgram, at # "plan", StrapInv
    PROVE  /\ UNCHANGED <<straps, firmware, acquired>>
           /\ \A r : Recorded(r)' <=> Recorded(r)
           /\ at' \in BeforeProgram \cup {"restoreBridge", "done"}
           /\ receipt'.kind # "Completed"
<1>0. script \in Seq(Records) /\ receipt.kind # "Completed"
  BY DEF TypeOK, HardwareOK, StrapInv, BeforeProgram
<1>1. CASE UNCHANGED script
  <2>1. \A r : Recorded(r)' <=> Recorded(r)
    BY <1>1 DEF Recorded
  <2>2. CASE ReadBridge \/ RemapBridge \/ RecordBridge \/ UndoBridge
    BY <1>0, <2>1, <2>2 DEF ReadBridge, RemapBridge, RecordBridge, UndoBridge,
          hardware, request, results, Goto, Advance, Finish, Receipt,
          BeforeProgram
  <2>3. CASE ReadDevice \/ RemapDevice \/ RecordDevice \/ UndoDevice
    BY <1>0, <2>1, <2>3 DEF ReadDevice, RemapDevice, RecordDevice, UndoDevice,
          hardware, request, results, Goto, Advance, BeforeProgram
  <2>4. CASE UNCHANGED vars
    BY <1>0, <2>1, <2>4 DEF vars, hardware, request, results
  <2> QED
    BY <2>2, <2>3, <2>4 DEF Next, BeforeProgram, Plan, WriteStrap,
          RecordStrap, RestoreDevice, RestoreBridge
<1>2. CASE RecordBridge /\ script' # script
  <2>1. script' = Append(script, <<"bridge", BridgeRecords[k]>>)
    BY <1>2 DEF RecordBridge
  <2>2. \A r : Recorded(r)' <=> Recorded(r)
    BY <1>0, <2>1, RecordedAfter, OtherRecords
  <2> QED
    BY <1>0, <1>2, <2>2 DEF RecordBridge, request, results, Goto, Advance,
          BeforeProgram
<1>3. CASE RecordDevice /\ script' # script
  <2>1. script' = Append(script, <<"device", DeviceRecords[k]>>)
    BY <1>3 DEF RecordDevice
  <2>2. \A r : Recorded(r)' <=> Recorded(r)
    BY <1>0, <2>1, RecordedAfter, OtherRecords
  <2> QED
    BY <1>0, <1>3, <2>2 DEF RecordDevice, request, results, Goto, Advance,
          BeforeProgram
<1> QED
  BY <1>1, <1>2, <1>3 DEF Next, BeforeProgram, ReadBridge, RemapBridge,
     UndoBridge, ReadDevice, RemapDevice, UndoDevice, Plan, WriteStrap,
     RecordStrap, RestoreDevice, RestoreBridge, vars, hardware

LEMMA StrapStep ==
    TypeOK /\ TypeOK' /\ StrapInv /\ [Next]_vars => StrapInv'
<1> SUFFICES ASSUME TypeOK, TypeOK', StrapInv, [Next]_vars
             PROVE  StrapInv'
  OBVIOUS
<1>1. CASE at \in BeforeProgram /\ at # "plan"
  <2>1. ~acquired /\ Untouched("set0") /\ Untouched("set1")
    BY <1>1 DEF StrapInv
  <2>2. ~acquired' /\ Untouched("set0")' /\ Untouched("set1")'
    BY <1>1, <2>1, StrapBefore DEF Untouched
  <2> QED
    BY <1>1, <2>2, StrapBefore DEF StrapInv, BeforeProgram
<1>2. CASE Plan
  <2>1. /\ at = "plan"
        /\ GotoStrap(1)
        /\ UNCHANGED <<straps, script, selector, resume, firmware,
                       resumeFault, receipt>>
    BY <1>2 DEF Plan, hardware, request
  <2>2. Untouched("set0")' /\ Untouched("set1")'
    BY <2>1 DEF StrapInv, BeforeProgram, Untouched, Recorded
  <2>3. receipt'.kind # "Completed"
    BY <2>1 DEF StrapInv
  <2> QED
    BY <2>1, <2>2, <2>3, StrapLoop
<1>3. CASE WriteStrap
  <2>0. PICK r \in {"set0", "set1"} : r = StrapOrder[k]
    BY <1>3 DEF WriteStrap, TypeOK, ControlOK, Writes, StrapOrder
  <2>1. /\ at = "writeStrap"
        /\ k \in 1 .. 2
        /\ UNCHANGED <<script, selector, resume, firmware, resumeFault, receipt>>
        /\ receipt.kind # "Completed"
        /\ straps \in StrapRegisters
        /\ straps' = [straps EXCEPT ![r] = StrapWritten(selector, r)]
    BY <1>3, <2>0 DEF WriteStrap, TypeOK, ControlOK, HardwareOK, Writes,
                      request, results, StrapInv
  <2>2. /\ k = 1 => r = "set0"
        /\ k = 2 => r = "set1"
    BY <2>0 DEF StrapOrder
  <2>3. /\ straps'[r] = StrapWritten(selector, r)
        /\ \A q \in {"set0", "set1"} \ {r} : straps'[q] = straps[q]
    BY <2>1, <2>2 DEF StrapRegisters
  <2>4. /\ k = 1 => Untouched("set1")'
        /\ k = 2 => Settled("set0")'
    <3>1. /\ k = 1 => Untouched("set1")
          /\ k = 2 => Settled("set0")
      BY <2>1 DEF StrapInv
    <3> QED
      BY <2>1, <2>2, <2>3, <3>1, SettledKept
  <2>5. CASE resume
    <3>1. at' = "recordStrap" /\ k' = k
      BY <1>3, <2>5 DEF WriteStrap
    <3> QED
      BY <2>0, <2>1, <2>2, <2>3, <2>4, <2>5, <3>1
         DEF StrapInv, BeforeProgram, StrapWritten
  <2>6. CASE ~resume
    <3>1. GotoStrap(k + 1)
      BY <1>3, <2>6 DEF WriteStrap
    <3>2. Settled(r)'
      BY <2>1, <2>3, <2>6 DEF Settled, StrapWritten
    <3>3. k + 1 \in 1 .. 3
      BY <2>1
    <3>4. /\ k + 1 > 1 => Settled("set0")'
          /\ k + 1 > 2 => Settled("set1")'
      BY <2>1, <2>2, <2>4, <3>2
    <3>5. k + 1 < 3 => Untouched("set1")' /\ straps'["set1"] = straps["set1"]
      BY <2>1, <2>2, <2>3, <2>4
    <3> QED
      BY <2>1, <3>1, <3>3, <3>4, <3>5, StrapLoop
  <2> QED
    BY <2>5, <2>6
<1>4. CASE RecordStrap
  <2>0. PICK r \in {"set0", "set1"} : r = StrapOrder[k]
    BY <1>4 DEF RecordStrap, TypeOK, ControlOK, Writes, StrapOrder
  <2>1. /\ at = "recordStrap"
        /\ k \in 1 .. 2
        /\ GotoStrap(k + 1)
        /\ UNCHANGED <<straps, selector, resume, firmware, receipt>>
        /\ receipt.kind # "Completed"
        /\ script \in Seq(Records)
        /\ straps[r] = StrapWritten(selector, r)
        /\ k = 1 => Untouched("set1")
        /\ k = 2 => Settled("set0")
    BY <1>4, <2>0 DEF RecordStrap, TypeOK, ControlOK, HardwareOK, Writes,
                      request, StrapInv
  <2>2. /\ k = 1 => r = "set0"
        /\ k = 2 => r = "set1"
    BY <2>0 DEF StrapOrder
  <2>3. /\ k = 1 => Untouched("set1")'
        /\ k + 1 > 1 => Settled("set0")'
        /\ k + 1 > 2 => Settled("set1")'
    <3>1. CASE /\ script' = Append(script, <<"strap", r>>)
               /\ UNCHANGED resumeFault
      <4>1. ASSUME NEW q \in {"set0", "set1"}
            PROVE  Recorded(q)' <=> Recorded(q) \/ q = r
        <5>1. Recorded(q)' <=> Recorded(q) \/ <<"strap", r>> = <<"strap", q>>
          BY <2>1, <3>1, RecordedAfter
        <5> QED
          BY <5>1, OtherRecords
      <4>2. Settled(r)'
        <5>1. Recorded(r)'
          BY <4>1
        <5>2. Replayed(r)' = StrapWritten(selector', r)
          BY <5>1 DEF Replayed, Recorded, StrapWritten
        <5> QED
          BY <2>1, <5>2 DEF Settled, StrapWritten
      <4>3. k = 1 => Untouched("set1")'
        BY <2>1, <2>2, <4>1 DEF Untouched
      <4>4. k = 2 => Settled("set0")'
        BY <2>1, <2>2, <3>1, <4>1
           DEF Settled, Replayed, Recorded, StrapWritten
      <4> QED
        BY <2>1, <2>2, <4>2, <4>3, <4>4
    <3>2. CASE resumeFault' = "WriteS3SaveState" /\ UNCHANGED script
      <4>1. resumeFault' # NoFault
        BY <3>2, ConstantsAssumption
      <4>2. Settled(r)'
        BY <2>1, <4>1 DEF Settled, StrapWritten
      <4>3. k = 2 => Settled("set0")'
        BY <2>1, <4>1 DEF Settled
      <4>4. k = 1 => Untouched("set1")'
        BY <2>1, <3>2 DEF Untouched, Recorded
      <4> QED
        BY <2>1, <2>2, <4>2, <4>3, <4>4
    <3> QED
      BY <1>4, <2>0, <3>1, <3>2 DEF RecordStrap
  <2>4. k + 1 \in 1 .. 3
    BY <2>1
  <2>5. k + 1 < 3 => Untouched("set1")' /\ straps'["set1"] = straps["set1"]
    BY <2>1, <2>3
  <2> QED
    BY <2>1, <2>3, <2>4, <2>5, StrapLoop
<1>5. CASE RestoreDevice \/ RestoreBridge
  <2>1. /\ UNCHANGED <<straps, script, selector, resume, firmware, resumeFault,
                       acquired>>
        /\ at \in {"restoreDevice", "restoreBridge"}
        /\ at' \in {"restoreDevice", "restoreBridge", "done"}
        /\ at = "restoreDevice" \/ acquired \/ ~acquired'
        /\ at' = "restoreDevice" => at = "restoreDevice"
        /\ receipt'.kind = "Completed" =>
              at' = "done" /\ acquired /\ receipt'.first = resumeFault
    BY <1>5 DEF RestoreDevice, RestoreBridge, request, Goto, Finish, Outcome,
                Receipt, StrapInv
  <2>2. \/ Settled("set0") /\ Settled("set1")
        \/ ~acquired' /\ at' # "restoreDevice"
    BY <2>1 DEF StrapInv
  <2>3. \/ Settled("set0")' /\ Settled("set1")'
        \/ ~acquired' /\ at' # "restoreDevice"
    BY <2>1, <2>2, SettledKept
  <2> QED
    BY <2>1, <2>3 DEF StrapInv, BeforeProgram
<1>6. CASE UNCHANGED vars
  BY <1>6 DEF vars, hardware, request, results, StrapInv, Untouched, Settled,
              Recorded, Replayed, StrapWritten
<1> QED
  BY <1>1, <1>2, <1>3, <1>4, <1>5, <1>6 DEF Next, BeforeProgram, ReadBridge,
     RemapBridge, RecordBridge, UndoBridge, ReadDevice, RemapDevice,
     RecordDevice, UndoDevice

\* A completed transaction left the straps at the requested size, and unless
\* it reports a resume fault an S3 resume programs the same straps again: for
\* every request and whatever the straps held before.
THEOREM Programmed == Spec => []CompletedIsProgrammed
<1>1. Init => StrapInv
  BY StrapInit
<1>2. IInv /\ IInv' /\ StrapInv /\ [Next]_vars => StrapInv'
  BY StrapStep DEF IInv
<1>3. IInv /\ StrapInv => CompletedIsProgrammed
  <2> SUFFICES ASSUME IInv, StrapInv, receipt.kind = "Completed"
               PROVE  /\ straps.set0.part + straps.set1.part = selector
                      /\ resume /\ receipt.first = NoFault =>
                            \A r \in {"set0", "set1"} : straps[r] = Replayed(r)
    BY DEF CompletedIsProgrammed
  <2>1. /\ Settled("set0") /\ Settled("set1")
        /\ receipt.first = resumeFault
    BY DEF StrapInv
  <2>2. selector \in Selectors
    BY DEF IInv, TypeOK, RequestOK
  <2> QED
    BY <2>1, <2>2, TargetParts DEF Settled
<1> QED
  BY <1>1, <1>2, <1>3, InductiveInvariant, PTL DEF Spec

-----------------------------------------------------------------------------

\* What the adapter's steps know of the faults and the receipt.
FaultInv ==
    /\ at \in BeforeProgram => ~acquired /\ resumeFault = NoFault
    /\ at \in {"writeStrap", "recordStrap", "restoreDevice"} => acquired
    /\ at \notin {"restoreBridge", "done"} => deviceFault = NoFault
    /\ at = "restoreBridge" /\ ~acquired =>
          deviceFault # NoFault /\ resumeFault = NoFault
    /\ at \in {"undoBridge", "undoDevice"} => fault # NoFault
    /\ at \notin {"undoBridge", "undoDevice", "restoreDevice",
                  "restoreBridge", "done"} => fault = NoFault
    /\ at \in {"restoreDevice", "restoreBridge"} /\ k = 1 => fault = NoFault
    /\ at # "done" => receipt = NoReceipt

LEMMA FaultInit == Init => FaultInv
BY DEF Init, FaultInv, BeforeProgram

LEMMA NoFaultIsNone ==
    /\ NoFault \notin Locations
    /\ \A f \in MaybeFault : f # NoFault => f \in Locations
BY ConstantsAssumption DEF Locations, MaybeFault

LEMMA FaultStep ==
    TypeOK /\ TypeOK' /\ FaultInv /\ [Next]_vars => FaultInv'
<1> SUFFICES ASSUME TypeOK, TypeOK', FaultInv, [Next]_vars
             PROVE  FaultInv'
  OBVIOUS
<1>0. k \in 1 .. Writes(at)
  BY DEF TypeOK, ControlOK
<1>1. CASE ReadBridge \/ ReadDevice
  BY <1>1, ConstantsAssumption
     DEF ReadBridge, ReadDevice, FaultInv, BeforeProgram, Goto, Finish, NoReceipt
<1>2. CASE RemapBridge \/ RemapDevice
  BY <1>2, ConstantsAssumption
     DEF RemapBridge, RemapDevice, FaultInv, BeforeProgram, Goto, Advance,
         results
<1>3. CASE RecordBridge \/ RecordDevice
  BY <1>3, ConstantsAssumption
     DEF RecordBridge, RecordDevice, FaultInv, BeforeProgram, Goto, Advance,
         results
<1>4. CASE UndoBridge
  BY <1>4, ConstantsAssumption DEF UndoBridge, FaultInv, BeforeProgram, Goto, Finish
<1>5. CASE UndoDevice \/ RestoreDevice
  BY <1>0, <1>5, ConstantsAssumption
     DEF UndoDevice, RestoreDevice, FaultInv, BeforeProgram, Goto
<1>6. CASE Plan
  BY <1>6, GotoStrapTyped DEF Plan, FaultInv, BeforeProgram
<1>7. CASE WriteStrap \/ RecordStrap
  <2>1. k + 1 \in 1 .. 3
    BY <1>7 DEF WriteStrap, RecordStrap, TypeOK, ControlOK, Writes
  <2>2. at' \in {"writeStrap", "recordStrap", "restoreDevice"}
    BY <1>7, <2>1, GotoStrapTyped DEF WriteStrap, RecordStrap
  <2> QED
    BY <1>7, <2>2 DEF WriteStrap, RecordStrap, FaultInv, BeforeProgram, results
<1>8. CASE RestoreBridge
  BY <1>0, <1>8 DEF RestoreBridge, FaultInv, BeforeProgram, Goto, Finish
<1>9. CASE UNCHANGED vars
  BY <1>9 DEF vars, hardware, request, saved, results, FaultInv, BeforeProgram
<1> QED
  BY <1>1, <1>2, <1>3, <1>4, <1>5, <1>6, <1>7, <1>8, <1>9 DEF Next

LEMMA PolicyInit == Init => Policy!Init
BY ConstantsAssumption
   DEF Init, Policy!Init, PolicyAt, PolicyHeld, PolicyStrap, NoReceipt,
       Receipt, Policy!NoStrap, Policy!NoReceipt, Policy!Receipt

\* A step that stays in a call of the adapter is not seen from outside.
LEMMA PolicyStutter ==
    ASSUME TypeOK, FaultInv, FaultInv', at # "done",
           PolicyAt' = PolicyAt,
           UNCHANGED <<deviceFault, receipt>>,
           PolicyAt # "program" => UNCHANGED <<acquired, resumeFault>>
    PROVE  UNCHANGED Policy!vars
<1>1. CASE PolicyAt \in {"remapBridge", "remapDevice"}
  BY <1>1 DEF FaultInv, BeforeProgram, PolicyAt, PolicyHeld, PolicyStrap,
              NoReceipt, Receipt, Policy!vars
<1>2. CASE PolicyAt = "program"
  BY <1>2 DEF FaultInv, BeforeProgram, PolicyAt, PolicyHeld, PolicyStrap,
              NoReceipt, Receipt, Policy!vars
<1>3. CASE at \in {"restoreDevice", "restoreBridge"}
  <2>1. at' = at
    BY <1>3 DEF PolicyAt
  <2> QED
    BY <1>3, <2>1 DEF FaultInv, BeforeProgram, PolicyAt, PolicyHeld, PolicyStrap,
              NoReceipt, Receipt, Policy!vars
<1> QED
  BY <1>1, <1>2, <1>3 DEF PolicyAt, TypeOK, ControlOK, Phases

\* The mapped variables, phase by phase: the abstract transaction holds the
\* bridge from the end of its remap to the end of its restore, and the GPU
\* from the end of its remap until its restore succeeded.
LEMMA PolicyStep ==
    TypeOK /\ TypeOK' /\ FaultInv /\ FaultInv' /\ [Next]_vars
        => [Policy!Next]_(Policy!vars)
<1> SUFFICES ASSUME TypeOK, TypeOK', FaultInv, FaultInv', [Next]_vars
             PROVE  Policy!Next \/ UNCHANGED Policy!vars
  OBVIOUS
<1>0. /\ k \in 1 .. Writes(at)
      /\ fault \in MaybeFault /\ deviceFault \in MaybeFault
      /\ fault' \in MaybeFault /\ deviceFault' \in MaybeFault
      /\ resumeFault \in MaybeFault
  BY DEF TypeOK, ControlOK, LocalsOK
<1>1. CASE ReadBridge \/ RemapBridge \/ RecordBridge \/ UndoBridge
  <2>1. /\ at \in {"readBridge", "remapBridge", "recordBridge", "undoBridge"}
        /\ UNCHANGED <<deviceFault, acquired, resumeFault>>
        /\ at' \in {"readBridge", "remapBridge", "recordBridge", "undoBridge",
                    "readDevice"} => UNCHANGED receipt
        /\ at' \in {"readBridge", "remapBridge", "recordBridge", "undoBridge",
                    "readDevice", "done"}
        /\ at' = "done" => \E f \in Locations :
              receipt' = Receipt("BridgeRemapFailed", f, NoFault)
    <3>1. CASE ReadBridge
      BY <3>1 DEF ReadBridge, Goto, Finish, Locations
    <3>2. CASE RemapBridge \/ RecordBridge
      BY <3>2 DEF RemapBridge, RecordBridge, Goto, Advance, results
    <3>3. CASE UndoBridge
      <4>1. fault' # NoFault
        BY <3>3, ConstantsAssumption DEF UndoBridge, FaultInv
      <4>2. fault' \in Locations
        BY <4>1, <1>0, NoFaultIsNone
      <4> QED
        BY <3>3, <4>2 DEF UndoBridge, Goto, Finish
    <3> QED
      BY <1>1, <3>1, <3>2, <3>3
  <2>2. CASE at' = "readDevice"
    BY <2>1, <2>2 DEF FaultInv, BeforeProgram, PolicyAt, PolicyHeld,
       PolicyStrap, NoReceipt, Receipt, Policy!Next, Policy!RemapBridge
  <2>3. CASE at' = "done"
    BY <2>1, <2>3 DEF FaultInv, BeforeProgram, PolicyAt, PolicyHeld,
       PolicyStrap, NoReceipt, Receipt, Policy!Next, Policy!RemapBridge,
       Policy!Receipt
  <2>4. CASE at' \notin {"readDevice", "done"}
    BY <2>1, <2>4, PolicyStutter DEF PolicyAt
  <2> QED
    BY <2>2, <2>3, <2>4
<1>2. CASE ReadDevice \/ RemapDevice \/ RecordDevice \/ UndoDevice
  <2>1. /\ at \in {"readDevice", "remapDevice", "recordDevice", "undoDevice"}
        /\ UNCHANGED <<acquired, resumeFault, receipt>>
        /\ at' # "restoreBridge" => UNCHANGED deviceFault
        /\ at' \in {"readDevice", "remapDevice", "recordDevice", "undoDevice",
                    "plan", "restoreBridge"}
    BY <1>2 DEF ReadDevice, RemapDevice, RecordDevice, UndoDevice, Goto,
                Advance, results
  <2>2. CASE at' = "plan"
    BY <2>1, <2>2 DEF FaultInv, BeforeProgram, PolicyAt, PolicyHeld,
       PolicyStrap, NoReceipt, Receipt, Policy!Next, Policy!RemapDevice
  <2>3. CASE at' = "restoreBridge"
    <3>1. ~acquired' /\ deviceFault' \in Locations
      BY <1>0, <2>1, <2>3, NoFaultIsNone DEF FaultInv, BeforeProgram
    <3> QED
      BY <2>1, <2>3, <3>1 DEF FaultInv, BeforeProgram, PolicyAt, PolicyHeld,
         PolicyStrap, NoReceipt, Receipt, Policy!Next, Policy!RemapDevice
  <2>4. CASE at' \notin {"plan", "restoreBridge"}
    BY <2>1, <2>4, PolicyStutter DEF PolicyAt
  <2> QED
    BY <2>2, <2>3, <2>4
<1>3. CASE Plan \/ WriteStrap \/ RecordStrap
  <2>1. /\ at \in {"plan", "writeStrap", "recordStrap"}
        /\ at' \in {"writeStrap", "recordStrap", "restoreDevice"}
        /\ UNCHANGED <<deviceFault, receipt>>
        /\ resumeFault' \in MaybeFault
    <3>1. CASE Plan
      BY <1>0, <3>1, GotoStrapTyped DEF Plan
    <3>2. CASE WriteStrap \/ RecordStrap
      <4>1. k + 1 \in 1 .. 3
        BY <3>2 DEF WriteStrap, RecordStrap, TypeOK, ControlOK, Writes
      <4> QED
        BY <1>0, <3>2, <4>1, GotoStrapTyped
           DEF WriteStrap, RecordStrap, results, MaybeFault, Locations
    <3> QED
      BY <1>3, <3>1, <3>2
  <2>2. CASE at' = "restoreDevice"
    BY <2>1, <2>2 DEF FaultInv, BeforeProgram, PolicyAt, PolicyHeld,
       PolicyStrap, NoReceipt, Receipt, Policy!Next, Policy!Program,
       Policy!StrapResults, Policy!MaybeFault, MaybeFault
  <2>3. CASE at' # "restoreDevice"
    BY <2>1, <2>3, PolicyStutter DEF PolicyAt
  <2> QED
    BY <2>2, <2>3
<1>4. CASE RestoreDevice
  <2>1. /\ at = "restoreDevice"
        /\ at' \in {"restoreDevice", "restoreBridge"}
        /\ UNCHANGED <<acquired, resumeFault, receipt>>
        /\ at' = "restoreDevice" => UNCHANGED deviceFault
    BY <1>4 DEF RestoreDevice, Goto
  <2>2. CASE at' = "restoreBridge"
    <3>1. deviceFault' = NoFault \/ deviceFault' \in Locations
      BY <1>0, NoFaultIsNone
    <3> QED
      BY <2>1, <2>2, <3>1 DEF FaultInv, BeforeProgram, PolicyAt, PolicyHeld,
         PolicyStrap, NoReceipt, Receipt, Policy!Next, Policy!RestoreDevice
  <2>3. CASE at' = "restoreDevice"
    BY <2>1, <2>3, PolicyStutter DEF PolicyAt
  <2> QED
    BY <2>1, <2>2, <2>3
<1>5. CASE RestoreBridge
  <2>1. /\ at = "restoreBridge"
        /\ at' \in {"restoreBridge", "done"}
        /\ UNCHANGED <<acquired, resumeFault, deviceFault>>
        /\ at' = "restoreBridge" => UNCHANGED receipt
        /\ at' = "done" => receipt' = Outcome(fault')
    BY <1>5 DEF RestoreBridge, Goto, Finish
  <2>2. CASE at' = "done"
    <3>1. /\ PolicyAt = "restoreBridge" /\ PolicyAt' = "done"
          /\ PolicyStrap = [err |-> NoFault, resume |-> resumeFault]
          /\ PolicyStrap' = PolicyStrap
      BY <2>1, <2>2 DEF PolicyAt, PolicyStrap
    <3>2. "device" \in PolicyHeld <=> acquired /\ deviceFault # NoFault
      BY <2>1, <3>1 DEF PolicyHeld
    <3>3. receipt' = Policy!Outcome(fault')
      BY <2>1, <2>2, <3>1, <3>2 DEF FaultInv, Outcome, Policy!Outcome, Receipt,
         Policy!Receipt
    <3>4. PolicyHeld' = IF fault' = NoFault THEN PolicyHeld \ {"bridge"}
                        ELSE PolicyHeld
      BY <2>1, <2>2, <3>1, ConstantsAssumption DEF FaultInv, PolicyHeld, Outcome,
         Receipt, NoReceipt
    <3>5. fault' = NoFault \/ fault' \in Locations
      BY <1>0, NoFaultIsNone
    <3> QED
      BY <2>1, <3>1, <3>3, <3>4, <3>5 DEF Policy!Next, Policy!RestoreBridge
  <2>3. CASE at' = "restoreBridge"
    BY <2>1, <2>3, PolicyStutter DEF PolicyAt
  <2> QED
    BY <2>1, <2>2, <2>3
<1>6. CASE UNCHANGED vars
  BY <1>6 DEF vars, results, Policy!vars, PolicyAt, PolicyHeld, PolicyStrap
<1> QED
  BY <1>1, <1>2, <1>3, <1>4, <1>5, <1>6 DEF Next

\* The UEFI adapter implements the transaction policy of execution.rs, but for
\* the fairness of ImplementsPolicy: register writes and boot script records
\* are stutters, and each call of the adapter ends in one step of the policy.
THEOREM PolicyRefinement == Spec => Policy!Init /\ [][Policy!Next]_(Policy!vars)
<1>1. Init => FaultInv /\ Policy!Init
  BY FaultInit, PolicyInit
<1>2. IInv /\ IInv' /\ FaultInv /\ [Next]_vars => FaultInv'
  BY FaultStep DEF IInv
<1>3. IInv /\ IInv' /\ FaultInv /\ FaultInv' /\ [Next]_vars
         => [Policy!Next]_(Policy!vars)
  BY PolicyStep DEF IInv
<1> QED
  BY <1>1, <1>2, <1>3, InductiveInvariant, PTL DEF Spec

=============================================================================

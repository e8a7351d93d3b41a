-------------------------- MODULE ExecutionPolicy --------------------------
(***************************************************************************)
(* The order in which execute_device_transaction drives a firmware         *)
(* execution adapter (crates/nvstraps-uefi/src/execution.rs).              *)
(*                                                                         *)
(* The adapter is a parameter of the Rust function: all that is known of   *)
(* it here is that each of its five operations either succeeds or returns  *)
(* a fault.  One action is one adapter call.  A remap that succeeds hands  *)
(* back the saved registers, so the transaction "holds" that mapping until *)
(* the matching restore succeeds.                                          *)
(*                                                                         *)
(* DeviceTransaction is the UEFI adapter, register by register; it is      *)
(* checked and proved to implement this specification.                     *)
(***************************************************************************)

CONSTANTS Faults,    \* the ExecutionFaults an adapter may return
          NoFault    \* Option::None of a fault

VARIABLES at,          \* the adapter call that comes next, or "done"
          held,        \* the mappings acquired and not known to be restored
          deviceFault, \* the fault of the device remap or of its restore
          strap,       \* the result of program_bar1_straps
          receipt      \* the DeviceTransactionReceipt once at = "done"

vars == <<at, held, deviceFault, strap, receipt>>

MaybeFault == Faults \cup {NoFault}

Calls == {"remapBridge", "remapDevice", "program",
          "restoreDevice", "restoreBridge", "done"}

Mappings == {"bridge", "device"}

Kinds == {"None", "BridgeRemapFailed", "DeviceRemapFailed",
          "RestorationFailed", "StrapProgrammingFailed", "Completed"}

\* The variants of DeviceTransactionReceipt.  "first" and "second" are the
\* faults of the variant in the order of its declaration; Completed carries
\* the resume fault of the strap receipt.
Receipt(kind, first, second) ==
    [kind |-> kind, first |-> first, second |-> second]

NoReceipt == Receipt("None", NoFault, NoFault)

\* Result<StrapProgramReceipt, ExecutionFault>: the fault of an Err, or the
\* resume_fault of an Ok.
StrapResults == [err: MaybeFault, resume: MaybeFault]

NoStrap == [err |-> NoFault, resume |-> NoFault]

TypeOK ==
    /\ at \in Calls
    /\ held \subseteq Mappings
    /\ deviceFault \in MaybeFault
    /\ strap \in StrapResults
    /\ receipt \in [kind: Kinds, first: MaybeFault, second: MaybeFault]

Init ==
    /\ at = "remapBridge"
    /\ held = {}
    /\ deviceFault = NoFault
    /\ strap = NoStrap
    /\ receipt = NoReceipt

-----------------------------------------------------------------------------

(***************************************************************************)
(* adapter.remap_bridge: a fault ends the transaction at once.             *)
(***************************************************************************)
RemapBridge ==
    /\ at = "remapBridge"
    /\ UNCHANGED <<deviceFault, strap>>
    /\ \/ /\ at' = "remapDevice"
          /\ held' = {"bridge"}
          /\ UNCHANGED receipt
       \/ \E f \in Faults :
             /\ at' = "done"
             /\ receipt' = Receipt("BridgeRemapFailed", f, NoFault)
             /\ UNCHANGED held

(***************************************************************************)
(* adapter.remap_device_bar0: after a fault only the bridge is restored.   *)
(***************************************************************************)
RemapDevice ==
    /\ at = "remapDevice"
    /\ UNCHANGED <<strap, receipt>>
    /\ \/ /\ at' = "program"
          /\ held' = held \cup {"device"}
          /\ UNCHANGED deviceFault
       \/ /\ at' = "restoreBridge"
          /\ deviceFault' \in Faults
          /\ UNCHANGED held

(***************************************************************************)
(* adapter.program_bar1_straps: both restores run whatever it returns.     *)
(***************************************************************************)
Program ==
    /\ at = "program"
    /\ at' = "restoreDevice"
    /\ strap' \in StrapResults
    /\ UNCHANGED <<held, deviceFault, receipt>>

RestoreDevice ==
    /\ at = "restoreDevice"
    /\ at' = "restoreBridge"
    /\ UNCHANGED <<strap, receipt>>
    /\ \/ /\ held' = held \ {"device"}
          /\ UNCHANGED deviceFault
       \/ /\ deviceFault' \in Faults
          /\ UNCHANGED held

\* What execute_device_transaction returns once the bridge restore returned
\* bridgeFault.  A device fault without a device mapping is a failed remap.
Outcome(bridgeFault) ==
    IF deviceFault # NoFault /\ "device" \notin held
    THEN Receipt("DeviceRemapFailed", deviceFault, bridgeFault)
    ELSE IF deviceFault # NoFault \/ bridgeFault # NoFault
    THEN Receipt("RestorationFailed", deviceFault, bridgeFault)
    ELSE IF strap.err # NoFault
    THEN Receipt("StrapProgrammingFailed", strap.err, NoFault)
    ELSE Receipt("Completed", strap.resume, NoFault)

RestoreBridge ==
    /\ at = "restoreBridge"
    /\ at' = "done"
    /\ UNCHANGED <<deviceFault, strap>>
    /\ \/ /\ held' = held \ {"bridge"}
          /\ receipt' = Outcome(NoFault)
       \/ \E f \in Faults :
             /\ receipt' = Outcome(f)
             /\ UNCHANGED held

Next == RemapBridge \/ RemapDevice \/ Program \/ RestoreDevice \/ RestoreBridge

Spec == Init /\ [][Next]_vars /\ WF_vars(Next)

=============================================================================

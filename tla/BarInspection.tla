--------------------------- MODULE BarInspection ---------------------------
(***************************************************************************)
(* The Resizable BAR status the application shows at all times, outside of *)
(* any plan (src-tauri/src/resizable_bar and devices.rs): what is taken    *)
(* from the Windows device list, what nvidia-smi may print, and what is    *)
(* made of the two.                                                        *)
(*                                                                         *)
(* A machine is a sequence of NVIDIA GPUs with the resources they have.    *)
(* The device list is read before nvidia-smi is started, so that the two   *)
(* may be of different resources: a driver that restarts or a slot that is *)
(* rebalanced gives a GPU other addresses or another BAR1.                 *)
(*                                                                         *)
(* Sizes and addresses are in MiB.                                         *)
(***************************************************************************)
EXTENDS SizeSelection

LEGACY_BAR_APERTURE == 256
FourGiB == 4096

-----------------------------------------------------------------------------
(* The Windows device list. *)

\* process_memory_range and the loop around it: the largest memory range is
\* taken for BAR1 and the first resource for BAR0; a descriptor that cannot be
\* read is passed over, and an I/O range or a memory range of another kind in
\* first place means that there is no BAR0.  A list that cannot be read at all
\* counts as one without a readable descriptor.
device_memory_resources(ranges) ==
    LET take(found, range) ==
            CASE range.type = "memory" ->
                    [first |-> FALSE,
                     size |-> IF range.size > found.size THEN range.size ELSE found.size,
                     bar0 |-> IF found.first THEN range ELSE found.bar0]
              [] range.type \in {"io", "otherMemory"} -> [found EXCEPT !.first = FALSE]
              [] OTHER -> found
    IN  FoldLeft(take, [first |-> TRUE, size |-> 0, bar0 |-> [base |-> 0, size |-> 0]],
                 ranges)

\* The application's check of a BAR0 before it is saved.
validate_dxe_bar0(bar0) ==
    /\ bar0.base # 0
    /\ bar0.base + bar0.size <= FourGiB
    /\ bar0.base % bar0.size = 0

\* The driver's check of the saved one: the straps are behind the first MiB.
ValidatedGpuWindow(bar0) ==
    /\ bar0.base # 0
    /\ bar0.base + bar0.size < FourGiB
    /\ \E n \in 1 .. 12 : bar0.size = 2 ^ n
    /\ bar0.base % bar0.size = 0

\* One GpuDevice.  SizeSelection tells an unusable BAR0 by the address 0.
GpuDevice(gpu) ==
    LET found == device_memory_resources(gpu.ranges)
    IN  [slot |-> gpu.slot, device |-> gpu.device, subsystem |-> gpu.subsystem,
         turing |-> gpu.turing, listed |-> gpu.listed, bridge |-> gpu.bridge,
         size |-> found.size,
         bar0 |-> IF validate_dxe_bar0(found.bar0) THEN found.bar0.base ELSE 0]

\* validate_location: Windows puts the segment above the bus number, and a bus
\* number above 255 is refused.
validate_location(gpu) == gpu.segment = 0

enumerate_gpus(gpus) == [i \in DOMAIN gpus |-> GpuDevice(gpus[i])]

windows_reports_expanded_turing_aperture(devices) ==
    \E i \in DOMAIN devices : devices[i].turing /\ devices[i].size > LEGACY_BAR_APERTURE

-----------------------------------------------------------------------------
(* nvidia-smi. *)

\* BAR1 is the second memory range of a GPU.
Bar1(gpu) == gpu.ranges[2].size

\* What nvidia-smi may print of a machine: for the GPUs its driver runs, where
\* the GPU is, the BAR1 memory, and whether all three of its numbers are known
\* with used and free adding up to the total.  parse_pci_bus_id leaves the
\* segment out.
Observation(gpu, adds) == [slot |-> gpu.slot, adds |-> adds, total |-> Bar1(gpu)]

Printed(gpus) ==
    {[i \in DOMAIN adds |-> Observation(gpus[i], adds[i])] :
        adds \in UNION {[shown -> BOOLEAN] : shown \in SUBSET (DOMAIN gpus)}}

\* build_evidence accepts what was printed: a GPU at all, and no two at one
\* place.
build_evidence(report) ==
    /\ DOMAIN report # {}
    /\ \A i, j \in DOMAIN report : report[i].slot = report[j].slot => i = j

\* The observations of a device: one or none.
Of(report, device) == {i \in DOMAIN report : report[i].slot = device.slot}

classify_aperture(device, report) ==
    IF \E i \in Of(report, device) : report[i].adds /\ report[i].total = device.size
    THEN IF device.size > LEGACY_BAR_APERTURE THEN "expanded"
         ELSE IF device.size = LEGACY_BAR_APERTURE THEN "legacy256MiB"
         ELSE "indeterminate"
    ELSE "indeterminate"

\* all_profile_gpus_observed, and the loop over the devices.
require_resizable_bar_proof(devices, report) ==
    \A i \in DOMAIN devices :
        /\ Of(report, devices[i]) # {}
        /\ classify_aperture(devices[i], report) = "expanded"

-----------------------------------------------------------------------------
(* What is made of the two. *)

aggregate_aperture_state(states) ==
    CASE states = {"expanded"} -> "expanded"
      [] states = {"legacy256MiB"} -> "legacy256MiB"
      [] states = {"expanded", "legacy256MiB"} -> "mixed"
      [] OTHER -> "indeterminate"

registry_bar_size(device) == device.listed

automatic_bar_size(device) ==
    IF device.listed # Null THEN device.listed ELSE IF device.turing THEN 5 ELSE Null

\* With the state the reason: two of them make it unavailable.
assess_patch_configuration(device, state) ==
    CASE state = "expanded" -> "notNeeded"
      [] state = "indeterminate" -> "indeterminate"
      [] state = "legacy256MiB" ->
            IF registry_bar_size(device) = EXCLUDED_SELECTOR THEN "registryExcluded"
            ELSE IF automatic_bar_size(device) = Null THEN "indeterminate"
            ELSE IF device.bar0 = 0 THEN "unusableBar0"
            ELSE "available"

\* A reading is the two lists, of a machine as it was when Windows was asked
\* and of the same GPUs as they were when nvidia-smi was.
Readings(gpus, later) ==
    IF \A i \in DOMAIN gpus : validate_location(gpus[i])
    THEN {[devices |-> enumerate_gpus(gpus), report |-> report] :
             report \in {printed \in Printed(later) : build_evidence(printed)}}
    ELSE {}

\* build_inspection is what is computed of a reading.
Inspected(reading) == {d \in ToSet(reading.devices) : d.turing}

StateOf(reading, device) == classify_aperture(device, reading.report)

build_inspection(reading) ==
    [state |-> aggregate_aperture_state({StateOf(reading, d) : d \in Inspected(reading)}),
     gpus |-> [d \in Inspected(reading) |->
                  assess_patch_configuration(d, StateOf(reading, d))]]

\* The same GPUs, possibly with other resources.
SameGpus(gpus, others) ==
    /\ DOMAIN gpus = DOMAIN others
    /\ \A i \in DOMAIN gpus : others[i] = [gpus[i] EXCEPT !.ranges = others[i].ranges]

=============================================================================

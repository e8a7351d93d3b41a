--------------------------- MODULE PlannedLoader ----------------------------
(***************************************************************************)
(* The loader on a bus with other devices: what the diagnostic captures of *)
(* the machine, the plan the application makes from it, and the loader     *)
(* that checks both against the machine it finds at a later boot.          *)
(*                                                                         *)
(*   crates/nvstraps-external-efi/src/native.rs       capture, reserve     *)
(*   crates/nvstraps-external-tool/src/candidates.rs  the choice           *)
(*   crates/nvstraps-external/src/plan.rs             validate_plan        *)
(*                                                                         *)
(* The registers of the GPU are those of ExternalLoader; its surroundings  *)
(* are everything else a snapshot shows.  They are what firmware left and  *)
(* stay for one boot; until the next one cards, displays and settings may  *)
(* change, and with them the resources firmware assigns.                   *)
(***************************************************************************)
EXTENDS ExternalLoader, LoaderPlan

CONSTANT Surroundings   \* what firmware may assign to the rest of the machine

ASSUME SurroundingsAssumption ==
    \A s \in Surroundings : \A d \in s.devices : \A b \in d.bars :
        b.span.start \in Int /\ b.span.end \in Int

VARIABLES
    surroundings,   \* of this boot
    report          \* of the boot in which the diagnostic ran

plannedVars == <<vars, surroundings, report>>

-----------------------------------------------------------------------------
(* The snapshot.                                                           *)

\* The GPU's BAR1 is where its registers say; the other BARs do not move.
Bars(s, d, regs) ==
    IF d.slot # s.gpu THEN d.bars
    ELSE d.bars \cup
         {[index |-> 1, memory |-> TRUE, width64 |-> TRUE, prefetchable |-> TRUE,
           reachesStraps |-> FALSE,
           span |-> Span(regs.high * FourGiB + regs.low, Aperture(regs.straps))]}

\* The window of a bridge whose limit is below its base is closed.
Prefetch(bridge) ==
    IF bridge.base <= bridge.limit /\ bridge.limit + 1 < AddressEnd
    THEN [start |-> bridge.base, end |-> bridge.limit + 1] ELSE None

capture_device(s, d, regs) ==
    LET bars == Bars(s, d, regs)
    IN  [slot |-> d.slot, model |-> d.model, display |-> d.display,
         drivers |-> d.drivers, bars |-> bars,
         command |-> IF d.slot = s.gpu THEN regs.command ELSE Command,
         bridge |-> IF d.bridge = None THEN None
                    ELSE [secondary |-> d.bridge.secondary,
                          subordinate |-> d.bridge.subordinate,
                          prefetch |-> Prefetch(d.bridge)],
         console |-> \/ d.output
                     \/ \E b \in bars, f \in s.framebuffers : b.memory /\ Overlaps(f, b.span),
         straps |-> IF /\ d.slot = s.gpu /\ "memory" \in regs.command
                       /\ \E b \in bars : b.index = 0 /\ b.memory /\ b.reachesStraps
                    THEN regs.straps ELSE None]

free_mmio(s) == {g.span : g \in {h \in s.gcd : ~h.owned}}

capture(s, regs) ==
    [complete |-> s.readable,
     roots |-> s.roots,
     devices |-> {capture_device(s, d, regs) : d \in s.devices},
     available |-> free_mmio(s)]

-----------------------------------------------------------------------------
(* The loader with the whole plan.                                         *)

FullPlan ==
    [target |-> report.gpu, selector |-> plan.selector, destination |-> plan.destination,
     source |-> capture(report, plan.source)]

FreshDiagnosticMatches == validate_plan(FullPlan, capture(surroundings, Current))

Elsewhere(span, s) ==
    \A b \in UNION {d.bars : d \in s.devices} : b.memory => ~Overlaps(b.span, span)

\* Who on a bus answers to some address of a span.
Answering(segment, bus, span) ==
    {d \in surroundings.devices :
        /\ d.slot.segment = segment /\ d.slot.bus = bus
        /\ \/ \E b \in d.bars : b.memory /\ Overlaps(b.span, span)
           \/ d.slot = surroundings.gpu /\ Overlaps(Decoded, span)
           \/ /\ d.bridge # None /\ Prefetch(d.bridge) # None
              /\ Overlaps(Prefetch(d.bridge), span)}

\* Every address of the span reaches the GPU from the processor, and nobody else
\* answers to one: down from the root each bus has one device that takes it.
Delivered(span) ==
    \E root \in surroundings.roots :
        LET reaches[bus \in Nat] ==
                \E d \in surroundings.devices :
                    /\ Answering(root.segment, bus, span) = {d}
                    /\ \/ d.slot = surroundings.gpu
                       \/ /\ d.bridge # None /\ Contains(Prefetch(d.bridge), span)
                          /\ d.bridge.secondary > bus
                          /\ reaches[d.bridge.secondary]
        IN  /\ \E w \in root.memory : Contains(w, span)
            /\ reaches[root.first]

\* Firmware assigns each device resources that reach it and that no other has.
WellAssigned == Elsewhere(FirmwareSpan, surroundings) /\ Delivered(FirmwareSpan)

\* The plan is one of those the page offers for the diagnostic.
PlannedInit ==
    /\ Init
    /\ surroundings \in Surroundings /\ report = surroundings
    /\ WellAssigned
    /\ [target |-> report.gpu, selector |-> plan.selector]
          \in Offers(capture(report, plan.source))
    /\ make_plan(capture(report, plan.source), report.gpu, plan.selector)
          = {plan.destination}

PlannedValidate ==
    /\ Validate /\ FreshDiagnosticMatches
    /\ UNCHANGED <<surroundings, report>>

PlannedCheck ==
    /\ Check /\ FreshDiagnosticMatches
    /\ UNCHANGED <<surroundings, report>>

\* The firmware gives exactly this span, if nobody has it.
PlannedReserve ==
    /\ Reserve
    /\ \E free \in free_mmio(surroundings) : Contains(free, Reservation)
    /\ UNCHANGED <<surroundings, report>>

PlannedPowerCycle ==
    /\ PowerCycle
    /\ surroundings' \in Surroundings /\ WellAssigned'
    /\ UNCHANGED report

OnTheGpu ==
    /\ \/ Refuse \/ PrepareHandoff \/ ApplyRefuses \/ Apply \/ Measure \/ Enable
       \/ OpenReceipt \/ WriteReceipt \/ StartImage \/ SuccessorReturns
       \/ Restore \/ Release
    /\ UNCHANGED <<surroundings, report>>

PlannedNext ==
    \/ PlannedValidate \/ PlannedCheck \/ PlannedReserve \/ OnTheGpu
    \/ PlannedPowerCycle

PlannedSpec == PlannedInit /\ [][PlannedNext]_plannedVars

-----------------------------------------------------------------------------

(***************************************************************************)
(* While memory decoding is on, BAR1 answers to nothing that belongs to    *)
(* another BAR of the machine, in whatever state a failed write, a failed  *)
(* restore or a changed machine leaves it.                                 *)
(***************************************************************************)
DecodesAlone ==
    /\ DecodesOwnSpace
    /\ "memory" \in command => Elsewhere(Decoded, surroundings)

(***************************************************************************)
(* Windows Boot Manager is started only when every address of the enlarged *)
(* BAR1 reaches the GPU: through a root window and the window of every     *)
(* bridge above it, and past no other device that would answer.            *)
(***************************************************************************)
HandoffIsReached ==
    /\ HandoffIsMeasured
    /\ at = "successor" => Delivered(Decoded)

=============================================================================

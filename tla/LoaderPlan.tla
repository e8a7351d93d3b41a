----------------------------- MODULE LoaderPlan -----------------------------
(***************************************************************************)
(* Where BAR1 may go: the plan made from a diagnostic snapshot.            *)
(*                                                                         *)
(*   crates/nvstraps-external/src/plan.rs             make_plan and checks *)
(*   crates/nvstraps-external-tool/src/candidates.rs  what is offered      *)
(*                                                                         *)
(* A snapshot has the root bridges with their memory windows, the devices  *)
(* with their BARs, drivers and bridges, and the memory-mapped space that  *)
(* nobody has allocated.  A BAR below 64 MiB fills its unit: destinations  *)
(* are multiples of eight units, so that nothing else is told apart.  Of   *)
(* an error only that there is one matters here.                           *)
(***************************************************************************)
EXTENDS Sequences, FiniteSets, Spans

Seqs == INSTANCE SequencesExt

CONSTANT None

AddressEnd == 4096 * FourGiB     \* bound: stands for 2^64

PowersOfTwo == {2 ^ n : n \in 0 .. 17}

-----------------------------------------------------------------------------

sound_bar(b) ==
    /\ Valid(b.span) /\ Length(b.span) \in PowersOfTwo
    /\ b.span.start % Length(b.span) = 0
    /\ b.width64 => b.memory /\ b.index # 5

validate_snapshot(s) ==
    /\ s.complete
    /\ \A d \in s.devices :
          /\ \A e \in s.devices : e.slot = d.slot => e = d
          /\ \A b \in d.bars : sound_bar(b) /\ \A c \in d.bars : c.index = b.index => c = b
    /\ \A span \in s.available : Valid(span)
    /\ \A r \in s.roots : r.first <= r.last /\ \A span \in r.memory : Valid(span)

\* A Turing display controller that no driver of the firmware uses and that
\* does not show the console.
Eligible(gpu) ==
    /\ gpu.model = "turing" /\ gpu.display
    /\ ~gpu.console /\ gpu.drivers = 0

\* BAR0 reaches the straps, BAR1 may lie above 4 GiB and grows.
Resizable(gpu, size) ==
    /\ \E b \in gpu.bars : b.index = 0 /\ b.memory /\ b.reachesStraps
    /\ \E b \in gpu.bars : /\ b.index = 1 /\ b.memory /\ b.width64 /\ b.prefetchable
                           /\ Length(b.span) < size
    /\ gpu.straps # None

RootsOf(s, slot) ==
    {r \in s.roots : r.segment = slot.segment /\ r.first <= slot.bus /\ slot.bus <= r.last}

\* The bridges above a slot, from the root down.
Parents(s, slot) ==
    Seqs!SetToSortSeq(
        {d \in s.devices :
            /\ d.slot.segment = slot.segment /\ d.bridge # None
            /\ d.slot.bus < d.bridge.secondary
            /\ d.bridge.secondary <= slot.bus /\ slot.bus <= d.bridge.subordinate},
        LAMBDA a, b : a.bridge.secondary < b.bridge.secondary)

\* They lead from the root bus to the bus of the slot.
Unambiguous(path, root, slot) ==
    /\ IF path = <<>> THEN slot.bus = root.first
       ELSE path[1].slot.bus = root.first /\ Seqs!Last(path).bridge.secondary = slot.bus
    /\ \A i \in 1 .. Len(path) - 1 :
          LET a == path[i]
              b == path[i + 1]
          IN  /\ a.slot # b.slot
              /\ a.bridge.secondary = b.slot.bus /\ b.slot.bus <= a.bridge.subordinate
              /\ a.bridge.secondary # b.bridge.secondary

Intersection(a, b) ==
    [start |-> IF a.start > b.start THEN a.start ELSE b.start,
     end |-> IF a.end < b.end THEN a.end ELSE b.end]

\* Faulty variant: the windows of the root are taken for those of the path.
Windows_OfRoot(root, path) == root.memory

\* What the root forwards and every bridge of the path as well.
Windows(root, path) ==
    LET narrowed[i \in 0 .. Len(path)] ==
            IF i = 0 THEN root.memory
            ELSE {w \in {Intersection(v, path[i].bridge.prefetch) : v \in narrowed[i - 1]} :
                     Valid(w)}
    IN  narrowed[Len(path)]

RoundedUp(address, size) == ((address + size - 1) \div size) * size

\* The lowest place above 4 GiB in a span that no BAR is in, if there is one.
\* The code looks for it from below (Search in MCExternalLoader).
Place(span, size, taken) ==
    LET multiples == {size * i : i \in span.start \div size .. span.end \div size}
        free == {base \in multiples :
                    /\ FourGiB <= base /\ base + size < AddressEnd
                    /\ Contains(span, Span(base, size))
                    /\ \A t \in taken : ~Overlaps(t, Span(base, size))}
    IN  {base \in free : \A other \in free : base <= other}

Plannable(s, target, selector) ==
    /\ validate_snapshot(s) /\ selector \in PlannedSelectors
    /\ \E gpu \in s.devices :
          gpu.slot = target /\ Eligible(gpu) /\ Resizable(gpu, 2 ^ selector)
    /\ \E root \in RootsOf(s, target) :
          /\ RootsOf(s, target) = {root}
          /\ Unambiguous(Parents(s, target), root, target)
    /\ \A d \in Seqs!ToSet(Parents(s, target)) : d.bridge.prefetch # None

\* Faulty variant: only the BARs that could share a prefetchable window count.
make_plan_Prefetchable(s, target, selector) ==
    LET taken == {b.span : b \in {c \in UNION {d.bars : d \in s.devices} : c.prefetchable}}
        places == UNION {Place(Intersection(w, free), 2 ^ selector, taken) :
                            w \in UNION {Windows(root, Parents(s, target)) :
                                            root \in RootsOf(s, target)},
                            free \in s.available}
    IN  IF Plannable(s, target, selector)
        THEN {place \in places : \A other \in places : place <= other} ELSE {}

\* The lowest of all places, in a set that is empty when there is no plan.
make_plan(s, target, selector) ==
    LET taken == {b.span : b \in {c \in UNION {d.bars : d \in s.devices} : c.memory}}
        places == UNION {Place(Intersection(w, free), 2 ^ selector, taken) :
                            w \in UNION {Windows(root, Parents(s, target)) :
                                            root \in RootsOf(s, target)},
                            free \in s.available}
    IN  IF Plannable(s, target, selector)
        THEN {place \in places : \A other \in places : place <= other} ELSE {}

\* evaluate: the GPUs and sizes the page offers.
Offers(s) ==
    {offer \in [target : {d.slot : d \in {e \in s.devices :
                                           e.model # "other" /\ e.display}},
               selector : PlannedSelectors] :
        make_plan(s, offer.target, offer.selector) # {}}

\* validate_plan: the snapshot is the one the plan was made from.
validate_plan(plan, current) ==
    /\ current = plan.source
    /\ make_plan(current, plan.target, plan.selector) = {plan.destination}

=============================================================================

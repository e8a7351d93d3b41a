----------------------------- MODULE StrapPlan -----------------------------
(***************************************************************************)
(* The BAR1 size straps of a Turing GPU and the plan that programs them    *)
(* (crates/nvstraps-core/src/straps.rs).                                   *)
(*                                                                         *)
(* A strap register is the record of the bits the plan can touch: its size *)
(* field (bits 15:14 of SET0, bits 22:20 of SET1) and the override-enable  *)
(* bit 31.  The masks of the code preserve every other bit, so those are   *)
(* left out.  A BAR size selector s stands for an aperture of 64 MiB * 2^s *)
(***************************************************************************)
EXTENDS Naturals

MAX_BAR_SIZE_SELECTOR == 10

Selectors == 0 .. MAX_BAR_SIZE_SELECTOR

\* The values of the two size fields.
Part1 == 0 .. 3
Part2 == 0 .. 7

StrapRegisters ==
    [set0: [part: Part1, enable: BOOLEAN], set1: [part: Part2, enable: BOOLEAN]]

\* Faulty variant of target_parts: the second threshold one too low.
target_parts_LowThreshold(selector) ==
    IF selector < 3 THEN [set0 |-> selector, set1 |-> 0]
    ELSE IF selector < 9 THEN [set0 |-> 2, set1 |-> selector - 2]
    ELSE [set0 |-> 3, set1 |-> 7]

\* The split of a selector over the two size fields.
target_parts(selector) ==
    IF selector < 3 THEN [set0 |-> selector, set1 |-> 0]
    ELSE IF selector < 10 THEN [set0 |-> 2, set1 |-> selector - 2]
    ELSE [set0 |-> 3, set1 |-> 7]

\* The registers the plan writes: those whose size field differs from its
\* target, in the order set0, set1.
planned_writes(straps, selector) ==
    {r \in {"set0", "set1"} : straps[r].part # target_parts(selector)[r]}

\* StrapWrite::register_value, and what replaying StrapWrite::resume_data
\* under resume_mask leaves in the register: both set the size field and the
\* override bit.
StrapWritten(selector, r) ==
    [part |-> target_parts(selector)[r], enable |-> TRUE]

\* StrapPlan::reported_changed compares the sums of the parts (u8, at most
\* 3 + 7, so it cannot wrap).
reported_changed(straps, selector) ==
    straps.set0.part + straps.set1.part #
        target_parts(selector).set0 + target_parts(selector).set1

=============================================================================

------------------------------- MODULE Spans --------------------------------
(***************************************************************************)
(* Address spans in units of 64 MiB (nvstraps-external/src/model.rs): the  *)
(* start belongs to the span, the end does not.                            *)
(***************************************************************************)
EXTENDS Integers

FourGiB == 64

\* The sizes a plan may ask for, 512 MiB to 32 GiB, as selectors: 2^s units.
PlannedSelectors == 3 .. 9

Span(start, size) == [start |-> start, end |-> start + size]
Length(s) == s.end - s.start
Valid(s) == s.start < s.end

Contains(a, b) == a.start <= b.start /\ b.end <= a.end
Overlaps(a, b) == a.start < b.end /\ b.start < a.end

=============================================================================

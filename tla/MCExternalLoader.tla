------------------------- MODULE MCExternalLoader -------------------------
(***************************************************************************)
(* Instances of PlannedLoader for TLC: three machines, and what may have   *)
(* changed in the first of them by the next boot.                          *)
(***************************************************************************)
EXTENDS PlannedLoader

MCCommands == {{"memory"}, {"memory", "busMaster"}}

Straps(p1, p2) == [set0 |-> [part |-> p1, enable |-> TRUE],
                   set1 |-> [part |-> p2, enable |-> FALSE]]

\* Strap contents from which neither transition passes through an aperture
\* above both ends; Turing boards start with <<2, 0>>, 256 MiB.
MCSteadyStraps == {Straps(2, 0), Straps(1, 2), Straps(0, 1), Straps(2, 5)}

MCBases == {48, 1024}

MCRequests == {4, 7, 9}

-----------------------------------------------------------------------------

Slot(bus, device) == [segment |-> 0, bus |-> bus, device |-> device, function |-> 0]

MemoryBar(index, start, size) ==
    [index |-> index, memory |-> TRUE, width64 |-> index # 0, prefetchable |-> index # 0,
     reachesStraps |-> index = 0, span |-> Span(start, size)]

Bridge(secondary, subordinate, base, end) ==
    [secondary |-> secondary, subordinate |-> subordinate,
     base |-> base, limit |-> end - 1]

Function(slot, model, bars, bridge) ==
    [slot |-> slot, model |-> model, display |-> model = "turing", bars |-> bars,
     bridge |-> bridge, drivers |-> 0, output |-> FALSE]

Gpu(bus, device) == Function(Slot(bus, device), "turing",
                             {MemoryBar(0, 40, 1), MemoryBar(3, 1152, 1)}, None)

Machine(gpu, others) ==
    [gpu |-> gpu.slot, devices |-> {gpu} \cup others, framebuffers |-> {},
     roots |-> {[segment |-> 0, first |-> 0, last |-> 7,
                 memory |-> {Span(32, 32), Span(64, 1984)}]},
     gcd |-> {[span |-> Span(192, 512), owned |-> FALSE],
              [span |-> Span(704, 832), owned |-> TRUE],
              [span |-> Span(1536, 512), owned |-> FALSE]},
     readable |-> TRUE]

\* On the root bus, beside a device with BARs in space nobody has allocated.
Others == {Function(Slot(0, 2), "other",
                    {MemoryBar(0, 192, 16), MemoryBar(2, 256, 64), MemoryBar(4, 384, 16)},
                    None)}

OnTheRoot == Machine(Gpu(0, 1), Others)

\* Behind one bridge, with another bridge beside it.
BehindOne ==
    Machine(Gpu(1, 0),
            {Function(Slot(0, 1), "other", {}, Bridge(1, 1, 512, 2048)),
             Function(Slot(0, 2), "other", {}, Bridge(2, 2, 192, 512))})

\* Behind two bridges, with a device and another bridge on the way.
BehindTwo ==
    Machine(Gpu(2, 0),
            {Function(Slot(0, 1), "other", {}, Bridge(1, 3, 512, 2048)),
             Function(Slot(1, 0), "other", {}, Bridge(2, 2, 768, 1792)),
             Function(Slot(1, 1), "other", {}, Bridge(3, 3, 1792, 2048)),
             Function(Slot(2, 1), "other", {MemoryBar(2, 1536, 16)}, None)})

With(gpu) == Machine(gpu, Others)

Changed ==
    {With([Gpu(0, 1) EXCEPT !.output = TRUE]),
     With([Gpu(0, 1) EXCEPT !.drivers = 1]),
     With([Gpu(0, 1) EXCEPT !.model = "excluded"]),
     With(Gpu(0, 3)),
     [OnTheRoot EXCEPT !.framebuffers = {Span(1025, 1)}],
     [OnTheRoot EXCEPT !.readable = FALSE],
     [OnTheRoot EXCEPT !.roots = @ \cup {[segment |-> 0, first |-> 0, last |-> 0,
                                           memory |-> {}]}],
     [OnTheRoot EXCEPT !.devices = @ \cup {Function(Slot(0, 4), "other",
                                                    {MemoryBar(0, 512, 256)}, None)}]}

MCSurroundings == {OnTheRoot, BehindOne, BehindTwo} \cup Changed

\* Every place a plan can name.
MCDestinations ==
    UNION {make_plan(capture(s, f), s.gpu, sel) :
              s \in MCSurroundings, f \in Placements, sel \in MCRequests}

-----------------------------------------------------------------------------

\* The search of make_plan: one aligned place after the other, and behind the
\* last of the BARs in the way.
Search(span, size, taken) ==
    LET first == IF span.start > FourGiB THEN span.start ELSE FourGiB
        from[base \in Nat] ==
            LET ends == {t.end : t \in {u \in taken : Overlaps(u, Span(base, size))}}
                last == CHOOSE e \in ends : \A f \in ends : f <= e
            IN  IF base + size >= AddressEnd \/ ~Contains(span, Span(base, size)) THEN {}
                ELSE IF ends = {} THEN {base}
                ELSE IF last + size - 1 >= AddressEnd THEN {}
                ELSE from[RoundedUp(last, size)]
    IN  IF first + size - 1 >= AddressEnd THEN {} ELSE from[RoundedUp(first, size)]

\* It finds the lowest place: with any BARs in the way, at the edges of the
\* span, at 4 GiB and at the end of the addresses.
ASSUME SearchFindsTheLowest ==
    \A offset \in {0, AddressEnd - 128}, start \in {0, 57, 64, 71}, end \in {64, 80, 103, 128},
       size \in {8, 16, 32},
       taken \in SUBSET {Span(60, 4), Span(62, 4), Span(64, 1), Span(64, 16), Span(79, 2),
                         Span(88, 8), Span(97, 31)} :
        LET span == [start |-> offset + start, end |-> offset + end]
            moved == {Span(offset + t.start, Length(t)) : t \in taken}
        IN  start < end => Place(span, size, moved) = Search(span, size, moved)

-----------------------------------------------------------------------------
(* The signature of the loader: every image of up to two sections whose    *)
(* places and sizes are within a small range, in either order, with or     *)
(* without a gap, an overlap, an empty section, spare cells in the header   *)
(* and data behind the sections, of odd and of even length.                *)

Signing == INSTANCE Authenticode

Cell(n) == Signing!Number(n)

\* The place and the size of each section behind the header, the cells the
\* header is longer than its tables, the cells behind the header.
Image(sections, spare, cells) ==
    LET header == Signing!SECTION_TABLE + 2 * Len(sections) + spare
        entry(i) == IF i % 2 = 1 THEN sections[(i + 1) \div 2][2]
                    ELSE header + sections[i \div 2][1]
    IN  <<Signing!Header(Len(sections)), Cell(header), Cell(0), Cell(0), Cell(0)>>
            \o [i \in 1 .. 2 * Len(sections) |-> Cell(entry(i))]
            \o [i \in 1 .. spare |-> Cell(0)] \o [i \in 1 .. cells |-> Cell(i)]

Places == (0 .. 2) \X (0 .. 2)

Programs ==
    {program \in {Image(<<>>, spare, n) : spare \in 0 .. 1, n \in 0 .. 2}
                   \cup {Image(<<s>>, 1, n) : s \in Places, n \in 1 .. 2}
                   \cup {Image(<<s, t>>, 0, n) : s \in Places, t \in Places, n \in 3 .. 4} :
        Signing!CanPrepare(program)}

\* A cell changed, the last cell lost, or one added.
Damaged(file) ==
    {[file EXCEPT ![i] = Cell(v)] : i \in DOMAIN file, v \in {0, 1, 2, 9, 11}}
        \cup {SubSeq(file, 1, Len(file) - 1), Append(file, Cell(0))}

Behind(file) == Signing!Get(file, Signing!data_after_sections(file), Len(file))

\* Whatever image can be prepared, the command signs it, and what it writes
\* passes the check with that certificate and with no other: the padding, the
\* entry, the table and the checksum change nothing that is covered.  And
\* whatever damage is done to one cell of it, a file that still passes the check
\* loads as the signed one and has the same behind its sections: only the
\* checksum and the gaps before a section are not covered.
ASSUME SignedAsLoaded ==
    \A program \in Programs, signature \in {2, 3} :
        /\ Signing!sign(program, "project", signature) # {}
        /\ \A signed \in Signing!sign(program, "project", signature) :
              /\ ~ Signing!check_signed(signed, "other")
              /\ Signing!Loaded(signed) = Signing!Loaded(Signing!prepare(program))
              /\ \A file \in Damaged(signed) :
                    Signing!check_signed(file, "project") =>
                        /\ Signing!Loaded(file) = Signing!Loaded(signed)
                        /\ Behind(file) = Behind(signed)

=============================================================================

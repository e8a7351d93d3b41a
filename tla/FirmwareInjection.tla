------------------------- MODULE FirmwareInjection --------------------------
(***************************************************************************)
(* Putting the driver into a board image: plan_ffs_injection and the       *)
(* injection of nvstraps-ffs/src/firmware.rs.                              *)
(*                                                                         *)
(* A stream is a firmware image or the bytes a section decodes to.  It has *)
(* firmware volumes, a volume has files one after the other and erased     *)
(* space behind them, and a file that is a volume image has sections, with *)
(* a stream in each.  Sizes and offsets count units of eight bytes, the    *)
(* alignment of a file.  What the code checks of single bytes (checksums,  *)
(* erase polarity, the used-size entry, the compressed round trip) and its *)
(* budgets of depth and number are left out.                               *)
(***************************************************************************)
EXTENDS Naturals, FiniteSets, Sequences, SequencesExt

CONSTANTS
    Images,        \* the streams a board image may be
    DriverSize,    \* units the driver file takes
    Block,         \* units of a block of a firmware volume
    PackedSizes,   \* what a section may measure after it is compressed again
    VolumeHeader, FileHeader

VARIABLES
    image,      \* the bytes the user chose
    mode,       \* "one" is inject_ffs, "every" is inject_ffs_all_targets
    targets,    \* the locations the plan pins
    output,     \* the copy that is being changed
    injected,   \* the injections so far
    result      \* what the caller has: nothing yet, the output or a refusal

vars == <<image, mode, targets, output, injected, result>>

Driver == [kind |-> "driver", size |-> DriverSize, large |-> FALSE, short |-> FALSE,
           sections |-> <<>>]

NoStream == [volumes |-> <<>>, wrapped |-> FALSE, extra |-> <<>>, ahead |-> FALSE,
             blank |-> TRUE]

Total(records) == FoldLeft(LAMBDA sum, r : sum + r.size, 0, records)

OffsetOf(volume, f) ==
    volume.start + VolumeHeader + Total(SubSeq(volume.files, 1, f - 1))

VolumeEnd(volume) == volume.start + volume.length

UsedEnd(volume) == OffsetOf(volume, Len(volume.files) + 1)

(* A file that has become short of the next one leaves erased bytes where  *)
(* the next header is looked for, and the files cannot be enumerated.      *)
ShortFiles(volume) == {f \in DOMAIN volume.files : volume.files[f].short}

FilesOf(volume, kind) == {f \in DOMAIN volume.files : volume.files[f].kind = kind}

HasCore(volume) == FilesOf(volume, "core") # {}

HasDriver(volume) == FilesOf(volume, "driver") # {}

(* The volume images that are looked into: not those with a large header. *)
Containers(volume) ==
    {f \in FilesOf(volume, "image") : ~volume.files[f].large}

----------------------------------------------------------------------------
(* The census.                                                             *)

IsLeaf(section) == section.kind \in {"leaf", "code"}

Decodes(section) == section.kind \in {"lzma", "zlib", "efi", "volume"}

IsFirstLzma(file, s) ==
    /\ file.sections[s].kind = "lzma"
    /\ \A t \in 1 .. s - 1 : file.sections[t].kind # "lzma"

RECURSIVE HasVolumes(_)

HasVolumes(stream) ==
    \/ stream.volumes # <<>>
    \/ \E s \in DOMAIN stream.extra :
          Decodes(stream.extra[s]) /\ HasVolumes(stream.extra[s].payload)

RECURSIVE StreamIsRead_ReadsOn(_)

(* A faulty variant: an unknown section is passed over.                    *)
StreamIsRead_ReadsOn(stream) ==
    /\ HasVolumes(stream)
    /\ stream.wrapped \/ stream.blank
    /\ \A s \in DOMAIN stream.extra :
          Decodes(stream.extra[s]) =>
             StreamIsRead_ReadsOn(stream.extra[s].payload)

RECURSIVE StreamIsRead(_)

(* Whether a decoded stream was read to its end.                           *)
StreamIsRead(stream) ==
    /\ HasVolumes(stream)
    /\ stream.wrapped \/ stream.blank
    /\ \A s \in DOMAIN stream.extra :
          \/ IsLeaf(stream.extra[s])
          \/ /\ Decodes(stream.extra[s])
             /\ StreamIsRead(stream.extra[s].payload)

ReadSections(file) ==
    {s \in DOMAIN file.sections :
        Decodes(file.sections[s]) /\ StreamIsRead(file.sections[s].payload)}

FileIsRead(file) ==
    /\ ~file.large
    /\ ReadSections(file) # {}
    /\ \A s \in DOMAIN file.sections :
          IsLeaf(file.sections[s]) \/ s \in ReadSections(file)

(* Only the first LZMA section with the standard header is ever rebuilt,   *)
(* and only when no other section of its file has a stream.                *)
Rebuildable(file, s) ==
    /\ IsFirstLzma(file, s)
    /\ file.sections[s].standard
    /\ ReadSections(file) = {s}

RECURSIVE Census(_, _, _, _)

(* What discover_injection_layout finds in a stream: "at" is the place in  *)
(* the tree, "location" what the code knows it by.                         *)
Census(stream, at, path, mutable) ==
    LET Found(kind, v, f) ==
            [kind |-> kind, at |-> at \o <<v, f>>, injectable |-> mutable,
             location |-> [containers |-> path,
                           volume |-> stream.volumes[v].start],
             offset |-> OffsetOf(stream.volumes[v], f)]
        InFile(v, f) ==
            LET file == stream.volumes[v].files[f]
            IN  UNION {Census(file.sections[s].payload, at \o <<v, f, s>>,
                              Append(path, OffsetOf(stream.volumes[v], f)),
                              mutable /\ Rebuildable(file, s)) :
                          s \in {t \in DOMAIN file.sections :
                                    Decodes(file.sections[t])}}
        InVolume(v) ==
            LET volume == stream.volumes[v]
            IN  {Found("invalid", v, f) : f \in ShortFiles(volume)}
                \cup {Found("target", v, 0) : core \in FilesOf(volume, "core")}
                \cup {Found("driver", v, f) : f \in FilesOf(volume, "driver")}
                \cup {Found("unread", v, f) :
                         f \in {g \in FilesOf(volume, "image") :
                                   ~FileIsRead(volume.files[g])}}
                \cup UNION {InFile(v, f) : f \in Containers(volume)}
    IN  UNION {InVolume(v) : v \in DOMAIN stream.volumes}
        \cup UNION {Census(stream.extra[s].payload, at \o <<0, 0, s>>, path, FALSE) :
                       s \in {t \in DOMAIN stream.extra : Decodes(stream.extra[t])}}

CensusOf(stream) == Census(stream, <<>>, <<>>, TRUE)

OfKind(census, kind) == {found \in census : found.kind = kind}

Locations(census) == {found.location : found \in census}

SharesOuterContainer(found) ==
    \E one, other \in found :
       /\ one.at # other.at
       /\ one.location.containers # <<>>
       /\ other.location.containers # <<>>
       /\ Head(one.location.containers) = Head(other.location.containers)

(* Why plan_ffs_injection refuses an image, or "none".                     *)
Objection(census) ==
    LET found == OfKind(census, "target")
    IN  IF OfKind(census, "invalid") # {} THEN "invalid"
        ELSE IF OfKind(census, "unread") # {} THEN "incomplete"
        ELSE IF OfKind(census, "driver") # {} THEN "present"
        ELSE IF found = {} THEN "no target"
        ELSE IF SharesOuterContainer(found) \/ \E t \in found : ~t.injectable
        THEN "unsupported"
        ELSE "none"

----------------------------------------------------------------------------
(* The injection.                                                          *)

(* A faulty variant: any pad file will do, the last of them is replaced.   *)
PadSlot_AnyPad(volume) ==
    {[from |-> OffsetOf(volume, f), pad |-> f] :
        f \in {p \in FilesOf(volume, "pad") :
                  \A q \in FilesOf(volume, "pad") : q <= p}}

(* A pad file counts as free only when erased space alone follows it.      *)
PadSlot(volume) ==
    {[from |-> OffsetOf(volume, f), pad |-> f] :
        f \in FilesOf(volume, "pad") \cap {Len(volume.files)}}

RawSlot(volume) ==
    IF UsedEnd(volume) = VolumeEnd(volume) THEN {}
    ELSE {[from |-> UsedEnd(volume), pad |-> 0]}

Room(volume, slot) == VolumeEnd(volume) - slot.from

Fits(volume, slot) == Room(volume, slot) >= DriverSize

HasRoom(volume) == \E slot \in RawSlot(volume) \cup PadSlot(volume) : Fits(volume, slot)

(* Erased space is taken before a pad file.                                *)
Slot(volume) ==
    IF \E slot \in RawSlot(volume) : Fits(volume, slot)
    THEN CHOOSE slot \in RawSlot(volume) : TRUE
    ELSE CHOOSE slot \in PadSlot(volume) : TRUE

(* Where a volume that has no room starts to grow: the larger of its slots. *)
GrowthSlot(volume) ==
    LET slots == RawSlot(volume) \cup PadSlot(volume)
                 \cup {[from |-> VolumeEnd(volume), pad |-> 0]}
    IN  CHOOSE slot \in slots :
           \A other \in slots : Room(volume, slot) >= Room(volume, other)

(* A length that is a whole number of blocks already gets one block more.  *)
GrownLength(volume, slot) ==
    LET least == slot.from + DriverSize - volume.start
    IN  least + Block - (least % Block)

(* inject_driver_at_slot, into a volume of the given length.               *)
WithDriver(volume, slot, length) ==
    [volume EXCEPT
        !.length = length,
        !.files = (IF slot.pad = 0 THEN @ ELSE SubSeq(@, 1, slot.pad - 1))
                  \o <<Driver>>]

(* A faulty variant: what follows the volume is not looked at.             *)
MayGrow_Anywhere(stream, v) == stream.volumes[v].growable

(* A volume grows only at the end of its stream: other sections may stand  *)
(* ahead of the one it is wrapped in, and none behind it.                  *)
MayGrow(stream, v) ==
    /\ stream.volumes[v].growable
    /\ v = Len(stream.volumes)
    /\ stream.extra = <<>> \/ stream.ahead
    /\ stream.wrapped \/ stream.blank

Failed(why) == [status |-> why]

Injected(stream, path, volume, offset) ==
    [status |-> "ok", stream |-> stream, offset |-> offset,
     location |-> [containers |-> path, volume |-> volume.start]]

Lowest(indexes) == CHOOSE i \in indexes : \A j \in indexes : i <= j

Needy(stream) ==
    {v \in DOMAIN stream.volumes :
        HasCore(stream.volumes[v]) /\ ~HasDriver(stream.volumes[v])}

(* The first volume that takes the driver; outside the compressed sections *)
(* a volume without room is passed over, inside them it grows.             *)
InjectDirectly(stream, path) ==
    LET nested == path # <<>>
        open == {v \in Needy(stream) : nested \/ HasRoom(stream.volumes[v])}
        v == Lowest(open)
        volume == stream.volumes[v]
        Put(slot, length) ==
            Injected([stream EXCEPT !.volumes[v] = WithDriver(@, slot, length)],
                     path, volume, slot.from)
    IN  IF open = {} THEN Failed("no space")
        ELSE IF HasRoom(volume) THEN Put(Slot(volume), volume.length)
        ELSE IF MayGrow(stream, v)
             THEN Put(GrowthSlot(volume), GrownLength(volume, GrowthSlot(volume)))
             ELSE Failed("unsupported")

(* preserve_nonterminal_file_extent: a file that has become smaller and is *)
(* followed by others is filled up with a section nobody reads.            *)
Padded(file, extent, terminal) ==
    IF terminal \/ file.size >= extent THEN file
    ELSE [file EXCEPT
             !.size = extent,
             !.sections = Append(@, [kind |-> "leaf", standard |-> TRUE,
                                     size |-> extent - file.size,
                                     text |-> <<>>, payload |-> NoStream])]

(* Erased space behind the last file is its own to grow into.              *)
Capacity(volume, f) ==
    IF f = Len(volume.files) THEN VolumeEnd(volume) - OffsetOf(volume, f)
    ELSE volume.files[f].size

(* rebuild_guided_file and replace_firmware_file, the section now packed.  *)
Rebuilt(stream, v, f, s, inner, packed) ==
    LET volume == stream.volumes[v]
        old == volume.files[f]
        sections == [old.sections EXCEPT ![s].payload = inner.stream,
                                         ![s].size = packed]
        new == Padded([old EXCEPT !.sections = sections,
                                  !.size = FileHeader + Total(sections)],
                      old.size, f = Len(volume.files))
    IN  IF new.size > Capacity(volume, f) THEN Failed("too large")
        ELSE [inner EXCEPT !.stream =
                 [stream EXCEPT !.volumes[v].files[f] = new]]

RECURSIVE Inject(_, _)

(* inject_ffs_at_depth, every way it may end.  A container without a       *)
(* volume for the driver is left for the next; any other failure ends it.  *)
Inject(stream, path) ==
    LET File(c) == stream.volumes[c[1]].files[c[2]]
        Lzma(c) == {s \in DOMAIN File(c).sections : IsFirstLzma(File(c), s)}
        guided ==
            {c \in UNION {{v} \X Containers(stream.volumes[v]) :
                             v \in DOMAIN stream.volumes} : Lzma(c) # {}}
        Section(c) == File(c).sections[Lowest(Lzma(c))]
        Inner(c) ==
            IF ~Section(c).standard THEN {Failed("unsupported")}
            ELSE Inject(Section(c).payload,
                        Append(path, OffsetOf(stream.volumes[c[1]], c[2])))
        yielding == {c \in guided : Inner(c) # {Failed("no volume")}}
        first == CHOOSE c \in yielding :
                    \A d \in yielding :
                       c[1] < d[1] \/ (c[1] = d[1] /\ c[2] <= d[2])
        Outer(inner) ==
            IF inner.status # "ok" THEN {inner}
            ELSE {Rebuilt(stream, first[1], first[2], Lowest(Lzma(first)),
                          inner, packed) : packed \in PackedSizes}
    IN  IF Needy(stream) # {} THEN {InjectDirectly(stream, path)}
        ELSE IF yielding = {} THEN {Failed("no volume")}
        ELSE UNION {Outer(inner) : inner \in Inner(first)}

(* What inject_ffs_with_verified_plan asks of the candidate of one round.  *)
Proven(candidate) ==
    LET census == CensusOf(candidate.stream)
        found == OfKind(census, "target")
        drivers == OfKind(census, "driver")
        earlier == {injected[i].location : i \in DOMAIN injected}
        added == {d \in drivers : d.location \notin earlier}
    IN  /\ OfKind(census, "unread") \cup OfKind(census, "invalid") = {}
        /\ Locations(found) = targets /\ Cardinality(found) = Cardinality(targets)
        /\ \A t \in found : t.injectable
        /\ Cardinality(drivers) = Len(injected) + 1
        /\ Cardinality(Locations(drivers)) = Cardinality(drivers)
        /\ Locations(drivers) \subseteq targets
        /\ \A d \in added :
              d.location = candidate.location /\ d.offset = candidate.offset
        /\ Cardinality(added) = 1

----------------------------------------------------------------------------
Init ==
    /\ image \in Images
    /\ mode \in {"one", "every"}
    /\ targets = {}
    /\ output = image
    /\ injected = <<>>
    /\ result = "none"

(* plan_ffs_injection, and inject_ffs refusing a choice between targets.   *)
Plan ==
    LET census == CensusOf(output)
        found == Locations(OfKind(census, "target"))
    IN  /\ result = "none" /\ targets = {}
        /\ IF Objection(census) # "none"
           THEN result' = Objection(census) /\ UNCHANGED targets
           ELSE IF mode = "one" /\ Cardinality(found) > 1
                THEN result' = "ambiguous" /\ UNCHANGED targets
                ELSE targets' = found /\ UNCHANGED result
        /\ UNCHANGED <<image, mode, output, injected>>

(* One round of the injection, proven by a census of its own.              *)
InjectNext ==
    /\ result = "none" /\ Len(injected) < Cardinality(targets)
    /\ \E candidate \in Inject(output, <<>>) :
          /\ candidate.status = "ok" /\ Proven(candidate)
          /\ output' = candidate.stream
          /\ injected' = Append(injected, [location |-> candidate.location,
                                          offset |-> candidate.offset])
    /\ UNCHANGED <<image, mode, targets, result>>

(* A round that fails, or cannot be proven, ends it without an output.     *)
GiveUp ==
    /\ result = "none" /\ Len(injected) < Cardinality(targets)
    /\ \E candidate \in Inject(output, <<>>) :
          /\ candidate.status = "ok" => ~Proven(candidate)
          /\ result' = IF candidate.status = "ok" THEN "unproven" ELSE candidate.status
    /\ UNCHANGED <<image, mode, targets, output, injected>>

Finish ==
    /\ result = "none" /\ targets # {} /\ Len(injected) = Cardinality(targets)
    /\ result' = IF {injected[i].location : i \in DOMAIN injected} = targets
                 THEN "done" ELSE "unproven"
    /\ UNCHANGED <<image, mode, targets, output, injected>>

Next == Plan \/ InjectNext \/ GiveUp \/ Finish

Spec == Init /\ [][Next]_vars

----------------------------------------------------------------------------
RECURSIVE Domains(_, _)

(* Every volume that holds a DXE core, wherever it is hidden, and the      *)
(* number of drivers in it: what the machine runs, not what the code sees. *)
Domains(stream, at) ==
    UNION {{[at |-> Append(at, v),
             drivers |-> Cardinality(FilesOf(stream.volumes[v], "driver"))] :
                core \in FilesOf(stream.volumes[v], "core")}
           \cup UNION {UNION
                {Domains(stream.volumes[v].files[f].sections[s].payload,
                         at \o <<v, f, s>>) :
                    s \in DOMAIN stream.volumes[v].files[f].sections} :
                f \in DOMAIN stream.volumes[v].files} :
           v \in DOMAIN stream.volumes}
    \cup UNION {Domains(stream.extra[s].payload, at \o <<0, s>>) :
                   s \in DOMAIN stream.extra}

(* A patched image has the driver exactly once in every DXE domain of the  *)
(* original, in whatever section it is, and never in some of them only     *)
(* (inject_ffs_with_verified_plan: "Patch every independently dispatchable *)
(* DXE domain into a local copy, or return no artifact at all").           *)
EveryDomainHasTheDriver ==
    result = "done" =>
        /\ {d.at : d \in Domains(output, <<>>)} = {d.at : d \in Domains(image, <<>>)}
        /\ \A d \in Domains(output, <<>>) : d.drivers = 1

(* A pad file at the end of its volume is the only file that may go.       *)
MayGo(volume, f) == f = Len(volume.files) /\ volume.files[f].kind = "pad"

RECURSIVE Kept(_, _)

(* The second stream is the first one but for drivers, a volume that grew  *)
(* at its end, and the sections and files around them.                     *)
Kept(before, after) ==
    LET KeptSections(old, new) ==
            \A s \in DOMAIN old :
               /\ s \in DOMAIN new
               /\ new[s].kind = old[s].kind
               /\ Kept(old[s].payload, new[s].payload)
        KeptFile(old, new) ==
            /\ new.kind = old.kind /\ new.large = old.large /\ new.short = old.short
            /\ KeptSections(old.sections, new.sections)
            /\ \A s \in (DOMAIN new.sections) \ (DOMAIN old.sections) :
                  IsLeaf(new.sections[s])
        KeptVolume(old, new) ==
            /\ new.start = old.start /\ new.length >= old.length
            /\ UsedEnd(new) <= VolumeEnd(new)
            /\ \A f \in DOMAIN old.files :
                  \/ MayGo(old, f)
                  \/ /\ f \in DOMAIN new.files
                     /\ OffsetOf(new, f) = OffsetOf(old, f)
                     /\ KeptFile(old.files[f], new.files[f])
    IN  /\ Len(after.volumes) = Len(before.volumes)
        /\ KeptSections(before.extra, after.extra) /\ Len(after.extra) = Len(before.extra)
        /\ \A v \in DOMAIN before.volumes :
              /\ KeptVolume(before.volumes[v], after.volumes[v])
              /\ v > 1 => VolumeEnd(after.volumes[v - 1]) <= after.volumes[v].start

(* After every round the copy is the original but for what was put in: the *)
(* volumes of the image keep their places and lengths, every file but a    *)
(* closing pad file keeps its offset and its content, and no file or       *)
(* volume runs into the next (docs/FLASHER_COMPATIBILITY.md: "outer layout *)
(* not rewritten", "later FFS files are not moved").                       *)
TheRestIsKept ==
    injected # <<>> =>
        /\ Kept(image, output)
        /\ \A v \in DOMAIN image.volumes :
              output.volumes[v].length = image.volumes[v].length

(* The census behind every round agrees with the injection: an image whose *)
(* plan was accepted is refused for lack of room or because a container    *)
(* cannot be rebuilt, never because an injection changed the targets.      *)
RoundsAreProven == result # "unproven"

=============================================================================

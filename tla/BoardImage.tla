----------------------------- MODULE BoardImage -----------------------------
(***************************************************************************)
(* A board image from the vendor's file to the file that is flashed: the   *)
(* rules a legacy board selects are applied first                          *)
(* (LegacyCatalogAuthority::apply, patch_legacy_firmware) and the driver   *)
(* is put into what comes out (inject_ffs_for_profile).  Creating a        *)
(* machine profile and preparing its image both do this, with the same     *)
(* bytes.                                                                  *)
(*                                                                         *)
(* The text of a section is what the patterns of the rules are looked for  *)
(* in; a replacement is as long as what it replaces, so that only packing  *)
(* a section again changes the size of a file.                             *)
(***************************************************************************)
EXTENDS FirmwareInjection

CONSTANTS
    Rules,        \* the rules of the catalogs, in catalog and line order
    LegacyBoards, \* the images rules are selected for
    StaleCounts,  \* numbers of matches that another image may have had
    Masked        \* a nibble a pattern does not look at

VARIABLES
    profile,      \* the selected rules with their numbers of matches
    patched       \* how many of the rules have been passed

boardVars == <<vars, profile, patched>>

NoProfile == [path |-> "none"]

Native == [path |-> "native"]

Legacy(expected) == [path |-> "legacy", expected |-> expected]

----------------------------------------------------------------------------
(* One rule in one text.                                                   *)

Length(rule) == Len(rule.find)

Matches(rule, text) ==
    {i \in 1 .. Len(text) - Length(rule) + 1 :
        \A j \in 1 .. Length(rule) : rule.find[j] \in {Masked, text[i + j - 1]}}

Overlapping(rule, text) ==
    \E i, j \in Matches(rule, text) : i < j /\ j < i + Length(rule)

(* The text with every match replaced; what the pattern masks is kept.     *)
Replaced(rule, text) ==
    [n \in DOMAIN text |->
        LET here == {i \in Matches(rule, text) : n \in i .. i + Length(rule) - 1}
            by == rule.replace[n - Lowest(here) + 1]
        IN  IF here = {} \/ by = Masked THEN text[n] ELSE by]

SomeMatchUnchanged(rule, text) ==
    \E i \in Matches(rule, text) :
       \A n \in i .. i + Length(rule) - 1 : Replaced(rule, text)[n] = text[n]

----------------------------------------------------------------------------
(* One rule in an image.  An outcome has what a part of the image became   *)
(* and the number of changes in it, or why the rule is refused.            *)

Became(part, changes) == [status |-> "ok", result |-> part, changes |-> changes]

Within(outcome, Around(_)) ==
    IF outcome.status # "ok" THEN outcome
    ELSE [outcome EXCEPT !.result = Around(@)]

(* The parts are patched one after the other; the first refusal ends it.   *)
InTurn(parts, whole, Patch(_, _)) ==
    FoldLeft(LAMBDA outcomes, part :
                 UNION {IF o.status # "ok" THEN {o}
                        ELSE {IF p.status # "ok" THEN p
                              ELSE [p EXCEPT !.changes = @ + o.changes] :
                                 p \in Patch(o.result, part)} : o \in outcomes},
             {Became(whole, 0)}, parts)

PatchText(rule, section) ==
    IF Matches(rule, section.text) = {} THEN Became(section, 0)
    ELSE IF Overlapping(rule, section.text) THEN Failed("overlapping matches")
    ELSE IF SomeMatchUnchanged(rule, section.text) THEN Failed("no change")
    ELSE Became([section EXCEPT !.text = Replaced(rule, @)],
                Cardinality(Matches(rule, section.text)))

(* A section without changes keeps its bytes, another is packed anew.      *)
Repacked(section, outcome) ==
    IF outcome.status # "ok" THEN {outcome}
    ELSE IF outcome.changes = 0 THEN {Became(section, 0)}
    ELSE {Became([section EXCEPT !.payload = outcome.result, !.size = packed],
                 outcome.changes) : packed \in PackedSizes}

(* What might hide a match and cannot be rebuilt is refused.               *)
CannotBeRebuilt(section) ==
    \/ section.kind \in {"opaque", "zlib"}
    \/ section.kind = "lzma" /\ ~section.standard

(* The file of a rule, or a volume image, with its sections patched.  No   *)
(* other file is moved; nothing fills a file that has become smaller.      *)
WithSections(stream, v, f, outcome) ==
    LET old == stream.volumes[v].files[f]
        size == FileHeader + Total(outcome.result)
        last == f = Len(stream.volumes[v].files)
        new == [old EXCEPT !.sections = outcome.result,
                           !.size = IF last THEN size ELSE @,
                           !.short = ~last /\ size < old.size]
    IN  IF outcome.status # "ok" THEN outcome
        ELSE IF outcome.changes = 0 THEN Became(stream, 0)
        ELSE IF size > Capacity(stream.volumes[v], f) THEN Failed("does not fit")
        ELSE Became([stream EXCEPT !.volumes[v].files[f] = new], outcome.changes)

RECURSIVE PatchVolumes(_, _), PatchSections(_, _, _)

(* patch_decoded_payload: the volumes of a stream are looked for anywhere  *)
(* in it, and only a stream without any is read as sections.               *)
PatchPayload(rule, stream, target) ==
    IF stream.volumes # <<>> THEN PatchVolumes(rule, stream)
    ELSE {Within(o, LAMBDA sections : [stream EXCEPT !.extra = sections]) :
             o \in PatchSections(rule, stream.extra, target)}

(* patch_section_content, in the file of the rule or in a volume image.    *)
PatchSection(rule, section, target) ==
    IF CannotBeRebuilt(section) THEN {Failed("unsupported")}
    ELSE IF section.kind \in {"lzma", "efi"}
    THEN UNION {Repacked(section, o) : o \in PatchPayload(rule, section.payload, target)}
    ELSE IF section.kind = "volume" /\ ~target
    THEN {Within(o, LAMBDA stream : [section EXCEPT !.payload = stream]) :
             o \in PatchVolumes(rule, section.payload)}
    ELSE IF target /\ section.kind = rule.section THEN {PatchText(rule, section)}
    ELSE {Became(section, 0)}

PatchSections(rule, sections, target) ==
    LET Patch(sofar, s) ==
            {Within(o, LAMBDA new : [sofar EXCEPT ![s] = new]) :
                o \in PatchSection(rule, sofar[s], target)}
    IN  InTurn([s \in DOMAIN sections |-> s], sections, Patch)

(* A faulty variant: a deleted file is patched too.                        *)
IsTarget_Deleted(rule, file) == file.kind \in {rule.file, "deleted"}

(* The live files with the GUID of the rule.                               *)
IsTarget(rule, file) == file.kind = rule.file

PatchFile(rule, stream, at) ==
    LET file == stream.volumes[at[1]].files[at[2]]
    IN  IF ~IsTarget(rule, file) /\ file.kind # "image" THEN {Became(stream, 0)}
        ELSE IF file.large THEN {Failed("unsupported")}
        ELSE {WithSections(stream, at[1], at[2], o) :
                 o \in PatchSections(rule, file.sections, IsTarget(rule, file))}

(* patch_rule_in_firmware, every way it may end.                           *)
PatchVolumes(rule, stream) ==
    LET Files(v) == [f \in DOMAIN stream.volumes[v].files |-> <<v, f>>]
        files == FlattenSeq([v \in DOMAIN stream.volumes |-> Files(v)])
        Patch(sofar, at) == PatchFile(rule, sofar, at)
    IN  IF \E v \in DOMAIN stream.volumes : ShortFiles(stream.volumes[v]) # {}
        THEN {Failed("invalid")}
        ELSE InTurn(files, stream, Patch)

(* analyze_legacy_firmware: the numbers of matches the rule is offered     *)
(* with; every rule is tried on the original by itself.                    *)
Applicable(rule) ==
    {o.changes : o \in {p \in PatchVolumes(rule, image) : p.status = "ok"}} \ {0}

----------------------------------------------------------------------------
BoardInit == Init /\ profile = NoProfile /\ patched = 0

CreateNative ==
    /\ profile = NoProfile
    /\ profile' = Native
    /\ patched' = Len(Rules)
    /\ UNCHANGED vars

RisksOf(chosen) == UNION {Rules[r].risks : r \in chosen}

(* LegacyPatchProfile: some rules, each with a number of matches, and a    *)
(* note for exactly the risks of the rules.                                *)
CreateLegacy ==
    /\ profile = NoProfile /\ image \in LegacyBoards
    /\ \E chosen \in SUBSET DOMAIN Rules \ {{}} :
       \E noted \in SUBSET RisksOf(DOMAIN Rules) :
       \E expected \in [chosen -> UNION {Applicable(Rules[r]) : r \in chosen}
                                  \cup StaleCounts] :
          /\ \A r \in chosen : expected[r] \in Applicable(Rules[r]) \cup StaleCounts
          /\ profile' = Legacy(expected)
          /\ result' = IF noted = RisksOf(chosen) /\ \A r \in chosen : expected[r] > 0
                       THEN result ELSE "malformed"
    /\ UNCHANGED <<image, mode, targets, output, injected, patched>>

Chosen == IF profile.path = "legacy" THEN DOMAIN profile.expected ELSE {}

Patching == result = "none" /\ profile # NoProfile /\ patched < Len(Rules)

Skip ==
    /\ Patching /\ patched + 1 \notin Chosen
    /\ patched' = patched + 1
    /\ UNCHANGED <<vars, profile>>

(* A selected rule, on what the rules before it have left.                 *)
Apply ==
    /\ Patching /\ patched + 1 \in Chosen
    /\ \E o \in PatchVolumes(Rules[patched + 1], output) :
          IF o.status = "ok" /\ o.changes = profile.expected[patched + 1]
          THEN output' = o.result /\ UNCHANGED result
          ELSE /\ result' = IF o.status = "ok" THEN "match count" ELSE o.status
               /\ UNCHANGED output
    /\ patched' = patched + 1
    /\ UNCHANGED <<image, mode, targets, injected, profile>>

(* inject_ffs_for_profile, on the patched image.                           *)
PutDriver ==
    /\ profile # NoProfile /\ patched = Len(Rules)
    /\ Next
    /\ UNCHANGED <<profile, patched>>

BoardNext == CreateNative \/ CreateLegacy \/ Skip \/ Apply \/ PutDriver

BoardSpec == BoardInit /\ [][BoardNext]_boardVars

----------------------------------------------------------------------------
RECURSIVE Texts(_, _, _, _)

(* Every text of a stream with its place and the file it belongs to. What  *)
(* is in deleted files, in disposable sections and beside the volumes of a *)
(* decoded stream is out of the reach of the rules.                        *)
Texts(stream, at, file, reached) ==
    LET In(sections, where, owner, seen) ==
            UNION {IF IsLeaf(sections[s])
                   THEN {[at |-> Append(where, s), file |-> owner, reached |-> seen,
                          section |-> sections[s].kind, text |-> sections[s].text]}
                   ELSE Texts(sections[s].payload, Append(where, s), owner,
                              seen /\ sections[s].kind # "disposable") :
                      s \in DOMAIN sections}
        InFile(v, f) ==
            LET it == stream.volumes[v].files[f]
            IN  In(it.sections, at \o <<v, f>>, it.kind, reached /\ it.kind # "deleted")
    IN  In(stream.extra, at \o <<0, 0>>, file, reached /\ stream.volumes = <<>>)
        \cup UNION {UNION {InFile(v, f) : f \in DOMAIN stream.volumes[v].files} :
                       v \in DOMAIN stream.volumes}

TextsOf(stream) == Texts(stream, <<>>, "none", TRUE)

IsFor(rule, place) ==
    place.reached /\ place.file = rule.file /\ place.section = rule.section

(* A text after the first n rules of the catalogs, those that are selected. *)
TextAfter(n, place) ==
    FoldLeft(LAMBDA text, r : IF r \in Chosen /\ IsFor(Rules[r], place)
                              THEN Replaced(Rules[r], text) ELSE text,
             place.text, [r \in 1 .. n |-> r])

MatchesBefore(r) ==
    MapThenSumSet(LAMBDA place : Cardinality(Matches(Rules[r], TextAfter(r - 1, place))),
                  {place \in TextsOf(image) : IsFor(Rules[r], place)})

(* While the image is not refused, its texts are those of the vendor's     *)
(* image with the selected rules applied once each, in catalog order, in   *)
(* the live files they name and nowhere else, and every rule has changed   *)
(* as many places as the profile says, however deep they are compressed    *)
(* (CONTEXT.md: "Only analyzer-owned match counts [...] may enter a legacy *)
(* Machine Profile").                                                      *)
PatchedAsSelected ==
    profile.path = "legacy" /\ result \in {"none", "done"} =>
        /\ \A place \in TextsOf(image) :
              [place EXCEPT !.text = TextAfter(patched, place)] \in TextsOf(output)
        /\ \A r \in Chosen : r <= patched => MatchesBefore(r) = profile.expected[r]

=============================================================================

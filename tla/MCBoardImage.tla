---------------------------- MODULE MCBoardImage ----------------------------
(***************************************************************************)
(* Board images of two firmware volumes.  Each is one of Direct and        *)
(* Guided: with a DXE core of its own and every kind of free space, with   *)
(* containers of every kind around a core or around none, terminal or not, *)
(* and with both at once.  Legacy boards have one volume with the file of  *)
(* the rules in it, outside and inside containers of every kind.           *)
(***************************************************************************)
EXTENDS BoardImage

BoardLength == 12    \* of a volume of the image

File(kind, size) ==
    [kind |-> kind, size |-> size, large |-> FALSE, short |-> FALSE, sections |-> <<>>]

Core == File("core", 1)

Other == File("other", 1)

Volume(start, length, growable, files) ==
    [start |-> start, length |-> length, growable |-> growable, files |-> files]

Section(kind, standard, payload) ==
    [kind |-> kind, standard |-> standard, size |-> 2, text |-> <<>>, payload |-> payload]

Lzma(payload) == Section("lzma", TRUE, payload)

VendorLzma(payload) == Section("lzma", FALSE, payload)

Leaf == [Section("leaf", TRUE, NoStream) EXCEPT !.size = 1]

Image(sections) ==
    [File("image", FileHeader + Total(sections)) EXCEPT !.sections = sections]

Raw(volumes) == [NoStream EXCEPT !.volumes = volumes]

Wrapped(volumes, extra) ==
    [NoStream EXCEPT !.volumes = volumes, !.wrapped = TRUE, !.extra = extra]

\* The other sections stand before the one of the volumes.
Behind(volumes, extra) == [Wrapped(volumes, extra) EXCEPT !.ahead = TRUE]

Full == Volume(0, 2, TRUE, <<Core>>)

Plain == Volume(0, 2, TRUE, <<Other>>)

(* Decoded streams with one DXE core: in a volume with room, with too      *)
(* little of it, that grows from its end, from erased space or from a pad  *)
(* file, that cannot grow, and in a container one level further in.        *)
CoreStreams ==
    {Raw(<<Volume(0, 6, TRUE, <<Core>>)>>),
     Raw(<<Full>>),
     Raw(<<Volume(0, 3, TRUE, <<Core>>)>>),
     Raw(<<Volume(0, 5, TRUE, <<Core, File("pad", 2)>>)>>),
     Raw(<<Volume(0, 2, FALSE, <<Core>>)>>),
     Raw(<<Full, [Plain EXCEPT !.start = 2]>>),
     Raw(<<Plain, [Full EXCEPT !.start = 2]>>),
     Wrapped(<<Full>>, <<>>),
     Wrapped(<<Full>>, <<Leaf>>),
     Behind(<<[Full EXCEPT !.start = 1]>>, <<Leaf>>),
     Raw(<<Volume(0, 6, TRUE, <<Image(<<Lzma(Raw(<<Full>>))>>)>>)>>)}

(* Streams whose core the census sees and the injection cannot reach, or   *)
(* that hide what they hold.                                               *)
HiddenStreams ==
    {Wrapped(<<Plain>>, <<Lzma(Raw(<<Full>>))>>),
     Wrapped(<<Plain>>, <<Section("opaque", TRUE, Raw(<<Full>>))>>),
     [Raw(<<Full>>) EXCEPT !.blank = FALSE],
     Raw(<<Full, [Full EXCEPT !.start = 2]>>)}

Containing ==
    {Image(<<Lzma(s)>>) : s \in CoreStreams \cup HiddenStreams}

(* Files that are read only, ambiguous, opaque or without any core.        *)
Unusual ==
    {Image(<<Leaf, Lzma(Raw(<<Full>>)), Leaf>>),
     Image(<<VendorLzma(Raw(<<Full>>))>>),
     Image(<<VendorLzma(Raw(<<Plain>>))>>),
     Image(<<Lzma(Raw(<<Plain>>))>>),
     Image(<<Lzma(Raw(<<Plain>>)), Lzma(Raw(<<Full>>))>>),
     Image(<<Section("volume", TRUE, Raw(<<Plain>>))>>),
     Image(<<Section("volume", TRUE, Raw(<<Full>>))>>),
     Image(<<Section("zlib", TRUE, Raw(<<Plain>>))>>),
     Image(<<Section("efi", TRUE, Raw(<<Full>>))>>),
     Image(<<Lzma(Raw(<<Full>>)), Section("opaque", TRUE, Raw(<<Full>>))>>),
     Image(<<Section("opaque", TRUE, Raw(<<Full>>))>>),
     [Image(<<Lzma(Raw(<<Full>>))>>) EXCEPT !.large = TRUE]}

Direct ==
    {<<Core>>, <<Core, File("other", 9)>>, <<Core, File("other", 10)>>,
     <<Core, File("other", 7), File("pad", 2)>>,
     <<Core, File("other", 8), File("pad", 2)>>,
     <<Other, File("pad", 3), Core, File("other", 6)>>,
     <<Core, Driver>>, <<File("deleted", 1), Other>>}

Guided ==
    UNION {{<<c>>, <<Other, c, Other>>} : c \in Containing}
    \cup {<<c>> : c \in Unusual}
    \cup {<<Core, Image(<<Lzma(Raw(<<Full>>))>>)>>,
          <<Core, Image(<<Lzma(Raw(<<Plain>>))>>)>>,
          <<Image(<<VendorLzma(Raw(<<Plain>>))>>), Image(<<Lzma(Raw(<<Full>>))>>)>>,
          <<Image(<<Lzma(Raw(<<Full>>))>>), Image(<<Lzma(Raw(<<Full>>))>>)>>}

TwoVolumes ==
    {Raw(<<Volume(0, BoardLength, FALSE, low),
           Volume(BoardLength, BoardLength, FALSE, high)>>) :
        low \in Direct \cup Guided, high \in Direct \cup Guided}

SomeSizes == {1, 2, 3}

(* Four rules of a catalog: the second finds what the first has written    *)
(* too, the third may match twice in the same bytes, the fourth may find   *)
(* what it would write, and is for another section.                        *)
Rule(section, find, replace, risks) ==
    [file |-> "bridge", section |-> section, find |-> find, replace |-> replace,
     risks |-> risks]

FourRules ==
    <<Rule("code", <<1, 2>>, <<1, 3>>, {}),
      Rule("code", <<3>>, <<4>>, {"dsdt"}),
      Rule("code", <<5, Masked>>, <<6, Masked>>, {}),
      Rule("leaf", <<Masked, 7>>, <<8, 7>>, {})>>

Code(text) == [Leaf EXCEPT !.kind = "code", !.text = text]

Note(text) == [Leaf EXCEPT !.text = text]

WithFile(kind, sections) ==
    [File(kind, FileHeader + Total(sections)) EXCEPT !.sections = sections]

Bridge(sections) == WithFile("bridge", sections)

Sectioned(sections) == Wrapped(<<>>, sections)

Simple == Bridge(<<Code(<<1, 2>>)>>)

Inside == Raw(<<Volume(0, 7, TRUE, <<Core, Simple>>)>>)

(* Files and containers with texts for the rules.                          *)
Texted ==
    {Bridge(<<Code(t), Note(<<1, 2, 7>>)>>) :
        t \in {<<1, 2, 3>>, <<1, 2, 1, 2>>, <<5, 5, 5>>, <<5, 1, 2>>, <<4>>}}
    \cup {Bridge(<<Note(<<8, 7>>)>>),
          Bridge(<<Lzma(Sectioned(<<Code(<<1, 2>>), Code(<<3>>)>>))>>),
          Bridge(<<Section("efi", TRUE, Sectioned(<<Code(<<1, 2>>)>>)), Code(<<3>>)>>),
          Bridge(<<VendorLzma(Sectioned(<<Code(<<1, 2>>)>>))>>),
          [Simple EXCEPT !.large = TRUE],
          WithFile("deleted", <<Code(<<1, 2>>)>>),
          WithFile("bar", <<Code(<<1, 2>>)>>),
          Image(<<Lzma(Inside)>>),
          Image(<<Section("efi", TRUE, Inside)>>),
          Image(<<Section("volume", TRUE, Inside)>>),
          Image(<<Section("zlib", TRUE, Inside)>>),
          Image(<<Section("opaque", TRUE, Inside)>>),
          Image(<<Section("disposable", TRUE, Inside)>>),
          Image(<<Lzma(Wrapped(<<Full>>, <<Lzma(Inside)>>))>>),
          Image(<<Lzma(Raw(<<Volume(0, 12, TRUE, <<Image(<<Lzma(Inside)>>), Core>>)>>))>>),
          [Image(<<Lzma(Inside)>>) EXCEPT !.large = TRUE]}

(* Boards with one such file at the end of a volume or before others, and  *)
(* boards with two.                                                        *)
Boards ==
    {Raw(<<Volume(0, BoardLength, FALSE, files)>>) :
        files \in UNION {{<<Core, t>>, <<Core, t, Other>>} : t \in Texted}
                  \cup {<<Core, Simple, Bridge(<<Code(<<1, 2, 3>>)>>)>>,
                        <<Core, Image(<<Lzma(Inside)>>), Simple>>,
                        <<Image(<<Lzma(Inside)>>), Other>>,
                        <<Image(<<Lzma(Inside)>>), Simple>>}}

AllImages == TwoVolumes \cup Boards

=============================================================================

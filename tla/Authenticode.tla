----------------------------- MODULE Authenticode -----------------------------
(***************************************************************************)
(* The Authenticode signature of an EFI program                            *)
(* (crates/nvstraps-external-tool/src/authenticode.rs): which bytes of the *)
(* file the digest covers, how the certificate table is appended, and what *)
(* is checked of a signed file.                                            *)
(*                                                                         *)
(* A file is a sequence of cells of four bytes.  A cell is a number, the   *)
(* header with the number of sections, a checksum, or one part of the DER  *)
(* encoding of a CMS structure.  An offset counts the cells before it, and *)
(* an alignment of eight bytes is an even number of cells.  A SHA-256      *)
(* digest is what was digested.                                            *)
(***************************************************************************)
EXTENDS Integers, Sequences, FiniteSets, SequencesExt

NoTable == <<0, 0>>          \* no certificate table

Number(n) == <<"number", n>>
Header(sections) == <<"header", sections>>       \* MZ, PE, PE32+, the count
ChecksumCell == <<"checksum", 0>>                \* pe_checksum of the rest

\* Where the fields of the header are.  Each section has its size and offset.
SIZE_OF_HEADERS == 1
CHECKSUM == 2
CERTIFICATE_ENTRY == 3
SECTION_TABLE == 5

\* WIN_CERT_REVISION_2_0 and WIN_CERT_TYPE_PKCS_SIGNED_DATA, one cell.
REVISION_AND_TYPE == 131584

\* More than any file has: what a cell that is no number reads as.
Unreadable == 1000

Get(file, from, to) == SubSeq(file, from + 1, to)

read_u32(file, at) ==
    IF file[at + 1][1] = "number" THEN file[at + 1][2] ELSE Unreadable

align_up(n) == n + (n % 2)

-----------------------------------------------------------------------------
(* The layout of a PE image. *)

SectionCount(file) == file[1][2]
SectionTableEnd(file) == SECTION_TABLE + 2 * SectionCount(file)

\* The span of raw data of each section that has any, by its index.
Section(file, i) ==
    LET at == SECTION_TABLE + 2 * (i - 1)
    IN  <<read_u32(file, at + 1), read_u32(file, at + 1) + read_u32(file, at)>>

Filled(file) ==
    {i \in 1 .. SectionCount(file) : read_u32(file, SECTION_TABLE + 2 * (i - 1)) # 0}

\* sort_unstable_by_key: the spans in the order of their offsets.
SectionSpans(file) ==
    SetToSortSeq({Section(file, i) : i \in Filled(file)}, LAMBDA s, t : s[1] < t[1])

CertificateTable(file) ==
    <<read_u32(file, CERTIFICATE_ENTRY), read_u32(file, CERTIFICATE_ENTRY + 1)>>

data_after_sections(file) ==
    LET spans == SectionSpans(file)
    IN  IF spans = <<>> THEN read_u32(file, SIZE_OF_HEADERS) ELSE Last(spans)[2]

\* The certificate table parse_pe accepts: none, or an aligned one behind the
\* sections and inside of the file.
SoundTable(file) ==
    LET table == CertificateTable(file)
    IN  \/ table = NoTable
        \/ /\ table[1] # 0 /\ table[2] # 0
           /\ table[1] % 2 = 0
           /\ table[1] >= data_after_sections(file)
           /\ table[1] + table[2] <= Len(file)

\* parse_pe succeeds.
parse_pe(file) ==
    /\ Len(file) >= SECTION_TABLE
    /\ file[1][1] = "header"
    /\ SectionTableEnd(file) <= Len(file)
    /\ read_u32(file, SIZE_OF_HEADERS) \in SectionTableEnd(file) .. Len(file)
    /\ \A i \in Filled(file) :
           /\ Section(file, i)[1] >= read_u32(file, SIZE_OF_HEADERS)
           /\ Section(file, i)[2] <= Len(file)
    /\ \A i, j \in Filled(file) :
           i = j \/ Section(file, i)[2] <= Section(file, j)[1]
                 \/ Section(file, j)[2] <= Section(file, i)[1]
    /\ SoundTable(file)

-----------------------------------------------------------------------------
(* The digest. *)

\* The header without the checksum and the entry of the certificate table.
CoveredHeader(file) ==
    Get(file, 0, CHECKSUM)
        \o Get(file, CHECKSUM + 1, CERTIFICATE_ENTRY)
        \o Get(file, CERTIFICATE_ENTRY + 2, read_u32(file, SIZE_OF_HEADERS))

CoveredSections(file) ==
    FlattenSeq([i \in 1 .. Len(SectionSpans(file)) |->
                   Get(file, SectionSpans(file)[i][1], SectionSpans(file)[i][2])])

\* What follows the sections, without the certificate table.
CoveredRest(file) ==
    LET table == CertificateTable(file)
    IN  IF table = NoTable THEN Get(file, data_after_sections(file), Len(file))
        ELSE Get(file, data_after_sections(file), table[1])
                 \o Get(file, table[1] + table[2], Len(file))

pe_digest(file) ==
    CoveredHeader(file) \o CoveredSections(file) \o CoveredRest(file)

-----------------------------------------------------------------------------
(* Signing. *)

\* make_spc_indirect_data, make_signed_attributes and make_cms: the digest is
\* in the content, and the digest of the content in the attributes that are
\* signed.  The signature is told by the cells it makes the encoding long.
make_cms(digest, certificate, signature) ==
    [content |-> digest, attributes |-> <<"message digest", digest>>,
     certificates |-> <<certificate>>, signer |-> certificate,
     signature |-> signature]

Encoded(cms) == [i \in 1 .. cms.signature |-> <<"cms", cms, i>>]

CanPrepare(image) == parse_pe(image) /\ CertificateTable(image) = NoTable

Padded(cells, length) ==
    cells \o [i \in 1 .. length - Len(cells) |-> Number(0)]

\* prepare: the image with zeros to the next multiple of eight bytes.
prepare(image) == Padded(image, align_up(Len(image)))

\* finish: the WIN_CERTIFICATE behind the image, the entry for it, and the new
\* checksum.
WinCertificate(cms) ==
    LET length == align_up(2 + Len(Encoded(cms)))
    IN  Padded(<<Number(length), Number(REVISION_AND_TYPE)>> \o Encoded(cms), length)

finish(image, certificate, signature) ==
    LET table == WinCertificate(make_cms(pe_digest(image), certificate, signature))
    IN  [image EXCEPT ![CHECKSUM + 1] = ChecksumCell,
                      ![CERTIFICATE_ENTRY + 1] = Number(Len(image)),
                      ![CERTIFICATE_ENTRY + 2] = Number(Len(table))] \o table

-----------------------------------------------------------------------------
(* The check of a signed file. *)

\* parse_win_certificates finds exactly one entry: it is as long as the table,
\* and after its DER object there are zeros only.
OneCertificate(table) ==
    /\ Len(table) >= 3
    /\ read_u32(table, 0) = Len(table)
    /\ Len(table) % 2 = 0
    /\ table[3][1] = "cms"
    /\ LET encoded == Encoded(table[3][2])
       IN  /\ Len(table) >= 2 + Len(encoded)
           /\ SubSeq(table, 3, 2 + Len(encoded)) = encoded
           /\ \A i \in 3 + Len(encoded) .. Len(table) : table[i] = Number(0)

\* check_cms: everything is what make_cms would make, the signature not empty.
check_cms(cms, certificate, digest) ==
    /\ cms.content = digest
    /\ cms.certificates = <<certificate>>
    /\ cms.signer = certificate
    /\ cms.attributes = <<"message digest", cms.content>>
    /\ cms.signature # 0

check_signed(file, certificate) ==
    /\ parse_pe(file)
    /\ LET table == CertificateTable(file)
           cells == Get(file, table[1], Len(file))
       IN  /\ table # NoTable
           /\ table[1] + table[2] = Len(file)
           /\ OneCertificate(cells)
           /\ cells[2] = Number(REVISION_AND_TYPE)
           /\ check_cms(cells[3][2], certificate, pe_digest(file))

\* The command sign, for an image CanPrepare lets pass: it writes its result
\* if that passes the check, and nothing otherwise.
sign(image, certificate, signature) ==
    LET signed == finish(prepare(image), certificate, signature)
    IN  {s \in {signed} : check_signed(s, certificate)}

-----------------------------------------------------------------------------

\* What the firmware loads of an image: the header, except for the checksum
\* and the certificate table, and the contents of each section.
Loaded(file) ==
    <<CoveredHeader(file),
      [i \in Filled(file) |-> Get(file, Section(file, i)[1], Section(file, i)[2])]>>

=============================================================================

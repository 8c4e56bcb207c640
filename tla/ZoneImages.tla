----------------------------- MODULE ZoneImages -----------------------------
(***************************************************************************)
(* The container formats of the system whose header names zones: SRV, HDA  *)
(* and AX (formats/srv, hda, ax), AETB (toolsC/aetb), and the second       *)
(* family of writers of middleend/codegen/binary_format.c, with the common *)
(* header of formats/common.                                               *)
(*                                                                         *)
(* A writer is a plan: whether it accepts its arguments, the header it     *)
(* makes, and the writes it issues, in order.  A write says what it writes *)
(* and the count its result is compared with, if it is compared at all;    *)
(* one of no bytes is not made.                                            *)
(* Zone contents are tags.  The time and version stamps after the checksum *)
(* are left out.                                                           *)
(***************************************************************************)
EXTENDS BinaryFile

HEADER_SIZE == 256

Zone(offset, size) == [offset |-> offset, size |-> size]
NoZone == Zone(0, 0)

(* A write to the end of the file whose result is compared with the count *)
(* asked for, one whose result is ignored, and one to a given place.       *)
END_OF_FILE == -1
Write(piece) ==
    [piece |-> piece, at |-> END_OF_FILE, compared |-> TRUE, count |-> piece.size, reaches |-> TRUE]
Checked(what, size) == Write(Piece(what, size))
Unchecked(what, size) == [Checked(what, size) EXCEPT !.compared = FALSE]
CheckedAt(at, what, size) == [Checked(what, size) EXCEPT !.at = at]

(* closeChecked: the result of closing decides the outcome.  opens: the    *)
(* system call that opens exists on this host.  errnoIsHandle: a failed    *)
(* open is taken for a file handle, which is that of stderr for ENOENT.    *)
Plan(accepts, header, writes, closeChecked) ==
    [accepts |-> accepts, header |-> header, writes |-> writes, closeChecked |-> closeChecked,
     opens |-> TRUE, errnoIsHandle |-> FALSE]

-----------------------------------------------------------------------------
(* Checksums.  Three algorithms are in use: the bitwise one that starts    *)
(* from zero, the standard one, and a table walk over a damaged table.  A  *)
(* checksum is the algorithm and the fields it covered.                    *)

Body(header) == [f \in DOMAIN header \ {"crc"} |-> header[f]]
Sealed(header, algorithm) ==
    [header EXCEPT !.crc = [algorithm |-> algorithm, over |-> Body(header)]]
SealedBy(header, algorithm) ==
    header.crc.algorithm = algorithm /\ header.crc.over = Body(header)

\* aethel_header_init, then the fields of the format.
NoZones == [n \in {} |-> NoZone]
HeaderInit(magic, specific) ==
    [magic |-> magic, version |-> 1, genesis |-> 0, specific |-> specific, id |-> "none",
     zones |-> NoZones, crc |-> "none"]

AcceptedMagics == {"AKI!", "HDA!", "SRV!", "AETB", "IYA!", "AEX!", "ROM!"}

\* aethel_header_validate: another version is only warned about.
HeaderValid(header) == header.magic \in AcceptedMagics /\ SealedBy(header, "from zero")

\* validate_aki_header and its like: one magic, this version, the standard checksum.
StrictlyValid(header, magic) ==
    header.magic = magic /\ header.version = 1 /\ SealedBy(header, "standard")

(* aethel_extract_machine_code_from_aetb: all that follows the header, the *)
(* zones behind the code included; anything that is not AETB is handed on. *)
ExtractedCode(image, magic) ==
    IF image.size < HEADER_SIZE + 1 THEN NoZone
    ELSE IF magic # "AETB" THEN Zone(0, image.size)
    ELSE Zone(HEADER_SIZE, image.size - HEADER_SIZE)

-----------------------------------------------------------------------------
(* SRV, HDA and AX: header, code, state, constants, back to back. *)

ContiguousZones_Overlapping(z) ==
    [act    |-> Zone(HEADER_SIZE, z.code),
     mirror |-> IF z.mirror > 0 THEN Zone(HEADER_SIZE + z.code, z.mirror) ELSE NoZone,
     truth  |-> IF z.truth > 0 THEN Zone(HEADER_SIZE + z.code, z.truth) ELSE NoZone]
ContiguousZones(z) ==
    [act    |-> Zone(HEADER_SIZE, z.code),
     mirror |-> IF z.mirror > 0 THEN Zone(HEADER_SIZE + z.code, z.mirror) ELSE NoZone,
     truth  |-> IF z.truth > 0 THEN Zone(HEADER_SIZE + z.code + z.mirror, z.truth) ELSE NoZone]

ZoneWrites(z) ==
    <<Checked("header", HEADER_SIZE), Checked("code", z.code),
      Checked("mirror", z.mirror), Checked("truth", z.truth)>>

ContiguousPlan(z, init, id) ==
    Plan(z.code > 0,
         Sealed([init EXCEPT !.id = id, !.zones = ContiguousZones(z)], "from zero"),
         ZoneWrites(z), FALSE)

SrvHeader == HeaderInit("SRV!", [service |-> 0, type |-> 0, sip |-> 0, level |-> 0, mode |-> 2])
HdaHeader == HeaderInit("HDA!", [device |-> 0, fingerprint |-> 0, sip |-> 0, modes |-> 3])
AxHeader  == HeaderInit("AEX!", [order |-> 32, key |-> 16, value |-> 64, entries |-> 0])

SrvPlan(z) == ContiguousPlan(z, SrvHeader, "Aethel/Srv/system/service")
HdaPlan(z) == ContiguousPlan(z, HdaHeader, "Aethel/Driver/hardware/generic")
AxPlan(z)  == ContiguousPlan(z, AxHeader, "Aethel/Index/bplus")

-----------------------------------------------------------------------------
(* AETB: what the code generator hands to the rest of the compiler. *)

SYMBOL_SIZE == 32          \* sizeof(AETBSymbol)
TABLE_SYMBOL_SIZE == 24    \* sizeof(aki_symbol_t), srv and hda alike
IYA_HEADER_SIZE == 232
RELOC_SIZE == 16
INITIAL_CAPACITY == 1024

(* ENSURE_CAPACITY: the capacity is doubled until the request fits, and    *)
(* the block is resized to that many bytes, also when it holds entries of  *)
(* more than a byte, whose count the capacity is.                          *)
Capacity(count) ==
    IF count <= INITIAL_CAPACITY THEN INITIAL_CAPACITY
    ELSE INITIAL_CAPACITY * CHOOSE k \in {2 ^ e : e \in 1 .. 10} :
            INITIAL_CAPACITY * k >= count /\ INITIAL_CAPACITY * k < 2 * count
AllocatedBytes(count, entrySize) ==
    IF count <= INITIAL_CAPACITY THEN INITIAL_CAPACITY * entrySize ELSE Capacity(count)
FitsItsBlock(count, entrySize) == count * entrySize <= AllocatedBytes(count, entrySize)

(* aetb_gen_finalize: every zone has an offset, the empty ones too; no     *)
(* write is looked at.                                                     *)
AetbSections(z) ==
    <<[name |-> "act", size |-> z.code],   [name |-> "mirror", size |-> z.mirror],
      [name |-> "truth", size |-> z.truth], [name |-> "reloc", size |-> z.relocs * RELOC_SIZE],
      [name |-> "symtab", size |-> z.symbols * SYMBOL_SIZE], [name |-> "strtab", size |-> z.strtab]>>

SizeBefore(sections, i) == SizeOfFirst(sections, i - 1)

TagOf(name) == IF name = "act" THEN "code" ELSE name

AetbZones(sections) ==
    [n \in {sections[i].name : i \in DOMAIN sections} |->
        LET i == CHOOSE j \in DOMAIN sections : sections[j].name = n
        IN  Zone(HEADER_SIZE + SizeBefore(sections, i), sections[i].size)]

AetbPlan(z) ==
    LET sections == AetbSections(z)
    IN  Plan(TRUE,
             Sealed([HeaderInit("AETB", [debug |-> TRUE, mode |-> 0]) EXCEPT
                        !.genesis = z.entry, !.id = "random", !.zones = AetbZones(sections)],
                    "damaged table"),
             <<Unchecked("header", HEADER_SIZE)>>
                \o [i \in DOMAIN sections |-> Unchecked(TagOf(sections[i].name), sections[i].size)],
             FALSE)

-----------------------------------------------------------------------------
(* generate_aki_binary, generate_srv_binary and generate_hda_binary: the   *)
(* sections in the order of the format, an empty one without an offset.    *)
(* A section is laid out by its size but written only if its pointer is    *)
(* there; the result of no write is looked at.                             *)

Section(name, size, there) == [name |-> name, size |-> size, there |-> there]

SectionZones(sections, base) ==
    [n \in {sections[i].name : i \in DOMAIN sections} |->
        LET i == CHOOSE j \in DOMAIN sections : sections[j].name = n
        IN  IF sections[i].size = 0 THEN NoZone
            ELSE Zone(base + SizeBefore(sections, i), sections[i].size)]

SectionedPlan(header, magic, sections) ==
    LET written(s) == IF s.there THEN s.size ELSE 0
    IN  Plan(StrictlyValid(header, magic),
             Sealed([header EXCEPT !.zones = SectionZones(sections, HEADER_SIZE)], "standard"),
             <<Unchecked("header", HEADER_SIZE)>>
                \o [i \in DOMAIN sections |-> Unchecked(TagOf(sections[i].name), written(sections[i]))],
             FALSE)

UserSections(z) ==
    <<Section("act", z.code, TRUE), Section("mirror", z.mirror, TRUE), Section("truth", z.truth, TRUE)>>
TableSections(z) ==
    <<Section("symtab", z.symbols * TABLE_SYMBOL_SIZE, TRUE), Section("strtab", z.strtab, TRUE),
      Section("reloc", z.relocs * RELOC_SIZE, TRUE)>>

\* The engine and the schema are passed as no bytes at no address.
AkiSections(z) == UserSections(z) \o <<Section("aethela", 0, FALSE)>> \o TableSections(z)
SrvSections(z) == UserSections(z) \o <<Section("schema", 0, FALSE)>> \o TableSections(z)
HdaSections(z) == UserSections(z) \o TableSections(z)

(* generate_*_direct make a header without zones, seal it so that it will  *)
(* be accepted, and drop the entry point.                                  *)
DirectHeader(magic, specific) == Sealed(HeaderInit(magic, specific), "standard")

AkiDirect(z) == SectionedPlan(DirectHeader("AKI!", [machine |-> 62, flags |-> 0]), "AKI!", AkiSections(z))
SrvDirect(z) == SectionedPlan(DirectHeader("SRV!", [type |-> 0, flags |-> 0]), "SRV!", SrvSections(z))
HdaDirect(z) == SectionedPlan(DirectHeader("HDA!", [device |-> 0, flags |-> 0]), "HDA!", HdaSections(z))

-----------------------------------------------------------------------------
(* IYA packages: a manifest and an application. *)

IyaZones(manifest, application) ==
    [manifest  |-> Zone(IYA_HEADER_SIZE, manifest),
     aetb      |-> Zone(IYA_HEADER_SIZE + manifest, application),
     resources |-> Zone(IYA_HEADER_SIZE + manifest + application, 0)]

\* create_iya_package, both files read.
IyaPlan(manifest, application) ==
    Plan(TRUE,
         Sealed([HeaderInit("IYA!", [flags |-> 0]) EXCEPT !.zones = IyaZones(manifest, application)],
                "standard"),
         <<Checked("header", IYA_HEADER_SIZE), Checked("manifest", manifest),
           Checked("aetb", application)>>, FALSE)

(* extract_iya_package: the header is validated, then each zone is read    *)
(* where the header says and must be all there.  What it makes of the two  *)
(* is written without a look at the results.                               *)
IyaExtracts(file, header) ==
    /\ Holds(file, 0, IYA_HEADER_SIZE, "header")
    /\ StrictlyValid(header, "IYA!")
    /\ \A n \in {"manifest", "aetb"} : Inside(file, header.zones[n].offset, header.zones[n].size)
IyaExtracted(file, header, n) == Content(file, header.zones[n].offset, header.zones[n].size)

(* validate_iya_signature: the checksum of as many bytes after the header  *)
(* as the three zones have, against the first four of the key file.        *)
IyaSignatureHolds(file, header, key) ==
    LET total == header.zones.manifest.size + header.zones.aetb.size + header.zones.resources.size
    IN  /\ Holds(file, 0, IYA_HEADER_SIZE, "header")
        /\ StrictlyValid(header, "IYA!")
        /\ Inside(file, IYA_HEADER_SIZE, total)
        /\ key = [i \in DOMAIN file.parts |-> file.parts[i].what]
=============================================================================

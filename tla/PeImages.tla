------------------------------ MODULE PeImages ------------------------------
(***************************************************************************)
(* The PE32+ writers: an UEFI application that carries a whole AETB file   *)
(* (efi/pe_gen.c), one with a section for each zone (efi/pe_industrial.c), *)
(* and a Windows driver with imports (wsys/wsys_gen.c).                    *)
(*                                                                         *)
(* Each fills one buffer and writes it once.  Only what the loader reads   *)
(* of the headers is kept: the sections, the entry point and the image     *)
(* size; time stamps and checksums, which UEFI and the drivers' loader do  *)
(* not compare, are left out.                                              *)
(***************************************************************************)
EXTENDS ZoneImages

FILE_ALIGNMENT == 512
SECTION_ALIGNMENT == 4096
SECTION_HEADERS_AT == 64 + 4 + 20 + 240

InFile(size) == AlignUp(size, FILE_ALIGNMENT)
InMemory(size) == AlignUp(size, SECTION_ALIGNMENT)
HeadersSize(sections) == InFile(SECTION_HEADERS_AT + 40 * sections)

\* A section to be laid out: its data and the size the header gives it.
Raw(name, piece) == [name |-> name, piece |-> piece, vsize |-> piece.size]
IfAny(raw) == IF raw.piece.size = 0 THEN <<>> ELSE <<raw>>

\* What the first n sections take, in the file and in memory.
FileBytes(raws, n) == SumFunctionOnSet([i \in DOMAIN raws |-> InFile(raws[i].piece.size)], 1 .. n)
MemoryBytes(raws, n) == SumFunctionOnSet([i \in DOMAIN raws |-> InMemory(raws[i].piece.size)], 1 .. n)

(* One section after the other, in the file and in memory.  The driver     *)
(* writer works the places in the file out twice, with the same result.    *)
Placed(raws) ==
    [i \in DOMAIN raws |->
        [name |-> raws[i].name, vsize |-> raws[i].vsize,
         rva |-> SECTION_ALIGNMENT + MemoryBytes(raws, i - 1),
         raw |-> HeadersSize(Len(raws)) + FileBytes(raws, i - 1)]]

PeBuffer(raws, placed) ==
    LET blank == Blank(HeadersSize(Len(raws)) + FileBytes(raws, Len(raws)), "zeros")
        headers == Overlay(blank, 0, Piece("header", SECTION_HEADERS_AT + 40 * Len(raws)))
    IN  Overlaid(headers, [i \in DOMAIN raws |-> Copy(placed[i].raw, raws[i].piece)])

PePlan(accepts, raws, entry, directories, checked) ==
    LET placed == Placed(raws)
    IN  Plan(accepts,
             [sections |-> placed, entry |-> entry, directories |-> directories,
              imageSize |-> SECTION_ALIGNMENT + MemoryBytes(raws, Len(raws))],
             <<[Write(PeBuffer(raws, placed)) EXCEPT !.compared = checked]>>, checked)

Placement(header, name) ==
    LET i == CHOOSE j \in DOMAIN header.sections : header.sections[j].name = name
    IN  header.sections[i]

-----------------------------------------------------------------------------
(* The loader: an address belongs to the section it falls in. *)

FileOffsetOf(header, rva) ==
    LET in == {i \in DOMAIN header.sections :
                 /\ header.sections[i].rva <= rva
                 /\ rva < header.sections[i].rva + header.sections[i].vsize}
        s == header.sections[CHOOSE i \in in : TRUE]
    IN  IF Cardinality(in) = 1 THEN s.raw + rva - s.rva ELSE -1

LoadedAt(file, header, rva, size, what) ==
    size = 0 \/ (FileOffsetOf(header, rva) >= 0 /\ Holds(file, FileOffsetOf(header, rva), size, what))

-----------------------------------------------------------------------------
(* pe32plus_generate_efi.  The entry point of the AETB file may count from *)
(* the file or from the code, so both are scored by how much they look     *)
(* like the beginning of a function.                                       *)

FRAME == 7    \* push rbp; mov rbp, rsp

AetbSize(z) == HEADER_SIZE + SizeBefore(AetbSections(z), Len(AetbSections(z)) + 1)
Aetb(z) ==
    Concatenated(<<Piece("aetb header", HEADER_SIZE)>>
                 \o [i \in DOMAIN AetbSections(z) |->
                       Piece(TagOf(AetbSections(z)[i].name), AetbSections(z)[i].size)])

(* pe_x86_entry_score: starts gives the score of the places in the code    *)
(* that look like a beginning at all.                                      *)
EntryScore(z, starts, at) ==
    IF at >= AetbSize(z) THEN -1
    ELSE IF at - HEADER_SIZE \in DOMAIN starts THEN starts[at - HEADER_SIZE]
    ELSE 0

EfiEntry_Direct(z, starts, entry) ==
    SECTION_ALIGNMENT + IF entry < AetbSize(z) /\ entry >= HEADER_SIZE THEN entry ELSE HEADER_SIZE
EfiEntry(z, starts, entry) ==
    LET fromCode == HEADER_SIZE + entry
        direct == EntryScore(z, starts, entry)
        relative == EntryScore(z, starts, fromCode)
        likelier == /\ fromCode < AetbSize(z)
                    /\ relative > direct \/ (direct < 3 /\ relative >= 3)
        chosen == IF likelier THEN fromCode ELSE entry
        usable == entry < AetbSize(z) /\ chosen >= HEADER_SIZE
    IN  SECTION_ALIGNMENT + IF usable THEN chosen ELSE HEADER_SIZE

(* The sections claim whole pages; ten bytes of relocations say that there *)
(* is nothing to relocate.                                                 *)
EfiPlan(z, starts, entry) ==
    LET raws == <<Raw(".text", Aetb(z)), Raw(".reloc", Piece("reloc", 10))>>
        pages == [i \in DOMAIN raws |-> [raws[i] EXCEPT !.vsize = InMemory(@)]]
        reloc == Placed(raws)[2].rva
    IN  PePlan(TRUE, pages, EfiEntry(z, starts, entry), [reloc |-> Zone(reloc, 10)], TRUE)

\* The condition under which the two candidates cannot be confused.
EntryIsPlain(z, starts, entry) ==
    \/ entry = 0
    \/ EntryScore(z, starts, HEADER_SIZE + entry) >= 3 /\ EntryScore(z, starts, entry) < 3

-----------------------------------------------------------------------------
(* pe_industrial_generate_efi: a section for each zone that is not empty.  *)
(* An entry point behind the code is only warned about.                    *)

ZoneSections(z, text) ==
    <<Raw(".text", text)>> \o IfAny(Raw(".data", Piece("mirror", z.mirror)))
                           \o IfAny(Raw(".rodata", Piece("truth", z.truth)))

(* wsys_build_reloc_section of no addresses, as the industrial writer has  *)
(* it: the page of the code and nothing to relocate there.                 *)
NoRelocations == Piece("reloc", 12)

IndustrialPlan(z, entry) ==
    LET raws == ZoneSections(z, Piece("code", z.code)) \o <<Raw(".reloc", NoRelocations)>>
    IN  PePlan(z.code > 0, raws, SECTION_ALIGNMENT + entry,
               [reloc |-> Zone(Placed(raws)[Len(raws)].rva, 12)], TRUE)

-----------------------------------------------------------------------------
(* wsys_generate_image.  calls lists the markers in the code, in order:    *)
(* where the four bytes of one are and which import it calls.              *)

ImportNames == [DbgPrint |-> 8, ExAllocatePoolWithTag |-> 21, IoCreateDevice |-> 14]
DLL_NAME_SIZE == 14     \* "ntoskrnl.exe" and its zero, padded to even

\* The first pass needs four bytes after the place of a marker.
UsedImports(z, calls) ==
    LET used(n) == \E k \in DOMAIN calls : calls[k].name = n /\ calls[k].at + 4 <= z.code
        ifUsed(n) == IF used(n) THEN <<n>> ELSE <<>>
    IN  ifUsed("DbgPrint") \o ifUsed("ExAllocatePoolWithTag") \o ifUsed("IoCreateDevice")

\* Hint, name and zero, padded to even.
NameEntrySize(name) == AlignUp(3 + ImportNames[name], 2)

(* The import section: one descriptor and its terminator, the lookup and   *)
(* the address table, each with a terminator, the names, the library name. *)
ThunksSize(used) == (Len(used) + 1) * 8
IatOffset(used) == 40 + ThunksSize(used)
NamesOffset(used) == IatOffset(used) + ThunksSize(used)
Slots(used) == [i \in DOMAIN used |-> Piece(<<"slot of", used[i]>>, 8)]
Names(used) == [i \in DOMAIN used |-> Piece(<<"name of", used[i]>>, NameEntrySize(used[i]))]
ImportSection(used) ==
    Concatenated(<<Piece("descriptors", 40), Piece("lookup", 8 * Len(used)), Piece("end", 8),
                   Concatenated(Slots(used)), Piece("end", 8),
                   Concatenated(Names(used)), Piece("library", DLL_NAME_SIZE)>>)

\* Where the lookup table says the name of an import is.
NameOffset(used, i) == NamesOffset(used) + SizeOfFirst(Names(used), i - 1)
SlotRva(table, used, name) ==
    table + IatOffset(used) + 8 * ((CHOOSE i \in DOMAIN used : used[i] = name) - 1)

(* The second pass asks for eight bytes, so a marker at the very end of    *)
(* the code is imported and not patched.  A call on x86 gets the distance  *)
(* from its next instruction, one on ARM64 two instructions that compute   *)
(* the page of the slot and its place in it.                               *)
Patched(z, arm, at) == at + 8 <= z.code /\ (arm => at >= 16)

Patch(z, arm, at, target) ==
    IF ~Patched(z, arm, at) THEN Copy(0, EmptyFile)
    ELSE IF arm THEN Copy(at - 16, Piece(<<"loads", target>>, 8))
    ELSE Copy(at, Piece(<<"distance", target - (SECTION_ALIGNMENT + at + 4)>>, 4))

PatchedCode(z, calls, arm, table, used) ==
    Overlaid(Piece("code", z.code),
             [k \in DOMAIN calls |->
                 Patch(z, arm, calls[k].at, SlotRva(table, used, calls[k].name))])

DriverRaws(z, arm, code, imports) ==
    ZoneSections(z, code) \o IfAny(Raw(".rdata", imports))
    \o <<Raw(".pdata", Piece("unwind", IF arm THEN 8 ELSE 16)), Raw(".reloc", NoRelocations)>>

DriverPlan(z, entry, calls, arm) ==
    LET used == UsedImports(z, calls)
        imports == IF used = <<>> THEN EmptyFile ELSE ImportSection(used)
        layout == [sections |-> Placed(DriverRaws(z, arm, Piece("code", z.code), imports))]
        table == IF used = <<>> THEN 0 ELSE Placement(layout, ".rdata").rva
        code == PatchedCode(z, calls, arm, table, used)
    IN  PePlan(z.code > 0, DriverRaws(z, arm, code, imports), SECTION_ALIGNMENT + entry,
               [imports |-> table, used |-> used,
                function |-> Zone(SECTION_ALIGNMENT + entry, z.code - entry)], FALSE)

(* A call reaches its import when what the code computes is an address     *)
(* that the loader fills: the slot of that name, in a section.             *)
CallReaches(file, header, call, arm) ==
    LET text == Placement(header, ".text").raw
        at == IF arm THEN text + call.at - 16 ELSE text + call.at
        found == Content(file, at, 4).what
        address == IF arm THEN found[2] ELSE found[2] + SECTION_ALIGNMENT + call.at + 4
    IN  /\ found[1] = (IF arm THEN "loads" ELSE "distance")
        /\ LoadedAt(file, header, address, 8, <<"slot of", call.name>>)
=============================================================================

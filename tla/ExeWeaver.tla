----------------------------- MODULE ExeWeaver -----------------------------
(***************************************************************************)
(* The Windows executable writer: the PE32+ weaver of                      *)
(* formats/exe/weaver/exe_binary_weaver_impl.c and the branch of           *)
(* aethelc_main.c that drives it.                                          *)
(*                                                                         *)
(* The machine code reaches the branch with two kinds of holes.  A call of *)
(* an operating system function is a marker, a 32-bit word that names an   *)
(* entry of the table of import specifications; the branch replaces it by  *)
(* the distance to the import address slot of the function.  A reference   *)
(* to a constant was already filled by the code generator, from its own    *)
(* idea of where the weaver will put the constants.  The slots exist only  *)
(* once the image is laid out, so the branch finalizes a first image,      *)
(* throws it away, patches the code, and finalizes a second one that it    *)
(* writes: every address taken from the first must hold in the second.     *)
(*                                                                         *)
(* The contents of a section are its 32-bit words and its names, each a    *)
(* function on the offsets that hold something; other bytes are zero.      *)
(***************************************************************************)
EXTENDS Integers, Sequences, FiniteSets, Functions

CONSTANTS
    Specs,          \* g_exe_import_patch_specs: a sequence of [dll, function]
    StrLen,         \* length of each dll and function name
    Programs,       \* what the code generator may hand over (see ProgramOK)
    MaxImports,     \* EXE_WIN64_MAX_IMPORTS_PER_LIBRARY
    MaxLibraries,   \* EXE_WIN64_MAX_IMPORT_LIBRARIES
    MaxSections,    \* EXE_WIN64_MAX_SECTIONS
    MaxUnwind       \* EXE_WIN64_MAX_UNWIND_RECORDS

VARIABLES
    pc,         \* where the branch of the driver is
    program,    \* code size, mirror size, constant size, sites, references
    next,       \* the import specification the driver looks at
    ctx,        \* EXE_Binary_Weaver_Context
    file        \* the output file: none, part of an image, or all of it

vars == <<pc, program, next, ctx, file>>

SECTION_ALIGNMENT == 4096
FILE_ALIGNMENT == 512
HEADERS_SIZE == 64 + 4 + 20 + 240
SECTION_HEADER_SIZE == 40
DESCRIPTOR_SIZE == 20
THUNK_SIZE == 8
RECORD_SIZE == 12
UNWIND_INFO_SIZE == 4
RELOC_SIZE == 12

\* The smallest marker, 0x11F1E1A1; the others are numbered on from it.
MARKER_BASE == 301064609
Marker(s) == MARKER_BASE + s

(* A program: its sizes, its entry (the genesis point of the code), the    *)
(* import specification marked at each call site and the constant offset   *)
(* referred to at each reference.  Holes are four bytes, lie inside the    *)
(* code and do not overlap.  A program is smaller than the smallest marker *)
(* (some 300 megabytes), or the distance to a constant could read as one.  *)
ProgramOK(p) ==
    LET holes == DOMAIN p.sites \cup DOMAIN p.refs IN
    /\ p.codeSize \in Nat /\ p.codeSize >= 4 /\ p.mirrorSize \in Nat /\ p.truthSize \in Nat
    /\ p.codeSize + p.mirrorSize + p.truthSize + 2 * SECTION_ALIGNMENT < MARKER_BASE
    /\ p.entry \in 0 .. p.codeSize - 1
    /\ DOMAIN p.sites \cap DOMAIN p.refs = {}
    /\ \A h \in holes : h \in Nat /\ h + 4 <= p.codeSize
    /\ \A h, k \in holes : h < k => h + 4 <= k
    /\ \A h \in DOMAIN p.sites : p.sites[h] \in DOMAIN Specs
    /\ \A h \in DOMAIN p.refs : p.refs[h] \in 0 .. p.truthSize - 1

ASSUME SpecsAssumption ==
    /\ Specs \in Seq([dll : DOMAIN StrLen, function : DOMAIN StrLen])
    /\ StrLen \in [DOMAIN StrLen -> Nat]
    /\ \A s, t \in DOMAIN Specs : Specs[s] = Specs[t] => s = t
ASSUME ProgramsAssumption == \A p \in Programs : ProgramOK(p)
ASSUME LimitsAssumption ==
    /\ MaxImports \in Nat \ {0} /\ MaxLibraries \in Nat \ {0}
    /\ MaxSections \in Nat \ {0} /\ MaxUnwind \in Nat \ {0}

EXE_AlignUp(value, alignment) == ((value + alignment - 1) \div alignment) * alignment

(* The sum of the first n of some sizes. *)
SumOver(sizes, n) == SumFunctionOnSet(sizes, 1 .. n)

Empty == [o \in {} |-> 0]
Word(section, o) == IF o \in DOMAIN section.words THEN section.words[o] ELSE 0

(***************************************************************************)
(* The code generator's fixup of a constant reference: .text is at offset  *)
(* zero, .data (if any) on the next page, .rdata on the page after it.     *)
(***************************************************************************)
TruthTarget_Packed(p, offset) ==
    EXE_AlignUp(p.codeSize, SECTION_ALIGNMENT) + p.mirrorSize + offset
TruthTarget(p, offset) ==
    EXE_AlignUp(p.codeSize, SECTION_ALIGNMENT)
        + EXE_AlignUp(p.mirrorSize, SECTION_ALIGNMENT) + offset

CodeWords(p) ==
    [h \in DOMAIN p.sites \cup DOMAIN p.refs |->
        IF h \in DOMAIN p.sites THEN Marker(p.sites[h])
                                ELSE TruthTarget(p, p.refs[h]) - (h + 4)]

-----------------------------------------------------------------------------
(* Sections. *)

FindSection(c, name) ==
    LET found == {i \in DOMAIN c.sections : c.sections[i].name = name}
    IN  IF found = {} THEN 0 ELSE CHOOSE i \in found : \A j \in found : i <= j

Section(name, size, words, names, isCode) ==
    [name |-> name, size |-> size, words |-> words, names |-> names,
     isCode |-> isCode, va |-> 0, ptr |-> 0]

HasRoom(c) == Len(c.sections) < MaxSections

AddSection(c, section) == [c EXCEPT !.sections = Append(@, section)]

(* Replaces the payload of a section of that name, or appends one. *)
SyntheticSection(c, section) ==
    LET i == FindSection(c, section.name)
    IN  IF i = 0 THEN AddSection(c, section)
        ELSE [c EXCEPT !.sections[i] =
                 [section EXCEPT !.va = c.sections[i].va, !.ptr = c.sections[i].ptr]]

-----------------------------------------------------------------------------
(* Imports. *)

LibraryOf(c, dll) ==
    LET found == {i \in DOMAIN c.imports : c.imports[i].dll = dll}
    IN  IF found = {} THEN 0 ELSE CHOOSE i \in found : TRUE

FunctionOf(library, name) ==
    LET found == {j \in DOMAIN library.functions : library.functions[j].name = name}
    IN  IF found = {} THEN 0 ELSE CHOOSE j \in found : TRUE

NewFunction(name) == [name |-> name, iat |-> 0, hint |-> 0]

(* A library already known, or a new one; then a function already known,   *)
(* or a new one.  Either table may be full.                                *)
LibraryFits(c, dll) == LibraryOf(c, dll) # 0 \/ Len(c.imports) < MaxLibraries
FunctionFits_OneMore(library, name) ==
    FunctionOf(library, name) # 0 \/ Len(library.functions) <= MaxImports
FunctionFits(library, name) ==
    FunctionOf(library, name) # 0 \/ Len(library.functions) < MaxImports

WithLibrary(c, dll) ==
    IF LibraryOf(c, dll) # 0 THEN c
    ELSE [c EXCEPT !.imports = Append(@, [dll |-> dll, functions |-> <<>>])]

ImportFits(c, dll, name) ==
    /\ LibraryFits(c, dll)
    /\ LET d == WithLibrary(c, dll)
       IN  FunctionFits(d.imports[LibraryOf(d, dll)], name)

AddImport(c, dll, name) ==
    LET d == WithLibrary(c, dll)
        i == LibraryOf(d, dll)
    IN  IF FunctionOf(d.imports[i], name) # 0 THEN d
        ELSE [d EXCEPT !.imports[i].functions = Append(@, NewFunction(name))]

(* The import data: the descriptors, then for each library its lookup      *)
(* table, its address table (both closed by a zero entry), its hint and    *)
(* name entries and its own name.  Nothing else is put in the closing      *)
(* descriptor, and (libraries + 1) * 8 bytes of slack end the section.     *)
ThunksSize_NoEnd(library) == Len(library.functions) * THUNK_SIZE
ThunksSize(library) == (Len(library.functions) + 1) * THUNK_SIZE
ThunkSizes(c) == [i \in DOMAIN c.imports |-> ThunksSize(c.imports[i])]
HintSize(fn) == 2 + StrLen[fn.name] + 1
HintSizes(library) == [j \in DOMAIN library.functions |-> HintSize(library.functions[j])]
LibrarySize(library) ==
    2 * ThunksSize(library) + SumOver(HintSizes(library), Len(library.functions))
        + StrLen[library.dll] + 1
LibrarySizes(c) == [i \in DOMAIN c.imports |-> LibrarySize(c.imports[i])]

IltOffset(c, i) ==
    (Len(c.imports) + 1) * DESCRIPTOR_SIZE + SumOver(LibrarySizes(c), i - 1)
IatOffset(c, i) == IltOffset(c, i) + ThunksSize(c.imports[i])
HintOffset(c, i, j) ==
    IatOffset(c, i) + ThunksSize(c.imports[i])
        + SumOver(HintSizes(c.imports[i]), j - 1)
NameOffset(c, i) == HintOffset(c, i, Len(c.imports[i].functions) + 1)

ImportSize(c) ==
    (Len(c.imports) + 1) * (DESCRIPTOR_SIZE + THUNK_SIZE)
        + SumOver(LibrarySizes(c), Len(c.imports))

(* The three words of a descriptor and the two tables of every library,    *)
(* all relative to base: zero when the data is built, the address of       *)
(* .idata once it is patched.                                              *)
ImportWords(c, base) ==
    LET pairs == UNION {
            LET fns == DOMAIN c.imports[i].functions IN
            { <<(i - 1) * DESCRIPTOR_SIZE, base + IltOffset(c, i)>>,
              <<(i - 1) * DESCRIPTOR_SIZE + 12, base + NameOffset(c, i)>>,
              <<(i - 1) * DESCRIPTOR_SIZE + 16, base + IatOffset(c, i)>> }
            \cup { <<IltOffset(c, i) + (j - 1) * THUNK_SIZE, base + HintOffset(c, i, j)>> : j \in fns }
            \cup { <<IatOffset(c, i) + (j - 1) * THUNK_SIZE, base + HintOffset(c, i, j)>> : j \in fns }
          : i \in DOMAIN c.imports}
    IN  [o \in {p[1] : p \in pairs} |-> (CHOOSE p \in pairs : p[1] = o)[2]]

ImportNames(c) ==
    LET pairs == UNION {
            {<<NameOffset(c, i), c.imports[i].dll>>}
            \cup {<<HintOffset(c, i, j), c.imports[i].functions[j].name>> :
                    j \in DOMAIN c.imports[i].functions}
          : i \in DOMAIN c.imports}
    IN  [o \in {p[1] : p \in pairs} |-> (CHOOSE p \in pairs : p[1] = o)[2]]

BuildImports(c) ==
    IF c.imports = <<>> THEN c
    ELSE LET numbered == [c EXCEPT !.imports =
                 [i \in DOMAIN c.imports |-> [c.imports[i] EXCEPT !.functions =
                     [j \in DOMAIN c.imports[i].functions |->
                         [name |-> c.imports[i].functions[j].name,
                          iat  |-> IatOffset(c, i) + (j - 1) * THUNK_SIZE,
                          hint |-> HintOffset(c, i, j)]]]]]
         IN  SyntheticSection(numbered,
                 Section(".idata", ImportSize(c), ImportWords(c, 0), ImportNames(c), FALSE))

-----------------------------------------------------------------------------
(* Exception records.  A program without one gets a single record for the  *)
(* whole code, at the address the first section will have.                 *)
AddExceptionInfo(c, rva, size) ==
    [c EXCEPT !.unwind = Append(@, [start |-> rva, end |-> rva + size, info |-> 0])]

DefaultRecord_EachTime(c) ==
    AddExceptionInfo(c, SECTION_ALIGNMENT, c.sections[FindSection(c, ".text")].size)
DefaultRecord(c) ==
    IF c.unwind # <<>> THEN c
    ELSE AddExceptionInfo(c, SECTION_ALIGNMENT, c.sections[FindSection(c, ".text")].size)

ExceptionWords(records, base) ==
    [o \in {(i - 1) * RECORD_SIZE + f : i \in DOMAIN records, f \in {0, 4, 8}} |->
        LET r == records[o \div RECORD_SIZE + 1]
        IN  CASE o % RECORD_SIZE = 0 -> r.start
              [] o % RECORD_SIZE = 4 -> r.end
              [] OTHER -> base + r.info]

BuildExceptions(c) ==
    LET d == DefaultRecord(c)
        n == Len(d.unwind)
        records == [i \in 1 .. n |->
            [d.unwind[i] EXCEPT !.info = n * RECORD_SIZE + (i - 1) * UNWIND_INFO_SIZE]]
    IN  SyntheticSection([d EXCEPT !.unwind = records],
            Section(".pdata", n * (RECORD_SIZE + UNWIND_INFO_SIZE),
                    ExceptionWords(records, 0), Empty, FALSE))

BuildRelocations(c) ==
    SyntheticSection(c,
        Section(".reloc", RELOC_SIZE,
                [o \in {0, 4} |-> IF o = 0 THEN SECTION_ALIGNMENT ELSE RELOC_SIZE], Empty, FALSE))

-----------------------------------------------------------------------------
(* Layout: the sections in order, each on pages and file sectors of its own *)
HeaderSize(c) ==
    EXE_AlignUp(HEADERS_SIZE + Len(c.sections) * SECTION_HEADER_SIZE, FILE_ALIGNMENT)

PagesOf(section) == EXE_AlignUp(section.size, SECTION_ALIGNMENT)
SectorsOf_Packed(section) == section.size
SectorsOf(section) == EXE_AlignUp(section.size, FILE_ALIGNMENT)
PageSizes(c) == [i \in DOMAIN c.sections |-> PagesOf(c.sections[i])]
SectorSizes(c) == [i \in DOMAIN c.sections |-> SectorsOf(c.sections[i])]

AssignLayout(c) ==
    [c EXCEPT
        !.headerSize = HeaderSize(c),
        !.imageSize = SECTION_ALIGNMENT + SumOver(PageSizes(c), Len(c.sections)),
        !.sections = [i \in DOMAIN c.sections |-> [c.sections[i] EXCEPT
            !.va = SECTION_ALIGNMENT + SumOver(PageSizes(c), i - 1),
            !.ptr = HeaderSize(c) + SumOver(SectorSizes(c), i - 1)]]]

VaOf(c, name) == c.sections[FindSection(c, name)].va

(* The data directories, and the address of each function's slot: the      *)
(* offset in the import data plus the address of that section.             *)
PatchDirectories(c) ==
    LET idata == VaOf(c, ".idata")
        d == [c EXCEPT
            !.dir = [exception |-> VaOf(c, ".pdata"),
                     exceptionSize |-> Len(c.unwind) * RECORD_SIZE,
                     relocation |-> VaOf(c, ".reloc"),
                     import |-> IF c.imports = <<>> THEN 0 ELSE idata,
                     importSize |-> IF c.imports = <<>> THEN 0
                                    ELSE (Len(c.imports) + 1) * DESCRIPTOR_SIZE,
                     iat |-> IF c.imports = <<>> THEN 0 ELSE idata + IatOffset(c, 1),
                     iatSize |-> SumOver(ThunkSizes(c), Len(c.imports))]]
    IN  IF c.imports = <<>> THEN d
        ELSE [d EXCEPT !.imports = [i \in DOMAIN c.imports |->
                 [c.imports[i] EXCEPT !.functions = [j \in DOMAIN c.imports[i].functions |->
                     [c.imports[i].functions[j] EXCEPT !.iat = @ + idata]]]]]

WithWords(c, i, words) == [c EXCEPT !.sections[i].words = words]

PatchIdata(c) ==
    LET i == FindSection(c, ".idata")
    IN  IF i = 0 THEN c
        ELSE WithWords(c, i, ImportWords(c, c.sections[i].va))

(* Records that start on the first page are taken to be .text's. *)
OverText(record, text) ==
    IF record.start # SECTION_ALIGNMENT THEN record
    ELSE [record EXCEPT !.start = text.va, !.end = text.va + text.size]

PatchPdata(c) ==
    LET text == c.sections[FindSection(c, ".text")]
        records == [k \in DOMAIN c.unwind |-> OverText(c.unwind[k], text)]
    IN  WithWords([c EXCEPT !.unwind = records], FindSection(c, ".pdata"),
                  ExceptionWords(records, VaOf(c, ".pdata")))

(* Whether the sections the three blobs add still have room, and the       *)
(* default record a place and a .text to describe.                         *)
SectionsFit(c) ==
    LET added == {".pdata", ".reloc"} \cup (IF c.imports = <<>> THEN {} ELSE {".idata"})
    IN  /\ Len(c.sections) + Cardinality({n \in added : FindSection(c, n) = 0}) <= MaxSections
        /\ c.unwind # <<>> \/ (FindSection(c, ".text") # 0 /\ Len(c.unwind) < MaxUnwind)

(* EXE_Weaver_Finalize: the blobs, the layout, and the patches that need   *)
(* the addresses it gives.                                                 *)
Finalize(c) ==
    LET built == BuildRelocations(BuildExceptions(BuildImports(c)))
    IN  PatchPdata(PatchIdata(PatchDirectories(AssignLayout(built))))

(* What fwrite is given: headers, directories and the sections' payloads.  *)
Image(c) ==
    [sections |-> c.sections, dir |-> c.dir, headerSize |-> c.headerSize,
     imageSize |-> c.imageSize, entry |-> c.entry + SECTION_ALIGNMENT]

-----------------------------------------------------------------------------
(* The branch of the driver.  The context is a local of the branch: it is   *)
(* gone, as Fresh shows it, once the branch returns.                       *)

NoDirectories ==
    [exception |-> 0, exceptionSize |-> 0, relocation |-> 0,
     import |-> 0, importSize |-> 0, iat |-> 0, iatSize |-> 0]

Fresh == [sections |-> <<>>, imports |-> <<>>, unwind |-> <<>>, dir |-> NoDirectories,
          headerSize |-> 0, imageSize |-> 0, entry |-> 0]

NoImage == Image(Fresh)

Init ==
    /\ pc = "imports"
    /\ program \in Programs
    /\ next = 1
    /\ ctx = Fresh
    /\ file = [state |-> "none", image |-> NoImage]

Marked(s) == \E h \in DOMAIN program.sites : program.sites[h] = s

(* One turn of the loop over the import specifications. *)
RegisterImport ==
    /\ pc = "imports"
    /\ next \in DOMAIN Specs
    /\ IF ~Marked(next)
       THEN /\ next' = next + 1
            /\ UNCHANGED <<pc, ctx>>
       ELSE IF ImportFits(ctx, Specs[next].dll, Specs[next].function)
       THEN /\ ctx' = AddImport(ctx, Specs[next].dll, Specs[next].function)
            /\ next' = next + 1
            /\ UNCHANGED pc
       ELSE /\ ctx' = Fresh
            /\ pc' = "failed"
            /\ UNCHANGED next
    /\ UNCHANGED <<program, file>>

AddText ==
    /\ pc = "imports"
    /\ next \notin DOMAIN Specs
    /\ HasRoom(ctx)
    /\ ctx' = AddSection(ctx, Section(".text", program.codeSize, CodeWords(program), Empty, TRUE))
    /\ pc' = "data"
    /\ UNCHANGED <<program, next, file>>

(* .data and .rdata are left out when the program has none. *)
AddData ==
    /\ pc = "data"
    /\ IF program.mirrorSize = 0 THEN UNCHANGED ctx
       ELSE /\ HasRoom(ctx)
            /\ ctx' = AddSection(ctx, Section(".data", program.mirrorSize, Empty, Empty, FALSE))
    /\ pc' = "rdata"
    /\ UNCHANGED <<program, next, file>>

AddRdata ==
    /\ pc = "rdata"
    /\ LET c == IF program.truthSize = 0 THEN ctx
                ELSE AddSection(ctx, Section(".rdata", program.truthSize, Empty, Empty, FALSE))
       IN  /\ program.truthSize # 0 => HasRoom(ctx)
           /\ ctx' = [c EXCEPT !.entry = program.entry]
    /\ pc' = "probe"
    /\ UNCHANGED <<program, next, file>>

(* The payload cannot be allocated: the driver exits, without the cleanup  *)
(* that would free the payloads of the sections before.                    *)
AddSectionFails ==
    /\ \/ pc = "imports" /\ next \notin DOMAIN Specs
       \/ pc = "data" /\ program.mirrorSize # 0
       \/ pc = "rdata" /\ program.truthSize # 0
    /\ pc' = "failed"
    /\ ctx' = Fresh
    /\ UNCHANGED <<program, next, file>>

(* The first image is built only to learn the addresses, and freed. *)
ProbeLayout ==
    /\ pc = "probe"
    /\ SectionsFit(ctx)
    /\ ctx' = Finalize(ctx)
    /\ pc' = "patch"
    /\ UNCHANGED <<program, next, file>>

(* Memory runs out in a Finalize, the probe's or the writer's: at one of   *)
(* the blobs, at the payload of a section or at the image itself.          *)
FinalizeFails ==
    /\ pc \in {"probe", "write"}
    /\ ctx' = Fresh
    /\ pc' = "failed"
    /\ UNCHANGED <<program, next, file>>

IatOf(c, spec) ==
    LET i == LibraryOf(c, spec.dll)
    IN  IF i = 0 THEN 0
        ELSE LET j == FunctionOf(c.imports[i], spec.function)
             IN  IF j = 0 THEN 0 ELSE c.imports[i].functions[j].iat

Displacement(target, textVa, h) == target - (textVa + h + 4)

(* patch_exe_portal_iat_displacements.  A marker whose function was never  *)
(* registered ends the patch; the caller gives up.                         *)
PatchText ==
    /\ pc = "patch"
    /\ LET i == FindSection(ctx, ".text")
           text == ctx.sections[i]
           markers == {h \in DOMAIN text.words : \E s \in DOMAIN Specs : text.words[h] = Marker(s)}
           target == [h \in markers |-> IatOf(ctx, Specs[text.words[h] - Marker(0)])]
       IN  IF text.va # 0 /\ \A h \in markers : target[h] # 0
           THEN /\ ctx' = WithWords(ctx, i, [h \in DOMAIN text.words |->
                             IF h \in markers THEN Displacement(target[h], text.va, h)
                                               ELSE text.words[h]])
                /\ pc' = "write"
           ELSE /\ ctx' = Fresh
                /\ pc' = "failed"
    /\ UNCHANGED <<program, next, file>>

(* EXE_Weaver_WriteToFile: finalized again, then one fwrite.  The result   *)
(* of fclose is ignored, so a write that only fails when the buffers are   *)
(* flushed is reported as a success.                                       *)
WriteToFile ==
    /\ pc = "write"
    /\ SectionsFit(ctx)
    /\ \/ file' = [state |-> "complete", image |-> Image(Finalize(ctx))]
       \/ file' = [state |-> "partial", image |-> NoImage]
    /\ ctx' = Fresh
    /\ pc' = "done"
    /\ UNCHANGED <<program, next>>

(* The file cannot be opened, or fwrite stops short; nothing removes it.   *)
WriteFails ==
    /\ pc = "write"
    /\ SectionsFit(ctx)
    /\ file' \in [state : {"none", "partial"}, image : {NoImage}]
    /\ ctx' = Fresh
    /\ pc' = "failed"
    /\ UNCHANGED <<program, next>>

Next ==
    \/ RegisterImport
    \/ AddText \/ AddData \/ AddRdata \/ AddSectionFails
    \/ ProbeLayout \/ FinalizeFails
    \/ PatchText
    \/ WriteToFile \/ WriteFails

Spec == Init /\ [][Next]_vars

-----------------------------------------------------------------------------
(* The image as Windows loads it: only what is in the file counts.         *)

Written == file.state = "complete"
image == file.image

(* The section an address lies in, zero when none, and the word there.     *)
SectionAt(rva) ==
    LET found == {i \in DOMAIN image.sections :
                    image.sections[i].va <= rva /\ rva < image.sections[i].va + image.sections[i].size}
    IN  IF found = {} THEN 0 ELSE CHOOSE i \in found : \A j \in found : i <= j

(* A later payload overwrites an earlier one where they share the file.    *)
RawWord(offset) ==
    LET found == {i \in DOMAIN image.sections :
                    image.sections[i].ptr <= offset /\ offset < image.sections[i].ptr + image.sections[i].size}
        i == CHOOSE i \in found : \A j \in found : j <= i
    IN  IF found = {} THEN 0 ELSE Word(image.sections[i], offset - image.sections[i].ptr)

LoadedWord(rva) ==
    IF SectionAt(rva) = 0 THEN 0
    ELSE RawWord(image.sections[SectionAt(rva)].ptr + rva - image.sections[SectionAt(rva)].va)

LoadedName(rva) ==
    LET i == SectionAt(rva) IN
    IF i = 0 THEN "" ELSE
    LET o == rva - image.sections[i].va
    IN  IF o \in DOMAIN image.sections[i].names THEN image.sections[i].names[o] ELSE ""

(* How many entries of a table come before the one that is zero; a table   *)
(* is no longer than all the specifications and one more.                  *)
EntriesBefore(table, size) ==
    LET Closes(n) == LoadedWord(table + n * size) = 0
        ends == {n \in 0 .. Len(Specs) + 1 : Closes(n)}
    IN  IF ends = {} THEN Len(Specs) + 1 ELSE CHOOSE n \in ends : \A m \in ends : n <= m

(* Every slot the loader fills, with the function it finds for it.  The    *)
(* list of libraries is closed by a descriptor without a name.             *)
Bindings ==
    IF image.dir.import = 0 THEN {} ELSE
    LET Descriptor(i) == image.dir.import + i * DESCRIPTOR_SIZE
        libraries == EntriesBefore(Descriptor(0) + 12, DESCRIPTOR_SIZE)
    IN  UNION { LET lookup == LoadedWord(Descriptor(i))
                IN  { [slot |-> LoadedWord(Descriptor(i) + 16) + k * THUNK_SIZE,
                       dll |-> LoadedName(LoadedWord(Descriptor(i) + 12)),
                       function |-> LoadedName(LoadedWord(lookup + k * THUNK_SIZE))] :
                      k \in 0 .. EntriesBefore(lookup, THUNK_SIZE) - 1 } :
                i \in 0 .. libraries - 1 }

(* Where a hole of the code points to: the processor adds its displacement *)
(* to the address of the next instruction.                                 *)
TextBase == image.sections[1].va
PointedTo(h) == TextBase + h + 4 + LoadedWord(TextBase + h)

-----------------------------------------------------------------------------
(* Type correctness, with the limits of the weaver's tables.               *)
TypeOK ==
    /\ pc \in {"imports", "data", "rdata", "probe", "patch", "write", "done", "failed"}
    /\ program \in Programs
    /\ next \in 1 .. Len(Specs) + 1
    /\ Len(ctx.sections) <= MaxSections
    /\ Len(ctx.imports) <= MaxLibraries
    /\ \A i \in DOMAIN ctx.imports : Len(ctx.imports[i].functions) \in 1 .. MaxImports
    /\ Len(ctx.unwind) <= MaxUnwind
    /\ file.state \in {"none", "partial", "complete"}
    /\ image.imageSize \in Nat

(* Every call of an operating system function goes through a slot that the *)
(* loader fills with that function of that library, and the loader fills   *)
(* no slot but those of the functions called: the displacement was         *)
(* computed from the discarded image, the slots are found by walking the   *)
(* tables of the written one.                                              *)
CallsReachTheirImports ==
    Written =>
        /\ Cardinality(Bindings) = Cardinality({program.sites[h] : h \in DOMAIN program.sites})
        /\ \A h \in DOMAIN program.sites :
              LET spec == Specs[program.sites[h]]
                  bound == {b \in Bindings : b.slot = PointedTo(h)}
              IN  /\ bound # {}
                  /\ \A b \in bound : b.dll = spec.dll /\ b.function = spec.function

(* Every reference to a constant lands on that constant: the code          *)
(* generator predicted the address of .rdata before the weaver laid the    *)
(* sections out, whichever of them are present and whatever their sizes.   *)
ReferencesReachTheirConstants ==
    Written => \A h \in DOMAIN program.refs :
        LET i == SectionAt(PointedTo(h))
        IN  /\ i # 0
            /\ image.sections[i].name = ".rdata"
            /\ PointedTo(h) - image.sections[i].va = program.refs[h]

(* The exception directory describes the code exactly once, by records in  *)
(* order that do not overlap, each with its unwind information inside      *)
(* .pdata and clear of the records, although .pdata is built twice.        *)
ExceptionTableCoversText ==
    Written =>
        LET n == image.dir.exceptionSize \div RECORD_SIZE
            Record(k) == image.dir.exception + (k - 1) * RECORD_SIZE
            Start(k) == LoadedWord(Record(k))
            End(k) == LoadedWord(Record(k) + 4)
            Info(k) == LoadedWord(Record(k) + 8)
            pdata == image.sections[SectionAt(image.dir.exception)]
        IN  /\ n >= 1
            /\ Start(1) = TextBase /\ End(n) = TextBase + program.codeSize
            /\ \A k \in 1 .. n - 1 : End(k) = Start(k + 1)
            /\ \A k \in 1 .. n :
                  /\ Start(k) < End(k)
                  /\ Info(k) >= image.dir.exception + image.dir.exceptionSize
                  /\ Info(k) + UNWIND_INFO_SIZE <= pdata.va + pdata.size

(* What the Windows loader asks of the section table: headers below the    *)
(* first payload and the first page; sections page aligned, in order and   *)
(* without a gap, up to the size of the image; payloads sector aligned and *)
(* not sharing a byte; the entry point inside the code.                    *)
ImageIsLoadable ==
    Written =>
        LET s == image.sections
            last == Len(s)
        IN  /\ HEADERS_SIZE + last * SECTION_HEADER_SIZE <= image.headerSize
            /\ image.headerSize <= SECTION_ALIGNMENT
            /\ s[1].va = SECTION_ALIGNMENT
            /\ \A i \in 1 .. last :
                  /\ s[i].va % SECTION_ALIGNMENT = 0
                  /\ s[i].ptr % FILE_ALIGNMENT = 0
                  /\ s[i].ptr >= image.headerSize
            /\ \A i \in 1 .. last - 1 :
                  /\ s[i + 1].va = s[i].va + EXE_AlignUp(s[i].size, SECTION_ALIGNMENT)
                  /\ s[i].ptr + s[i].size <= s[i + 1].ptr
            /\ image.imageSize = s[last].va + EXE_AlignUp(s[last].size, SECTION_ALIGNMENT)
            /\ s[1].isCode
            /\ image.entry \in TextBase .. TextBase + s[1].size - 1
=============================================================================

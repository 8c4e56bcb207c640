------------------------------- MODULE Driver -------------------------------
(***************************************************************************)
(* The compiler driver, main/aethelc_main.c: run_compiler from the source  *)
(* files to the output file, once for each command of a session.           *)
(*                                                                         *)
(* A command compiles source files to a format or weaves a LET embryo an   *)
(* earlier command wrote.  The disk is what the commands share: the        *)
(* embryo, the output and a temporary file.  Each call that may fail does  *)
(* so here, with what it leaves on the disk.  A write that fails only when *)
(* the file is closed is reported as a success, by every writer.           *)
(*                                                                         *)
(* A source file is what the front end sees in it: its defect, if any, its *)
(* inline assembly, its tree, and the bytes it adds to the code, the state *)
(* and the constants.  On the disk, sources, architect and run are there   *)
(* for the properties: what an image stems from, the mode it was compiled  *)
(* in and the command that wrote it.                                       *)
(***************************************************************************)
EXTENDS SemanticChecker, LetEmbryo

CONSTANTS
    Sources,            \* the source files, by name
    Sessions,           \* the command sequences to run
    MaxFileImports,     \* the length of SemanticResult.imports
    MaxMergedImports    \* the limit of merge_semantic_result

VARIABLES
    pc,         \* where run_compiler is
    session,    \* the commands
    run,        \* how many of them have ended
    idx,        \* file_idx
    agg,        \* semantic_agg
    merged,     \* merged_ast: the names of the files whose declarations it holds
    zones,      \* what extract_zones_from_binary returned
    disk,       \* the contents of the files
    before,     \* the disk when the running command started
    status      \* the exit status of the last command

vars == <<pc, session, run, idx, agg, merged, zones, disk, before, status>>

Paths == {"embryo", "output", "temporary"}

Defects == {"none", "foreign C", "unreadable", "forbidden include", "strike",
            "lexical", "syntax"}

Generated == {"AKI", "SRV", "HDA", "EFI", "PE", "WSYS", "MACHO"}
Formats == Generated \cup {"AETB", "LET", "BIN", "ROM", "EXE", "IM4P"}
KernelFormats == Generated \cup {"BIN", "ROM", "IM4P"}
ArchitectFormats == KernelFormats \cup {"EXE"}
WeaveTargets == {"AKI", "SRV", "HDA", "AETB", "BIN", "ROM"}

\* validate_no_foreign_c, unix_strike's scan of the includes, and the extraction
\* of inline assembly look at the text of a file; a block in a comment is one to
\* it and none to the lexer.
ForeignC(f) == f.defect = "foreign C"
ForbiddenInclude(f) == f.defect = "forbidden include"
HasAssembly(f) == f.asm # "none"

\* The lexer ends the process at an underscore in a name and at the word asm.
LexerStrikes(f) == f.defect = "strike"

FileOK(f) ==
    /\ f.defect \in Defects
    /\ f.asm \in {"none", "assembles", "rejected"}
    /\ TreeOK(f.tree)
    /\ f.code \in Seq(STRING) /\ f.state \in Seq(STRING) /\ f.constants \in Seq(STRING)

\* No --bin-entry.
NoEntry == -1

CommandOK(c) ==
    /\ c.kind \in {"compile", "weave"}
    /\ c.format \in Formats
    /\ c.kind = "weave" => c.format \notin {"LET", "EFI"}
    /\ c.bits \in {16, 32, 64}
    /\ c.files \in Seq(DOMAIN Sources)
    /\ c.architect \in BOOLEAN /\ c.kernel \in BOOLEAN /\ c.flat \in BOOLEAN
    /\ c.entry \in Nat \cup {NoEntry}
    /\ c.to \in {"embryo", "output"}

ASSUME SourcesAssumption == \A name \in DOMAIN Sources : FileOK(Sources[name])
ASSUME SessionsAssumption ==
    \A s \in Sessions : /\ Len(s) \in Nat /\ DOMAIN s = 1 .. Len(s)
                         /\ \A k \in DOMAIN s : CommandOK(s[k])
\* Both 128 in the code: no import of a merged table is left out of an embryo.
ASSUME ImportLimitsAssumption ==
    MaxFileImports \in Nat /\ MaxMergedImports \in Nat /\ MaxMergedImports <= MaxIdentities

command == session[run + 1]
last == session[run]

\* The mode and the target a format imposes.
Architect(c) == c.architect \/ c.format \in ArchitectFormats
Kernel(c) == c.kernel \/ c.format \in KernelFormats

Contract(c) == [bits |-> c.bits, relocWidth |-> c.bits]

NoZones == [code |-> <<>>, state |-> <<>>, constants |-> <<>>]

Absent == [kind |-> "absent"]
Partial == [kind |-> "partial", run |-> run + 1]
Embryo(let) ==
    [kind |-> "let", run |-> run + 1, let |-> let,
     sources |-> command.files, architect |-> Architect(command)]
Image(form, payload) ==
    [kind |-> "image", run |-> run + 1, form |-> form, payload |-> payload,
     sources |-> command.files, architect |-> Architect(command)]

\* What a generator that reports success leaves, and what one that fails may.
Written(image) == {image, Partial}
Broken(path) == {disk[path], Partial}

Init ==
    /\ pc = "idle"
    /\ session \in Sessions
    /\ run = 0
    /\ idx = 0
    /\ agg = NoResult
    /\ merged = <<>>
    /\ zones = NoZones
    /\ disk = [p \in Paths |-> Absent]
    /\ before = disk
    /\ status = 0

\* The driver returns: the process ends, and the next command starts afresh.
Exit(code) ==
    /\ pc' = "idle"
    /\ status' = code % 256
    /\ run' = run + 1
    /\ idx' = 0
    /\ agg' = NoResult
    /\ merged' = <<>>
    /\ zones' = NoZones
    /\ UNCHANGED <<session, before>>

Continue(next) ==
    /\ pc' = next
    /\ UNCHANGED <<session, run, before, status>>

Assembles(c) == c.format = "BIN" /\ Len(c.files) = 1

Start ==
    /\ pc = "idle" /\ run < Len(session)
    /\ before' = disk
    /\ pc' = IF command.kind = "weave" THEN "weave"
             ELSE IF command.files = <<>> THEN "fail"
             ELSE IF Assembles(command) THEN "assemble" ELSE "setup"
    /\ UNCHANGED <<session, run, idx, agg, merged, zones, disk, status>>

\* The failures that have touched nothing: of memory, of the code generator
\* and of what a format needs before it opens its output.
Fail ==
    /\ \/ pc \in {"fail", "setup", "generate"}
       \/ pc = "emit" /\ command.format \in {"AETB", "EXE", "BIN", "IM4P"}
       \/ pc = "emit" /\ command.format = "MACHO" /\ zones.code = <<>>
    /\ Exit(1)
    /\ UNCHANGED disk

-----------------------------------------------------------------------------
(* compile_inline_asm_to_bin: a single file with assembly blocks, compiled *)
(* to a flat binary, goes straight to the assembler; one without goes the  *)
(* ordinary way.                                                           *)
Assemble ==
    /\ pc = "assemble"
    /\ LET f == Sources[command.files[1]] IN
       \/ /\ f.defect = "unreadable" \/ HasAssembly(f)
          /\ Exit(1)
          /\ UNCHANGED disk
       \/ /\ f.defect # "unreadable" /\ ~HasAssembly(f)
          /\ Continue("setup")
          /\ UNCHANGED <<idx, agg, merged, zones, disk>>
       \/ /\ f.defect # "unreadable" /\ HasAssembly(f)
          /\ disk' = [disk EXCEPT !["temporary"] = Partial]
          /\ Continue("assembler")
          /\ UNCHANGED <<idx, agg, merged, zones>>

RunAssembler ==
    /\ pc = "assembler"
    /\ \/ /\ Sources[command.files[1]].asm = "assembles"
          /\ disk' = [disk EXCEPT !["temporary"] = Absent,
                                  ![command.to] = Image("assembly", NoZones)]
          /\ Exit(0)
       \/ /\ \E left \in {Absent, disk[command.to]} :
                disk' = [disk EXCEPT !["temporary"] = Absent, ![command.to] = left]
          /\ Exit(1)

-----------------------------------------------------------------------------
(* The front end. *)

Setup ==
    /\ pc = "setup"
    /\ idx' = 1
    /\ Continue("frontend")
    /\ UNCHANGED <<agg, merged, zones, disk>>

\* What ends the command at once, with its exit code; zero when nothing does.
COMPILER_STRIKE_CODE_Round == 1024
COMPILER_STRIKE_CODE == 1010
Strike(f) ==
    IF \/ Kernel(command) /\ ForeignC(f)
       \/ f.defect = "unreadable"
       \/ command.format = "ROM" /\ HasAssembly(f)
    THEN 1
    ELSE IF ForbiddenInclude(f) \/ LexerStrikes(f) THEN COMPILER_STRIKE_CODE ELSE 0

\* frontend_failed after a file; memory may run out when the trees are merged.
FrontendFails_ParserOnly(f, result) == f.defect \in {"lexical", "syntax"}
FrontendFails(f, result) ==
    \/ f.defect \in {"lexical", "syntax"}
    \/ result.errors > 0
    \/ ~Mergeable(agg, result, MaxMergedImports)

(* One turn of the loop over the input files. *)
ProcessFile ==
    /\ pc = "frontend"
    /\ LET f == Sources[command.files[idx]]
           result == Analyze(f.tree, Architect(command), MaxFileImports)
       IN  IF Strike(f) # 0 THEN Exit(Strike(f))
           ELSE \/ FrontendFails(f, result) /\ Exit(1)
                \/ merged # <<>> /\ Len(f.tree) > 1 /\ Exit(1)
                \/ /\ ~FrontendFails(f, result)
                   /\ agg' = Merge(agg, result)
                   /\ merged' = Append(merged, command.files[idx])
                   /\ IF idx < Len(command.files)
                      THEN idx' = idx + 1 /\ Continue("frontend")
                      ELSE idx' = 0 /\ Continue("generate")
                   /\ UNCHANGED zones
    /\ UNCHANGED disk

ZonesOf(files) ==
    [code      |-> FlattenSeq([k \in DOMAIN files |-> Sources[files[k]].code]),
     state     |-> FlattenSeq([k \in DOMAIN files |-> Sources[files[k]].state]),
     constants |-> FlattenSeq([k \in DOMAIN files |-> Sources[files[k]].constants])]

(* codegen_generate into the temporary stream, and the zones read back.    *)
Generate ==
    /\ pc = "generate"
    /\ zones' = ZonesOf(merged)
    /\ Continue("emit")
    /\ UNCHANGED <<idx, agg, merged, disk>>

-----------------------------------------------------------------------------
(* The output formats. *)

\* A writer whose failure leaves what it has written ...
WriteDirectly ==
    /\ pc = "emit" /\ command.format \in {"AETB", "EXE"}
    /\ \/ /\ \E left \in Written(Image("zones", zones)) :
                disk' = [disk EXCEPT ![command.to] = left]
          /\ Exit(0)
       \/ /\ disk' = [disk EXCEPT ![command.to] = Partial]
          /\ Exit(1)

\* ... and the writers whose failure makes the driver remove the output.
Unlinked_LeavesIt(path) == [disk EXCEPT ![path] = Partial]
Unlinked(path) == [disk EXCEPT ![path] = Absent]

WriteByGenerator ==
    /\ pc = "emit" /\ command.format \in Generated \cup {"ROM"}
    /\ command.format = "MACHO" => zones.code # <<>>
    /\ \/ /\ \E left \in Written(Image("zones", zones)) :
                disk' = [disk EXCEPT ![command.to] = left]
          /\ Exit(0)
       \/ disk' = Unlinked(command.to) /\ Exit(1)

\* The scan for branches may run out of memory and return none.
Embryos ==
    { LetImage(zones, agg, relocs, Contract(command)) : relocs \in {RelocDna(zones.code), {}} }
Cuts(let) == { Cut(let, n) : n \in 0 .. Len(let.bytes) }

WriteLet ==
    /\ pc = "emit" /\ command.format = "LET"
    /\ \/ /\ \E full \in Embryos : \E let \in Cuts(full) :
                disk' = [disk EXCEPT ![command.to] = Embryo(let)]
          /\ Exit(0)
       \/ disk' = Unlinked(command.to) /\ Exit(1)

(* BIN and IM4P go through a temporary file, removed on every way out.     *)
WriteTemporary ==
    /\ pc = "emit" /\ command.format \in {"BIN", "IM4P"}
    /\ \/ /\ command.format = "BIN"
          /\ \E full \in Embryos : \E let \in Cuts(full) :
                disk' = [disk EXCEPT !["temporary"] = Embryo(let)]
          /\ Continue("wrap")
          /\ UNCHANGED <<idx, agg, merged, zones>>
       \/ /\ command.format = "IM4P" /\ zones.code # <<>>
          /\ \E left \in Written(Image("zones", zones)) :
                disk' = [disk EXCEPT !["temporary"] = left]
          /\ Continue("wrap")
          /\ UNCHANGED <<idx, agg, merged, zones>>
       \/ /\ command.format = "BIN"
          /\ disk' = Unlinked(command.to)
          /\ Exit(1)

WrapTemporary_KeepsIt(left) == [disk EXCEPT ![command.to] = left]
WrapTemporary(left) == [disk EXCEPT ![command.to] = left, !["temporary"] = Absent]

\* The Mach-O is read back as it is: a part of it is wrapped as well.
WrapMachO ==
    /\ pc = "wrap" /\ command.format = "IM4P"
    /\ \/ /\ \E left \in IF disk["temporary"].kind = "image"
                         THEN Written(Image("zones", zones)) ELSE {Partial} :
                disk' = WrapTemporary(left)
          /\ Exit(0)
       \/ disk' = WrapTemporary(Absent) /\ Exit(1)
       \/ disk' = WrapTemporary(disk[command.to]) /\ Exit(1)

-----------------------------------------------------------------------------
(* let_weave_to_target, from the embryo of an earlier command or from the  *)
(* temporary one.                                                          *)
Readable(path) ==
    /\ disk[path].kind = "let"
    /\ Parses(disk[path].let)
    /\ ContractFits(disk[path].let.header.contract)

\* The image of an embryo has the embryo's origin.
OfEmbryo(image, path) ==
    [image EXCEPT !.sources = disk[path].sources, !.architect = disk[path].architect]

BinEntry == IF command.entry = NoEntry THEN 0 ELSE command.entry
RomEntry(input) == IF command.entry = NoEntry THEN input.genesis ELSE command.entry

WovenBinary(path) ==
    OfEmbryo(Image("binary", Binary(WeaverInput(disk[path].let), BinEntry, command.flat)), path)

WovenImage(path) ==
    LET input == WeaverInput(disk[path].let) IN
    OfEmbryo(Image("woven", IF command.format = "ROM"
                            THEN [input EXCEPT !.genesis = RomEntry(input)] ELSE input), path)

\* The binary is refused when both the assembly weaver and the writer in C
\* refuse it, the flash image when its entry is not in the code.
Accepted(path) ==
    LET input == WeaverInput(disk[path].let) IN
    CASE command.format = "BIN" -> AsmAccepts(input, BinEntry)
                                     \/ FallbackAccepts(input, BinEntry, command.flat)
      [] command.format = "ROM" -> RomAccepts(input, RomEntry(input))
      [] OTHER -> TRUE

WrapEmbryo ==
    /\ pc = "wrap" /\ command.format = "BIN"
    /\ \/ /\ Readable("temporary") /\ Accepted("temporary")
          /\ \E left \in Written(WovenBinary("temporary")) : disk' = WrapTemporary(left)
          /\ Exit(0)
       \/ disk' = WrapTemporary(Absent) /\ Exit(1)

Weave ==
    /\ pc = "weave"
    /\ \/ /\ command.format \in WeaveTargets /\ Readable("embryo") /\ Accepted("embryo")
          /\ LET image == IF command.format = "BIN" THEN WovenBinary("embryo")
                          ELSE WovenImage("embryo")
             IN  \E left \in Written(image) : disk' = [disk EXCEPT ![command.to] = left]
          /\ Exit(0)
       \/ /\ command.format \in WeaveTargets /\ Readable("embryo")
          /\ \E left \in Broken(command.to) : disk' = [disk EXCEPT ![command.to] = left]
          /\ Exit(1)
       \/ /\ command.format \notin WeaveTargets \/ ~Readable("embryo")
          /\ UNCHANGED disk
          /\ Exit(1)

Next ==
    \/ Start \/ Fail
    \/ Assemble \/ RunAssembler
    \/ Setup \/ ProcessFile \/ Generate
    \/ WriteDirectly \/ WriteByGenerator \/ WriteLet
    \/ WriteTemporary \/ WrapMachO \/ WrapEmbryo
    \/ Weave

Spec == Init /\ [][Next]_vars

-----------------------------------------------------------------------------
(* What the sources of an image ask for. *)

IsRawImport(node) == IsImport(node) /\ node.form = "rimport"

HasKind(files, kinds) ==
    \E k \in DOMAIN files : \E i \in Analysed(Sources[files[k]].tree) :
        Sources[files[k]].tree[i].kind \in kinds

HasRawImport(files) ==
    \E k \in DOMAIN files : \E i \in Analysed(Sources[files[k]].tree) :
        IsRawImport(Sources[files[k]].tree[i])

PrivilegesOf(files) ==
    [levels    |-> {level \in 1 .. 3 : ~HasKind(files, {kind \in Kinds : Sip(kind) > level})},
     architect |-> HasKind(files, NeedsArchitect),
     metal     |-> HasKind(files, HasMetal),
     rimport   |-> HasRawImport(files)]

ImportsOf(files) == FlattenSeq([k \in DOMAIN files |-> FileImports(Sources[files[k]].tree)])

TrapsOf(files) == SumFunction([k \in DOMAIN files |-> FileTraps(Sources[files[k]].tree)])

SoundFile(f, architect) ==
    /\ f.defect \in {"none", "foreign C"}
    /\ \A i \in Analysed(f.tree) : SoundNode(f.tree[i], architect)

Artefacts == {p \in Paths : disk[p].kind \in {"let", "image"}}
FromTheFrontEnd == {p \in Artefacts : disk[p].kind = "image" => disk[p].form # "assembly"}
Ended == pc = "idle" /\ run > 0

-----------------------------------------------------------------------------
(* The properties. *)

\* The state is well formed, and the merged import table never outgrows the
\* SemanticResult merge_semantic_result fills.
TypeOK ==
    /\ pc \in {"idle", "fail", "assemble", "assembler", "setup", "frontend", "generate",
                "emit", "wrap", "weave"}
    /\ session \in Sessions /\ run \in 0 .. Len(session)
    /\ pc # "idle" => run < Len(session)
    /\ pc = "frontend" => idx \in DOMAIN command.files
    /\ Len(agg.imports) <= MaxMergedImports
    /\ agg.errors = 0
    /\ \A p \in Paths : disk[p].kind \in {"absent", "partial", "let", "image"}
                        /\ (disk[p].kind # "absent" => disk[p].run \in 1 .. run + 1)
    /\ status \in 0 .. 255

\* run_compiler: whatever the format, the mode and the way through the
\* intermediate files, nothing built from a tree has a source the front end
\* had to refuse: not one file of several, not one woven later under
\* another command, not one that asks for the architect in a sandbox.
OnlySoundSourcesReachTheDisk ==
    \A p \in FromTheFrontEnd : \A k \in DOMAIN disk[p].sources :
        SoundFile(Sources[disk[p].sources[k]], disk[p].architect)

\* let_generate_image with merge_semantic_result: an embryo of several files
\* asks for what any of them needs, and imports what they import, in order.
ContractIsTheUnion ==
    \A p \in Paths : disk[p].kind = "let" =>
        LET let == disk[p].let files == disk[p].sources IN
        /\ SipVector(let.gene) = PrivilegesOf(files)
        /\ let.gene.identities = ImportsOf(files)
        /\ let.gene.traps = TrapsOf(files)

\* parse_let_file and let_weave_to_target: an embryo that was cut short by a
\* write that failed unnoticed is refused, or is whole where it matters; what
\* is woven from one is what was compiled, byte for byte, with the privileges
\* the sources need.
WeaversGetWhatWasCompiled ==
    \A p \in Paths : disk[p].kind = "image" =>
        LET payload == disk[p].payload compiled == ZonesOf(disk[p].sources) IN
        /\ disk[p].form = "woven" =>
               /\ payload.code = compiled.code
               /\ payload.state = compiled.state
               /\ payload.constants = compiled.constants
               /\ payload.identities = ImportsOf(disk[p].sources)
               /\ payload.sip = PrivilegesOf(disk[p].sources)
        /\ disk[p].form = "binary" =>
               IF payload.frame THEN payload.code = compiled.code
               ELSE \E n \in 0 .. Len(compiled.code) :
                       payload.code = SubSeq(compiled.code, n + 1, Len(compiled.code))

\* The exit paths of run_compiler: after a compilation that failed the output
\* is absent or what it was before, never the part that was written.  The
\* formats written without a clean-up are left out.
FailureLeavesNoImage ==
    Ended /\ status # 0 /\ last.kind = "compile" /\ last.format \notin {"AETB", "EXE"} =>
        disk[last.to] \in {Absent, before[last.to]}

\* The exit code: a command that reports success has written its output, so
\* that a build never goes on with the one of an earlier command.
SuccessIsOfThisRun ==
    Ended /\ status = 0 => disk[last.to].kind # "absent" /\ disk[last.to].run = run

\* compile_inline_asm_to_bin and the BIN and IM4P ways out: no command leaves
\* its temporary file behind, however it ends.
NoTemporaryRemains == Ended => disk["temporary"] = Absent

\* Of a file: what kind it is, which command wrote it, and what it stems from.
Seen(entry) ==
    IF entry.kind \in {"absent", "partial"} THEN entry
    ELSE [kind      |-> IF entry.kind = "image" /\ entry.form = "assembly" THEN "assembly" ELSE entry.kind,
          run       |-> entry.run,
          sources   |-> entry.sources,
          architect |-> entry.architect]
Outside == INSTANCE Toolchain WITH
    Imposing <- ArchitectFormats,
    Careless <- {"AETB", "EXE"},
    Sound    <- {s \in (DOMAIN Sources) \X BOOLEAN : SoundFile(Sources[s[1]], s[2])},
    disk     <- [p \in {"embryo", "output"} |-> Seen(disk[p])]

\* run_compiler as its caller sees it: whatever it does in between, with a
\* temporary file and an assembler, and wherever it fails, a command is one
\* step that touches nothing but its output, and its exit code tells which.
CommandsAreAtomic == Outside!Spec

\* rom_generate_image: "Entry offset out of ActFlow bounds" is what it says
\* of an entry behind the code.  The entry of an embryo, unless the command
\* line gives another, is one it accepts.
RomEntryIsInTheCode ==
    pc = "weave" /\ command.format = "ROM" /\ command.entry = NoEntry /\ Readable("embryo") =>
        Accepted("embryo")
=============================================================================

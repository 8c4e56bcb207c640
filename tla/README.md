# Verification of the Aethelium toolchain

Aethelium is a compiler toolchain for a systems language: a C compiler driver
(`aethelc`), container and executable writers, and the disk tools of AethelOS
(the AEFS file system and the ADL disk image). This directory holds TLA+ models
of its parts, the TLC configurations that check them and TLAPS proofs about
them. `PROJECT.json` is the index: components, runs, the map from every
definition to the lines it models, hazards, findings, theorems, and for every
property a mutation of the model that TLC finds it violated by.

    tlc -config MCDriver.cfg MCDriver        # check a run
    tlapm StringTableProofs.tla              # check a proof module

Paths below are relative to the repository; `toolsC` is `core/toolsC`.

## 1. The system

Everything in C runs in one process and one thread: a component is a sequence
of calls on a heap object or an open file. There are no locks, no callbacks and
no messages; the only other process is an assembler the driver forks and waits
for. What is hard is of five kinds:

* a long sequence of legal calls that makes two pieces of state disagree (the
  string table's three allocations, a segment's bitmap and its counters);
* passes that must agree without checking each other (the code generator plans a
  frame and emits a body against it; it predicts where the weaver will put the
  constants; the FAT and the clusters are computed by three functions);
* a step that fails halfway (allocation, a short write, a fork) and leaves the
  rest to go on;
* a file that one command leaves and a later one reads;
* fixed-width arithmetic and fixed limits.

### Inventory

| component | state | operations | hard behaviour | what makes it correct |
|---|---|---|---|---|
| driver (`compiler/src/main/aethelc_main.c`) | merged tree, merged contract, zones, temporary and output file, exit code | front end per file, merge, generate, wrap, weave, clean up | failure at every step, several files, stale output | nothing unsound reaches the disk, a failure leaves no image, success means written |
| lexer, `unix_strike` (`frontend/lexer`) | position, the strike | scan | maximal munch, identifiers that swallow `/` and `-` | the tokens are the source's |
| parser (`frontend/parser/aec_parser.c`) | token position, panic mode, a replayed `>`, declarations | parse, recover | lookahead that guesses, loops that must read, fixed arrays, recovery | the tree is the one the source was written from, every iteration advances |
| string table (`ast_string_table.c`) | entries, pool, hash chains | add, find, clear, compact | growth, failed rebuild, moved pool | one id per string, ids stay valid |
| semantic checker (`semantic_checker.c`) | result: contract, imports, errors | walk, merge | limits, mode | the contract is what the source needs |
| preprocessor, import resolver, AECF parser, hardware-layer and silicon tables | lists, option structures | look up | - | - |
| code generator (`middleend/codegen/aec_codegen.c`) | code, layouts, locals, labels, fixups, functions | lay out, plan, emit, patch, resolve | passes that must agree | the code computes what the source says |
| EXE weaver (`formats/exe/weaver`) | sections, imports, unwind records | add, finalize twice, write | addresses taken from a layout that is thrown away | calls, references and tables fit the written image |
| LET embryo (`formats/let`) | the file, gene table | generate; parse, check, weave | a truncated file, ranges | a reader gets what was compiled or refuses |
| AETB, AKI, SRV, HDA, AX, BIN, IYA | zones, output file | lay out, write | offsets worked out twice, unchecked writes | headers lead to whole zones |
| EFI, PE, WSYS | one buffer with sections | lay out, patch, write | file and memory layout, entry point, import slots | the mapped image holds what its tables say |
| ROM | trampoline, image | place, write | three modes, a window that moves | a machine that resets reaches the program |
| Mach-O, IM4P | segments, temporary file, DER | emit, wrap | a file written and read back, lengths that grow | segments and payload where announced |
| assembler weavers (`core/toolsASM`) | three zones, registers across system calls | weave, write | registers clobbered by `syscall`, per host | the written file is the zones |
| AEFS (`toolsC/mkiso/aefs/aefs.c`) | headers, segment summary, directories, log, volume tags | init, mark, add | counters and bitmaps, bit limits | counters match the bitmap |
| ADL disk image (`toolsC/mkiso/aefs/adl_disk.c`) | the image file | one stage per structure | overlap, failing writes | each structure is where its reader looks |

They interact by calls and by files. The driver calls lexer, parser, checker
and code generator in order, once per source file, and concatenates their
results; the code generator's zones go to one weaver or through an AETB file
on the disk. A LET embryo written by one command is the input of another. The
EXE branch of the driver writes addresses from the weaver's first layout into
the generator's code. The disk tools are separate programs.

`PROJECT.json` lists the components one by one with their state of modelling,
and the hazards at the lines where they bite.

## 2. The modules

| module | models | used by |
|---|---|---|
| `StringTable` | `ast_string_table.c` | `StringTableProofs`, `MCStringTable` |
| `Interner` | what the table promises: the abstract specification | `StringTable` (refinement) |
| `Lexer` | `aec_lexer.c`, `unix_strike.c` | `ParserBase` |
| `ParserBase` | `aec_parser.c`: cursor, names, types, attributes, raw blocks | `ParserLeaves` |
| `ParserLeaves` | `aec_parser.c`: node constructors, operator tables, what holds no other expression | `Parser` |
| `Parser` | `aec_parser.c`: expressions and statements | `ParserProgram` |
| `ParserProgram` | `parser_parse_program`, one action per kind of declaration | `ParserCorrect` |
| `ParserCorrect` | a printer of trees, the properties | `MCParser` |
| `SemanticChecker` | `semantic_checker.c`: pure operators | `Driver`, `DriverProofs` |
| `CodegenLayout` | types and structure layouts of `aec_codegen.c` | `CodegenX64` |
| `CodegenX64` | the x86-64 path of `aec_codegen.c` and the processor | `CodegenX64Correct` |
| `CodegenX64Correct` | a reference interpreter of the source, the properties | `MCCodegenX64` |
| `ExeWeaver` | `exe_binary_weaver_impl.c` and the driver's EXE branch | `ExeWeaverProofs`, `MCExeWeaver` |
| `LetEmbryo` | `let_gen.c`, `let_weaver_bridge.c`: pure operators | `Driver` |
| `Toolchain` | what a build script sees of a command: the abstract specification | `Driver` (refinement) |
| `Driver` | `run_compiler`; composes `SemanticChecker` and `LetEmbryo` | `DriverProofs`, `MCDriver` |
| `BinaryFile` | buffers and files as a history of copies | the image modules |
| `ZoneImages` | SRV, HDA, AX, AETB, IYA and the writers of `binary_format.c` | `AsmWeavers`, `PeImages`, `AppleImages`, `RomImage` |
| `AsmWeavers` | `toolsASM` and `aki_gen.c` | `Containers` |
| `PeImages` | `pe_gen.c`, `pe_industrial.c`, `wsys_gen.c` | `Containers` |
| `AppleImages` | `macho_weaver.c`, `im4p_generator.c`, `der_encoder.c` | `Containers` |
| `RomImage` | `rom_gen.c` and the machine after reset | `Containers` |
| `Containers` | one image written, with its failures, then used; composes the five above | `ContainersCorrect` |
| `ContainersCorrect` | readers of the images, the properties | `ContainersProofs`, `ImageProofs`, `MCContainers` |
| `AefsSegment` | the segment summary of `aefs.c` | `AefsSegmentProofs`, `MCAefsSegment` |
| `AdlImage` | `adl_generate_complete_iso` and all it calls | `AdlImageProofs`, `MCAdlImage` |
| `DataInduction` | nothing: lemmas about sums and concatenations of any length | `AefsSegmentProofs`, `ContainersProofs`, `DriverProofs`, `ExeWeaverProofs` |
| `...Proofs` | nothing: theorems about the module named before the suffix; those about the semantic checker open `DriverProofs`, those about firmware and about the writers of boot images are in `ContainersProofs`, those about what images hold in `ImageProofs`, which extends it | |

The `MC` modules only choose constants. A definition whose name has a suffix
after an underscore (`MarkDead_AnyState`) is a plausible mistake in the
definition of the name before it; no run uses it, it exists to show that the
property it goes with can fail.

**StringTable.** `entries`, `ecap`, `table` and `pool` are the fields of
`ASTStringTable`. `AddExisting`, `AddNew` and `AddFails` are the ways
`stringtable_add_len` ends (a match; a new entry after any growth and rebuild; a
refusal that leaves what was done before it), `SearchCrashes` the dereference of
a null table, `Clear` and `Compact` the functions of that name. A data pointer is
a pair of allocation generation and offset, so a `realloc` that moves the pool
makes old pointers dangling: reading one compares equal or not at random. The
hash arithmetic is a constant function, the chains are sets of ids searched from
the largest down, as the code's pushes at the head order them. `lost` says that
an entry has fallen off its chain in a rebuild that could not allocate a node.
The refinement mapping of `Interner` is `Granted`: the pairs of id and string
callers hold, as long as the table can still answer for them.

**Lexer, ParserBase, ParserLeaves, Parser, ParserProgram.** A source is a
sequence of atoms (a run of letters, a literal, a punctuation character, a
separator); `Lexer` joins them into tokens as `lexer_scan` does. A parsing
function of the C code is an operator from a parser state to the state it leaves:
token array, position, `panic_mode`, `has_virtual_gt_token`, the node returned,
and `hung` when a loop of the function can make no more progress. The functions
call one another, so they are alternatives of one recursive operator `Parse`, by
name. In `ParserProgram` an action is one iteration of the loop of
`parser_parse_program` for one kind of declaration, with the guard against
stalls and the recovery; the fixed arrays keep their sizes.

**AefsSegment.** `block` is the 2-bit bitmap, `used`, `live`, `dead`, `prio` the
fields of `AEFS_Segment_Summary`. `MarkLive`, `MarkDead` and `UpdateGcPriority`
are the functions; all arithmetic is modulo `Word`. The caller passes any index
and size. `size`, `tracked` and `fresh` are history variables that say what the
caller has done.

**AdlImage.** `pc` is the stage of `adl_generate_complete_iso`; each stage is an
action. A write of a sector or of a FAT word only reaches the buffer of stdio
(`held`): the next seek writes it out, and a failure shows there, in a stage that
is not the one that wrote. `SeekOk` and `SeekFails` are that seek. Where the code
checks it, the run ends (`Structure`) or the ESP is given up with a warning
(`InEsp`); where it does not, the next word goes to the place of the lost write
(`UncheckedWord`), a lost header copy becomes padding, and the run returns 0
(`Close`). The disk maps sectors to the structure they hold and the FAT words
written into them. The layout numbers are constants.

**CodegenLayout, CodegenX64.** A program is a sequence of declarations. `Prepare`
lays out the structures (`mc_add_struct_layout`), finds the entry, marks the
functions an EXE keeps (`trace_calls`) and emits the portal; `Declare`,
`SkipFunction` and `EmitFunction` are the iterations of `codegen_generate` (the
last is the whole of `mc_emit_function`: plan, prologue, spills, body, branch
patching, epilogue), `ResolveCalls` is `mc_resolve_calls` with the fixups of
globals and the second search for the entry. `Start` and `Execute` are the
processor, which is external to the source: it gives instructions their meaning
so that the generated code can be compared with the source. An instruction is a
record of length one. Data is counted in bytes: structures, arrays, pointers,
frame slots and globals have the code's offsets and widths, and a narrow store
leaves its neighbours alone. A byte holds `0..ByteMax`, with `ByteMax` 3 instead
of 255, so that a word of eight bytes is an integer of TLC. The reference
interpreter of `CodegenX64Correct` knows neither bytes nor addresses: it has
objects, places in them and pointers to places, which is why a wrong offset or
width makes the two disagree.

**ExeWeaver.** `ctx` is `EXE_Binary_Weaver_Context`. The actions follow the
driver's branch: imports found by their markers, the data and constant sections,
a first `Finalize` (`probe`), the patching of the code, the second `Finalize` and
the write. Sections hold the 32-bit words and the names a loader reads; the
properties walk the tables of the written image the way a loader does.

**Driver.** `pc` is the place in `run_compiler`, `agg` the merged
`SemanticResult`, `merged` the merged tree, `zones` the zones, `disk` the files.
A run of the model is a session of commands over one disk. `ProcessFile` is one
iteration of the file loop, with every check in order; `Generate` is code
generation; `Write...`, `Wrap...` and `Weave` are the ways out per format, each
with its failures and with the clean-up its path performs or does not perform.
`RunAssembler` is the fork of an assembler for single-file BIN input. A source
file is abstracted to what the front end tells apart: its defect, its tree (kinds
of nodes with their parents and faults) and the bytes it adds to each zone. A
byte is a value that tells where it came from. `Toolchain` is the same command as
one step, with no place to be in, no temporary file and no tree: it leaves an
artefact of sound sources, a part, the old output or none, and exits with zero
only in the first two cases. The mapping `Outside` shows it of each file its kind, the
command that wrote it, its sources and its mode (`Seen`), and hides the rest;
every way a command can end badly, wherever it is, is its one action `Fail`.

**BinaryFile, ZoneImages, AsmWeavers, PeImages, AppleImages, RomImage,
Containers.** A writer is a plan: whether it accepts its arguments, the header it
makes and the writes it issues in order, each with the count its result is
compared with, if the code compares it. A plan names every zone the format can
have; `SkipEmpty` passes over the write of an empty one, which the writers do not
make (`srv_gen.c:233`) or which has no effect. `Containers` executes the plan:
`WriteNext` makes the next write, `WriteFails` fails to, and the close may lose what
stdio still holds;
`Fallback` is the second attempt in C of a flat binary whose assembly weaver
failed; `ReadBack` reads the Mach-O file an IM4P container is made from; `Running`
executes the ROM from the reset vector. A file remembers every copy made into it,
so a copy that spills over a neighbour is seen by the reader of the neighbour.
Contents are tags, sizes and offsets are the code's own numbers. `Host` chooses
the system calls under the assembly weavers.

## 3. The runs

| run | question | size |
|---|---|---|
| `strings` | With failing allocations and a pool that moves: are chains and pool sound, do ids keep naming their strings, does the table implement the interner? | 4 strings, 3 entries; 141,383 states |
| `aefs_segment` | Do counters, bitmap and priority agree over all sequences of marks? | 4 blocks, 4 marks; 57,351 states |
| `parser` | Is the tree the one the source was written from, and does every loop read? | 8,079 sources; 26,580 states |
| `parser_generic` | Does a closing `>>` of a parameter's type end both brackets? Violated. | |
| `codegen` | Does the generated code compute what the source says? | 11 programs; 1,994 states |
| `codegen_iretq` | Do interrupt gates return by `iretq`? Violated when they contain a return. | |
| `adl_image` | What is on the disk when a run returns 0, whatever the sizes and whatever fails? | 7 sizes, 10 files, 2 faults; 175,735 states |
| `weaver` | Does the written executable bind its calls, references and tables? | 2,250 programs; 30,528 states |
| `driver` | What reaches the disk, under every failure? | 21 sources, 13 formats, 1 or 2 commands; 16,916 states |
| `driver_rom` | Is the ROM entry of an embryo in its code? Violated. | |
| `containers` | Does every image read back, and does a ROM reach its program? | 473 images of 20 kinds; 12,947 states |
| `containers_aki` | Are the constants and the nexus of a kernel image where its header says? Violated. | |

What the passing runs show, property by property:

* `Interned`, `IssuedIdsResolve`: ids handed out and lookups agree after any
  sequence of calls, as long as nothing has been lost to a failure or a moved
  pool. `ChainsSound`, `PoolDisjoint`: a chain holds only stored ids in their own
  bucket and no two strings share bytes, even when an allocation fails between
  the growth of one structure and of another. `KeepsThePromise`: the table
  implements `Interner`, failures included: what it can no longer answer for is
  forgotten, never answered wrongly.
* `TreeIsTheSource`: for a source printed from a tree with the precedences and
  brackets the parser's comments describe, lexing and parsing give the tree back:
  every operator under every operator, every statement and declaration.
  `EveryIterationAdvances`: for these and for every text of up to three tokens of
  an alphabet in any order, an iteration passes a token and no declaration is
  taken back; `NeverSpins`: no loop inside a parsing function goes round without
  reading. Together they say that parsing ends, without assuming any fairness.
* `BytesMatchBitmap`: for a caller that marks LIVE only FREE blocks and passes
  the same size back, the counters are the sums over the bitmap.
  `PriorityOrdersSegments`: the collector's order is right when it was just
  computed. `OnlyDyingBlocksCountDead`: for any caller.
* `ComputesSource`: the result and the contents of every global equal those of
  the reference interpreter, for the entry the source names and without the
  functions an EXE drops. `FrameDiscipline` (every slot inside the reserved
  frame, the same stack at every label, frames left as they were entered) and
  `ControlStaysInside` (no function runs into the next) are the agreements
  between passes it depends on; `Finishes` is liveness.
* `MetadataSurvives`: a run that returns 0 leaves MBR, GPT, checkpoint and
  manifest, even when the ESP part failed. The partition table may be lost, when
  its write fails at the first seek of the ESP: then there was a warning and there
  is no boot sector. `BackupOrNothing`: the last sector is the copy of the ADL
  header that `adl_disk.h:35` and `adl_disk.c:877` ask for, or it was lost and is
  zero or missing, which the code does not report; nothing else reaches it.
  `ChainLeadsToFile`: when nothing fails, both FAT copies hold one chain and the
  data writes place its clusters alike, so that the FAT entries and the data are
  of one file; it is not where the boot sector says (section 5).
  `DirectorySurvives`: for a boot file of at most 28 KB in the code's layout.
* `CallsReachTheirImports`: the displacement patched from the discarded layout
  lands on the slot the loader fills with the function called, and nothing else
  is imported. `ReferencesReachTheirConstants`: the generator's prediction of
  `.rdata` is right. `ExceptionTableCoversText`, `ImageIsLoadable`: the tables of
  the second finalisation carry nothing over from the first.
* `OnlySoundSourcesReachTheDisk`, `ContractIsTheUnion`,
  `WeaversGetWhatWasCompiled`, `FailureLeavesNoImage`, `NoTemporaryRemains`: see
  the comments in `Driver`. The formats AETB and EXE do leave a partial output
  after a failure: `FailureLeavesNoImage` excludes them by name, `Toolchain` calls
  them `Careless`. `CommandsAreAtomic`: `Driver` implements `Toolchain`, so that a
  failure leaves every file but the output as it was, and a success is never that
  of an earlier command or of another file's embryo. That a success may leave a
  part is the code: no writer looks at what `fclose` returns.
* `ImagesReadBack`: a writer that reports success, of bytes that all arrived, has
  made an image whose headers lead to what they announce, for each format by the
  rules of its reader. `SuccessMeansWritten`: the two generators of boot images
  lose nothing behind a success. `RomReachesEntry`, `RomArrives`: the machine that
  resets into the ROM gets to the entry point, in the right mode, through bytes
  the image holds, and does get there.

### Bounds, and why they are enough

* String table: two strings share hash and length, a third shares only a bucket,
  a fourth is too short to be deduplicated. Capacity starts at 2 and the pool at
  8 bytes, so three entries force array growth, pool growth and a rebuild, each of
  which may fail. `MaxRefs` caps reference counts, which only a debug dump reads;
  `MaxEntries` is the longest history; after `Clear` ids are reused within it.
* Parser: `MaxSkip` and `MaxDecls` are the code's. Expressions have every
  operator under every operator, statements nest twice, every pair of
  declarations follows one another; the texts in no order have three tokens, or
  two behind an open block or an open generic. A text in which a silicon block
  holds a stray token is not among them, because it hangs (section 5).
* Segment: one byte of bitmap is four blocks, and `MaxIndex` is twice what the
  bitmap holds, as in the code, so the second guard is exercised. `Word` keeps the
  ratio of the real word to a segment: the 32-bit product does not wrap below a
  segment's 4 MB, and does not here. `MaxUsed` marks let a block die and a second
  one live and die.
* Code generator: `RegArgs` is 2 so that calls have 0, 1 and 2 stack arguments;
  `StackWords` is a bound no program reaches; `ByteMax` is 3, and no program's
  values leave a word. The programs are one for each agreement of passes: nested
  calls, nested loops with breaks, recursion and missing returns, gates, hardware
  blocks, a rejected declaration, dropped functions, an EXE without an entry, an
  entry at offset 0, structures (nested, packed, by pointer, initialised), arrays
  (of each width, in structures, indexed by pointer). Programs on which the code is
  known to disagree with the source are left out and listed in section 5.
* Image: the ESP has room for six clusters and the FAT for eight entries, the
  files have 0 to 9 clusters, so files fit, fill and overrun both; the sizes lie
  on both sides of every structure. Two writes may fail: one that is lost and one
  that follows from where it leaves the file, or one in each of two stages. The
  buffer of stdio is taken to be a cluster (4096 bytes, as glibc's is on a file
  system with blocks of that size): the zeros of a FAT leave it in eights, the
  data of a cluster passes it. A write that fails leaves nothing behind.
* Weaver: the sizes of code, state and constants lie below, at and above a page
  and a sector; a program calls any choice of four functions of two libraries
  from three sites, with at most two functions per library, so that the limit
  is met. The size constants are the code's own.
* Driver: a single file to every format in both modes; two files of every sound
  kind and one unsound; an embryo and what is woven from it, flat or framed, with
  and without an entry; a second compilation over an earlier output. The limits on
  imports keep the order of the code's (256 per file, 128 merged, 128 in the gene
  table). The embryo is cut at every byte. Sizes of the headers are small, and
  differ so that a wrong offset is seen.
* Containers: zones that are empty, odd, at and beyond a page; entry points at
  both ends and outside; Mach-O images around the capacity of the output buffer;
  identifiers around each length of a DER length; ROMs around one window, in three
  modes. All numbers are the code's; the bound of 4 GB on a ROM is counted in
  windows of 64 KB, as TLC's integers have 32 bits, and a size of zero is taken for
  the default the code puts in its place. Any write may fail, and what
  is buffered may be lost at the close.

`CHECK_DEADLOCK FALSE` appears where the caller simply stops calling (string
table, segment), where the branch has ended (weaver), where a session is over
(driver), where the program is parsed (parser) and where an image is written or a
machine has arrived (containers). The image and the code generator stutter
explicitly in their final states, so a stop anywhere else is reported.

### Fairness

`CodegenX64` assumes `WF_vars(Execute)` and `Containers` `WF_vars(Running)`: the
processor executes the next instruction. `Finishes` and `RomArrives` need nothing
more. The other specifications state none, and only safety is claimed of them:
the callers are free to stop. That the parser ends is stated as safety
(`NeverSpins`, `EveryIterationAdvances`).

## 4. What is proved

| theorem | says | inductive argument |
|---|---|---|
| `StringTableProofs!TypeCorrect` | well-formed state | |
| `ChainsAlwaysSound`, `StringsNeverOverlap` | `ChainsSound`, `PoolDisjoint`, whatever fails and moves | `IInv == TypeOK /\ ChainsSound /\ PoolDisjoint` |
| `IdsAreStable` | `IssuedIdsResolve`, whichever allocations fail, while the pool has not moved | `IInv` with `IssuedIdsResolve` itself |
| `OneIdPerString` | `Interned` | every live deduplicated entry is in its chain unless it is lost, so a search that misses proves absence |
| `TableImplementsInterner` | `KeepsThePromise`: every step of the table is a step of `Interner` or a stutter | the invariants above; one case per action under the mapping `Granted` |
| `NothingLostWithoutFailures` | no entry is lost when no allocation fails | follows from the rebuild alone |
| `AefsSegmentProofs!SegmentTypeCorrect` | no store outside the bitmap, counters in their word | |
| `DeadBytesOnlyFromLive` | `OnlyDyingBlocksCountDead` | follows from the step alone, for any state |
| `BytesAlwaysMatch` | `BytesMatchBitmap` | `SizesKnown`: a block in use has a size; the sum of the sizes over a set that gains or loses one block moves by that block, and no sum reaches the 32-bit word |
| `PriorityAlwaysOrders` | `PriorityOrdersSegments` | a summary that is fresh holds `PrioOf` of its live and dead bytes; then arithmetic on quotients |
| `AdlImageProofs!ImageTypeCorrect` | state and writes within bounds | products bounded by monotonicity |
| `MetadataAlwaysSurvives` | `MetadataSurvives` | `Metadata`: which write each stage holds back, and that a structure is in place from the stage after; the ESP writes touch only sectors of the ESP or past the pool's start |
| `ChainAlwaysLeadsToFile` | `ChainLeadsToFile` | `File`, over the disk with the held write on it: entries and clusters up to `step` are linked and stored, later ones free |
| `BackupAlwaysOrNothing` | `BackupOrNothing` | `Size`: before the end the last sector is zero and what is held ends before it; `Metadata` for the copy |
| `DirectoryAlwaysSurvives` | `DirectorySurvives` | `Directory`: the clusters of a short file end before the root directory |
| `DriverProofs!ResultTellsTheTree` | flags, level, imports, traps and errors of `SemanticChecker_Analyze` are what the nodes ask for | `Says`, by induction over the nodes walked (`WalkSummarises`): the fold over the first nodes says exactly what those nodes ask for |
| `TemporaryAlwaysRemoved`, `SuccessIsAlwaysOfThisRun`, `FailureNeverLeavesAnImage` | `NoTemporaryRemains`, `FailureLeavesNoImage`, and that an output a success stands for was written by that command, for sessions of any length | `IInv`: the temporary file exists only before `assembler` and `wrap`, the output is untouched until a command ends |
| `CommandsAreAlwaysAtomic` | `CommandsAreAtomic`: every step of the driver is a step of `Toolchain` or a stutter | `CInv /\ Underway`, below; one case per action under the mapping `Outside` |
| `DriverTypeCorrect` | `TypeOK` | the status follows `pc`, the merged table its bound |
| `OnlySoundSourcesEverReachTheDisk`, `ContractIsAlwaysTheUnion`, `WeaversAlwaysGetWhatWasCompiled` | what images and embryos hold, in every session | `CInv == IInv /\ Gathered /\ OnDisk`, below |
| `ExeWeaverProofs!ExeTypeCorrect` | the tables keep their limits | `IInv`, below |
| `WrittenImagesAreLoadable` | `ImageIsLoadable` | `IInv`: the image is a final context, whose sections a sum of sizes places |
| `CodeIsAlwaysCovered` | `ExceptionTableCoversText` | the records of a final context lie one behind another |
| `ReferencesAlwaysReach` | `ReferencesReachTheirConstants` | the prediction of the code generator is the sum over the sections in front |
| `CallsAlwaysReach` | `CallsReachTheirImports` | `CallsOK`, below |
| `ContainersProofs!BootWritersReportLoss` | `SuccessMeansWritten` | `WInv`: a plan whose every step is watched leaves status 0 only with the whole image on the disk |
| `RomAlwaysReachesEntry` | `RomReachesEntry` | `RInv`, below |
| `RomNeverFaults`, `RomOnlyMovesForward` | `NeverFaults`: the machine can carry out each instruction of the trampoline it comes to; `MovesForward`: it never turns back inside it | `RInv` |
| `ImageProofs!SuccessfulImagesReadBack` | `ImagesReadBack`, all twenty kinds of images | `IInv /\ RInv`, below |

They hold for every value of the constants that satisfies the module's
assumptions:

* `ConstantsAssumption` of the string table (types, an initial capacity and pool
  of at least one);
* `SegmentAssumption` and `BlockSizeAssumption` of the segment: no block is larger
  than `AEFS_BLOCK_SIZE` (4096, `toolsC/include/aefs.h:59`), and a hundred times a
  full segment is below the word, as 100 * 2048 * 4096 is below 2^32;
* `LayoutAssumption` and `InputAssumption` of the disk image (the structures are in
  the order of the code's constants, the ESP ends before the pool, the model's
  sectors are enough for the inputs). The layout of the code, 262,144 sectors of
  ESP and any boot file, is an instance TLC could not enumerate;
* `SourcesAssumption`, `SessionsAssumption` and `ImportLimitsAssumption` of the
  driver: files are well formed, a session is a sequence of well-formed commands
  that do not write to the temporary file, and the merged import table is no longer
  than that of an embryo (both 128: `aethelc_main.c:1832`, `let_gen.c:29`);
  `LetSizesAssumption` of the embryo: its structures have a size;
* `SpecsAssumption`, `ProgramsAssumption` and `LimitsAssumption` of the weaver: the
  import table has no entry twice (`aethelc_main.c:168-224` has none), strings have
  a length, a program has code and is smaller than the smallest of the markers it
  is searched for (some 300 MB), and the limits are positive;
* `JobsAssumption` of the containers: the sizes of zones, the counts and the entry
  points are unsigned numbers; the places an EFI entry is looked for at are numbers;
  the import markers a driver's code holds are in order and do not overlap, as the
  scan goes on behind the one it has patched (`wsys_gen.c:341-376`). It bounds nothing:
  the proofs hold for sizes TLC could not enumerate. `HostAssumption` names the three
  systems.

### The arguments

The properties themselves are seldom inductive. `ChainsSound` needs the type
invariant for the bucket index; `Interned` says nothing about the chains, but a
new id for an old string is created exactly when the search missed it, so the
proof carries completeness of the chains along; `ChainLeadsToFile` speaks of the
end of the run only and becomes an invariant of the stages before it, about the
disk as it will be once the held write has landed.

**Driver.** `Gathered` says, for each `pc`, what the running command has: the merged
tree is the concatenation of the files read so far, each accepted by
lexer, parser and checker; the merged contract is the union of theirs; the zones
are those of that tree. Both are folds, and adding a file is one step of the
fold. `OnDisk` says that every file is honest whatever its history: an embryo is
whole or cut, and a cut one is refused because a range of it passes its end; an
image is one a compilation or a weaving of a sound embryo has made.
For the refinement `Underway` adds whose work a command carries on: one at
`assembler` compiles a single file to BIN, and the embryo in the temporary file
at `wrap` is of this command's sources in this command's mode, so that what is
woven from it may be called the command's own. A step that goes on changes
no file the caller sees (`Unseen`); one that ends the command changes the output
alone (`SeenToLeave`), to what `Toolchain` allows of a failure (`SeenToFail`) or of a
success (`SeenToCompile`).

**EXE weaver.** `Finalize` runs twice, and its second run meets slots, addresses and
words the first has left. `Shape` says which sections a context has, `Stage` what a
step of `Finalize` leaves alone, `Final` what a finalized context is; `IInv` follows
the context through them and keeps of the written image that it is final. The
addresses are sums over the sections in front, by which sections and payloads
lie one behind another. For the calls, `CallsOK` adds that each called
specification is registered once and nothing else is (`Registered`), that directories,
lookup tables, address tables and names of a finalized context point at one another
(`Linked`), that every call site holds the slot of its function (`SitesPatched`), and
that the file is written from such a context (`WrittenFrom`). `CallsReachTheirImports`
walks the mapped image as a loader does, descriptor by descriptor and thunk by thunk
until a null; the proof shows that the bytes it reads are those of the import data
(`InMemory`), that the lists end where the tables do (`ListsCounted`), and that it binds
as many slots as functions are called (`AsManySlots`).

**ROM.** `RInv` has two halves. While the image is written, what the file holds and
what the writes still to come will put there make, together, the parts of the final
image (`Making`), as long as nothing was lost; the padding, the header, the zones, the
trampoline and the reset vector overlap one another in none of the bytes the machine
reads, which follows from the sizes `RomAccepted` lets pass (`AcceptedFits`,
`FinalBytes`). Once it runs, the machine is at the reset vector, at instruction `k` of
the trampoline with the segments, tables and mode the instructions in front of `k` have
made (`Underway`), or out of it at the entry point (`Left`). Where an instruction
lies is a sum over the instructions in front of it (`Places`, from `DataInduction`),
and each lemma of one instruction (`RealProtect`, `FarJumpsLong`, `LoadsCR3`, ...)
says what the processor does with it where it lies: the descriptors and the page
tables it needs are at the addresses the trampoline computes from its own length. That
the machine gets to the entry point at all is `RomArrives`, which needs fairness and
stays with TLC; `RomNeverFaults` and `RomOnlyMovesForward` are its safety part.

**Images.** `ImagesReadBack` speaks of a finished file only. `IInv` says of the file in
the making that it is the concatenation of the first `k` writes of the plan, `todo` being
the others, unless something was lost (`InProgress`), and of a writer that has returned
0 that its file is the concatenation of all of them (`ImageOf`); of an IM4P container it
keeps the same of the Mach-O file read back for it. Most of the proof is then about
files without any writer: `ContainersProofs` begins with what copies do to byte ranges.
`Intact(f, at, n, what, from)` says that `n` bytes of `f` hold what `what` holds from
`from` on, whichever copies made them so; a copy leaves intact what it does not touch
(`OverKeeps`, `OverPuts`), copies that do not touch one another are all intact
in the end (`OverlaidIs`), and a piece of a concatenation is intact where the sizes in
front of it add up to (`ConcatIs`). From these, each format has a lemma that the image
of its plan is what its reader looks for: sections in a row for `binary_format.c` and
`aetb_gen.c`; the sixteen-byte grid of the assembly weavers, where the nexus computed
apart from the header must agree with it; sections aligned once in the file and once in
memory, so that an address a loader computes is where the section was copied
(`AddressIs`, `PartIsLoaded`); nested DER lengths for IM4P. A driver takes most: its
imports are listed once each and each that is called is (`ListedOf`, `Lists`), its
section of imports is a concatenation of seven parts, two of them
concatenations of one piece per import, and its code is patched at places that do not
overlap with the addresses that section gets only afterwards. Firmware is written in
passes over a blank image and not appended; there `RInv` gives the parts, and what
remains is to read its zones from them (`Whole`, `RomParts`).

**Induction over data.** Sums over a set or the first elements of a sequence,
concatenations and the checker's walk are folds. `DataInduction` derives induction
over a set of numbers from the well-foundedness of the naturals, and from it the
facts about `SumFunctionOnSet` and `FlattenSeq` that `AefsSegmentProofs`,
`ContainersProofs`, `ExeWeaverProofs` and `DriverProofs` use: a predicate becomes the
set of the numbers it holds of.

### Only model-checked

* The code generator (`ComputesSource`, `FrameDiscipline`, `ControlStaysInside` and
  its types) and the parser (`TreeIsTheSource`, `NeverSpins` and its types): both
  recurse over the syntax of a program, and their modules declare RECURSIVE
  operators or use `Bitwise`, which the prover does not take.
* Liveness: `Finishes`, `RomArrives`; and `EveryIterationAdvances`, an action
  property of the parser.

## 5. Findings

Each is a run whose single property is a sentence of the repository:

* `codegen_iretq`: a return in an interrupt gate is an ordinary `leave; ret`
  (`aec_codegen.c:9287`), and because of it the final `iretq` is not emitted
  either; the manual promises `iretq`.
* `driver_rom`: every embryo carries the entry 0x100000 (`let_gen.c:238`), which
  the ROM writer refuses as outside the code unless `--bin-entry` is given.
* `parser_generic`: the second `>` of a `>>` is not replayed to a type list that
  continues (`aec_parser.c:4110`; the comment is at line 82): a parameter after
  `vector<T,vector<UInt8>>` becomes one more type argument.
* `containers_aki`: the padding behind the state zone of a kernel image is counted
  from `r11` after a system call has replaced it (`binary_weaver.asm:538`), so
  constants and nexus lie elsewhere than the header of lines 177-178 says.

### Observed divergences

Seen while modelling. They have no run: the model has the behaviour and the inputs
that show it are left out of the instances, or the code lies outside the model.

Code generator (`aec_codegen.c`), typed data:

* a struct used before its declaration is laid out as eight bytes, so its fields
  overlap what follows (2395-2458, 9820); copies and arguments of structures move
  eight bytes;
* `s\p[i]` with a pointer field indexes the bytes of the field (3001-3024);
  indexing a global pointer uses the address of the global (2767); `&global` is 0;
* `arr[i]\f` and fields of global structures read 0 and their stores are dropped
  (2669-2729); the store `p\a\b[i] = v` pushes its value and never pops it
  (8328-8330); a store to a field that is not found evaluates its right side twice,
  as does `a[i] = f()` in a hardware block;
* the access path of `(a\next as ptr<B>)\y` is kept in one static buffer
  (2655, 2697-2708);
* narrow locals are not truncated, nor are casts to the short type names
  (7203-7214).

Code generator, the rest:

* a global with a constant initialiser is read as its initialiser after an
  assignment (7102); the manual calls `var` mutable (line 96);
* locals declared in metal, for, match, guard and defer bodies lie outside the
  reserved frame (3745); match, switch, for, guard and defer emit no code; gates
  without a frame still address locals through `rbp`;
* an entry at offset 0 is taken for no entry and replaced by a function named
  `rom` or `entry` (10102), and `--entry` yields to an `@entry` of another name; a
  function used as a value before it is emitted is 0 (7124).

Parser (`aec_parser.c`):

* a stray token in a silicon block makes `parse_silicon_block` loop for ever
  (803-910), the documented `pipeline\barrier` (614-617) among them;
* the ternary operator, case labels and dictionary literals never parse, because
  the postfix loop takes their `:` (2679; comments at 1753, 3228, 4812);
* comparisons after a member or a type (`a\m < b`, `a as T < b`) are taken for
  generic arguments; `while (a) && (b)` ends its condition early; `{}` after an
  identifier is a struct literal (2826-2842); the operator of a compound
  assignment is dropped (3209);
* the array of 100 declarations is guarded for variables only (5339), elsewhere by
  what the callers append;
* after a stray `}` recovery skips up to 500 tokens without a message; the unix
  strike of `->` makes syntax and match declarations unparseable; `Rimport` is no
  keyword; `a / b` is a path, and identifiers swallow `/` and `-`.

Containers:

* `macho_weaver.h` puts `max_prot` before `init_prot`, the writer the reverse
  (393-414); the thread state is announced as 288 bytes and has 272; its entry
  point is never set;
* `aki_gen.c` takes the identity count for a size in bytes where a LET embryo is
  woven; the genesis point of a kernel image is always 0x100000;
* the header checksums are of three kinds, and that of an AETB file satisfies
  neither of its validators; the nonce and key of an identifier are not those its
  reader uses (`format_common.c:284-398`);
* on macOS the SRV, HDA and AETB weavers succeed for mirror sizes 0, 514 and 518
  only; the flat BIN weaver compares with a cleared register and always falls back
  to C; the system calls of Linux are not in the tree, and the second write on
  Windows fails; BIN drops the state and the constants;
* `wsys_gen.c:564` checks neither its writes nor its close; the entry of an EFI
  image is guessed by a pattern that another function may match (`pe_gen.c:211-228`).

The rest:

* a rebuild that cannot allocate leaves `hash_table` null and the same add
  dereferences it (`ast_string_table.c:500`; the message at 486-487 says
  performance may degrade);
* the root directory is written to cluster 10 while the boot sector and the comment
  at `adl_disk.c:428` say 2 (`adl_disk.c:529`); `aefs_pool_size` underflows for
  images of up to 128 MB (852);
* the boot sector announces 64 sectors for a FAT (423-424), all writers use 512; its
  struct is not packed (`adl_disk.h:197-229`), so the compiler puts
  `bytes_per_sector` at offset 12 instead of 11, `sectors_per_fat_32` at 40 instead
  of 36 and the signature at 516, behind the 512 bytes that are written: a reader of
  FAT32 that goes by it finds neither the second FAT nor the data;
* the last sector is asked for twice: `adl_disk.h:35` and the comment at
  `adl_disk.c:877` want the copy of the ADL header there, which is written, while
  the GPT header names it as its alternate (`adl_disk.c:306`); the backup of the
  shadow GPT that `adl_disk.h:34` puts 33 sectors before the end is never written;
* a partition table lost at the first seek of the ESP (548) is reported as an
  incomplete ESP (862), a header copy lost at the end (889, 902) not at all, and
  both runs return 0;
* the relocation scan of `let_gen.c:98` may take an operand byte for a branch; the
  exit code 1010 is truncated to 242 by the system; the quick-launch descriptor of
  an executable is overwritten by the PE signature; `syntax` is accepted in every
  mode and the children of an expression statement are not analysed
  (`semantic_checker.c`);
* `--emit` after `--rom` changes the format and keeps `rom_mode`; options that lack
  their argument at the end of the line are ignored (`aethelc_main.c`).

## 6. Assumptions and what is left out

* No component recovers anything at a restart, so a crash of the process between
  two steps is not modelled. A write that is lost at `fclose` is: by the image of
  `Containers` and by the driver.
* `Driver` takes for granted that `waitpid` returns the forked assembler (SIGCHLD
  is not ignored), that paths of input, output and temporary files differ, and that
  a container weaver either writes its input or fails; `Containers` is where that
  is looked at. The command line, AECF files, `--verify-let-contract` and
  `--dump-reloc-dna` are left out; import resolution only warns.
* `Containers` runs with the system calls of macOS, which
  the Makefile links the assembly weavers with everywhere but on Windows; `Host`
  selects the others.
* `CodegenX64` leaves out slices and pbit blocks, print, host calls, register
  aliases, callback thunks, hardware instructions, globals named by a path, and the
  16-bit, 32-bit and AArch64 targets. The textual emitter in the same file
  (about 110-1680) is never called by `codegen_generate`. Words do not overflow.
* `ExeWeaver` takes the machine code as words with holes; the stubs of portal
  and GUI are bytes.
* `Parser` leaves out the release of trees and messages; a failing allocation ends
  the process or the parse and is not modelled there.
* `AdlImage` takes one file system's buffer (section 3) and writes that fail whole.
  Of the headers it keeps the FAT size the boot sector announces, no other field.
* `LetEmbryo` takes the names of imports as they are: the code cuts them at 63
  characters (`let_gen.c:154`). The `.map` file beside a flat binary that is woven
  from an embryo is left out; its failure is a message.
* `Lexer`: in `Driver` a strike of the lexer ends the command with the strike's
  code, a lexical error with 1; which names strike is data of the file.
* Checksums and identifiers are tags: which algorithm covered what. Formatting,
  logging, signing and time stamps are left out everywhere.

Not modelled, with the reason:

* preprocessor: a scan for forbidden includes, whose verdict is a defect of a file
  in `Driver`; string table integration: never called; import resolver: warnings;
* encoders, printing, executable stubs, hardware and silicon tables: functions
  from operands to bytes or tables without state;
* AEFS metadata (volume tags, directories, log entries, descriptors): each is a
  function that fills one structure, and only sources the Makefile does not build
  call them;
* the sources the Makefile does not build (`adl_iso_builder*.c`,
  `aefs_iso_gen*.c`, `syntax_mapper.c`, `silicon_semantics_codegen_bin.c`).

## 7. Plan

1. **parse_args**, where the order of options matters, and the AEFS metadata
   (volume tags, directories, the log), which widen what is modelled.

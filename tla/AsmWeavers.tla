----------------------------- MODULE AsmWeavers -----------------------------
(***************************************************************************)
(* The weavers written in assembly (toolsASM, binary_weaver.asm) and the   *)
(* kernel image generator that prepares their input (formats/aki).         *)
(*                                                                         *)
(* They write through system calls of their own, so what they write        *)
(* depends on the host.  On x86-64 the syscall instruction leaves the      *)
(* flags in r11; the weavers keep sizes in r11 across it.  The Windows     *)
(* glue keeps the handle in r8, which no API call preserves, and on Linux  *)
(* the call numbers, those of Darwin, name no call.                        *)
(***************************************************************************)
EXTENDS ZoneImages

CONSTANT Host
ASSUME HostAssumption == Host \in {"darwin", "windows", "linux"}

Align16(value) == AlignUp(value, 16)

-----------------------------------------------------------------------------
(* aki_generate_image: the three buffers and the nexus. *)

TRUTH_BASE == 68 + 4 * 72
AETHELA_BASE == 20 + 3 * 72
MANIFESTS == 75 + 78 + 77
NEXUS_SIZE == 16 + 8 * 72

AtLeast(minimum, size) == IF size < minimum THEN minimum ELSE size

ExpandedCode(z) ==
    Concatenated(<<Piece("code", z.code), Piece("nops", AtLeast(1024, z.code) - z.code)>>)

TruthStatic(z) ==
    LET size == AtLeast(512, TRUTH_BASE + z.mirror)
    IN  Overlay(Overlay(Blank(size, "zeros"), 0, Piece("dictionary", TRUTH_BASE)),
                TRUTH_BASE, Piece("mirror", z.mirror))

AethelaLogic(z) ==
    LET used == AETHELA_BASE + MANIFESTS
        engine == Concatenated(<<Piece("engine", AETHELA_BASE), Piece("manifests", MANIFESTS)>>)
    IN  Overlay(Overlay(Blank(AtLeast(2048, used + z.truth), "zeros"), 0, engine),
                used, Piece("truth", z.truth))

(* The offsets the generator writes into the entries of the nexus, worked  *)
(* out before the weaver works out those of the header.                    *)
NexusEntries_Unaligned(z) ==
    LET act == HEADER_SIZE
        truth == act + ExpandedCode(z).size
        aethela == Align16(truth + TruthStatic(z).size)
    IN  [act |-> Zone(act, ExpandedCode(z).size), truth |-> Zone(truth, TruthStatic(z).size),
         aethela |-> Zone(aethela, AethelaLogic(z).size),
         nexus |-> Zone(Align16(aethela + AethelaLogic(z).size), NEXUS_SIZE)]
NexusEntries(z) ==
    LET act == HEADER_SIZE
        truth == Align16(act + ExpandedCode(z).size)
        aethela == Align16(truth + TruthStatic(z).size)
    IN  [act |-> Zone(act, ExpandedCode(z).size), truth |-> Zone(truth, TruthStatic(z).size),
         aethela |-> Zone(aethela, AethelaLogic(z).size),
         nexus |-> Zone(Align16(aethela + AethelaLogic(z).size), NEXUS_SIZE)]

(* What a weaver is given: three buffers, a table of identities with the   *)
(* count that goes with it, and the number of relocations.                 *)
KernelInput(z) ==
    [act |-> ExpandedCode(z), mirror |-> TruthStatic(z), truth |-> AethelaLogic(z),
     identities |-> NEXUS_SIZE, relocs |-> 0]

\* let_weave_to_target: the zones of the embryo as they are.
EmbryoInput(z) ==
    [act |-> Piece("code", z.code), mirror |-> Piece("mirror", z.mirror),
     truth |-> Piece("truth", z.truth), identities |-> z.symbols, relocs |-> z.relocs]

-----------------------------------------------------------------------------
(* The host under the weavers. *)

\* The flags after "test size, size" of a size above zero, as syscall leaves them.
EvenParity(byte) == Cardinality({i \in 0 .. 7 : (byte \div 2 ^ i) % 2 = 1}) % 2 = 0
FlagsAfterTest(size) == 512 + 2 + IF EvenParity(size % 256) THEN 4 ELSE 0

\* What is left of a size in r11 once the zone has been written.
SizeAfterWrite(size) == IF Host = "darwin" THEN FlagsAfterTest(size) ELSE size

Padding(size) == Piece("padding", Align16(size) - size)
PaddingFor(size) == Write(IF size = 0 THEN EmptyFile ELSE Padding(size))

\* On Windows only the first write has a handle; on Linux there is no open.
OnHost(plan) ==
    [plan EXCEPT !.opens = Host # "linux",
                 !.errnoIsHandle = Host = "darwin",
                 !.writes = [i \in DOMAIN @ |->
                               [@[i] EXCEPT !.reaches = Host # "windows" \/ i = 1]]]

-----------------------------------------------------------------------------
(* _weave_aki_structure: zones aligned to 16 bytes, padded in between.     *)
(* Whatever the entry point, the header says 1 MB.                         *)

AkiZones(in) ==
    LET truth == HEADER_SIZE + Align16(in.act.size)
        aethela == Align16(truth + in.mirror.size)
    IN  [act |-> Zone(HEADER_SIZE, in.act.size), truth |-> Zone(truth, in.mirror.size),
         aethela |-> Zone(aethela, in.truth.size),
         nexus |-> IF in.identities = 0 THEN NoZone
                   ELSE Zone(Align16(aethela + in.truth.size), in.identities)]

AkiWrites(in) ==
    LET afterMirror == IF in.mirror.size = 0 THEN 0 ELSE SizeAfterWrite(in.mirror.size)
        afterTruth == IF in.truth.size = 0 \/ in.identities = 0 THEN 0 ELSE SizeAfterWrite(in.truth.size)
    IN  <<Checked("header", HEADER_SIZE), Write(in.act), PaddingFor(in.act.size),
          Write(in.mirror), PaddingFor(afterMirror), Write(in.truth), PaddingFor(afterTruth),
          Checked("nexus", in.identities)>>

AsmPlan(magic, in, zones, writes) ==
    OnHost(Plan(in.act.size > 0,
                Sealed([HeaderInit(magic, [sip |-> 0]) EXCEPT !.id = "given", !.zones = zones],
                       "damaged table"),
                writes, TRUE))

AkiPlan(in) == AsmPlan("AKI!", in, AkiZones(in), AkiWrites(in))

-----------------------------------------------------------------------------
(* HDA, SRV and AETB: code, state, and what the format makes of the rest,  *)
(* back to back.  The write of the state is compared with r11.             *)

MirrorWrite(in) == [Write(in.mirror) EXCEPT !.count = SizeAfterWrite(in.mirror.size)]
CodeAndState(in) == <<Checked("header", HEADER_SIZE), Write(in.act), MirrorWrite(in)>>

AsmActZone(in) == Zone(HEADER_SIZE, in.act.size)
AsmMirrorZone(in) == Zone(HEADER_SIZE + in.act.size, in.mirror.size)
AfterMirror(in) == HEADER_SIZE + in.act.size + in.mirror.size

\* The constants are not written.
AsmHdaPlan(in) ==
    AsmPlan("HDA!", in, [act |-> AsmActZone(in), mirror |-> AsmMirrorZone(in)], CodeAndState(in))

AsmSrvPlan(in) ==
    AsmPlan("SRV!", in, [act |-> AsmActZone(in), mirror |-> AsmMirrorZone(in),
                         schema |-> Zone(AfterMirror(in), in.truth.size)],
            CodeAndState(in) \o <<Write(in.truth)>>)

\* The constants are written where the header has the relocations and the imports.
AsmAetbPlan(in) ==
    AsmPlan("AETB", in, [act |-> AsmActZone(in), mirror |-> AsmMirrorZone(in),
                         reloc |-> Zone(AfterMirror(in), in.relocs * 16),
                         imports |-> Zone(AfterMirror(in) + in.relocs * 16, in.identities * 80)],
            CodeAndState(in) \o <<Write(in.truth)>>)

-----------------------------------------------------------------------------
(* _weave_bin_structure and its fallback in C.  A flat binary is the code  *)
(* from the entry on; the count it is compared with is in rdx, where the   *)
(* kernel of Darwin returns zero.                                          *)

CodeFrom(z, entry) == Piece(IF entry = 0 THEN "code" ELSE "code from the entry", z.code - entry)
FramedWrites(z) == <<Checked("header", 64), Checked("code", z.code)>>

BinPlan(z, entry, flat) ==
    OnHost(Plan(z.code > 0 /\ entry < z.code, HeaderInit("BIN!", [entry |-> entry]),
                IF flat THEN <<[Write(CodeFrom(z, entry)) EXCEPT
                                   !.count = IF Host = "darwin" THEN 0 ELSE @]>>
                ELSE FramedWrites(z),
                TRUE))

\* write_bin_fallback: also for no code at all, and for an entry at the end.
BinFallbackPlan(z, entry, flat) ==
    Plan(entry < z.code \/ (entry = z.code /\ (~flat \/ z.code = 0)),
         HeaderInit("BIN!", [entry |-> entry]),
         IF flat THEN <<Write(CodeFrom(z, entry))>> ELSE FramedWrites(z), FALSE)
=============================================================================

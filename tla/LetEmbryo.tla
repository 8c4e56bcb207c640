----------------------------- MODULE LetEmbryo -----------------------------
(***************************************************************************)
(* The LET embryo: the file between the compiler and the weavers, written  *)
(* by formats/let/let_gen.c and read back by let_weaver_bridge.c.          *)
(*                                                                         *)
(* A file is its bytes; what the header and the gene table say is kept     *)
(* beside them, and a reader may look at either only when the bytes that   *)
(* hold it are there.  A byte is a value that tells where it came from.    *)
(***************************************************************************)
EXTENDS Integers, Sequences, FiniteSets

CONSTANTS
    HeaderSize,     \* LET_HEADER_SIZE
    GeneSize,       \* sizeof(LetGeneTableHeader)
    RelocSize,      \* sizeof(LetRelocDNAEntry)
    IdentitySize,   \* sizeof(LetIdentityNexusEntry)
    MaxIdentities   \* LET_MAX_IMPORTS

ASSUME LetSizesAssumption ==
    /\ HeaderSize \in Nat \ {0} /\ GeneSize \in Nat \ {0}
    /\ RelocSize \in Nat \ {0} /\ IdentitySize \in Nat \ {0}
    /\ MaxIdentities \in Nat

GENESIS_POINT == 1048576

(***************************************************************************)
(* collect_reloc_dna: a linear scan of the code for branches.  What is not *)
(* the first byte of one is stepped over one byte at a time, also when it  *)
(* is the first of a longer instruction, so the scan may take a byte of an *)
(* operand for a branch.  Bytes are told apart as far as the scan does.    *)
(***************************************************************************)
BranchLength(code, i) ==
    LET Has(n) == i + n - 1 <= Len(code) IN
    CASE code[i] \in {"E8", "E9"} /\ Has(5) -> 5
      [] code[i] = "EB" /\ Has(2) -> 2
      [] code[i] = "0F" /\ Has(6) /\ code[i + 1] = "8x" -> 6
      [] code[i] = "7x" /\ Has(2) -> 2
      [] OTHER -> 0

RelocDna(code) ==
    LET at[i \in 1 .. Len(code)] ==
            i = 1 \/ \E j \in 1 .. i - 1 :
                        at[j] /\ i = j + (IF BranchLength(code, j) = 0 THEN 1 ELSE BranchLength(code, j))
    IN  IF Len(code) < 5 THEN {} ELSE {i \in 1 .. Len(code) : at[i] /\ BranchLength(code, i) > 0}

-----------------------------------------------------------------------------
(* Writing. *)

Min2(a, b) == IF a <= b THEN a ELSE b

Fill(count, value) == [k \in 1 .. count |-> value]

(* The header: the constants have no field of their own, they are the gap  *)
(* between the state and the gene table.  The genesis point is a constant, *)
(* wherever the code begins.                                               *)
GeneOffset_NoConstants(zones) == HeaderSize + Len(zones.code) + Len(zones.state)
GeneOffset(zones) == HeaderSize + Len(zones.code) + Len(zones.state) + Len(zones.constants)

Header(zones, geneSize, contract) ==
    [logicOffset |-> HeaderSize,                   logicSize |-> Len(zones.code),
     stateOffset |-> HeaderSize + Len(zones.code), stateSize |-> Len(zones.state),
     geneOffset  |-> GeneOffset(zones),            geneSize  |-> geneSize,
     genesis     |-> GENESIS_POINT,                contract  |-> contract]

(* let_generate_image, when every write succeeds.  relocs is what the scan *)
(* returned: the branches it found, or none when it ran out of memory.     *)
LetImage(zones, semantic, relocs, contract) ==
    LET identities == SubSeq(semantic.imports, 1, Min2(Len(semantic.imports), MaxIdentities))
        gene == [relocs |-> relocs, identities |-> identities, traps |-> semantic.traps,
                 minSip |-> semantic.minSip, architect |-> semantic.architect,
                 metal |-> semantic.metal, rimport |-> semantic.rimport]
        geneSize == GeneSize + Cardinality(relocs) * RelocSize + Len(identities) * IdentitySize
    IN  [header |-> Header(zones, geneSize, contract),
         gene   |-> gene,
         bytes  |-> Fill(HeaderSize, "header") \o zones.code \o zones.state
                    \o zones.constants \o Fill(geneSize, "gene") \o Fill(2, "fingerprint")]

(* What is on the disk when the writes stop after n bytes. *)
Cut(let, n) == [let EXCEPT !.bytes = SubSeq(@, 1, n)]

-----------------------------------------------------------------------------
(* Reading. *)

InRange(let, offset, size) == offset + size <= Len(let.bytes)

(* parse_let_file: 0 exactly when every zone the header names is there and *)
(* the gene table holds the entries it counts.  The fingerprint is not     *)
(* looked at.                                                              *)
Parses_LogicOnly(let) ==
    /\ Len(let.bytes) >= HeaderSize
    /\ InRange(let, let.header.logicOffset, let.header.logicSize)
    /\ InRange(let, let.header.stateOffset, let.header.stateSize)
Parses(let) ==
    /\ Len(let.bytes) >= HeaderSize
    /\ InRange(let, let.header.logicOffset, let.header.logicSize)
    /\ InRange(let, let.header.stateOffset, let.header.stateSize)
    /\ InRange(let, let.header.geneOffset, let.header.geneSize)
    /\ let.header.geneSize >= GeneSize
    /\ GeneSize + Cardinality(let.gene.relocs) * RelocSize + Len(let.gene.identities) * IdentitySize
         <= let.header.geneSize

(* validate_contract_for_target. *)
ContractFits(contract) ==
    /\ contract.bits \in {16, 32, 64}
    /\ contract.relocWidth \in {8, 16, 32, 64}
    /\ contract.relocWidth <= contract.bits

(* Whatever lies behind the buffer is read when a zone is not all there.   *)
Zone(let, offset, size) ==
    [k \in 1 .. size |-> IF offset + k <= Len(let.bytes) THEN let.bytes[offset + k] ELSE "beyond"]

(* calc_sip_vector: the privileges the image may run with. *)
SipVector(gene) ==
    [levels |-> {level \in 1 .. 3 : gene.minSip <= level},
     architect |-> gene.architect, metal |-> gene.metal, rimport |-> gene.rimport]

(* What let_weave_to_target hands to a weaver. *)
WeaverInput(let) ==
    LET h == let.header
        stateEnd == h.stateOffset + h.stateSize
    IN  [code       |-> Zone(let, h.logicOffset, h.logicSize),
         state      |-> Zone(let, h.stateOffset, h.stateSize),
         constants  |-> IF stateEnd <= h.geneOffset THEN Zone(let, stateEnd, h.geneOffset - stateEnd)
                        ELSE <<>>,
         genesis    |-> h.genesis,
         relocs     |-> let.gene.relocs,
         identities |-> let.gene.identities,
         sip        |-> SipVector(let.gene),
         contract   |-> h.contract]

(***************************************************************************)
(* A flat or framed binary.  The assembly weaver refuses an entry past the *)
(* end; the writer in C that steps in when it fails accepts an entry at    *)
(* the end of the code, if the binary is framed.                           *)
(***************************************************************************)
AsmAccepts(input, entry) == Len(input.code) > 0 /\ entry < Len(input.code)

FallbackAccepts(input, entry, flat) ==
    entry < Len(input.code) \/ (entry = Len(input.code) /\ (~flat \/ input.code = <<>>))

\* rom_generate_image.
RomAccepts(input, entry) == entry <= Len(input.code)

Binary(input, entry, flat) ==
    [frame |-> ~flat, entry |-> IF flat THEN 0 ELSE entry,
     code |-> IF flat THEN SubSeq(input.code, entry + 1, Len(input.code)) ELSE input.code]
=============================================================================

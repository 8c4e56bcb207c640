---------------------------- MODULE AppleImages -----------------------------
(***************************************************************************)
(* The Mach-O writer (formats/macho) and the IM4P container around its     *)
(* output (formats/im4p), which the driver passes through a temporary      *)
(* file.                                                                   *)
(***************************************************************************)
EXTENDS ZoneImages

PAGE == 4096
MACHO_COMMANDS == 3 * 72 + 16 + 288
OUTPUT_CAPACITY == 1024 * 1024    \* never grown

PageUp(value) == AlignUp(value, PAGE)

(* macho_weaver_emit: three segments in the file and in memory, page by    *)
(* page; the thread starts where the code is, as no entry point is ever    *)
(* set.  The initial protection is written where readers of the format     *)
(* find the maximal one.                                                   *)
Segment(name, what, size, vm, file, init, max) ==
    [name |-> name, what |-> what, size |-> size, vm |-> vm, file |-> file,
     maxProt |-> init, initProt |-> max]

MachoSegments(z) ==
    LET text == PageUp(32 + MACHO_COMMANDS)
        data == PageUp(text + z.code)
    IN  <<Segment("__TEXT", "code", z.code, 0, text, {"r", "x"}, {"r", "w", "x"}),
          Segment("__DATA", "mirror", z.mirror, PageUp(z.code), data, {"r", "w"}, {"r", "w", "x"}),
          Segment("__RODATA", "truth", z.truth, PageUp(z.code) + PageUp(z.mirror),
                  PageUp(data + z.mirror), {"r"}, {"r", "w"})>>

\* Filled from the front: zeros up to each segment, then its data.
MachoBuffer(z) ==
    LET segments == MachoSegments(z)
        end(i) == IF i = 0 THEN 32 + MACHO_COMMANDS ELSE segments[i].file + segments[i].size
        zeros(i) == Piece("zeros", segments[i].file - end(i - 1))
        data(i) == Piece(segments[i].what, segments[i].size)
    IN  Concatenated(<<Piece("header", 32), Piece("commands", MACHO_COMMANDS),
                       zeros(1), data(1), zeros(2), data(2), zeros(3), data(3)>>)

\* macho_generate_image
MachoPlan(z, base) ==
    Plan(/\ z.code > 0
         /\ base % PAGE = 0
         /\ MachoBuffer(z).size <= OUTPUT_CAPACITY,
         [segments |-> MachoSegments(z), pc |-> 0], <<Write(MachoBuffer(z))>>, FALSE)

-----------------------------------------------------------------------------
(* DER: a node is a leaf with its data or a sequence of nodes. *)

Leaf(piece) == [piece |-> piece, children |-> <<>>]
Tree(children) == [piece |-> EmptyFile, children |-> children]

\* der_length_encoded_size, for the sizes of this model
LengthSize(n) == IF n <= 127 THEN 1 ELSE IF n <= 255 THEN 2 ELSE IF n <= 65535 THEN 3 ELSE 4
TagAndLength(what, n) == Piece(what, 1 + LengthSize(n))

LeafCode(node) == Concatenated(<<TagAndLength("tag", node.piece.size), node.piece>>)
Contents(node) == Concatenated([i \in DOMAIN node.children |-> LeafCode(node.children[i])])

(* der_node_encode of a sequence: nine bytes are left for the length, the  *)
(* children follow, the length is put in and the children move down to it. *)
RESERVED == 9
SequenceCode_Unmoved(node) ==
    LET contents == Contents(node)
    IN  Concatenated(<<Piece("tag", 1 + RESERVED), contents>>)
SequenceCode(node) ==
    LET contents == Contents(node)
        moved == 1 + RESERVED - (RESERVED - LengthSize(contents.size))
    IN  Overlay([size |-> moved + contents.size, parts |-> TagAndLength("tag", contents.size).parts],
                moved, contents)

\* While it is encoded, a sequence takes the nine bytes.
EncodingRoom(node) == 1 + RESERVED + Contents(node).size

(* im4p_generate.  The identifier and the description are their lengths;   *)
(* the description is cut at 255.                                          *)
DescriptionSize(identifier) ==
    LET full == 47 + identifier IN IF full > 255 THEN 255 ELSE full

Im4pTree(macho, identifier) ==
    Tree(<<Leaf(Piece("IM4P", 4)), Leaf(Piece("identifier", identifier)),
           Leaf(Piece("description", DescriptionSize(identifier))), Leaf(macho)>>)

Im4pPlan(macho, identifier) ==
    Plan(/\ macho.size > 0
         /\ identifier \in 1 .. 256
         /\ EncodingRoom(Im4pTree(macho, identifier)) <= 1024 + macho.size + 10240,
         [f \in {} |-> 0], <<Write(SequenceCode(Im4pTree(macho, identifier)))>>, FALSE)

(* A reader walks by the lengths: past the tag of the sequence and past    *)
(* three nodes, and takes the value of the fourth.                         *)
Im4pPayloadAt(size, identifier) ==
    LET leaf(n) == 1 + LengthSize(n) + n
        strings == leaf(4) + leaf(identifier) + leaf(DescriptionSize(identifier))
        contents == strings + leaf(size)
    IN  1 + LengthSize(contents) + strings + 1 + LengthSize(size)
=============================================================================

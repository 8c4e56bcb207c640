----------------------------- MODULE BinaryFile -----------------------------
(***************************************************************************)
(* Byte ranges with a history: the buffers and files the image writers of  *)
(* the compiler fill.  A file is its size and the sequence of the copies   *)
(* made into it, each with its place, its size and a tag that names the    *)
(* data; what a range holds is what the last copy that touches it left     *)
(* there, so a copy that spills over a neighbour is visible to a reader.   *)
(***************************************************************************)
EXTENDS Integers, Sequences, FiniteSets, SequencesExt

NoFile == [size |-> -1, parts |-> <<>>]
EmptyFile == [size |-> 0, parts |-> <<>>]

Part(at, size, what) == [at |-> at, size |-> size, what |-> what]

Piece(what, size) ==
    [size |-> size, parts |-> IF size = 0 THEN <<>> ELSE <<Part(0, size, what)>>]

\* calloc, or memset of the whole buffer.
Blank(size, fill) == Piece(fill, size)

Shifted(parts, by) == [i \in DOMAIN parts |-> [parts[i] EXCEPT !.at = @ + by]]

\* memcpy of a piece into a buffer that is large enough.
Overlay(buffer, at, piece) == [buffer EXCEPT !.parts = @ \o Shifted(piece.parts, at)]

\* Several copies, in their order: each a piece and its place.
Copy(at, piece) == [at |-> at, piece |-> piece]
Overlaid(buffer, copies) ==
    [buffer EXCEPT !.parts =
        @ \o FlattenSeq([i \in DOMAIN copies |-> Shifted(copies[i].piece.parts, copies[i].at)])]

\* fwrite at the end of a file.
Appended(file, piece) ==
    [size |-> file.size + piece.size, parts |-> file.parts \o Shifted(piece.parts, file.size)]

\* What is written piece by piece to the end of an empty file.
SizeOfFirst(pieces, n) == SumFunctionOnSet([i \in DOMAIN pieces |-> pieces[i].size], 1 .. n)
Concatenated(pieces) ==
    Overlaid([size |-> SizeOfFirst(pieces, Len(pieces)), parts |-> <<>>],
             [i \in DOMAIN pieces |-> Copy(SizeOfFirst(pieces, i - 1), pieces[i])])

\* What is left of a file when only its first n bytes reach the disk.
Cut(file, n) ==
    [size |-> n,
     parts |-> SelectSeq([i \in DOMAIN file.parts |->
                            IF file.parts[i].at + file.parts[i].size <= n THEN file.parts[i]
                            ELSE Part(file.parts[i].at, n - file.parts[i].at, "cut")],
                         LAMBDA part : part.size > 0)]

Overlaps(part, at, size) == part.at < at + size /\ at < part.at + part.size

(* What a reader finds in a range: the data of the last copy that touches  *)
(* it and how far into that data the range begins, or a mixture.           *)
Mixture == [what |-> "mixture", from |-> 0]
Content(file, at, size) ==
    LET touching == {i \in DOMAIN file.parts : Overlaps(file.parts[i], at, size)}
        latest == CHOOSE i \in touching : \A j \in touching : j <= i
        part == file.parts[latest]
    IN  IF touching = {} THEN Mixture
        ELSE IF part.at <= at /\ at + size <= part.at + part.size
             THEN [what |-> part.what, from |-> at - part.at]
             ELSE Mixture

Inside(file, at, size) == at >= 0 /\ at + size <= file.size

\* All of the data named is there, from its first byte on.
Holds(file, at, size, what) ==
    size = 0 \/ (Inside(file, at, size) /\ Content(file, at, size) = [what |-> what, from |-> 0])

AlignUp(value, alignment) == ((value + alignment - 1) \div alignment) * alignment
=============================================================================

---------------------------- MODULE ImageProofs ----------------------------
(***************************************************************************)
(* An image that was reported written reads back, whatever its format: for *)
(* every job and both hosts, ImagesReadBack holds.                         *)
(*                                                                         *)
(* Of a plan that only appends, what stands in the file is the             *)
(* concatenation of the writes made so far, unless one was lost; a format  *)
(* is done when the concatenation of all its writes is shown to be what    *)
(* its reader looks for.  Most of the module is that, format by format:    *)
(* sections in a row, sections aligned in the file and in memory, fat and  *)
(* Apple headers, the imports of a driver with the code patched to them.   *)
(* Firmware is written in several passes, with its trampoline last: what   *)
(* RInv says of its parts is put together here.                            *)
(***************************************************************************)
EXTENDS ContainersProofs

-----------------------------------------------------------------------------
(* A plan that only appends: its writes make its image.                    *)

PiecesOf(writes) == [i \in DOMAIN writes |-> writes[i].piece]

ImageOf(plan) == Concatenated(PiecesOf(plan.writes))

AppendOnly(writes) ==
    /\ Len(writes) \in Nat /\ writes = [i \in 1 .. Len(writes) |-> writes[i]]
    /\ \A i \in 1 .. Len(writes) : writes[i].at = END_OF_FILE /\ writes[i].piece \in Files

\* So far the first k writes have been made.
InProgress(f, left, writes) ==
    \E k \in 0 .. Len(writes) : /\ left = [i \in 1 .. Len(writes) - k |-> writes[k + i]]
                                /\ f = Concatenated(First(PiecesOf(writes), k))

LEMMA ProgressBegins ==
    ASSUME NEW writes, AppendOnly(writes)
    PROVE  InProgress(EmptyFile, writes, writes)
  <1>. DEFINE n == Len(writes)
  <1>1. n \in Nat /\ writes = [i \in 1 .. n |-> writes[i]]
    BY DEF AppendOnly
  <1>. HIDE DEF n
  <1>2. writes = [i \in 1 .. n - 0 |-> writes[0 + i]]
    <2>1. n - 0 = n /\ \A i \in 1 .. n : 0 + i = i
      BY <1>1
    <2>2. [i \in 1 .. n - 0 |-> writes[0 + i]] = [i \in 1 .. n |-> writes[i]]
      BY <2>1
    <2>. QED
      BY Zenon, <1>1, <2>2
  <1>3. First(PiecesOf(writes), 0) \in [1 .. 0 -> Files]
    BY DEF First
  <1>4. Concatenated(First(PiecesOf(writes), 0)) = EmptyFile
    BY <1>3, ConcatNone
  <1>5. 0 \in 0 .. n
    BY <1>1
  <1>. QED
    BY Zenon, <1>2, <1>4, <1>5 DEF InProgress, n

LEMMA ProgressGoesOn ==
    ASSUME NEW writes, AppendOnly(writes), NEW left, left # <<>>, NEW f, InProgress(f, left, writes)
    PROVE  /\ Head(left).at = END_OF_FILE /\ Head(left).piece \in Files
           /\ InProgress(Appended(f, Head(left).piece), Tail(left), writes)
           /\ Head(left).piece.size = 0 => InProgress(f, Tail(left), writes)
  <1>. DEFINE n == Len(writes)
              p == PiecesOf(writes)
  <1>1. /\ n \in Nat /\ DOMAIN writes = 1 .. n
        /\ \A i \in 1 .. n : writes[i].at = END_OF_FILE /\ writes[i].piece \in Files
    BY DEF AppendOnly
  <1>2. PICK k \in 0 .. n : /\ left = [i \in 1 .. n - k |-> writes[k + i]]
                            /\ f = Concatenated(First(p, k))
    BY DEF InProgress
  <1>3. \A i \in 1 .. n : p[i] = writes[i].piece /\ p[i] \in Files
    BY <1>1 DEF PiecesOf
  <1>. HIDE DEF n, p
  <1>. DEFINE m == n - k
  <1>4. m \in Nat /\ left = [i \in 1 .. m |-> writes[k + i]]
    BY <1>1, <1>2
  <1>. HIDE DEF m
  <1>5. Len(left) = m
    BY <1>4
  <1>6. m # 0
    BY <1>4, <1>5
  <1>7. Head(left) = writes[k + 1]
    <2>1. Head(left) = left[1]
      OBVIOUS
    <2>. QED
      BY <1>4, <1>6, <2>1
  <1>. DEFINE k1 == k + 1
  <1>8. k1 \in 1 .. n /\ k1 \in 0 .. n /\ k \in Nat /\ n - k1 = m - 1
    BY <1>1, <1>4, <1>6 DEF m
  <1>9. Tail(left) = [i \in 1 .. n - k1 |-> writes[k1 + i]]
    <2>1. Tail(left) = [i \in 1 .. m - 1 |-> left[i + 1]]
      <3>. DEFINE S == {writes[i] : i \in 1 .. n}
      <3>1. \A i \in 1 .. m : k + i \in 1 .. n
        BY <1>1, <1>4 DEF m
      <3>2. left \in [1 .. m -> S]
        BY <1>4, <3>1
      <3>. HIDE DEF S
      <3>3. left \in Seq(S)
        BY <1>4, <3>2
      <3>4. Tail(left) \in Seq(S) /\ Len(Tail(left)) = m - 1
            /\ \A i \in 1 .. m - 1 : Tail(left)[i] = left[i + 1]
        <4>1. Tail(left) \in Seq(S)
          BY <3>3
        <4>2. Len(Tail(left)) = m - 1
          BY <1>4, <1>5, <1>6, <3>3
        <4>3. \A i \in 1 .. m - 1 : Tail(left)[i] = left[i + 1]
          BY <1>4, <1>5, <1>6, <3>3
        <4>. QED
          BY <4>1, <4>2, <4>3
      <3>. QED
        BY <1>4, <3>4
    <2>2. \A i \in 1 .. m - 1 : left[i + 1] = writes[k1 + i]
      <3>. TAKE i \in 1 .. m - 1
      <3>1. i + 1 \in 1 .. m /\ k + (i + 1) = k1 + i
        BY <1>4, <1>8
      <3>2. left[i + 1] = writes[k + (i + 1)]
        BY <1>4, <3>1
      <3>. QED
        BY Zenon, <3>1, <3>2
    <2>. QED
      BY <1>8, <2>1, <2>2
  <1>10. Head(left).at = END_OF_FILE /\ Head(left).piece = p[k1] /\ Head(left).piece \in Files
    BY <1>1, <1>3, <1>7, <1>8
  <1>11. Concatenated(First(p, k1)) = Appended(f, p[k1])
    <2>. DEFINE q == First(p, k1)
    <2>0. \A i \in 1 .. k + 1 : p[i] \in Files
      <3>1. \A i \in 1 .. k + 1 : i \in 1 .. n
        BY <1>1, <1>8
      <3>. QED
        BY <1>3, <3>1
    <2>1. q \in [1 .. k + 1 -> Files] /\ q[k + 1] = p[k1]
      <3>1. q = [i \in 1 .. k + 1 |-> p[i]]
        BY Zenon DEF First
      <3>2. k + 1 \in 1 .. k + 1
        BY <1>8
      <3>. QED
        BY <2>0, <3>1, <3>2
    <2>2. First(q, k) = First(p, k)
      BY <1>8 DEF First
    <2>. HIDE DEF q
    <2>3. Concatenated(q) = Appended(Concatenated(First(q, k)), q[k + 1])
      BY Zenon, <1>8, <2>1, ConcatSteps
    <2>. QED
      BY Zenon, <1>2, <2>1, <2>2, <2>3 DEF q
  <1>. HIDE DEF k1
  <1>12. InProgress(Appended(f, Head(left).piece), Tail(left), writes)
    BY Zenon, <1>8, <1>9, <1>10, <1>11 DEF InProgress, n, p
  <1>13. ASSUME Head(left).piece.size = 0 PROVE Appended(f, Head(left).piece) = f
    <2>1. Head(left).piece = EmptyFile
      BY <1>10, <1>13, NothingIs
    <2>2. f \in Files
      <3>0. \A i \in 1 .. k : p[i] \in Files
        <4>1. \A i \in 1 .. k : i \in 1 .. n
          BY <1>1, <1>8
        <4>. QED
          BY <1>3, <4>1
      <3>1. First(p, k) \in [1 .. k -> Files] /\ k \in Nat
        BY <1>8, <3>0 DEF First
      <3>. QED
        BY <1>2, <3>1, ConcatIs DEF ConcatOf
    <2>3. f = [size |-> f.size, parts |-> f.parts] /\ f.parts \in Seq(DataParts) /\ f.size \in Nat
      BY <2>2, FileIs
    <2>4. Shifted(EmptyFile.parts, f.size) = <<>> /\ EmptyFile.size = 0
      BY DEF Shifted, EmptyFile
    <2>5. f.parts \o <<>> = f.parts /\ f.size + 0 = f.size
      BY <2>3
    <2>. QED
      BY Zenon, <2>1, <2>3, <2>4, <2>5 DEF Appended
  <1>. QED
    BY Zenon, <1>10, <1>12, <1>13

LEMMA ProgressEnds ==
    ASSUME NEW writes, AppendOnly(writes), NEW f, InProgress(f, <<>>, writes)
    PROVE  f = Concatenated(PiecesOf(writes))
  <1>. DEFINE n == Len(writes)
              p == PiecesOf(writes)
  <1>1. n \in Nat /\ DOMAIN writes = 1 .. n
    BY DEF AppendOnly
  <1>2. PICK k \in 0 .. n : /\ <<>> = [i \in 1 .. n - k |-> writes[k + i]]
                            /\ f = Concatenated(First(p, k))
    BY DEF InProgress
  <1>3. First(p, n) = p
    BY <1>1 DEF First, PiecesOf
  <1>. HIDE DEF n, p
  <1>4. n - k = 0
    <2>. DEFINE m == n - k
                s == [i \in 1 .. m |-> writes[k + i]]
    <2>1. m \in Nat
      BY <1>1
    <2>2. s = <<>>
      BY <1>2
    <2>. HIDE DEF m
    <2>3. Len(s) = m
      BY <2>1
    <2>. QED
      BY <2>2, <2>3 DEF m
  <1>5. k = n
    BY <1>1, <1>4
  <1>. QED
    BY <1>2, <1>3, <1>5 DEF p

LEMMA ImageIsFile ==
    ASSUME NEW plan, AppendOnly(plan.writes)
    PROVE  ConcatOf(ImageOf(plan), Len(plan.writes), PiecesOf(plan.writes)) /\ ImageOf(plan) \in Files
  <1>. DEFINE n == Len(plan.writes)
              w == plan.writes
              p == PiecesOf(w)
  <1>1. n \in Nat /\ DOMAIN w = 1 .. n /\ \A i \in 1 .. n : w[i].piece \in Files
    BY DEF AppendOnly
  <1>2. p \in [1 .. n -> Files]
    BY <1>1 DEF PiecesOf
  <1>. HIDE DEF n, p
  <1>3. ConcatOf(Concatenated(p), n, p)
    BY Zenon, <1>1, <1>2, ConcatIs
  <1>. QED
    BY Zenon, <1>3 DEF ImageOf, ConcatOf, n, p

-----------------------------------------------------------------------------
(* Headers. *)

HeaderFields == {"magic", "version", "genesis", "specific", "id", "zones", "crc"}

IsHeader(h, magic) ==
    h = [x \in HeaderFields |-> h[x]] /\ h["magic"] = magic /\ h["version"] = 1

LEMMA InitIs == \A magic, specific : IsHeader(HeaderInit(magic, specific), magic)
BY DEF HeaderInit, HeaderFields, IsHeader

LEMMA SealedIs ==
    ASSUME NEW magic, NEW h, IsHeader(h, magic), NEW alg
    PROVE  /\ IsHeader(Sealed(h, alg), magic) /\ SealedBy(Sealed(h, alg), alg)
           /\ Sealed(h, alg).zones = h.zones
  <1>. DEFINE v == [algorithm |-> alg, over |-> Body(h)]
              s == Sealed(h, alg)
  <1>1. DOMAIN h = HeaderFields
    BY DEF IsHeader
  <1>2. s = [x \in HeaderFields |-> IF x = "crc" THEN v ELSE h[x]]
    <2>1. s = [h EXCEPT !.crc = v]
      BY DEF Sealed
    <2>. HIDE DEF v, s
    <2>. QED
      BY <1>1, <2>1 DEF HeaderFields
  <1>3. v.algorithm = alg /\ v.over = Body(h)
    OBVIOUS
  <1>. HIDE DEF s, v
  <1>4. s["crc"] = v /\ DOMAIN s = HeaderFields /\ \A x \in HeaderFields \ {"crc"} : s[x] = h[x]
    BY <1>2 DEF HeaderFields
  <1>5. Body(s) = Body(h)
    BY <1>1, <1>4 DEF Body
  <1>6. SealedBy(s, alg)
    BY <1>3, <1>4, <1>5 DEF SealedBy
  <1>7. s.zones = h.zones /\ IsHeader(s, magic)
    BY <1>2 DEF IsHeader, HeaderFields
  <1>. QED
    BY <1>6, <1>7 DEF s

-----------------------------------------------------------------------------
(* Where the writes of a plan leave their data. *)

Appending == [piece : Files, at : {END_OF_FILE}, compared : BOOLEAN, count : Int, reaches : BOOLEAN]

LEMMA WriteIs ==
    ASSUME NEW p \in Files
    PROVE  /\ Write(p) \in Appending /\ Write(p).piece = p
           /\ \A b \in BOOLEAN : [Write(p) EXCEPT !.compared = b] \in Appending
                                 /\ [Write(p) EXCEPT !.compared = b].piece = p
           /\ \A n \in Int : [Write(p) EXCEPT !.count = n] \in Appending
                             /\ [Write(p) EXCEPT !.count = n].piece = p
  <1>1. p.size \in Int
    BY FileIs
  <1>. QED
    BY <1>1 DEF Write, Appending

LEMMA CheckedIs ==
    ASSUME NEW what \in DataTags, NEW size \in Nat
    PROVE  /\ Checked(what, size) \in Appending /\ Checked(what, size).piece = Piece(what, size)
           /\ Unchecked(what, size) \in Appending /\ Unchecked(what, size).piece = Piece(what, size)
           /\ Piece(what, size).size = size
  <1>1. Piece(what, size) \in Files /\ Piece(what, size).size = size
    BY PieceIs
  <1>. DEFINE p == Piece(what, size)
  <1>2. Checked(what, size) = Write(p) /\ Unchecked(what, size) = [Write(p) EXCEPT !.compared = FALSE]
    BY DEF Checked, Unchecked
  <1>. HIDE DEF p
  <1>. QED
    BY <1>1, <1>2, WriteIs DEF p

LEMMA Appendable == ASSUME NEW s \in Seq(Appending) PROVE AppendOnly(s)
  <1>1. Len(s) \in Nat /\ s = [i \in 1 .. Len(s) |-> s[i]] /\ \A i \in 1 .. Len(s) : s[i] \in Appending
    OBVIOUS
  <1>2. \A w \in Appending : w.at = END_OF_FILE /\ w.piece \in Files
    BY DEF Appending
  <1>. QED
    BY <1>1, <1>2 DEF AppendOnly

\* Where a write begins.
Begins(writes, i) == SizeOfFirst(PiecesOf(writes), i - 1)

LEMMA ImageIs ==
    ASSUME NEW plan, plan.writes \in Seq(Appending)
    PROVE  LET w == plan.writes
               g == ImageOf(plan)
           IN  /\ AppendOnly(w) /\ g \in Files /\ g.size = Begins(w, Len(w) + 1)
               /\ Begins(w, 1) = 0
               /\ \A i \in 1 .. Len(w) : /\ Begins(w, i) \in Nat
                                         /\ Begins(w, i + 1) = Begins(w, i) + w[i].piece.size
               /\ \A i \in 1 .. Len(w) : \A b \in Int, m \in Nat : \A what, from :
                     Intact(w[i].piece, b, m, what, from) => Intact(g, Begins(w, i) + b, m, what, from)
               /\ \A i \in 1 .. Len(w) : \A what \in DataTags, size \in Nat :
                     w[i].piece = Piece(what, size) => Holds(g, Begins(w, i), size, what)
  <1>. DEFINE w == plan.writes
              g == ImageOf(plan)
              p == PiecesOf(w)
              n == Len(w)
  <1>1. AppendOnly(w)
    BY Appendable
  <1>2. n \in Nat /\ DOMAIN w = 1 .. n /\ \A i \in 1 .. n : w[i].piece \in Files
    BY <1>1 DEF AppendOnly
  <1>3. DOMAIN p = 1 .. n /\ \A i \in 1 .. n : p[i] = w[i].piece /\ p[i].size \in Nat
    <2>1. DOMAIN p = 1 .. n /\ \A i \in 1 .. n : p[i] = w[i].piece
      BY <1>2 DEF PiecesOf
    <2>. QED
      BY <1>2, <2>1, FileIs
  <1>4. ConcatOf(g, n, p) /\ g \in Files
    BY <1>1, ImageIsFile
  <1>. HIDE DEF g, p, n
  <1>5. /\ SizeOfFirst(p, 0) = 0
        /\ \A k \in 1 .. n : SizeOfFirst(p, k) = SizeOfFirst(p, k - 1) + p[k].size
        /\ \A k \in 0 .. n : SizeOfFirst(p, k) \in Nat
    BY <1>2, <1>3, SizeSteps
  <1>6. Begins(w, 1) = 0 /\ Begins(w, n + 1) = SizeOfFirst(p, n)
    BY <1>2, <1>5 DEF Begins, p
  <1>7. \A i \in 1 .. n : /\ Begins(w, i) \in Nat
                          /\ Begins(w, i + 1) = Begins(w, i) + w[i].piece.size
    <2>. TAKE i \in 1 .. n
    <2>1. i - 1 \in 0 .. n /\ (i + 1) - 1 = i
      BY <1>2
    <2>. QED
      BY <1>3, <1>5, <2>1 DEF Begins, p
  <1>8. \A i \in 1 .. n : \A b \in Int, m \in Nat : \A what, from :
           Intact(w[i].piece, b, m, what, from) => Intact(g, Begins(w, i) + b, m, what, from)
    BY <1>3, <1>4 DEF Begins, ConcatOf, p
  <1>9. ASSUME NEW i \in 1 .. n, NEW what \in DataTags, NEW size \in Nat, w[i].piece = Piece(what, size)
        PROVE  Holds(g, Begins(w, i), size, what)
    <2>1. Intact(w[i].piece, 0, size, what, 0)
      BY <1>9, PieceIs
    <2>2. Begins(w, i) + 0 = Begins(w, i) /\ Begins(w, i) \in Int
      BY <1>7
    <2>3. Intact(g, Begins(w, i), size, what, 0)
      BY <1>8, <2>1, <2>2
    <2>. QED
      BY <1>4, <2>2, <2>3, IntactHolds
  <1>10. g.size = Begins(w, n + 1)
    BY <1>4, <1>6 DEF ConcatOf
  <1>. QED
    BY <1>1, <1>4, <1>6, <1>7, <1>8, <1>9, <1>10 DEF g, p, n

-----------------------------------------------------------------------------
(* SRV, HDA and AX. *)

Measures(z) == {z.code, z.mirror, z.truth, z.relocs, z.symbols, z.strtab} \subseteq Nat

LEMMA JobIs == ASSUME NEW j \in Jobs PROVE Measures(j.z) /\ JobOK(j)
BY JobsAssumption DEF JobOK, Measures

LEMMA ContiguousAppends ==
    ASSUME NEW z, Measures(z), NEW init, NEW id
    PROVE  ContiguousPlan(z, init, id).writes \in Seq(Appending)
  <1>1. ContiguousPlan(z, init, id).writes = ZoneWrites(z)
    BY DEF ContiguousPlan, Plan
  <1>2. /\ Checked("header", HEADER_SIZE) \in Appending /\ Checked("code", z.code) \in Appending
        /\ Checked("mirror", z.mirror) \in Appending /\ Checked("truth", z.truth) \in Appending
    <2>1. {"header", "code", "mirror", "truth"} \subseteq DataTags
      BY DEF DataTags
    <2>2. {HEADER_SIZE, z.code, z.mirror, z.truth} \subseteq Nat
      BY DEF Measures, HEADER_SIZE
    <2>. QED
      BY <2>1, <2>2, CheckedIs
  <1>. QED
    BY <1>1, <1>2 DEF ZoneWrites

LEMMA ContiguousReads ==
    ASSUME Measures(job.z), NEW magic \in AcceptedMagics, NEW init, IsHeader(init, magic), NEW id,
           LET plan == ContiguousPlan(job.z, init, id)
           IN  plan.accepts /\ header = plan.header /\ file = ImageOf(plan)
    PROVE  CommonReads
  <1>. DEFINE z == job.z
              plan == ContiguousPlan(z, init, id)
              w == plan.writes
              Z == ContiguousZones(z)
  <1>1. w = ZoneWrites(z) /\ z.code > 0 /\ header = Sealed([init EXCEPT !.id = id, !.zones = Z], "from zero")
    BY DEF ContiguousPlan, Plan
  <1>2. w \in Seq(Appending)
    BY ContiguousAppends
  <1>3. z.code \in Nat /\ z.mirror \in Nat /\ z.truth \in Nat /\ HEADER_SIZE \in Nat
    BY DEF Measures, HEADER_SIZE
  <1>4. {"header", "code", "mirror", "truth"} \subseteq DataTags
    BY DEF DataTags
  <1>. HIDE DEF w, z
  <1>5. /\ Len(w) = 4 /\ w[1].piece = Piece("header", HEADER_SIZE) /\ w[2].piece = Piece("code", z.code)
        /\ w[3].piece = Piece("mirror", z.mirror) /\ w[4].piece = Piece("truth", z.truth)
    BY <1>1, <1>3, <1>4, CheckedIs DEF ZoneWrites
  <1>6. /\ Begins(w, 1) = 0
        /\ \A i \in 1 .. 4 : /\ Begins(w, i) \in Nat
                             /\ Begins(w, i + 1) = Begins(w, i) + w[i].piece.size
        /\ \A i \in 1 .. 4 : \A what \in DataTags, size \in Nat :
              w[i].piece = Piece(what, size) => Holds(file, Begins(w, i), size, what)
    BY <1>2, <1>5, ImageIs DEF w, z
  <1>7. /\ Begins(w, 2) = HEADER_SIZE /\ Begins(w, 3) = HEADER_SIZE + z.code
        /\ Begins(w, 4) = HEADER_SIZE + z.code + z.mirror
    <2>1. \A what \in {"header", "code", "mirror", "truth"} : \A n \in Nat : Piece(what, n).size = n
      BY <1>4, PieceIs
    <2>. QED
      BY <1>3, <1>5, <1>6, <2>1
  <1>8. /\ Holds(file, 0, HEADER_SIZE, "header") /\ Holds(file, HEADER_SIZE, z.code, "code")
        /\ Holds(file, HEADER_SIZE + z.code, z.mirror, "mirror")
        /\ Holds(file, HEADER_SIZE + z.code + z.mirror, z.truth, "truth")
    BY <1>3, <1>4, <1>5, <1>6, <1>7
  <1>9. HeaderValid(header) /\ header.zones = Z
    <2>. HIDE DEF Z
    <2>. DEFINE g == [init EXCEPT !.id = id, !.zones = Z]
    <2>1. IsHeader(g, magic) /\ g.zones = Z
      BY DEF IsHeader, HeaderFields
    <2>2. header = Sealed(g, "from zero")
      BY <1>1
    <2>. HIDE DEF g
    <2>3. IsHeader(header, magic) /\ SealedBy(header, "from zero") /\ header.zones = g.zones
      <3>. DEFINE s == Sealed(g, "from zero")
      <3>1. IsHeader(s, magic) /\ SealedBy(s, "from zero") /\ s.zones = g.zones
        BY <2>1, SealedIs
      <3>. HIDE DEF s
      <3>. QED
        BY <2>2, <3>1 DEF s
    <2>4. header.magic = magic
      BY <2>3 DEF IsHeader
    <2>. QED
      BY <2>1, <2>3, <2>4 DEF HeaderValid
  <1>10. ASSUME NEW n \in DOMAIN Z PROVE Holds(file, Z[n].offset, Z[n].size, TagOf(n))
    <2>1. \A what : Holds(file, 0, 0, what)
      BY DEF Holds
    <2>2. n \in {"act", "mirror", "truth"}
      BY DEF ContiguousZones
    <2>3. CASE n = "act"
      <3>1. Z[n].offset = HEADER_SIZE /\ Z[n].size = z.code /\ TagOf(n) = "code"
        BY <2>3 DEF ContiguousZones, Zone, TagOf
      <3>. QED
        BY Zenon, <1>8, <3>1
    <2>4. CASE n = "mirror"
      <3>0. TagOf(n) = "mirror"
        BY <2>4 DEF TagOf
      <3>1. CASE z.mirror > 0
        <4>1. Z[n].offset = HEADER_SIZE + z.code /\ Z[n].size = z.mirror
          BY <2>4, <3>1 DEF ContiguousZones, Zone
        <4>. QED
          BY Zenon, <1>8, <3>0, <4>1
      <3>2. CASE ~(z.mirror > 0)
        <4>1. Z[n].offset = 0 /\ Z[n].size = 0
          BY <2>4, <3>2 DEF ContiguousZones, Zone, NoZone
        <4>. QED
          BY Zenon, <2>1, <4>1
      <3>. QED
        BY <3>1, <3>2
    <2>5. CASE n = "truth"
      <3>0. TagOf(n) = "truth"
        BY <2>5 DEF TagOf
      <3>1. CASE z.truth > 0
        <4>1. Z[n].offset = HEADER_SIZE + z.code + z.mirror /\ Z[n].size = z.truth
          BY <2>5, <3>1 DEF ContiguousZones, Zone
        <4>. QED
          BY Zenon, <1>8, <3>0, <4>1
      <3>2. CASE ~(z.truth > 0)
        <4>1. Z[n].offset = 0 /\ Z[n].size = 0
          BY <2>5, <3>2 DEF ContiguousZones, Zone, NoZone
        <4>. QED
          BY Zenon, <2>1, <4>1
      <3>. QED
        BY <3>1, <3>2
    <2>. QED
      BY <2>2, <2>3, <2>4, <2>5
  <1>. QED
    BY <1>8, <1>9, <1>10 DEF CommonReads, HeaderThere, ZonesHold

LEMMA NamesAreTags ==
    /\ "header" \in DataTags /\ "code" \in DataTags /\ "code from the entry" \in DataTags
    /\ "mirror" \in DataTags /\ "truth" \in DataTags /\ "reloc" \in DataTags
    /\ "symtab" \in DataTags /\ "strtab" \in DataTags /\ "aethela" \in DataTags
    /\ "schema" \in DataTags /\ "manifest" \in DataTags /\ "aetb" \in DataTags
    /\ "nops" \in DataTags /\ "zeros" \in DataTags /\ "dictionary" \in DataTags
    /\ "engine" \in DataTags /\ "manifests" \in DataTags /\ "padding" \in DataTags
    /\ "nexus" \in DataTags /\ "aetb header" \in DataTags /\ "unwind" \in DataTags
    /\ "descriptors" \in DataTags /\ "lookup" \in DataTags /\ "end" \in DataTags
    /\ "library" \in DataTags /\ "commands" \in DataTags /\ "tag" \in DataTags
    /\ "IM4P" \in DataTags /\ "identifier" \in DataTags /\ "description" \in DataTags
BY DEF DataTags

LEMMA HeaderMade ==
    ASSUME NEW magic, NEW g, IsHeader(g, magic), NEW alg, header = Sealed(g, alg)
    PROVE  SealedBy(header, alg) /\ header.zones = g.zones /\ header.magic = magic /\ header.version = 1
  <1>. DEFINE s == Sealed(g, alg)
  <1>1. IsHeader(s, magic) /\ SealedBy(s, alg) /\ s.zones = g.zones
    BY SealedIs
  <1>. HIDE DEF s
  <1>. QED
    BY <1>1 DEF s, IsHeader

-----------------------------------------------------------------------------
(* AETB files and the images of generate_*_binary: sections in a row. *)

Listed(s) ==
    /\ Len(s) \in Nat /\ DOMAIN s = 1 .. Len(s)
    /\ \A i \in 1 .. Len(s) : s[i].size \in Nat /\ TagOf(s[i].name) \in DataTags
    /\ \A i, k \in 1 .. Len(s) : s[i].name = s[k].name => i = k

LEMMA NameFinds ==
    ASSUME NEW s, Listed(s), NEW i \in 1 .. Len(s)
    PROVE  (CHOOSE j \in DOMAIN s : s[j].name = s[i].name) = i
BY DEF Listed

\* The header and one write for each section.
Follows(w, s) ==
    /\ w \in Seq(Appending) /\ Len(w) = Len(s) + 1 /\ w[1].piece = Piece("header", HEADER_SIZE)
    /\ \A i \in 1 .. Len(s) : w[i + 1].piece = Piece(TagOf(s[i].name), s[i].size)

LEMMA SectionsWritten ==
    ASSUME NEW s, Listed(s), NEW plan, Follows(plan.writes, s)
    PROVE  /\ Holds(ImageOf(plan), 0, HEADER_SIZE, "header")
           /\ \A i \in 1 .. Len(s) :
                 Holds(ImageOf(plan), HEADER_SIZE + SizeBefore(s, i), s[i].size, TagOf(s[i].name))
  <1>. DEFINE w == plan.writes
              g == ImageOf(plan)
              n == Len(s)
  <1>1. /\ n \in Nat /\ DOMAIN s = 1 .. n
        /\ \A i \in 1 .. n : s[i].size \in Nat /\ TagOf(s[i].name) \in DataTags
    BY DEF Listed
  <1>2. /\ Len(w) = n + 1 /\ w[1].piece = Piece("header", HEADER_SIZE) /\ w \in Seq(Appending)
        /\ \A i \in 1 .. n : w[i + 1].piece = Piece(TagOf(s[i].name), s[i].size)
    BY DEF Follows
  <1>3. /\ Begins(w, 1) = 0
        /\ \A i \in 1 .. Len(w) : /\ Begins(w, i) \in Nat
                                  /\ Begins(w, i + 1) = Begins(w, i) + w[i].piece.size
        /\ \A i \in 1 .. Len(w) : \A what \in DataTags, size \in Nat :
              w[i].piece = Piece(what, size) => Holds(g, Begins(w, i), size, what)
    BY <1>2, ImageIs
  <1>4. "header" \in DataTags /\ HEADER_SIZE \in Nat
    BY DEF DataTags, HEADER_SIZE
  <1>5. /\ SizeOfFirst(s, 0) = 0
        /\ \A k \in 1 .. n : SizeOfFirst(s, k) = SizeOfFirst(s, k - 1) + s[k].size
        /\ \A k \in 0 .. n : SizeOfFirst(s, k) \in Nat
    BY <1>1, SizeSteps
  <1>. HIDE DEF n, g, w
  <1>6. Begins(w, 2) = HEADER_SIZE
    <2>1. w[1].piece.size = HEADER_SIZE /\ 1 \in 1 .. Len(w)
      BY <1>1, <1>2, <1>4, PieceIs
    <2>2. Begins(w, 1 + 1) = Begins(w, 1) + w[1].piece.size
      BY <1>3, <2>1
    <2>. QED
      BY <1>3, <1>4, <2>1, <2>2
  <1>. DEFINE T == {k \in Nat : k <= n => Begins(w, k + 2) = HEADER_SIZE + SizeOfFirst(s, k)}
  <1>7. 0 \in T
    BY <1>4, <1>5, <1>6
  <1>8. ASSUME NEW k \in Nat, k \in T PROVE k + 1 \in T
    <2>. SUFFICES ASSUME k + 1 <= n PROVE Begins(w, (k + 1) + 2) = HEADER_SIZE + SizeOfFirst(s, k + 1)
      OBVIOUS
    <2>1. k + 1 \in 1 .. n /\ (k + 1) - 1 = k /\ k <= n
      BY <1>1
    <2>2. SizeOfFirst(s, k + 1) = SizeOfFirst(s, k) + s[k + 1].size /\ SizeOfFirst(s, k) \in Nat
      BY <1>5, <2>1
    <2>3. w[(k + 1) + 1].piece.size = s[k + 1].size
      BY <1>1, <1>2, <2>1, PieceIs
    <2>4. k + 2 \in 1 .. Len(w) /\ (k + 1) + 1 = k + 2 /\ (k + 2) + 1 = (k + 1) + 2
      BY <1>1, <1>2, <2>1
    <2>5. Begins(w, (k + 2) + 1) = Begins(w, k + 2) + w[k + 2].piece.size
      BY <1>3, <2>4
    <2>6. Begins(w, k + 2) = HEADER_SIZE + SizeOfFirst(s, k)
      BY <1>8, <2>1
    <2>7. s[k + 1].size \in Nat
      BY <1>1, <2>1
    <2>. QED
      BY <1>4, <2>2, <2>3, <2>4, <2>5, <2>6, <2>7
  <1>9. \A k \in Nat : k \in T
    <2>. HIDE DEF T
    <2>. QED
      BY <1>7, <1>8, SetInduction
  <1>10. Holds(g, 0, HEADER_SIZE, "header")
    <2>1. 1 \in 1 .. Len(w)
      BY <1>1, <1>2
    <2>. QED
      BY <1>2, <1>3, <1>4, <2>1
  <1>11. ASSUME NEW i \in 1 .. n
         PROVE  Holds(g, HEADER_SIZE + SizeBefore(s, i), s[i].size, TagOf(s[i].name))
    <2>1. i - 1 \in Nat /\ i - 1 <= n /\ (i - 1) + 2 = i + 1 /\ i + 1 \in 1 .. Len(w)
      BY <1>1, <1>2
    <2>2. Begins(w, i + 1) = HEADER_SIZE + SizeOfFirst(s, i - 1)
      BY <1>9, <2>1
    <2>3. Holds(g, Begins(w, i + 1), s[i].size, TagOf(s[i].name))
      BY <1>1, <1>2, <1>3, <2>1
    <2>. QED
      BY <2>2, <2>3 DEF SizeBefore
  <1>. QED
    BY <1>10, <1>11 DEF g, n

LEMMA HeaderFirst ==
    ASSUME NEW s, Listed(s), NEW m,
           m = [i \in DOMAIN s |-> Unchecked(TagOf(s[i].name), s[i].size)]
    PROVE  Follows(<<Unchecked("header", HEADER_SIZE)>> \o m, s)
  <1>. DEFINE n == Len(s)
              one == <<Unchecked("header", HEADER_SIZE)>>
              w == one \o m
  <1>1. /\ n \in Nat /\ DOMAIN s = 1 .. n
        /\ \A i \in 1 .. n : s[i].size \in Nat /\ TagOf(s[i].name) \in DataTags
    BY DEF Listed
  <1>2. "header" \in DataTags /\ HEADER_SIZE \in Nat
    BY DEF DataTags, HEADER_SIZE
  <1>3. \A i \in 1 .. n : m[i] \in Appending /\ m[i].piece = Piece(TagOf(s[i].name), s[i].size)
    BY <1>1, CheckedIs
  <1>4. one \in Seq(Appending) /\ Len(one) = 1 /\ one[1].piece = Piece("header", HEADER_SIZE)
    BY <1>2, CheckedIs
  <1>5. m \in Seq(Appending) /\ Len(m) = n
    <2>1. m = [i \in 1 .. n |-> m[i]]
      BY <1>1
    <2>. QED
      BY <1>1, <1>3, <2>1
  <1>. HIDE DEF n, one
  <1>6. w \in Seq(Appending)
    BY <1>4, <1>5
  <1>7. Len(w) = n + 1 /\ \A i \in 1 .. n + 1 : w[i] = IF i <= 1 THEN one[i] ELSE m[i - 1]
    <2>1. /\ Len(w) = Len(one) + Len(m)
          /\ \A i \in 1 .. Len(one) + Len(m) : w[i] = IF i <= Len(one) THEN one[i] ELSE m[i - Len(one)]
      BY <1>4, <1>5, ConcatProperties
    <2>2. Len(one) + Len(m) = n + 1
      BY <1>1, <1>4, <1>5
    <2>. HIDE DEF w
    <2>. QED
      BY <1>4, <2>1, <2>2
  <1>. HIDE DEF w
  <1>8. w[1] = one[1]
    BY <1>1, <1>7
  <1>9. ASSUME NEW i \in 1 .. n PROVE w[i + 1] = m[i]
    <2>1. i + 1 \in 1 .. n + 1 /\ ~(i + 1 <= 1) /\ (i + 1) - 1 = i
      BY <1>1
    <2>. QED
      BY <1>7, <2>1
  <1>. QED
    BY <1>3, <1>4, <1>6, <1>7, <1>8, <1>9 DEF Follows, n, w, one

\* Sections with their zones, written where the zones say.
ZonesOf(s, zones) ==
    /\ DOMAIN zones = {s[i].name : i \in DOMAIN s}
    /\ \A i \in 1 .. Len(s) :
          /\ zones[s[i].name].size = s[i].size
          /\ s[i].size # 0 => zones[s[i].name].offset = HEADER_SIZE + SizeBefore(s, i)

LEMMA SectionsRead ==
    ASSUME NEW s, Listed(s), NEW plan, Follows(plan.writes, s), file = ImageOf(plan),
           ZonesOf(s, header.zones)
    PROVE  HeaderThere /\ ZonesHold(DOMAIN header.zones)
  <1>1. /\ Holds(file, 0, HEADER_SIZE, "header")
        /\ \A i \in 1 .. Len(s) :
                 Holds(file, HEADER_SIZE + SizeBefore(s, i), s[i].size, TagOf(s[i].name))
    BY SectionsWritten
  <1>2. ASSUME NEW n \in DOMAIN header.zones
        PROVE  Holds(file, header.zones[n].offset, header.zones[n].size, TagOf(n))
    <2>1. PICK i \in 1 .. Len(s) : n = s[i].name
      BY DEF ZonesOf, Listed
    <2>2. CASE s[i].size # 0
      BY <1>1, <2>1, <2>2 DEF ZonesOf
    <2>3. CASE s[i].size = 0
      BY <2>1, <2>3 DEF ZonesOf, Holds
    <2>. QED
      BY <2>2, <2>3
  <1>. QED
    BY <1>1, <1>2 DEF HeaderThere, ZonesHold

LEMMA AetbListed ==
    ASSUME NEW z, Measures(z)
    PROVE  Listed(AetbSections(z)) /\ Len(AetbSections(z)) = 6
  <1>. DEFINE s == AetbSections(z)
  <1>1. /\ z.code \in Nat /\ z.mirror \in Nat /\ z.truth \in Nat /\ z.relocs * RELOC_SIZE \in Nat
        /\ z.symbols * SYMBOL_SIZE \in Nat /\ z.strtab \in Nat
    BY DEF Measures, RELOC_SIZE, SYMBOL_SIZE
  <1>2. /\ Len(s) = 6 /\ DOMAIN s = 1 .. 6
        /\ s[1] = [name |-> "act", size |-> z.code] /\ s[2] = [name |-> "mirror", size |-> z.mirror]
        /\ s[3] = [name |-> "truth", size |-> z.truth]
        /\ s[4] = [name |-> "reloc", size |-> z.relocs * RELOC_SIZE]
        /\ s[5] = [name |-> "symtab", size |-> z.symbols * SYMBOL_SIZE]
        /\ s[6] = [name |-> "strtab", size |-> z.strtab]
    BY DEF AetbSections
  <1>. HIDE DEF s
  <1>3. \A i \in 1 .. 6 : s[i].size \in Nat
    BY <1>1, <1>2
  <1>4. \A i \in 1 .. 6 : TagOf(s[i].name) \in DataTags
    <2>1. \A x \in {"act", "mirror", "truth", "reloc", "symtab", "strtab"} : TagOf(x) \in DataTags
      BY NamesAreTags DEF TagOf
    <2>2. \A i \in 1 .. 6 : s[i].name \in {"act", "mirror", "truth", "reloc", "symtab", "strtab"}
      BY <1>2
    <2>. QED
      BY <2>1, <2>2
  <1>5. \A i, k \in 1 .. 6 : s[i].name = s[k].name => i = k
    BY <1>2
  <1>. QED
    BY <1>2, <1>3, <1>4, <1>5 DEF Listed, s

LEMMA AetbFollows ==
    ASSUME NEW z, Measures(z)
    PROVE  Follows(AetbPlan(z).writes, AetbSections(z))
  <1>. DEFINE s == AetbSections(z)
              m == [i \in DOMAIN s |-> Unchecked(TagOf(s[i].name), s[i].size)]
  <1>1. AetbPlan(z).writes = <<Unchecked("header", HEADER_SIZE)>> \o m
    BY DEF AetbPlan, Plan
  <1>2. Listed(s) /\ m = [i \in DOMAIN s |-> Unchecked(TagOf(s[i].name), s[i].size)]
    BY AetbListed
  <1>. HIDE DEF s, m
  <1>. QED
    BY <1>1, <1>2, HeaderFirst DEF s

LEMMA AetbIsRead ==
    ASSUME Measures(job.z), header = AetbPlan(job.z).header, file = ImageOf(AetbPlan(job.z))
    PROVE  AetbReads
  <1>. DEFINE z == job.z
              s == AetbSections(z)
              Z == AetbZones(s)
              h == HeaderInit("AETB", [debug |-> TRUE, mode |-> 0])
              g == [h EXCEPT !.genesis = z.entry, !.id = "random", !.zones = Z]
  <1>1. header = Sealed(g, "damaged table")
    BY DEF AetbPlan, Plan
  <1>2. IsHeader(h, "AETB")
    BY InitIs
  <1>3. IsHeader(g, "AETB") /\ g.zones = Z
    <2>. HIDE DEF h, Z
    <2>. QED
      BY <1>2 DEF IsHeader, HeaderFields
  <1>. HIDE DEF g
  <1>4. header.zones = Z
    BY <1>1, <1>3, HeaderMade
  <1>5. Listed(s)
    BY AetbListed
  <1>6. ZonesOf(s, Z)
    <2>1. DOMAIN Z = {s[i].name : i \in DOMAIN s}
      BY DEF AetbZones
    <2>2. ASSUME NEW i \in 1 .. Len(s)
          PROVE  Z[s[i].name] = Zone(HEADER_SIZE + SizeBefore(s, i), s[i].size)
      <3>1. (CHOOSE j \in DOMAIN s : s[j].name = s[i].name) = i
        BY <1>5, NameFinds
      <3>2. s[i].name \in {s[k].name : k \in DOMAIN s}
        BY <1>5 DEF Listed
      <3>. HIDE DEF s
      <3>. QED
        BY <3>1, <3>2 DEF AetbZones
    <2>3. \A a, b : Zone(a, b).offset = a /\ Zone(a, b).size = b
      BY DEF Zone
    <2>. HIDE DEF Z, s
    <2>4. ASSUME NEW i \in 1 .. Len(s)
          PROVE  Z[s[i].name].size = s[i].size /\ Z[s[i].name].offset = HEADER_SIZE + SizeBefore(s, i)
      <3>1. Z[s[i].name] = Zone(HEADER_SIZE + SizeBefore(s, i), s[i].size)
        BY <2>2
      <3>. QED
        BY <3>1 DEF Zone
    <2>. QED
      BY <2>1, <2>4 DEF ZonesOf
  <1>7. Follows(AetbPlan(z).writes, s)
    BY AetbFollows
  <1>. HIDE DEF s, Z
  <1>. QED
    BY <1>4, <1>5, <1>6, <1>7, SectionsRead DEF AetbReads

\* Sections whose bytes are there.
Present(s) == \A i \in 1 .. Len(s) : s[i].there = TRUE \/ s[i].size = 0

LEMMA DirectFollows ==
    ASSUME NEW s, Listed(s), Present(s), NEW h, NEW magic
    PROVE  Follows(SectionedPlan(h, magic, s).writes, s)
  <1>. DEFINE written(x) == IF x.there THEN x.size ELSE 0
              m == [i \in DOMAIN s |-> Unchecked(TagOf(s[i].name), written(s[i]))]
              k == [i \in DOMAIN s |-> Unchecked(TagOf(s[i].name), s[i].size)]
  <1>1. SectionedPlan(h, magic, s).writes = <<Unchecked("header", HEADER_SIZE)>> \o m
    BY DEF SectionedPlan, Plan
  <1>2. \A i \in DOMAIN s : written(s[i]) = s[i].size
    BY DEF Present, Listed
  <1>. HIDE DEF written
  <1>3. m = k
    BY <1>2
  <1>4. k = [i \in DOMAIN s |-> Unchecked(TagOf(s[i].name), s[i].size)]
    OBVIOUS
  <1>. HIDE DEF m, k
  <1>. QED
    BY <1>1, <1>3, <1>4, HeaderFirst

LEMMA DirectIsRead ==
    ASSUME NEW s, Listed(s), Present(s), NEW magic, NEW specific,
           LET plan == SectionedPlan(DirectHeader(magic, specific), magic, s)
           IN  header = plan.header /\ file = ImageOf(plan)
    PROVE  DirectReads(magic)
  <1>. DEFINE Z == SectionZones(s, HEADER_SIZE)
              h == DirectHeader(magic, specific)
              g == [h EXCEPT !.zones = Z]
              plan == SectionedPlan(h, magic, s)
  <1>1. header = Sealed(g, "standard") /\ file = ImageOf(plan)
    BY DEF SectionedPlan, Plan
  <1>2. IsHeader(h, magic)
    BY InitIs, SealedIs DEF DirectHeader
  <1>3. IsHeader(g, magic) /\ g.zones = Z
    <2>. HIDE DEF h, Z
    <2>. QED
      BY <1>2 DEF IsHeader, HeaderFields
  <1>. HIDE DEF g
  <1>4. header.zones = Z /\ StrictlyValid(header, magic)
    BY <1>1, <1>3, HeaderMade DEF StrictlyValid
  <1>5. ZonesOf(s, Z)
    <2>1. DOMAIN Z = {s[i].name : i \in DOMAIN s}
      BY DEF SectionZones
    <2>2. ASSUME NEW i \in 1 .. Len(s)
          PROVE  Z[s[i].name] = IF s[i].size = 0 THEN NoZone
                                ELSE Zone(HEADER_SIZE + SizeBefore(s, i), s[i].size)
      <3>1. (CHOOSE j \in DOMAIN s : s[j].name = s[i].name) = i
        BY NameFinds
      <3>2. s[i].name \in {s[k].name : k \in DOMAIN s}
        BY DEF Listed
      <3>. QED
        BY <3>1, <3>2 DEF SectionZones
    <2>. HIDE DEF Z
    <2>3. ASSUME NEW i \in 1 .. Len(s)
          PROVE  /\ Z[s[i].name].size = s[i].size
                 /\ s[i].size # 0 => Z[s[i].name].offset = HEADER_SIZE + SizeBefore(s, i)
      <3>1. CASE s[i].size = 0
        <4>1. Z[s[i].name] = NoZone
          BY <2>2, <3>1
        <4>. QED
          BY <3>1, <4>1 DEF Zone, NoZone
      <3>2. CASE s[i].size # 0
        <4>1. Z[s[i].name] = Zone(HEADER_SIZE + SizeBefore(s, i), s[i].size)
          BY <2>2, <3>2
        <4>. QED
          BY <4>1 DEF Zone
      <3>. QED
        BY <3>1, <3>2
    <2>. QED
      BY <2>1, <2>3 DEF ZonesOf
  <1>6. Follows(plan.writes, s)
    BY DirectFollows
  <1>. HIDE DEF Z, plan
  <1>. QED
    BY <1>1, <1>4, <1>5, <1>6, SectionsRead DEF DirectReads

LEMMA SevenJoin ==
    ASSUME NEW a, NEW b, NEW c, NEW d, NEW e, NEW f, NEW g
    PROVE  LET p == <<a, b, c>> \o <<d>> \o <<e, f, g>>
           IN  /\ Len(p) = 7 /\ DOMAIN p = 1 .. 7 /\ p[1] = a /\ p[2] = b /\ p[3] = c /\ p[4] = d
               /\ p[5] = e /\ p[6] = f /\ p[7] = g
OBVIOUS

LEMMA ThreeAndThree ==
    ASSUME NEW a, NEW b, NEW c, NEW e, NEW f, NEW g
    PROVE  LET p == <<a, b, c>> \o <<e, f, g>>
           IN  /\ Len(p) = 6 /\ DOMAIN p = 1 .. 6 /\ p[1] = a /\ p[2] = b /\ p[3] = c
               /\ p[4] = e /\ p[5] = f /\ p[6] = g
OBVIOUS

LEMMA DirectListed ==
    ASSUME NEW z, Measures(z)
    PROVE  /\ Listed(AkiSections(z)) /\ Present(AkiSections(z))
           /\ Listed(SrvSections(z)) /\ Present(SrvSections(z))
           /\ Listed(HdaSections(z)) /\ Present(HdaSections(z))
  <1>1. /\ z.code \in Nat /\ z.mirror \in Nat /\ z.truth \in Nat /\ z.relocs * RELOC_SIZE \in Nat
        /\ z.symbols * TABLE_SYMBOL_SIZE \in Nat /\ z.strtab \in Nat
    BY DEF Measures, RELOC_SIZE, TABLE_SYMBOL_SIZE
  <1>. DEFINE a == Section("act", z.code, TRUE)
              b == Section("mirror", z.mirror, TRUE)
              c == Section("truth", z.truth, TRUE)
              e == Section("symtab", z.symbols * TABLE_SYMBOL_SIZE, TRUE)
              f == Section("strtab", z.strtab, TRUE)
              g == Section("reloc", z.relocs * RELOC_SIZE, TRUE)
              Short == {"act", "mirror", "truth", "symtab", "strtab", "reloc", "aethela", "schema"}
  <1>2. /\ a.name = "act" /\ a.size \in Nat /\ a.there = TRUE
        /\ b.name = "mirror" /\ b.size \in Nat /\ b.there = TRUE
        /\ c.name = "truth" /\ c.size \in Nat /\ c.there = TRUE
        /\ e.name = "symtab" /\ e.size \in Nat /\ e.there = TRUE
        /\ f.name = "strtab" /\ f.size \in Nat /\ f.there = TRUE
        /\ g.name = "reloc" /\ g.size \in Nat /\ g.there = TRUE
    BY <1>1 DEF Section
  <1>3. UserSections(z) = <<a, b, c>> /\ TableSections(z) = <<e, f, g>>
    BY DEF UserSections, TableSections
  <1>. HIDE DEF a, b, c, e, f, g
  <1>4. \A x \in Short : TagOf(x) \in DataTags
    BY NamesAreTags DEF TagOf
  <1>5. ASSUME NEW x \in {"aethela", "schema"}, NEW s,
               s = UserSections(z) \o <<Section(x, 0, FALSE)>> \o TableSections(z)
        PROVE  Listed(s) /\ Present(s)
    <2>. DEFINE d == Section(x, 0, FALSE)
    <2>1. d.name = x /\ d.size = 0
      BY DEF Section
    <2>2. s = <<a, b, c>> \o <<d>> \o <<e, f, g>>
      BY <1>3, <1>5
    <2>. HIDE DEF d
    <2>3. Len(s) = 7 /\ DOMAIN s = 1 .. 7 /\ s[1] = a /\ s[2] = b /\ s[3] = c /\ s[4] = d
          /\ s[5] = e /\ s[6] = f /\ s[7] = g
      BY <2>2, SevenJoin
    <2>4. \A i \in 1 .. 7 : s[i].size \in Nat /\ (s[i].there = TRUE \/ s[i].size = 0)
      BY <1>2, <2>1, <2>3
    <2>5. \A i \in 1 .. 7 : s[i].name \in Short
      BY <1>2, <2>1, <2>3
    <2>6. \A i, k \in 1 .. 7 : s[i].name = s[k].name => i = k
      BY <1>2, <2>1, <2>3
    <2>. QED
      BY <1>4, <2>3, <2>4, <2>5, <2>6 DEF Listed, Present
  <1>6. Listed(HdaSections(z)) /\ Present(HdaSections(z))
    <2>. DEFINE s == HdaSections(z)
    <2>2. s = <<a, b, c>> \o <<e, f, g>>
      BY <1>3 DEF HdaSections
    <2>. HIDE DEF s
    <2>3. Len(s) = 6 /\ DOMAIN s = 1 .. 6 /\ s[1] = a /\ s[2] = b /\ s[3] = c /\ s[4] = e
          /\ s[5] = f /\ s[6] = g
      BY <2>2, ThreeAndThree
    <2>4. \A i \in 1 .. 6 : s[i].size \in Nat /\ (s[i].there = TRUE \/ s[i].size = 0)
      BY <1>2, <2>3
    <2>5. \A i \in 1 .. 6 : s[i].name \in Short
      BY <1>2, <2>3
    <2>6. \A i, k \in 1 .. 6 : s[i].name = s[k].name => i = k
      BY <1>2, <2>3
    <2>. QED
      BY <1>4, <2>3, <2>4, <2>5, <2>6 DEF Listed, Present, s
  <1>. QED
    BY <1>5, <1>6 DEF AkiSections, SrvSections

-----------------------------------------------------------------------------
(* IYA packages. *)

LEMMA IyaAppends ==
    ASSUME NEW manifest \in Nat, NEW application \in Nat
    PROVE  IyaPlan(manifest, application).writes \in Seq(Appending)
  <1>1. /\ Checked("header", IYA_HEADER_SIZE) \in Appending /\ Checked("manifest", manifest) \in Appending
        /\ Checked("aetb", application) \in Appending
    BY NamesAreTags, CheckedIs DEF IYA_HEADER_SIZE
  <1>. QED
    BY <1>1 DEF IyaPlan, Plan

LEMMA IyaIsRead ==
    ASSUME NEW manifest \in Nat, NEW application \in Nat,
           header = IyaPlan(manifest, application).header,
           file = ImageOf(IyaPlan(manifest, application))
    PROVE  IyaReads
  <1>. DEFINE plan == IyaPlan(manifest, application)
              w == plan.writes
              Z == IyaZones(manifest, application)
              h == HeaderInit("IYA!", [flags |-> 0])
              g == [h EXCEPT !.zones = Z]
  <1>1. header = Sealed(g, "standard")
        /\ w = <<Checked("header", IYA_HEADER_SIZE), Checked("manifest", manifest),
                 Checked("aetb", application)>>
    BY DEF IyaPlan, Plan
  <1>2. IsHeader(g, "IYA!") /\ g.zones = Z
    <2>1. IsHeader(h, "IYA!")
      BY InitIs
    <2>. HIDE DEF h, Z
    <2>. QED
      BY <2>1 DEF IsHeader, HeaderFields
  <1>. HIDE DEF g
  <1>3. header.zones = Z /\ StrictlyValid(header, "IYA!")
    BY <1>1, <1>2, HeaderMade DEF StrictlyValid
  <1>4. w \in Seq(Appending)
    BY IyaAppends
  <1>. DEFINE T == {"header", "manifest", "aetb"}
  <1>5. T \subseteq DataTags /\ IYA_HEADER_SIZE \in Nat
    BY NamesAreTags DEF IYA_HEADER_SIZE
  <1>6. /\ Len(w) = 3 /\ w[1].piece = Piece("header", IYA_HEADER_SIZE)
        /\ w[2].piece = Piece("manifest", manifest) /\ w[3].piece = Piece("aetb", application)
    <2>. HIDE DEF w
    <2>. QED
      BY <1>1, <1>5, CheckedIs
  <1>7. /\ Begins(w, 1) = 0 /\ file \in Files
        /\ \A i \in 1 .. 3 : Begins(w, i) \in Nat /\ Begins(w, i + 1) = Begins(w, i) + w[i].piece.size
        /\ \A i \in 1 .. 3 : \A b \in Int, m \in Nat : \A what, from :
              Intact(w[i].piece, b, m, what, from) => Intact(file, Begins(w, i) + b, m, what, from)
        /\ file.size = Begins(w, 4)
        /\ \A i \in 1 .. 3 : \A what \in DataTags, size \in Nat :
              w[i].piece = Piece(what, size) => Holds(file, Begins(w, i), size, what)
    <2>. HIDE DEF plan
    <2>1. Len(plan.writes) = 3 /\ plan.writes \in Seq(Appending) /\ file = ImageOf(plan)
      BY <1>4, <1>6 DEF plan
    <2>2. 3 + 1 = 4
      OBVIOUS
    <2>. QED
      BY <2>1, <2>2, ImageIs
  <1>. HIDE DEF w, plan
  <1>8. \A what \in T : \A n \in Nat : Piece(what, n).size = n /\ Intact(Piece(what, n), 0, n, what, 0)
    BY <1>5, PieceIs
  <1>9. /\ Begins(w, 2) = IYA_HEADER_SIZE /\ Begins(w, 3) = IYA_HEADER_SIZE + manifest
        /\ file.size = IYA_HEADER_SIZE + manifest + application
    BY <1>5, <1>6, <1>7, <1>8
  <1>10. Holds(file, 0, IYA_HEADER_SIZE, "header")
    BY <1>5, <1>6, <1>7
  <1>11. /\ Z["manifest"].offset = IYA_HEADER_SIZE /\ Z["manifest"].size = manifest
         /\ Z["aetb"].offset = IYA_HEADER_SIZE + manifest /\ Z["aetb"].size = application
    BY DEF IyaZones, Zone
  <1>. HIDE DEF Z
  <1>12. \A n \in {"manifest", "aetb"} : Inside(file, Z[n].offset, Z[n].size)
    BY <1>5, <1>9, <1>11 DEF Inside
  <1>13. ASSUME NEW n \in {"manifest", "aetb"}, Z[n].size > 0
         PROVE  Content(file, Z[n].offset, Z[n].size) = [what |-> n, from |-> 0]
    <2>1. Z[n].size \in Nat /\ Z[n].size # 0 /\ Z[n].offset \in Nat
      BY <1>5, <1>11, <1>13
    <2>2. Holds(file, Z[n].offset, Z[n].size, n)
      BY <1>5, <1>6, <1>7, <1>9, <1>11
    <2>. QED
      BY <2>1, <2>2 DEF Holds
  <1>. QED
    BY <1>3, <1>10, <1>12, <1>13 DEF IyaReads, IyaExtracts, IyaExtracted

-----------------------------------------------------------------------------
(* What the assembly weavers are given. *)

LEMMA AlignedIs ==
    ASSUME NEW n \in Nat
    PROVE  /\ Align16(n) \in Nat /\ n <= Align16(n) /\ Align16(n) - n \in Nat
           /\ Align16(HEADER_SIZE + n) = HEADER_SIZE + Align16(n)
BY DEF Align16, AlignUp, HEADER_SIZE

LEMMA TwoJoined ==
    ASSUME NEW a \in Files, NEW b \in Files
    PROVE  LET g == Concatenated(<<a, b>>)
           IN  /\ g \in Files /\ g.size = a.size + b.size
               /\ \A at \in Int, n \in Nat : \A what, from :
                     /\ Intact(a, at, n, what, from) => Intact(g, at, n, what, from)
                     /\ Intact(b, at, n, what, from) => Intact(g, a.size + at, n, what, from)
  <1>. DEFINE p == <<a, b>>
              g == Concatenated(p)
  <1>1. p \in [1 .. 2 -> Files] /\ DOMAIN p = 1 .. 2 /\ p[1] = a /\ p[2] = b
    OBVIOUS
  <1>2. a.size \in Nat /\ b.size \in Nat
    BY FileIs
  <1>. HIDE DEF p
  <1>3. ConcatOf(g, 2, p)
    BY <1>1, ConcatIs
  <1>4. /\ SizeOfFirst(p, 0) = 0
        /\ \A k \in 1 .. 2 : SizeOfFirst(p, k) = SizeOfFirst(p, k - 1) + p[k].size
        /\ \A k \in 0 .. 2 : SizeOfFirst(p, k) \in Nat
    <2>1. \A i \in 1 .. 2 : p[i].size \in Nat
      BY <1>1, <1>2
    <2>. QED
      BY <1>1, <2>1, SizeSteps
  <1>5. SizeOfFirst(p, 1 - 1) = 0 /\ SizeOfFirst(p, 2 - 1) = a.size /\ SizeOfFirst(p, 2) = a.size + b.size
    <2>1. SizeOfFirst(p, 1) = SizeOfFirst(p, 0) + p[1].size
      BY <1>4
    <2>2. SizeOfFirst(p, 2) = SizeOfFirst(p, 1) + p[2].size
      BY <1>4
    <2>. QED
      BY <1>1, <1>2, <1>4, <2>1, <2>2
  <1>6. g \in Files /\ g.size = a.size + b.size
    BY <1>3, <1>5 DEF ConcatOf
  <1>7. ASSUME NEW at \in Int, NEW n \in Nat, NEW what, NEW from
        PROVE  /\ Intact(a, at, n, what, from) => Intact(g, at, n, what, from)
               /\ Intact(b, at, n, what, from) => Intact(g, a.size + at, n, what, from)
    <2>1. \A i \in 1 .. 2 : Intact(p[i], at, n, what, from)
                               => Intact(g, SizeOfFirst(p, i - 1) + at, n, what, from)
      BY <1>3 DEF ConcatOf
    <2>2. 0 + at = at
      OBVIOUS
    <2>3. Intact(p[1], at, n, what, from) => Intact(g, SizeOfFirst(p, 1 - 1) + at, n, what, from)
      BY <2>1
    <2>4. Intact(p[2], at, n, what, from) => Intact(g, SizeOfFirst(p, 2 - 1) + at, n, what, from)
      BY <2>1
    <2>. HIDE DEF g
    <2>. QED
      BY <1>1, <1>5, <2>2, <2>3, <2>4
  <1>. QED
    BY <1>6, <1>7 DEF p

LEMMA ExpandedIs ==
    ASSUME NEW z, Measures(z)
    PROVE  LET g == ExpandedCode(z)
           IN  g \in Files /\ g.size = AtLeast(1024, z.code) /\ Intact(g, 0, z.code, "code", 0)
  <1>. DEFINE a == Piece("code", z.code)
              b == Piece("nops", AtLeast(1024, z.code) - z.code)
              g == Concatenated(<<a, b>>)
  <1>1. z.code \in Nat /\ AtLeast(1024, z.code) - z.code \in Nat /\ AtLeast(1024, z.code) \in Nat
    BY DEF Measures, AtLeast
  <1>2. a \in Files /\ a.size = z.code /\ Intact(a, 0, z.code, "code", 0)
    BY <1>1, NamesAreTags, PieceIs
  <1>3. b \in Files /\ b.size = AtLeast(1024, z.code) - z.code
    <2>. DEFINE n == AtLeast(1024, z.code) - z.code
    <2>1. n \in Nat
      BY <1>1
    <2>. HIDE DEF n
    <2>2. Piece("nops", n) \in Files /\ Piece("nops", n).size = n
      BY <2>1, NamesAreTags, PieceIs
    <2>. QED
      BY Zenon, <2>2 DEF n
  <1>4. g = ExpandedCode(z)
    BY DEF ExpandedCode
  <1>. HIDE DEF a, b
  <1>5. g \in Files /\ g.size = a.size + b.size
    BY <1>2, <1>3, TwoJoined
  <1>6. Intact(a, 0, z.code, "code", 0) => Intact(g, 0, z.code, "code", 0)
    <2>1. 0 \in Int
      OBVIOUS
    <2>. QED
      BY <1>1, <1>2, <1>3, <2>1, TwoJoined
  <1>. HIDE DEF g
  <1>. QED
    BY <1>1, <1>2, <1>3, <1>4, <1>5, <1>6

LEMMA TruthIs ==
    ASSUME NEW z, Measures(z)
    PROVE  LET g == TruthStatic(z)
           IN  /\ g \in Files /\ g.size \in Nat
               /\ Intact(g, 0, TRUTH_BASE, "dictionary", 0) /\ Intact(g, TRUTH_BASE, z.mirror, "mirror", 0)
  <1>. DEFINE size == AtLeast(512, TRUTH_BASE + z.mirror)
              a == Blank(size, "zeros")
              d == Piece("dictionary", TRUTH_BASE)
              m == Piece("mirror", z.mirror)
              f == Overlay(a, 0, d)
              g == Overlay(f, TRUTH_BASE, m)
              base == TRUTH_BASE
  <1>1. base \in Nat /\ z.mirror \in Nat /\ size \in Nat /\ base + z.mirror <= size /\ base <= size /\ 0 \in Nat
    BY DEF Measures, AtLeast, TRUTH_BASE
  <1>2. /\ a \in Files /\ a.size = size
        /\ d \in Files /\ d.size = base /\ Intact(d, 0, base, "dictionary", 0)
        /\ m \in Files /\ m.size = z.mirror /\ Intact(m, 0, z.mirror, "mirror", 0)
    <2>. HIDE DEF size, base
    <2>1. a \in Files /\ a.size = size
      BY <1>1, NamesAreTags, PieceIs DEF Blank
    <2>2. d \in Files /\ d.size = base /\ Intact(d, 0, base, "dictionary", 0)
      BY <1>1, NamesAreTags, PieceIs DEF base
    <2>3. m \in Files /\ m.size = z.mirror /\ Intact(m, 0, z.mirror, "mirror", 0)
      BY <1>1, NamesAreTags, PieceIs
    <2>. QED
      BY <2>1, <2>2, <2>3
  <1>3. g = TruthStatic(z)
    BY DEF TruthStatic
  <1>. HIDE DEF size, a, d, m, base
  <1>4. f \in Files /\ f.size = size /\ Intact(f, 0 + 0, base, "dictionary", 0)
    BY <1>1, <1>2, Overlays
  <1>. HIDE DEF f
  <1>5. /\ g \in Files /\ g.size = size /\ Intact(g, base + 0, z.mirror, "mirror", 0)
        /\ Intact(f, 0, base, "dictionary", 0) => Intact(g, 0, base, "dictionary", 0)
    <2>1. 0 \in Int /\ base \in Int /\ 0 + base <= base
      BY <1>1
    <2>. QED
      BY <1>1, <1>2, <1>4, <2>1, Overlays DEF base
  <1>6. 0 + 0 = 0 /\ base + 0 = base
    BY <1>1
  <1>. HIDE DEF g
  <1>. QED
    BY <1>1, <1>3, <1>4, <1>5, <1>6 DEF base

LEMMA AethelaIs ==
    ASSUME NEW z, Measures(z)
    PROVE  AethelaLogic(z) \in Files
  <1>. DEFINE used == AETHELA_BASE + MANIFESTS
              e == Piece("engine", AETHELA_BASE)
              m == Piece("manifests", MANIFESTS)
              engine == Concatenated(<<e, m>>)
              size == AtLeast(2048, used + z.truth)
              a == Blank(size, "zeros")
              t == Piece("truth", z.truth)
              f == Overlay(a, 0, engine)
              g == Overlay(f, used, t)
  <1>1. /\ used \in Nat /\ z.truth \in Nat /\ size \in Nat /\ used + z.truth <= size /\ used <= size
        /\ AETHELA_BASE \in Nat /\ MANIFESTS \in Nat /\ 0 \in Nat
    BY DEF Measures, AtLeast, AETHELA_BASE, MANIFESTS
  <1>2. /\ a \in Files /\ a.size = size /\ t \in Files /\ t.size = z.truth
        /\ e \in Files /\ e.size = AETHELA_BASE /\ m \in Files /\ m.size = MANIFESTS
    <2>. HIDE DEF size, used
    <2>1. a \in Files /\ a.size = size
      BY <1>1, NamesAreTags, PieceIs DEF Blank
    <2>2. e \in Files /\ e.size = AETHELA_BASE /\ m \in Files /\ m.size = MANIFESTS
      BY <1>1, NamesAreTags, PieceIs
    <2>3. t \in Files /\ t.size = z.truth
      BY <1>1, NamesAreTags, PieceIs
    <2>. QED
      BY <2>1, <2>2, <2>3
  <1>3. g = AethelaLogic(z)
    BY DEF AethelaLogic
  <1>. HIDE DEF size, a, e, m, t
  <1>4. engine \in Files /\ engine.size = used
    BY <1>2, TwoJoined
  <1>. HIDE DEF engine, used
  <1>5. f \in Files /\ f.size = size
    BY <1>1, <1>2, <1>4, Overlays
  <1>. HIDE DEF f
  <1>6. g \in Files
    BY <1>1, <1>2, <1>5, Overlays
  <1>. QED
    BY <1>3, <1>6

-----------------------------------------------------------------------------
(* The assembly weavers. *)

PlanFields == {"accepts", "header", "writes", "closeChecked", "opens", "errnoIsHandle"}

LEMMA OnHostIs ==
    ASSUME NEW plan, plan = [x \in PlanFields |-> plan[x]], plan.writes \in Seq(Appending)
    PROVE  LET p == OnHost(plan)
           IN  /\ p.accepts = plan.accepts /\ p.header = plan.header
               /\ p.writes \in Seq(Appending) /\ Len(p.writes) = Len(plan.writes)
               /\ \A i \in 1 .. Len(plan.writes) : p.writes[i].piece = plan.writes[i].piece
  <1>. DEFINE writes == plan.writes
              w == [i \in DOMAIN writes |-> [writes[i] EXCEPT !.reaches = Host # "windows" \/ i = 1]]
              p == OnHost(plan)
  <1>1. DOMAIN writes = 1 .. Len(writes) /\ Len(writes) \in Nat
        /\ \A i \in 1 .. Len(writes) : writes[i] \in Appending
    OBVIOUS
  <1>2. p.accepts = plan.accepts /\ p.header = plan.header /\ p.writes = w
    BY DEF OnHost, PlanFields
  <1>3. \A x \in Appending : \A b \in BOOLEAN :
           [x EXCEPT !.reaches = b] \in Appending /\ [x EXCEPT !.reaches = b].piece = x.piece
    BY DEF Appending
  <1>4. \A i \in 1 .. Len(writes) : w[i] \in Appending /\ w[i].piece = writes[i].piece
    <2>. TAKE i \in 1 .. Len(writes)
    <2>1. (Host # "windows" \/ i = 1) \in BOOLEAN
      OBVIOUS
    <2>2. w[i] = [writes[i] EXCEPT !.reaches = Host # "windows" \/ i = 1]
      BY <1>1
    <2>. HIDE DEF w
    <2>. QED
      BY <1>1, <1>3, <2>1, <2>2
  <1>5. w = [i \in 1 .. Len(writes) |-> w[i]]
    BY <1>1
  <1>. HIDE DEF w, p, writes
  <1>6. w \in Seq(Appending) /\ Len(w) = Len(writes)
    BY <1>1, <1>4, <1>5
  <1>. QED
    BY <1>2, <1>4, <1>6 DEF p, writes

Input(in) == in.act \in Files /\ in.mirror \in Files /\ in.truth \in Files
             /\ in.identities \in Nat /\ in.relocs \in Nat

LEMMA KernelInputIs ==
    ASSUME NEW z, Measures(z)
    PROVE  Input(KernelInput(z))
BY ExpandedIs, TruthIs, AethelaIs DEF KernelInput, Input, NEXUS_SIZE

LEMMA EmbryoInputIs ==
    ASSUME NEW z, Measures(z)
    PROVE  Input(EmbryoInput(z))
BY PieceIs, NamesAreTags DEF EmbryoInput, Input, Measures

LEMMA AsmPlanIs ==
    ASSUME NEW magic, NEW in, NEW zones, NEW writes \in Seq(Appending)
    PROVE  LET p == AsmPlan(magic, in, zones, writes)
           IN  /\ p.writes \in Seq(Appending) /\ Len(p.writes) = Len(writes)
               /\ \A i \in 1 .. Len(writes) : p.writes[i].piece = writes[i].piece
               /\ header = p.header => header.zones = zones
  <1>. DEFINE h == HeaderInit(magic, [sip |-> 0])
              g == [h EXCEPT !.id = "given", !.zones = zones]
              s == Sealed(g, "damaged table")
              r == Plan(in.act.size > 0, s, writes, TRUE)
              q == OnHost(r)
  <1>1. AsmPlan(magic, in, zones, writes) = q
    BY DEF AsmPlan
  <1>2. IsHeader(g, magic) /\ g.zones = zones
    <2>1. IsHeader(h, magic)
      BY InitIs
    <2>. HIDE DEF h
    <2>. QED
      BY <2>1 DEF IsHeader, HeaderFields
  <1>. HIDE DEF g
  <1>3. ASSUME header = s PROVE header.zones = zones
    BY <1>2, <1>3, HeaderMade
  <1>. HIDE DEF s
  <1>4. /\ q.header = s /\ q.writes \in Seq(Appending) /\ Len(q.writes) = Len(writes)
        /\ \A i \in 1 .. Len(writes) : q.writes[i].piece = writes[i].piece
    <2>1. r.writes = writes /\ r.header = s /\ r = [x \in PlanFields |-> r[x]]
      BY DEF Plan, PlanFields
    <2>. HIDE DEF r
    <2>. QED
      BY <2>1, OnHostIs
  <1>. HIDE DEF q
  <1>. QED
    BY <1>1, <1>3, <1>4

LEMMA SizeAfterIs == \A n \in Nat : SizeAfterWrite(n) \in Nat
BY DEF SizeAfterWrite, FlagsAfterTest

LEMMA PaddingIs ==
    ASSUME NEW n \in Nat
    PROVE  /\ PaddingFor(n) \in Appending
           /\ n # 0 => PaddingFor(n).piece.size = Align16(n) - n
  <1>. DEFINE d == Align16(n) - n
              p == IF n = 0 THEN EmptyFile ELSE Padding(n)
  <1>1. d \in Nat
    BY AlignedIs
  <1>2. Padding(n) = Piece("padding", d)
    BY DEF Padding
  <1>. HIDE DEF d
  <1>3. Padding(n) \in Files /\ Padding(n).size = d
    <2>1. Piece("padding", d) \in Files /\ Piece("padding", d).size = d
      BY <1>1, NamesAreTags, PieceIs
    <2>. QED
      BY <1>2, <2>1
  <1>4. p \in Files /\ (n # 0 => p.size = d)
    BY <1>3, NothingIs
  <1>5. PaddingFor(n) = Write(p)
    BY DEF PaddingFor
  <1>. HIDE DEF p
  <1>. QED
    BY <1>4, <1>5, WriteIs DEF d

LEMMA AkiWritesAre ==
    ASSUME NEW in, Input(in)
    PROVE  /\ AkiWrites(in) \in Seq(Appending) /\ Len(AkiWrites(in)) = 8
           /\ AkiWrites(in)[1].piece = Piece("header", HEADER_SIZE)
           /\ AkiWrites(in)[2].piece = in.act /\ AkiWrites(in)[4].piece = in.mirror
           /\ in.act.size # 0 => AkiWrites(in)[3].piece.size = Align16(in.act.size) - in.act.size
  <1>. DEFINE m == IF in.mirror.size = 0 THEN 0 ELSE SizeAfterWrite(in.mirror.size)
              t == IF in.truth.size = 0 \/ in.identities = 0 THEN 0 ELSE SizeAfterWrite(in.truth.size)
              a == Checked("header", HEADER_SIZE)
              b == Write(in.act)
              c == PaddingFor(in.act.size)
              d == Write(in.mirror)
              e == PaddingFor(m)
              f == Write(in.truth)
              g == PaddingFor(t)
              h == Checked("nexus", in.identities)
              w == AkiWrites(in)
  <1>1. w = <<a, b, c, d, e, f, g, h>>
    BY DEF AkiWrites
  <1>2. in.act \in Files /\ in.mirror \in Files /\ in.truth \in Files /\ in.identities \in Nat
        /\ in.act.size \in Nat /\ in.mirror.size \in Nat /\ in.truth.size \in Nat /\ HEADER_SIZE \in Nat
    BY FileIs DEF Input, HEADER_SIZE
  <1>3. m \in Nat /\ t \in Nat
    BY <1>2, SizeAfterIs
  <1>. DEFINE n == in.act.size
  <1>. HIDE DEF m, t, n
  <1>4. a \in Appending /\ a.piece = Piece("header", HEADER_SIZE) /\ h \in Appending
    BY <1>2, CheckedIs, NamesAreTags
  <1>5. b \in Appending /\ b.piece = in.act /\ d \in Appending /\ d.piece = in.mirror /\ f \in Appending
    BY <1>2, WriteIs
  <1>6. PaddingFor(m) \in Appending /\ PaddingFor(t) \in Appending
    BY <1>3, PaddingIs
  <1>7. n \in Nat
    BY <1>2 DEF n
  <1>70. PaddingFor(n) \in Appending /\ (n # 0 => PaddingFor(n).piece.size = Align16(n) - n)
    BY <1>7, PaddingIs
  <1>71. c = PaddingFor(n)
    BY DEF n
  <1>. HIDE DEF a, b, c, d, e, f, g, h, w
  <1>72. c \in Appending /\ (n # 0 => c.piece.size = Align16(n) - n)
    BY <1>70, <1>71
  <1>73. e \in Appending /\ g \in Appending
    BY <1>6 DEF e, g
  <1>8. w \in Seq(Appending)
    BY <1>1, <1>4, <1>5, <1>72, <1>73
  <1>9. Len(w) = 8 /\ w[1] = a /\ w[2] = b /\ w[3] = c /\ w[4] = d
    BY <1>1
  <1>. QED
    BY <1>4, <1>5, <1>72, <1>8, <1>9 DEF w, n

LEMMA AkiAppends ==
    ASSUME NEW in, Input(in)
    PROVE  AkiPlan(in).writes \in Seq(Appending)
BY AkiWritesAre, AsmPlanIs DEF AkiPlan

LEMMA AkiPlaces ==
    ASSUME NEW in, Input(in), in.act.size # 0, header = AkiPlan(in).header, file = ImageOf(AkiPlan(in))
    PROVE  /\ header.zones = AkiZones(in) /\ HeaderThere /\ file \in Files
           /\ \A b \in Int, n \in Nat : \A what, from :
                 /\ Intact(in.act, b, n, what, from) => Intact(file, HEADER_SIZE + b, n, what, from)
                 /\ Intact(in.mirror, b, n, what, from)
                       => Intact(file, HEADER_SIZE + Align16(in.act.size) + b, n, what, from)
  <1>. DEFINE plan == AkiPlan(in)
              w == plan.writes
              v == AkiWrites(in)
  <1>1. /\ v \in Seq(Appending) /\ Len(v) = 8 /\ v[1].piece = Piece("header", HEADER_SIZE)
        /\ v[2].piece = in.act /\ v[4].piece = in.mirror
        /\ v[3].piece.size = Align16(in.act.size) - in.act.size
    BY AkiWritesAre
  <1>2. plan = AsmPlan("AKI!", in, AkiZones(in), v)
    BY DEF AkiPlan
  <1>. HIDE DEF v, plan
  <1>3. /\ w \in Seq(Appending) /\ Len(w) = Len(v)
        /\ \A i \in 1 .. Len(v) : w[i].piece = v[i].piece
        /\ header.zones = AkiZones(in)
    <2>. DEFINE zones == AkiZones(in)
                p == AsmPlan("AKI!", in, zones, v)
    <2>. HIDE DEF zones
    <2>1. /\ p.writes \in Seq(Appending) /\ Len(p.writes) = Len(v)
          /\ \A i \in 1 .. Len(v) : p.writes[i].piece = v[i].piece
          /\ header = p.header => header.zones = zones
      BY <1>1, AsmPlanIs
    <2>2. plan = p /\ header = plan.header
      BY <1>2 DEF zones, plan
    <2>. HIDE DEF p
    <2>. QED
      BY <2>1, <2>2 DEF zones
  <1>. HIDE DEF w
  <1>4. /\ w \in Seq(Appending) /\ Len(w) = 8 /\ w[1].piece = Piece("header", HEADER_SIZE)
        /\ w[2].piece = in.act /\ w[4].piece = in.mirror
        /\ w[3].piece.size = Align16(in.act.size) - in.act.size
    BY <1>1, <1>3
  <1>5. /\ Begins(w, 1) = 0 /\ file \in Files
        /\ \A i \in 1 .. 8 : Begins(w, i) \in Nat /\ Begins(w, i + 1) = Begins(w, i) + w[i].piece.size
        /\ \A i \in 1 .. 8 : \A b \in Int, m \in Nat : \A what, from :
              Intact(w[i].piece, b, m, what, from) => Intact(file, Begins(w, i) + b, m, what, from)
        /\ \A i \in 1 .. 8 : \A what \in DataTags, size \in Nat :
              w[i].piece = Piece(what, size) => Holds(file, Begins(w, i), size, what)
    BY <1>4, ImageIs DEF w, plan
  <1>6. in.act.size \in Nat /\ HEADER_SIZE \in Nat /\ Align16(in.act.size) \in Nat
    BY AlignedIs, FileIs DEF Input, HEADER_SIZE
  <1>7. Piece("header", HEADER_SIZE).size = HEADER_SIZE
    BY <1>6, PieceIs, NamesAreTags
  <1>8. Begins(w, 2) = HEADER_SIZE /\ Begins(w, 4) = HEADER_SIZE + Align16(in.act.size)
    <2>1. Begins(w, 2) = Begins(w, 1) + w[1].piece.size /\ Begins(w, 3) = Begins(w, 2) + w[2].piece.size
          /\ Begins(w, 4) = Begins(w, 3) + w[3].piece.size
      BY <1>5
    <2>. DEFINE n == in.act.size
                k == Align16(n)
    <2>2. n \in Nat /\ k \in Nat /\ w[2].piece.size = n /\ w[3].piece.size = k - n
      BY <1>4, <1>6
    <2>. HIDE DEF n, k
    <2>0. w[1].piece.size = HEADER_SIZE
      BY <1>4, <1>7
    <2>3. Begins(w, 2) = HEADER_SIZE
      BY <1>5, <1>6, <2>0, <2>1
    <2>4. Begins(w, 4) = HEADER_SIZE + k
      BY <1>6, <2>1, <2>2, <2>3
    <2>. QED
      BY <2>3, <2>4 DEF k, n
  <1>9. HeaderThere
    <2>0. 1 \in 1 .. 8
      OBVIOUS
    <2>1. \A what \in DataTags, size \in Nat :
             w[1].piece = Piece(what, size) => Holds(file, Begins(w, 1), size, what)
      BY <1>5, <2>0
    <2>2. Holds(file, Begins(w, 1), HEADER_SIZE, "header")
      BY <1>4, <1>6, <2>1, NamesAreTags
    <2>. QED
      BY <1>5, <2>2 DEF HeaderThere
  <1>10. ASSUME NEW b \in Int, NEW n \in Nat, NEW what, NEW from
         PROVE  /\ Intact(in.act, b, n, what, from) => Intact(file, HEADER_SIZE + b, n, what, from)
                /\ Intact(in.mirror, b, n, what, from)
                      => Intact(file, HEADER_SIZE + Align16(in.act.size) + b, n, what, from)
    <2>1. \A i \in 1 .. 8 : Intact(w[i].piece, b, n, what, from)
                               => Intact(file, Begins(w, i) + b, n, what, from)
      BY <1>5
    <2>2. Intact(w[2].piece, b, n, what, from) => Intact(file, Begins(w, 2) + b, n, what, from)
      BY <2>1
    <2>3. Intact(w[4].piece, b, n, what, from) => Intact(file, Begins(w, 4) + b, n, what, from)
      BY <2>1
    <2>. QED
      BY <1>4, <1>8, <2>2, <2>3
  <1>. QED
    BY <1>3, <1>5, <1>9, <1>10

LEMMA AkiWovenIsRead ==
    ASSUME Measures(job.z), job.z.code # 0, header = AkiPlan(EmbryoInput(job.z)).header,
           file = ImageOf(AkiPlan(EmbryoInput(job.z)))
    PROVE  AkiWovenReads
  <1>. DEFINE z == job.z
              in == EmbryoInput(z)
  <1>1. z.code \in Nat /\ z.mirror \in Nat
    BY DEF Measures
  <1>2. /\ in.act = Piece("code", z.code) /\ in.mirror = Piece("mirror", z.mirror) /\ Input(in)
    BY EmbryoInputIs DEF EmbryoInput
  <1>3. /\ in.act.size = z.code /\ Intact(in.act, 0, z.code, "code", 0)
        /\ in.mirror.size = z.mirror /\ Intact(in.mirror, 0, z.mirror, "mirror", 0)
    <2>. DEFINE p == Piece("code", z.code)
                q == Piece("mirror", z.mirror)
    <2>1. p.size = z.code /\ Intact(p, 0, z.code, "code", 0)
      BY <1>1, PieceIs, NamesAreTags
    <2>2. q.size = z.mirror /\ Intact(q, 0, z.mirror, "mirror", 0)
      BY <1>1, PieceIs, NamesAreTags
    <2>3. in.act = p /\ in.mirror = q
      BY <1>2
    <2>. HIDE DEF p, q, in
    <2>. QED
      BY <2>1, <2>2, <2>3
  <1>. HIDE DEF in
  <1>4. /\ header.zones = AkiZones(in) /\ HeaderThere /\ file \in Files
        /\ Intact(file, HEADER_SIZE + 0, z.code, "code", 0)
        /\ Intact(file, HEADER_SIZE + Align16(in.act.size) + 0, z.mirror, "mirror", 0)
    BY <1>1, <1>2, <1>3, AkiPlaces DEF in
  <1>5. /\ header.zones.act.offset = HEADER_SIZE
        /\ header.zones.truth.offset = HEADER_SIZE + Align16(in.act.size)
    BY <1>4 DEF AkiZones, Zone
  <1>6. HEADER_SIZE \in Int /\ HEADER_SIZE + Align16(in.act.size) \in Int
    BY <1>1, <1>3, AlignedIs DEF HEADER_SIZE
  <1>7. HEADER_SIZE + 0 = HEADER_SIZE
        /\ HEADER_SIZE + Align16(in.act.size) + 0 = HEADER_SIZE + Align16(in.act.size)
    BY <1>6
  <1>8. Holds(file, HEADER_SIZE, z.code, "code")
    BY <1>1, <1>4, <1>6, <1>7, IntactHolds
  <1>9. Holds(file, HEADER_SIZE + Align16(in.act.size), z.mirror, "mirror")
    BY <1>1, <1>4, <1>6, <1>7, IntactHolds
  <1>. QED
    BY <1>4, <1>5, <1>8, <1>9 DEF AkiWovenReads

LEMMA AkiIsRead ==
    ASSUME Measures(job.z), header = AkiPlan(KernelInput(job.z)).header,
           file = ImageOf(AkiPlan(KernelInput(job.z)))
    PROVE  AkiReads
  <1>. DEFINE z == job.z
              in == KernelInput(z)
              nexus == NexusEntries(z)
              h == HEADER_SIZE
              a == Align16(in.act.size)
              base == TRUTH_BASE
  <1>1. z.code \in Nat /\ z.mirror \in Nat /\ h \in Nat /\ base \in Nat
    BY DEF Measures, HEADER_SIZE, TRUTH_BASE
  <1>2. in.act = ExpandedCode(z) /\ in.mirror = TruthStatic(z) /\ in.truth = AethelaLogic(z)
        /\ in.identities = NEXUS_SIZE /\ Input(in)
    BY KernelInputIs DEF KernelInput
  <1>3. /\ in.act.size = AtLeast(1024, z.code) /\ Intact(in.act, 0, z.code, "code", 0)
        /\ Intact(in.mirror, 0, base, "dictionary", 0) /\ Intact(in.mirror, base, z.mirror, "mirror", 0)
    BY <1>2, ExpandedIs, TruthIs
  <1>. HIDE DEF in
  <1>4. in.act.size \in Nat /\ in.act.size # 0
    BY <1>1, <1>3 DEF AtLeast
  <1>5. a \in Nat /\ Align16(h + in.act.size) = h + a
    BY <1>4, AlignedIs
  <1>. HIDE DEF a, base, h
  <1>6. /\ header.zones = AkiZones(in) /\ HeaderThere /\ file \in Files
        /\ Intact(file, h + 0, z.code, "code", 0)
        /\ Intact(file, h + a + 0, base, "dictionary", 0)
        /\ Intact(file, h + a + base, z.mirror, "mirror", 0)
    <2>1. \A b \in Int, n \in Nat : \A what, from :
                 /\ Intact(in.act, b, n, what, from) => Intact(file, h + b, n, what, from)
                 /\ Intact(in.mirror, b, n, what, from) => Intact(file, h + a + b, n, what, from)
      BY <1>2, <1>4, AkiPlaces DEF in, h, a
    <2>2. header.zones = AkiZones(in) /\ HeaderThere /\ file \in Files
      BY <1>2, <1>4, AkiPlaces DEF in
    <2>. QED
      BY <1>1, <1>3, <2>1, <2>2
  <1>7. /\ nexus.act = Zone(h, in.act.size) /\ nexus.truth = Zone(h + a, in.mirror.size)
        /\ \A n \in {"act", "truth", "aethela", "nexus"} : AkiZones(in)[n] = nexus[n]
    <2>1. nexus.act = Zone(h, in.act.size) /\ nexus.truth = Zone(h + a, in.mirror.size)
      BY <1>2, <1>5 DEF NexusEntries, h
    <2>2. NEXUS_SIZE # 0
      BY DEF NEXUS_SIZE
    <2>3. AkiZones(in).act = nexus.act /\ AkiZones(in).truth = nexus.truth
      BY <2>1 DEF AkiZones, h, a
    <2>4. /\ nexus.aethela = Zone(Align16(h + a + in.mirror.size), in.truth.size)
          /\ nexus.nexus = Zone(Align16(Align16(h + a + in.mirror.size) + in.truth.size), NEXUS_SIZE)
      BY <1>2, <1>5 DEF NexusEntries, h
    <2>5. AkiZones(in).aethela = nexus.aethela /\ AkiZones(in).nexus = nexus.nexus
      BY <1>2, <2>2, <2>4 DEF AkiZones, h, a
    <2>. HIDE DEF nexus
    <2>. QED
      BY <2>1, <2>3, <2>5
  <1>8. nexus.act.offset = h /\ nexus.truth.offset = h + a
    <2>. HIDE DEF nexus
    <2>. QED
      BY <1>7 DEF Zone
  <1>9. h \in Int /\ h + a \in Int /\ h + a + base \in Int /\ h + 0 = h /\ h + a + 0 = h + a
    BY <1>1, <1>5
  <1>10. /\ Holds(file, h, z.code, "code") /\ Holds(file, h + a, base, "dictionary")
         /\ Holds(file, h + a + base, z.mirror, "mirror")
    BY <1>1, <1>6, <1>9, IntactHolds
  <1>. HIDE DEF nexus
  <1>. QED
    BY <1>6, <1>7, <1>8, <1>10 DEF AkiReads, nexus, in, base

-----------------------------------------------------------------------------
(* HDA, SRV and AETB as the assembly weavers write them. *)

\* Header, code, state, and perhaps the constants.
BackToBack(w, in) ==
    /\ w \in Seq(Appending) /\ Len(w) \in {3, 4}
    /\ w[1].piece = Piece("header", HEADER_SIZE)
    /\ w[2].piece = in.act /\ w[3].piece = in.mirror
    /\ Len(w) = 4 => w[4].piece = in.truth

LEMMA OneMore ==
    ASSUME NEW a, NEW b, NEW c, NEW d
    PROVE  LET t == <<a, b, c>> \o <<d>>
           IN  Len(t) = 4 /\ t[1] = a /\ t[2] = b /\ t[3] = c /\ t[4] = d
OBVIOUS

LEMMA WovenAppends ==
    ASSUME NEW in, Input(in)
    PROVE  /\ BackToBack(CodeAndState(in), in)
           /\ BackToBack(CodeAndState(in) \o <<Write(in.truth)>>, in)
           /\ Len(CodeAndState(in) \o <<Write(in.truth)>>) = 4
  <1>. DEFINE a == Checked("header", HEADER_SIZE)
              b == Write(in.act)
              c == MirrorWrite(in)
              d == Write(in.truth)
              k == SizeAfterWrite(in.mirror.size)
              m == Write(in.mirror)
  <1>1. in.act \in Files /\ in.mirror \in Files /\ in.truth \in Files /\ HEADER_SIZE \in Nat
    BY DEF Input, HEADER_SIZE
  <1>2. k \in Int
    BY <1>1, FileIs, SizeAfterIs
  <1>3. a \in Appending /\ a.piece = Piece("header", HEADER_SIZE)
    BY <1>1, CheckedIs, NamesAreTags
  <1>4. b \in Appending /\ b.piece = in.act /\ d \in Appending /\ d.piece = in.truth
    BY <1>1, WriteIs
  <1>5. c = [m EXCEPT !.count = k]
    BY DEF MirrorWrite
  <1>. HIDE DEF a, b, c, d, k
  <1>6. c \in Appending /\ c.piece = in.mirror
    <2>1. \A n \in Int : [m EXCEPT !.count = n] \in Appending /\ [m EXCEPT !.count = n].piece = in.mirror
      BY <1>1, WriteIs
    <2>. HIDE DEF m
    <2>2. [m EXCEPT !.count = k] \in Appending /\ [m EXCEPT !.count = k].piece = in.mirror
      BY <1>2, <2>1
    <2>. QED
      BY <1>5, <2>2
  <1>7. CodeAndState(in) = <<a, b, c>>
    BY DEF CodeAndState, a, b, c
  <1>8. BackToBack(<<a, b, c>>, in)
    BY <1>3, <1>4, <1>6 DEF BackToBack
  <1>. DEFINE s == <<a, b, c>>
              e == <<d>>
              t == s \o e
  <1>9. /\ Len(t) = 4 /\ t[1] = a /\ t[2] = b /\ t[3] = c /\ t[4] = d
    BY OneMore
  <1>10. t \in Seq(Appending)
    <2>1. s \in Seq(Appending) /\ e \in Seq(Appending)
      BY <1>3, <1>4, <1>6
    <2>. HIDE DEF s, e
    <2>. QED
      BY <2>1, ConcatProperties
  <1>11. BackToBack(t, in) /\ Len(t) = 4
    <2>. HIDE DEF t
    <2>. QED
      BY <1>3, <1>4, <1>6, <1>9, <1>10 DEF BackToBack
  <1>. QED
    BY <1>7, <1>8, <1>11 DEF d

LEMMA BackToBackIs ==
    ASSUME NEW plan, NEW in, Input(in), BackToBack(plan.writes, in), file = ImageOf(plan)
    PROVE  /\ HeaderThere /\ file \in Files
           /\ \A n \in Nat : \A what :
                 /\ Intact(in.act, 0, n, what, 0) => Holds(file, HEADER_SIZE, n, what)
                 /\ Intact(in.mirror, 0, n, what, 0) => Holds(file, HEADER_SIZE + in.act.size, n, what)
                 /\ Len(plan.writes) = 4 /\ Intact(in.truth, 0, n, what, 0)
                       => Holds(file, AfterMirror(in), n, what)
  <1>. DEFINE w == plan.writes
              k == Len(w)
              at == AfterMirror(in)
  <1>1. /\ w \in Seq(Appending) /\ k \in {3, 4} /\ w[1].piece = Piece("header", HEADER_SIZE)
        /\ w[2].piece = in.act /\ w[3].piece = in.mirror /\ (k = 4 => w[4].piece = in.truth)
    BY DEF BackToBack
  <1>2. /\ Begins(w, 1) = 0 /\ file \in Files
        /\ \A i \in 1 .. k : Begins(w, i) \in Nat /\ Begins(w, i + 1) = Begins(w, i) + w[i].piece.size
        /\ \A i \in 1 .. k : \A b \in Int, m \in Nat : \A what, from :
              Intact(w[i].piece, b, m, what, from) => Intact(file, Begins(w, i) + b, m, what, from)
        /\ \A i \in 1 .. k : \A what \in DataTags, size \in Nat :
              w[i].piece = Piece(what, size) => Holds(file, Begins(w, i), size, what)
    BY <1>1, ImageIs
  <1>3. in.act.size \in Nat /\ in.mirror.size \in Nat /\ HEADER_SIZE \in Nat
    BY FileIs DEF Input, HEADER_SIZE
  <1>4. at = HEADER_SIZE + in.act.size + in.mirror.size
    BY DEF AfterMirror
  <1>5. Piece("header", HEADER_SIZE).size = HEADER_SIZE
    BY <1>3, PieceIs, NamesAreTags
  <1>. HIDE DEF w, k, at
  <1>6. 1 \in 1 .. k /\ 2 \in 1 .. k /\ 3 \in 1 .. k /\ (k = 4 => 4 \in 1 .. k)
    BY <1>1
  <1>7. Begins(w, 2) = HEADER_SIZE
    <2>1. Begins(w, 2) = Begins(w, 1) + w[1].piece.size
      BY <1>2, <1>6
    <2>. QED
      BY <1>1, <1>2, <1>3, <1>5, <2>1
  <1>8. Begins(w, 3) = HEADER_SIZE + in.act.size
    <2>1. Begins(w, 3) = Begins(w, 2) + w[2].piece.size
      BY <1>2, <1>6
    <2>. QED
      BY <1>1, <1>7, <2>1
  <1>9. Begins(w, 4) = at
    <2>1. Begins(w, 4) = Begins(w, 3) + w[3].piece.size
      BY <1>2, <1>6
    <2>. QED
      BY <1>1, <1>4, <1>8, <2>1
  <1>10. HeaderThere
    <2>1. \A what \in DataTags, size \in Nat :
             w[1].piece = Piece(what, size) => Holds(file, Begins(w, 1), size, what)
      BY <1>2, <1>6
    <2>2. Holds(file, Begins(w, 1), HEADER_SIZE, "header")
      BY <1>1, <1>3, <2>1, NamesAreTags
    <2>. QED
      BY <1>2, <2>2 DEF HeaderThere
  <1>11. ASSUME NEW i \in 1 .. k, NEW n \in Nat, NEW what, Intact(w[i].piece, 0, n, what, 0)
         PROVE  Holds(file, Begins(w, i), n, what)
    <2>0. 0 \in Int
      OBVIOUS
    <2>1. Begins(w, i) + 0 = Begins(w, i) /\ Begins(w, i) \in Int
      BY <1>2
    <2>2. Intact(file, Begins(w, i) + 0, n, what, 0)
      BY <1>2, <1>11, <2>0
    <2>3. Intact(file, Begins(w, i), n, what, 0)
      BY <2>1, <2>2
    <2>. QED
      BY <1>2, <2>1, <2>3, IntactHolds
  <1>12. ASSUME NEW n \in Nat, NEW what
         PROVE  /\ Intact(in.act, 0, n, what, 0) => Holds(file, HEADER_SIZE, n, what)
                /\ Intact(in.mirror, 0, n, what, 0) => Holds(file, HEADER_SIZE + in.act.size, n, what)
                /\ k = 4 /\ Intact(in.truth, 0, n, what, 0) => Holds(file, at, n, what)
    <2>1. Intact(in.act, 0, n, what, 0) => Holds(file, HEADER_SIZE, n, what)
      <3>1. Intact(w[2].piece, 0, n, what, 0) => Holds(file, Begins(w, 2), n, what)
        BY <1>6, <1>11
      <3>. QED
        BY <1>1, <1>7, <3>1
    <2>2. Intact(in.mirror, 0, n, what, 0) => Holds(file, HEADER_SIZE + in.act.size, n, what)
      <3>1. Intact(w[3].piece, 0, n, what, 0) => Holds(file, Begins(w, 3), n, what)
        BY <1>6, <1>11
      <3>. QED
        BY <1>1, <1>8, <3>1
    <2>3. ASSUME k = 4, Intact(in.truth, 0, n, what, 0) PROVE Holds(file, at, n, what)
      <3>1. Intact(w[4].piece, 0, n, what, 0) => Holds(file, Begins(w, 4), n, what)
        BY <1>6, <1>11, <2>3
      <3>. QED
        BY <1>1, <1>9, <2>3, <3>1
    <2>. QED
      BY <2>1, <2>2, <2>3
  <1>. QED
    BY <1>2, <1>10, <1>12 DEF w, k, at

LEMMA WovenAre ==
    ASSUME Measures(job.z), NEW magic, NEW zones, NEW writes, NEW in, in = EmbryoInput(job.z),
           BackToBack(writes, in),
           header = AsmPlan(magic, in, zones, writes).header,
           file = ImageOf(AsmPlan(magic, in, zones, writes)),
           zones.act = AsmActZone(in), zones.mirror = AsmMirrorZone(in),
           "act" \in DOMAIN zones, "mirror" \in DOMAIN zones
    PROVE  /\ HeaderThere /\ ZonesHold({"act", "mirror"}) /\ header.zones = zones
           /\ Len(writes) = 4 => Holds(file, AfterMirror(in), job.z.truth, "truth")
           /\ in.truth.size = job.z.truth
  <1>. DEFINE z == job.z
              plan == AsmPlan(magic, in, zones, writes)
              at == AfterMirror(in)
  <1>1. z.code \in Nat /\ z.mirror \in Nat /\ z.truth \in Nat
    BY DEF Measures
  <1>2. Input(in) /\ in.act = Piece("code", z.code) /\ in.mirror = Piece("mirror", z.mirror)
        /\ in.truth = Piece("truth", z.truth)
    BY EmbryoInputIs DEF EmbryoInput
  <1>3. writes \in Seq(Appending) /\ Len(writes) \in {3, 4}
    BY DEF BackToBack
  <1>4. /\ plan.writes \in Seq(Appending) /\ Len(plan.writes) = Len(writes)
        /\ \A i \in 1 .. Len(writes) : plan.writes[i].piece = writes[i].piece
        /\ header = plan.header => header.zones = zones
    BY <1>3, AsmPlanIs
  <1>. HIDE DEF plan
  <1>5. BackToBack(plan.writes, in)
    BY <1>3, <1>4 DEF BackToBack
  <1>6. header.zones = zones
    BY <1>4 DEF plan
  <1>7. /\ HeaderThere
        /\ \A n \in Nat : \A what :
              /\ Intact(in.act, 0, n, what, 0) => Holds(file, HEADER_SIZE, n, what)
              /\ Intact(in.mirror, 0, n, what, 0) => Holds(file, HEADER_SIZE + in.act.size, n, what)
              /\ Len(writes) = 4 /\ Intact(in.truth, 0, n, what, 0) => Holds(file, at, n, what)
    <2>1. file = ImageOf(plan)
      BY DEF plan
    <2>. HIDE DEF at
    <2>. QED
      BY <1>2, <1>4, <1>5, <2>1, BackToBackIs DEF at
  <1>. HIDE DEF at
  <1>8. /\ in.act.size = z.code /\ Intact(in.act, 0, z.code, "code", 0)
    <2>. DEFINE p == Piece("code", z.code)
    <2>1. p.size = z.code /\ Intact(p, 0, z.code, "code", 0)
      BY <1>1, PieceIs, NamesAreTags
    <2>. HIDE DEF p
    <2>. QED
      BY <1>2, <2>1 DEF p
  <1>9. /\ in.mirror.size = z.mirror /\ Intact(in.mirror, 0, z.mirror, "mirror", 0)
    <2>. DEFINE p == Piece("mirror", z.mirror)
    <2>1. p.size = z.mirror /\ Intact(p, 0, z.mirror, "mirror", 0)
      BY <1>1, PieceIs, NamesAreTags
    <2>. HIDE DEF p
    <2>. QED
      BY <1>2, <2>1 DEF p
  <1>10. /\ in.truth.size = z.truth /\ Intact(in.truth, 0, z.truth, "truth", 0)
    <2>. DEFINE p == Piece("truth", z.truth)
    <2>1. p.size = z.truth /\ Intact(p, 0, z.truth, "truth", 0)
      BY <1>1, PieceIs, NamesAreTags
    <2>. HIDE DEF p
    <2>. QED
      BY <1>2, <2>1 DEF p
  <1>11. /\ Holds(file, HEADER_SIZE, z.code, "code")
         /\ Holds(file, HEADER_SIZE + in.act.size, z.mirror, "mirror")
         /\ Len(writes) = 4 => Holds(file, at, z.truth, "truth")
    BY <1>1, <1>7, <1>8, <1>9, <1>10
  <1>12. ZonesHold({"act", "mirror"})
    <2>1. zones.act.offset = HEADER_SIZE /\ zones.act.size = z.code
          /\ zones.mirror.offset = HEADER_SIZE + in.act.size /\ zones.mirror.size = z.mirror
      BY <1>8, <1>9 DEF AsmActZone, AsmMirrorZone, Zone
    <2>2. TagOf("act") = "code" /\ TagOf("mirror") = "mirror"
      BY DEF TagOf
    <2>3. Holds(file, header.zones["act"].offset, header.zones["act"].size, TagOf("act"))
      BY <1>6, <1>11, <2>1, <2>2
    <2>4. Holds(file, header.zones["mirror"].offset, header.zones["mirror"].size, TagOf("mirror"))
      BY <1>6, <1>11, <2>1, <2>2
    <2>. QED
      BY <2>3, <2>4 DEF ZonesHold
  <1>. QED
    BY <1>6, <1>7, <1>10, <1>11, <1>12 DEF at

LEMMA WovenIsRead ==
    ASSUME Measures(job.z), NEW plan, NEW in, in = EmbryoInput(job.z),
           \/ job.format = "hda woven" /\ plan = AsmHdaPlan(in)
           \/ job.format = "srv woven" /\ plan = AsmSrvPlan(in)
           \/ job.format = "aetb woven" /\ plan = AsmAetbPlan(in),
           header = plan.header, file = ImageOf(plan)
    PROVE  WovenReads
  <1>1. Input(in)
    BY EmbryoInputIs
  <1>. DEFINE two == CodeAndState(in)
              three == CodeAndState(in) \o <<Write(in.truth)>>
  <1>2. BackToBack(two, in) /\ BackToBack(three, in) /\ Len(three) = 4
    BY <1>1, WovenAppends
  <1>3. CASE job.format = "hda woven" /\ plan = AsmHdaPlan(in)
    <2>. DEFINE zones == [act |-> AsmActZone(in), mirror |-> AsmMirrorZone(in)]
    <2>1. plan = AsmPlan("HDA!", in, zones, two)
      BY <1>3 DEF AsmHdaPlan
    <2>2. zones.act = AsmActZone(in) /\ zones.mirror = AsmMirrorZone(in)
          /\ "act" \in DOMAIN zones /\ "mirror" \in DOMAIN zones
      OBVIOUS
    <2>. HIDE DEF zones, two, three
    <2>3. HeaderThere /\ ZonesHold({"act", "mirror"})
      BY <1>2, <2>1, <2>2, WovenAre
    <2>. QED
      BY <1>3, <2>3 DEF WovenReads
  <1>4. CASE job.format = "srv woven" /\ plan = AsmSrvPlan(in)
    <2>. DEFINE zones == [act |-> AsmActZone(in), mirror |-> AsmMirrorZone(in),
                          schema |-> Zone(AfterMirror(in), in.truth.size)]
    <2>1. plan = AsmPlan("SRV!", in, zones, three)
      BY <1>4 DEF AsmSrvPlan
    <2>2. zones.act = AsmActZone(in) /\ zones.mirror = AsmMirrorZone(in)
          /\ "act" \in DOMAIN zones /\ "mirror" \in DOMAIN zones
          /\ zones.schema = Zone(AfterMirror(in), in.truth.size)
      OBVIOUS
    <2>. HIDE DEF zones, two, three
    <2>3. HeaderThere /\ ZonesHold({"act", "mirror"}) /\ header.zones = zones
          /\ in.truth.size = job.z.truth
      BY <1>2, <2>1, <2>2, WovenAre
    <2>4. Len(three) = 4 => Holds(file, AfterMirror(in), job.z.truth, "truth")
      BY <1>2, <2>1, <2>2, WovenAre
    <2>5. zones.schema = Zone(AfterMirror(in), job.z.truth)
      BY <2>2, <2>3
    <2>6. \A x, y : Zone(x, y).offset = x /\ Zone(x, y).size = y
      BY DEF Zone
    <2>7. header.zones.schema.offset = AfterMirror(in) /\ header.zones.schema.size = job.z.truth
      <3>1. header.zones.schema = zones.schema
        BY <2>3
      <3>. DEFINE y == header.zones.schema
                  a == AfterMirror(in)
                  b == job.z.truth
      <3>2. y = Zone(a, b)
        BY <2>5, <3>1
      <3>. HIDE DEF y, a, b
      <3>3. y.offset = a /\ y.size = b
        BY <2>6, <3>2
      <3>. QED
        BY <3>3 DEF y, a, b
    <2>8. Holds(file, header.zones.schema.offset, header.zones.schema.size, "truth")
      BY <1>2, <2>4, <2>7
    <2>. QED
      BY <2>3, <2>8 DEF WovenReads
  <1>5. CASE job.format = "aetb woven" /\ plan = AsmAetbPlan(in)
    <2>. DEFINE zones == [act |-> AsmActZone(in), mirror |-> AsmMirrorZone(in),
                          reloc |-> Zone(AfterMirror(in), in.relocs * 16),
                          imports |-> Zone(AfterMirror(in) + in.relocs * 16, in.identities * 80)]
    <2>1. plan = AsmPlan("AETB", in, zones, three)
      BY <1>5 DEF AsmAetbPlan
    <2>2. zones.act = AsmActZone(in) /\ zones.mirror = AsmMirrorZone(in)
          /\ "act" \in DOMAIN zones /\ "mirror" \in DOMAIN zones
      OBVIOUS
    <2>. HIDE DEF zones, two, three
    <2>3. HeaderThere /\ ZonesHold({"act", "mirror"})
      BY <1>2, <2>1, <2>2, WovenAre
    <2>. QED
      BY <1>5, <2>3 DEF WovenReads
  <1>. QED
    BY <1>3, <1>4, <1>5

LEMMA WovenPlansAppend ==
    ASSUME NEW in, Input(in)
    PROVE  /\ AsmHdaPlan(in).writes \in Seq(Appending) /\ AsmSrvPlan(in).writes \in Seq(Appending)
           /\ AsmAetbPlan(in).writes \in Seq(Appending)
  <1>. DEFINE two == CodeAndState(in)
              three == CodeAndState(in) \o <<Write(in.truth)>>
  <1>1. two \in Seq(Appending) /\ three \in Seq(Appending)
    BY WovenAppends DEF BackToBack
  <1>. HIDE DEF two, three
  <1>2. \A magic, zones : AsmPlan(magic, in, zones, two).writes \in Seq(Appending)
                          /\ AsmPlan(magic, in, zones, three).writes \in Seq(Appending)
    BY <1>1, AsmPlanIs
  <1>. QED
    BY <1>2 DEF AsmHdaPlan, AsmSrvPlan, AsmAetbPlan, two, three

-----------------------------------------------------------------------------
(* Flat and framed binaries. *)

WritesOnce(w, piece) == w \in Seq(Appending) /\ Len(w) = 1 /\ w[1].piece = piece

LEMMA OneWriteMakes ==
    ASSUME NEW plan, NEW p \in Files, WritesOnce(plan.writes, p), NEW g, g = ImageOf(plan)
    PROVE  /\ g \in Files /\ g.size = p.size
           /\ \A at \in Int, n \in Nat : \A what, from :
                 Intact(p, at, n, what, from) => Intact(g, at, n, what, from)
  <1>. DEFINE w == plan.writes
  <1>1. w \in Seq(Appending) /\ Len(w) = 1 /\ w[1].piece = p
    BY DEF WritesOnce
  <1>2. /\ g \in Files /\ g.size = Begins(w, Len(w) + 1)
        /\ Begins(w, 1) = 0
        /\ \A i \in 1 .. Len(w) : /\ Begins(w, i) \in Nat
                                  /\ Begins(w, i + 1) = Begins(w, i) + w[i].piece.size
        /\ \A i \in 1 .. Len(w) : \A b \in Int, m \in Nat : \A what, from :
              Intact(w[i].piece, b, m, what, from) => Intact(g, Begins(w, i) + b, m, what, from)
    BY <1>1, ImageIs
  <1>3. p.size \in Nat /\ 1 \in 1 .. 1
    BY FileIs
  <1>. HIDE DEF w
  <1>4. g.size = p.size
    <2>1. Begins(w, 1 + 1) = Begins(w, 1) + w[1].piece.size
      BY <1>1, <1>2, <1>3
    <2>. QED
      BY <1>1, <1>2, <1>3, <2>1
  <1>5. ASSUME NEW at \in Int, NEW n \in Nat, NEW what, NEW from, Intact(p, at, n, what, from)
        PROVE  Intact(g, at, n, what, from)
    <2>1. Intact(g, Begins(w, 1) + at, n, what, from)
      BY <1>1, <1>2, <1>3, <1>5
    <2>2. Begins(w, 1) + at = at
      BY <1>2
    <2>. QED
      BY <2>1, <2>2
  <1>. QED
    BY <1>2, <1>4, <1>5

LEMMA CodeFromIs ==
    ASSUME NEW z, NEW entry \in Nat, z.code - entry \in Nat
    PROVE  /\ CodeFrom(z, entry) \in Files
           /\ z.code - entry # 0 =>
                 Intact(CodeFrom(z, entry), 0, z.code - entry, CodeFrom(z, entry).parts[1].what, 0)
  <1>. DEFINE what == IF entry = 0 THEN "code" ELSE "code from the entry"
              n == z.code - entry
              p == Piece(what, n)
  <1>1. CodeFrom(z, entry) = p
    BY DEF CodeFrom
  <1>2. what \in DataTags /\ n \in Nat
    BY NamesAreTags
  <1>. HIDE DEF what, n
  <1>3. p \in Files /\ Intact(p, 0, n, what, 0)
    BY <1>2, PieceIs
  <1>4. n # 0 => p.parts[1].what = what
    BY DEF Piece, Part
  <1>. HIDE DEF p
  <1>. QED
    BY <1>1, <1>3, <1>4 DEF n

LEMMA BinAppends ==
    ASSUME NEW z, Measures(z), NEW entry \in Nat, entry <= z.code, NEW flat \in BOOLEAN
    PROVE  /\ ~flat => \A plan \in {BinPlan(z, entry, flat), BinFallbackPlan(z, entry, flat)} :
                 /\ plan.writes \in Seq(Appending) /\ Len(plan.writes) = 2
                 /\ plan.writes[1].piece = Piece("header", 64)
                 /\ plan.writes[2].piece = Piece("code", z.code)
           /\ flat => \A plan \in {BinPlan(z, entry, flat), BinFallbackPlan(z, entry, flat)} :
                 WritesOnce(plan.writes, CodeFrom(z, entry))
  <1>. DEFINE c == CodeFrom(z, entry)
              h == Checked("header", 64)
              k == Checked("code", z.code)
              count == IF Host = "darwin" THEN 0 ELSE c.size
              w == Write(c)
              v == [w EXCEPT !.count = count]
              head == HeaderInit("BIN!", [entry |-> entry])
  <1>1. z.code \in Nat /\ z.code - entry \in Nat /\ 64 \in Nat
    BY DEF Measures
  <1>2. c \in Files /\ c.size \in Int
    BY <1>1, CodeFromIs, FileIs
  <1>3. h \in Appending /\ h.piece = Piece("header", 64) /\ k \in Appending /\ k.piece = Piece("code", z.code)
    BY <1>1, CheckedIs, NamesAreTags
  <1>4. count \in Int
    BY <1>2
  <1>5. w \in Appending /\ w.piece = c /\ w.count = c.size
    BY <1>2, WriteIs DEF Write
  <1>6. v \in Appending /\ v.piece = c
    <2>1. \A n \in Int : [w EXCEPT !.count = n] \in Appending /\ [w EXCEPT !.count = n].piece = c
      BY <1>2, WriteIs
    <2>. HIDE DEF w, c, count
    <2>. QED
      BY <1>4, <2>1
  <1>. DEFINE a == Plan(z.code > 0 /\ entry < z.code, head, <<v>>, TRUE)
              b == Plan(z.code > 0 /\ entry < z.code, head, <<h, k>>, TRUE)
  <1>7. flat => BinPlan(z, entry, flat) = OnHost(a)
    <2>1. v = [w EXCEPT !.count = IF Host = "darwin" THEN 0 ELSE @]
      BY <1>5
    <2>. HIDE DEF v
    <2>. QED
      BY <2>1 DEF BinPlan
  <1>8. ~flat => BinPlan(z, entry, flat) = OnHost(b)
    BY DEF BinPlan, FramedWrites
  <1>9. /\ ~flat => BinFallbackPlan(z, entry, flat).writes = <<h, k>>
        /\ flat => BinFallbackPlan(z, entry, flat).writes = <<w>>
    BY DEF BinFallbackPlan, FramedWrites, Plan
  <1>. HIDE DEF h, k, v, w, c, head
  <1>10. a.writes = <<v>> /\ a = [x \in PlanFields |-> a[x]]
    BY DEF Plan, PlanFields
  <1>11. b.writes = <<h, k>> /\ b = [x \in PlanFields |-> b[x]]
    BY DEF Plan, PlanFields
  <1>. HIDE DEF a, b
  <1>12. WritesOnce(<<w>>, c) /\ WritesOnce(<<v>>, c)
    BY <1>5, <1>6 DEF WritesOnce
  <1>13. <<h, k>> \in Seq(Appending) /\ Len(<<h, k>>) = 2
    BY <1>3
  <1>14. WritesOnce(OnHost(a).writes, c)
    <2>1. a.writes \in Seq(Appending) /\ Len(a.writes) = 1 /\ a.writes[1].piece = c
      BY <1>6, <1>10
    <2>2. OnHost(a).writes \in Seq(Appending) /\ Len(OnHost(a).writes) = Len(a.writes)
          /\ \A i \in 1 .. Len(a.writes) : OnHost(a).writes[i].piece = a.writes[i].piece
      BY <1>10, <2>1, OnHostIs
    <2>. QED
      BY <2>1, <2>2 DEF WritesOnce
  <1>15. /\ OnHost(b).writes \in Seq(Appending) /\ Len(OnHost(b).writes) = 2
         /\ OnHost(b).writes[1].piece = h.piece /\ OnHost(b).writes[2].piece = k.piece
    <2>1. b.writes \in Seq(Appending) /\ Len(b.writes) = 2 /\ b.writes[1] = h /\ b.writes[2] = k
      BY <1>11, <1>13
    <2>2. OnHost(b).writes \in Seq(Appending) /\ Len(OnHost(b).writes) = Len(b.writes)
          /\ \A i \in 1 .. Len(b.writes) : OnHost(b).writes[i].piece = b.writes[i].piece
      BY <1>11, <2>1, OnHostIs
    <2>. QED
      BY <2>1, <2>2
  <1>16. ASSUME ~flat, NEW plan \in {BinPlan(z, entry, flat), BinFallbackPlan(z, entry, flat)}
         PROVE  /\ plan.writes \in Seq(Appending) /\ Len(plan.writes) = 2
                /\ plan.writes[1].piece = Piece("header", 64)
                /\ plan.writes[2].piece = Piece("code", z.code)
    <2>1. CASE plan = BinPlan(z, entry, flat)
      BY <1>3, <1>8, <1>15, <1>16, <2>1
    <2>2. CASE plan = BinFallbackPlan(z, entry, flat)
      <3>1. plan.writes = <<h, k>>
        BY <1>9, <1>16, <2>2
      <3>. QED
        BY <1>3, <1>13, <3>1
    <2>. QED
      BY <1>16, <2>1, <2>2
  <1>17. ASSUME flat, NEW plan \in {BinPlan(z, entry, flat), BinFallbackPlan(z, entry, flat)}
         PROVE  WritesOnce(plan.writes, c)
    BY <1>7, <1>9, <1>12, <1>14, <1>17
  <1>. QED
    BY <1>16, <1>17 DEF c

LEMMA BinAccepts ==
    ASSUME NEW z, NEW entry, NEW flat, Measures(z), entry \in Nat,
           NEW plan \in {BinPlan(z, entry, flat), BinFallbackPlan(z, entry, flat)}, plan.accepts
    PROVE  entry <= z.code
  <1>0. z.code \in Nat
    BY DEF Measures
  <1>1. CASE plan = BinPlan(z, entry, flat)
    <2>1. plan.accepts => z.code > 0 /\ entry < z.code
      BY <1>1 DEF BinPlan, OnHost, Plan
    <2>. QED
      BY <1>0, <2>1
  <1>2. CASE plan = BinFallbackPlan(z, entry, flat)
    <2>1. plan.accepts => entry < z.code \/ entry = z.code
      BY <1>2 DEF BinFallbackPlan, Plan
    <2>. QED
      BY <1>0, <2>1
  <1>. QED
    BY <1>1, <1>2

LEMMA BinIsRead ==
    ASSUME Measures(job.z), job.entry \in Nat, job.flat \in BOOLEAN,
           NEW plan \in {BinPlan(job.z, job.entry, job.flat), BinFallbackPlan(job.z, job.entry, job.flat)},
           plan.accepts, file = ImageOf(plan)
    PROVE  BinReads
  <1>. DEFINE z == job.z
              n == z.code - job.entry
              c == CodeFrom(z, job.entry)
  <1>1. job.entry <= z.code
    BY BinAccepts
  <1>2. n \in Nat /\ z.code \in Nat
    BY <1>1 DEF Measures
  <1>3. CASE job.flat
    <2>1. WritesOnce(plan.writes, c)
      BY <1>1, <1>3, BinAppends
    <2>2. c \in Files /\ (n # 0 => Intact(c, 0, n, c.parts[1].what, 0))
      BY <1>2, CodeFromIs
    <2>. HIDE DEF c, n
    <2>3. file \in Files /\ (n # 0 => Intact(file, 0, n, c.parts[1].what, 0))
      <3>1. 0 \in Int
        OBVIOUS
      <3>. QED
        BY <1>2, <2>1, <2>2, <3>1, OneWriteMakes
    <2>4. Holds(file, 0, n, c.parts[1].what)
      <3>1. CASE n = 0
        BY <3>1 DEF Holds
      <3>2. CASE n # 0
        <4>1. 0 \in Int
          OBVIOUS
        <4>. QED
          BY <1>2, <2>3, <3>2, <4>1, IntactHolds
      <3>. QED
        BY <3>1, <3>2
    <2>. QED
      BY <1>3, <2>4 DEF BinReads, c, n
  <1>4. CASE ~job.flat
    <2>. DEFINE w == plan.writes
    <2>1. /\ w \in Seq(Appending) /\ Len(w) = 2 /\ w[1].piece = Piece("header", 64)
          /\ w[2].piece = Piece("code", z.code)
      BY <1>1, <1>4, BinAppends
    <2>2. /\ Begins(w, 1) = 0
          /\ \A i \in 1 .. 2 : Begins(w, i) \in Nat /\ Begins(w, i + 1) = Begins(w, i) + w[i].piece.size
          /\ \A i \in 1 .. 2 : \A what \in DataTags, size \in Nat :
                w[i].piece = Piece(what, size) => Holds(file, Begins(w, i), size, what)
      BY <2>1, ImageIs
    <2>. HIDE DEF w
    <2>3. Piece("header", 64).size = 64
      BY PieceIs, NamesAreTags
    <2>4. Begins(w, 2) = 64
      <3>1. Begins(w, 2) = Begins(w, 1) + w[1].piece.size
        BY <2>2
      <3>. QED
        BY <2>1, <2>2, <2>3, <3>1
    <2>5. Holds(file, 0, 64, "header") /\ Holds(file, 64, z.code, "code")
      <3>0. 1 \in 1 .. 2 /\ 2 \in 1 .. 2
        OBVIOUS
      <3>3. /\ \A what \in DataTags, size \in Nat :
                  w[1].piece = Piece(what, size) => Holds(file, Begins(w, 1), size, what)
            /\ \A what \in DataTags, size \in Nat :
                  w[2].piece = Piece(what, size) => Holds(file, Begins(w, 2), size, what)
        BY <2>2, <3>0
      <3>1. Holds(file, Begins(w, 1), 64, "header")
        BY <2>1, <3>3, NamesAreTags
      <3>2. Holds(file, Begins(w, 2), z.code, "code")
        BY <1>2, <2>1, <3>3, NamesAreTags
      <3>. QED
        BY <2>2, <2>4, <3>1, <3>2
    <2>. QED
      BY <1>4, <2>5 DEF BinReads
  <1>. QED
    BY <1>3, <1>4

-----------------------------------------------------------------------------
(* Mach-O files. *)

\* What concatenating pieces gives, and where each of them begins.
LEMMA RunIs ==
    ASSUME NEW n \in Nat, NEW p \in [1 .. n -> Files], NEW g, g = Concatenated(p)
    PROVE  /\ g \in Files /\ g.size = SizeOfFirst(p, n)
           /\ SizeOfFirst(p, 0) = 0
           /\ \A k \in 1 .. n : SizeOfFirst(p, k) = SizeOfFirst(p, k - 1) + p[k].size
           /\ \A k \in 0 .. n : SizeOfFirst(p, k) \in Nat
           /\ \A i \in 1 .. n : \A b \in Int, m \in Nat : \A what, from :
                 Intact(p[i], b, m, what, from) => Intact(g, SizeOfFirst(p, i - 1) + b, m, what, from)
  <1>1. ConcatOf(g, n, p)
    BY ConcatIs
  <1>2. DOMAIN p = 1 .. n /\ \A i \in 1 .. n : p[i].size \in Nat
    <2>1. \A i \in 1 .. n : p[i] \in Files
      OBVIOUS
    <2>. QED
      BY <2>1, FileIs
  <1>3. /\ SizeOfFirst(p, 0) = 0
        /\ \A k \in 1 .. n : SizeOfFirst(p, k) = SizeOfFirst(p, k - 1) + p[k].size
        /\ \A k \in 0 .. n : SizeOfFirst(p, k) \in Nat
    BY <1>2, SizeSteps
  <1>. QED
    BY <1>1, <1>3 DEF ConcatOf

LEMMA PagesAre ==
    /\ \A n \in Nat : PageUp(n) \in Nat /\ n <= PageUp(n) /\ PageUp(n) - n \in Nat
    /\ PageUp(32 + MACHO_COMMANDS) = 4096
BY DEF PageUp, AlignUp, PAGE, MACHO_COMMANDS

LEMMA SegmentsAre ==
    ASSUME NEW z, Measures(z)
    PROVE  LET s == MachoSegments(z)
           IN  /\ DOMAIN s = 1 .. 3
               /\ s[1].file = 4096 /\ s[1].size = z.code /\ s[1].what = "code" /\ s[1].vm = 0
               /\ s[2].file = PageUp(4096 + z.code) /\ s[2].size = z.mirror /\ s[2].what = "mirror"
               /\ s[2].vm = PageUp(z.code)
               /\ s[3].file = PageUp(PageUp(4096 + z.code) + z.mirror) /\ s[3].size = z.truth
               /\ s[3].what = "truth" /\ s[3].vm = PageUp(z.code) + PageUp(z.mirror)
BY PagesAre DEF MachoSegments, Segment

LEMMA SegmentsApart ==
    ASSUME NEW z, Measures(z)
    PROVE  \A i, j \in DOMAIN MachoSegments(z) : i < j =>
              MachoSegments(z)[i].vm + MachoSegments(z)[i].size <= MachoSegments(z)[j].vm
  <1>. DEFINE s == MachoSegments(z)
              p == PageUp(z.code)
              q == PageUp(z.mirror)
  <1>1. z.code \in Nat /\ z.mirror \in Nat
    BY DEF Measures
  <1>2. p \in Nat /\ q \in Nat /\ z.code <= p /\ z.mirror <= q
    BY <1>1, PagesAre
  <1>3. /\ DOMAIN s = 1 .. 3 /\ s[1].vm = 0 /\ s[1].size = z.code /\ s[2].vm = p /\ s[2].size = z.mirror
        /\ s[3].vm = p + q
    BY SegmentsAre
  <1>. HIDE DEF s, p, q
  <1>4. s[1].vm + s[1].size <= s[2].vm
    BY <1>1, <1>2, <1>3
  <1>5. s[1].vm + s[1].size <= s[3].vm
    BY <1>1, <1>2, <1>3
  <1>6. s[2].vm + s[2].size <= s[3].vm
    BY <1>1, <1>2, <1>3
  <1>7. ASSUME NEW i \in 1 .. 3, NEW j \in 1 .. 3, i < j PROVE s[i].vm + s[i].size <= s[j].vm
    <2>1. (i = 1 /\ j = 2) \/ (i = 1 /\ j = 3) \/ (i = 2 /\ j = 3)
      BY <1>7
    <2>. QED
      BY <1>4, <1>5, <1>6, <2>1
  <1>. QED
    BY <1>3, <1>7 DEF s

\* The buffer of the writer, and where the segments are in it.
LEMMA MachoIs ==
    ASSUME NEW z, Measures(z)
    PROVE  LET g == MachoBuffer(z)
               s == MachoSegments(z)
           IN  /\ g \in Files /\ Intact(g, 0, 32, "header", 0)
               /\ \A i \in 1 .. 3 : /\ s[i].file \in Nat /\ s[i].size \in Nat
                                    /\ Intact(g, s[i].file, s[i].size, s[i].what, 0)
  <1>. DEFINE g == MachoBuffer(z)
              s == MachoSegments(z)
              data == PageUp(4096 + z.code)
              ro == PageUp(data + z.mirror)
              gap == data - (4096 + z.code)
              hole == ro - (data + z.mirror)
              a == Piece("header", 32)
              b == Piece("commands", MACHO_COMMANDS)
              c == Piece("zeros", 4096 - (32 + MACHO_COMMANDS))
              d == Piece("code", z.code)
              e == Piece("zeros", gap)
              f == Piece("mirror", z.mirror)
              h == Piece("zeros", hole)
              t == Piece("truth", z.truth)
              p == <<a, b, c, d, e, f, h, t>>
              At(i) == SizeOfFirst(p, i - 1)
  <1>1. z.code \in Nat /\ z.mirror \in Nat /\ z.truth \in Nat /\ MACHO_COMMANDS = 520
    BY DEF Measures, MACHO_COMMANDS
  <1>2. data \in Nat /\ gap \in Nat /\ ro \in Nat /\ hole \in Nat
    <2>1. 4096 + z.code \in Nat
      BY <1>1
    <2>2. data \in Nat /\ gap \in Nat
      BY <2>1, PagesAre
    <2>. HIDE DEF data
    <2>3. data + z.mirror \in Nat
      BY <1>1, <2>2
    <2>. QED
      BY <2>2, <2>3, PagesAre
  <1>3. /\ DOMAIN s = 1 .. 3
        /\ s[1].file = 4096 /\ s[1].size = z.code /\ s[1].what = "code"
        /\ s[2].file = data /\ s[2].size = z.mirror /\ s[2].what = "mirror"
        /\ s[3].file = ro /\ s[3].size = z.truth /\ s[3].what = "truth"
    BY SegmentsAre
  <1>4. g = Concatenated(p)
    <2>. HIDE DEF s, data, ro
    <2>. QED
      BY <1>3 DEF MachoBuffer, s
  <1>. HIDE DEF s, g
  <1>5. /\ a \in Files /\ a.size = 32 /\ Intact(a, 0, 32, "header", 0)
        /\ b \in Files /\ b.size = 520 /\ c \in Files /\ c.size = 4096 - 552
    <2>1. a \in Files /\ a.size = 32 /\ Intact(a, 0, 32, "header", 0)
      BY PieceIs, NamesAreTags
    <2>2. b \in Files /\ b.size = 520
      <3>1. MACHO_COMMANDS \in Nat
        BY <1>1
      <3>2. \A n \in Nat : Piece("commands", n) \in Files /\ Piece("commands", n).size = n
        BY PieceIs, NamesAreTags
      <3>3. b \in Files /\ b.size = MACHO_COMMANDS
        BY <3>1, <3>2
      <3>. HIDE DEF b
      <3>. QED
        BY <1>1, <3>3
    <2>3. 4096 - (32 + MACHO_COMMANDS) = 4096 - 552 /\ 4096 - 552 \in Nat
      BY <1>1
    <2>4. \A n \in Nat : Piece("zeros", n) \in Files /\ Piece("zeros", n).size = n
      BY PieceIs, NamesAreTags
    <2>5. c \in Files /\ c.size = 4096 - 552
      BY <2>3, <2>4
    <2>. QED
      BY <2>1, <2>2, <2>5
  <1>6. /\ d \in Files /\ d.size = z.code /\ Intact(d, 0, z.code, "code", 0)
        /\ f \in Files /\ f.size = z.mirror /\ Intact(f, 0, z.mirror, "mirror", 0)
        /\ t \in Files /\ t.size = z.truth /\ Intact(t, 0, z.truth, "truth", 0)
    <2>1. d \in Files /\ d.size = z.code /\ Intact(d, 0, z.code, "code", 0)
      BY <1>1, PieceIs, NamesAreTags
    <2>2. f \in Files /\ f.size = z.mirror /\ Intact(f, 0, z.mirror, "mirror", 0)
      BY <1>1, PieceIs, NamesAreTags
    <2>3. t \in Files /\ t.size = z.truth /\ Intact(t, 0, z.truth, "truth", 0)
      BY <1>1, PieceIs, NamesAreTags
    <2>. QED
      BY <2>1, <2>2, <2>3
  <1>7. e \in Files /\ e.size = gap /\ h \in Files /\ h.size = hole
    <2>1. \A n \in Nat : Piece("zeros", n) \in Files /\ Piece("zeros", n).size = n
      BY PieceIs, NamesAreTags
    <2>. HIDE DEF gap, hole, data, ro
    <2>. QED
      BY <1>2, <2>1
  <1>8. gap = data - (4096 + z.code) /\ hole = ro - (data + z.mirror)
    OBVIOUS
  <1>. HIDE DEF a, b, c, d, e, f, h, t, gap, hole, data, ro
  <1>9. p \in [1 .. 8 -> Files] /\ 8 \in Nat
    BY <1>5, <1>6, <1>7
  <1>10. p[1] = a /\ p[2] = b /\ p[3] = c /\ p[4] = d /\ p[5] = e /\ p[6] = f /\ p[7] = h /\ p[8] = t
    OBVIOUS
  <1>. HIDE DEF p
  <1>11. /\ g \in Files /\ SizeOfFirst(p, 0) = 0
         /\ \A k \in 1 .. 8 : SizeOfFirst(p, k) = SizeOfFirst(p, k - 1) + p[k].size
         /\ \A i \in 1 .. 8 : \A x \in Int, m \in Nat : \A what, from :
               Intact(p[i], x, m, what, from) => Intact(g, SizeOfFirst(p, i - 1) + x, m, what, from)
    BY <1>4, <1>9, RunIs
  <1>12. At(1) = 0 /\ At(4) = 4096 /\ At(6) = data /\ At(8) = ro
    <2>1. At(1) = 0 /\ At(2) = At(1) + a.size
      BY <1>10, <1>11
    <2>2. At(3) = At(2) + b.size /\ At(4) = At(3) + c.size
      BY <1>10, <1>11
    <2>3. At(5) = At(4) + d.size /\ At(6) = At(5) + e.size
      BY <1>10, <1>11
    <2>4. At(7) = At(6) + f.size /\ At(8) = At(7) + h.size
      BY <1>10, <1>11
    <2>. HIDE DEF At
    <2>5. At(4) = 4096
      BY <1>5, <2>1, <2>2
    <2>6. At(6) = data
      BY <1>1, <1>2, <1>6, <1>7, <1>8, <2>3, <2>5
    <2>7. At(8) = ro
      BY <1>1, <1>2, <1>6, <1>7, <1>8, <2>4, <2>6
    <2>. QED
      BY <2>1, <2>5, <2>6, <2>7
  <1>13. ASSUME NEW i \in 1 .. 8, NEW m \in Nat, NEW what, Intact(p[i], 0, m, what, 0), At(i) \in Nat
         PROVE  Intact(g, At(i), m, what, 0)
    <2>1. At(i) + 0 = At(i) /\ 0 \in Int
      BY <1>13
    <2>2. Intact(g, At(i) + 0, m, what, 0)
      BY <1>11, <1>13, <2>1
    <2>. QED
      BY <2>1, <2>2
  <1>. HIDE DEF At
  <1>14. Intact(g, 0, 32, "header", 0)
    BY <1>5, <1>10, <1>12, <1>13
  <1>15. Intact(g, 4096, z.code, "code", 0)
    BY <1>1, <1>6, <1>10, <1>12, <1>13
  <1>16. Intact(g, data, z.mirror, "mirror", 0)
    BY <1>1, <1>2, <1>6, <1>10, <1>12, <1>13
  <1>17. Intact(g, ro, z.truth, "truth", 0)
    BY <1>1, <1>2, <1>6, <1>10, <1>12, <1>13
  <1>18. ASSUME NEW i \in 1 .. 3
         PROVE  /\ s[i].file \in Nat /\ s[i].size \in Nat
                /\ Intact(g, s[i].file, s[i].size, s[i].what, 0)
    <2>1. CASE i = 1
      BY <1>1, <1>3, <1>15, <2>1
    <2>2. CASE i = 2
      BY <1>1, <1>2, <1>3, <1>16, <2>2
    <2>3. CASE i = 3
      BY <1>1, <1>2, <1>3, <1>17, <2>3
    <2>. QED
      BY <2>1, <2>2, <2>3
  <1>. QED
    BY <1>11, <1>14, <1>18 DEF g, s

\* A file that holds the buffer somewhere holds the segments.
LEMMA SegmentsAreHeld ==
    ASSUME Measures(job.z), file \in Files, NEW at \in Nat,
           \A b \in Int, n \in Nat : \A what, from :
               Intact(MachoBuffer(job.z), b, n, what, from) => Intact(file, at + b, n, what, from)
    PROVE  SegmentsHold(at)
  <1>. DEFINE s == MachoSegments(job.z)
              g == MachoBuffer(job.z)
  <1>1. /\ Intact(g, 0, 32, "header", 0)
        /\ \A i \in 1 .. 3 : /\ s[i].file \in Nat /\ s[i].size \in Nat
                             /\ Intact(g, s[i].file, s[i].size, s[i].what, 0)
    BY MachoIs
  <1>2. DOMAIN s = 1 .. 3
    BY SegmentsAre
  <1>3. \A i, j \in DOMAIN s : i < j => s[i].vm + s[i].size <= s[j].vm
    BY SegmentsApart
  <1>. HIDE DEF s, g
  <1>4. ASSUME NEW b \in Nat, NEW n \in Nat, NEW what, Intact(g, b, n, what, 0)
        PROVE  Holds(file, at + b, n, what)
    <2>1. b \in Int /\ at + b \in Int
      OBVIOUS
    <2>2. Intact(file, at + b, n, what, 0)
      BY <1>4, <2>1 DEF g
    <2>. QED
      BY <2>1, <2>2, IntactHolds
  <1>5. Holds(file, at, 32, "header")
    <2>1. Holds(file, at + 0, 32, "header")
      BY <1>1, <1>4
    <2>2. at + 0 = at
      OBVIOUS
    <2>. QED
      BY <2>1, <2>2
  <1>6. \A i \in DOMAIN s : Holds(file, at + s[i].file, s[i].size, s[i].what)
    BY <1>1, <1>2, <1>4
  <1>. QED
    BY <1>3, <1>5, <1>6 DEF SegmentsHold, s

LEMMA MachoWrites ==
    ASSUME NEW z, Measures(z), NEW base
    PROVE  WritesOnce(MachoPlan(z, base).writes, MachoBuffer(z))
  <1>. DEFINE g == MachoBuffer(z)
  <1>1. MachoPlan(z, base).writes = <<Write(g)>>
    BY DEF MachoPlan, Plan
  <1>2. g \in Files
    BY MachoIs
  <1>. HIDE DEF g
  <1>3. Write(g) \in Appending /\ Write(g).piece = g
    BY <1>2, WriteIs
  <1>. QED
    BY <1>1, <1>3 DEF WritesOnce, g

LEMMA MachoIsRead ==
    ASSUME Measures(job.z), NEW base, file = ImageOf(MachoPlan(job.z, base))
    PROVE  SegmentsHold(0)
  <1>. DEFINE g == MachoBuffer(job.z)
              plan == MachoPlan(job.z, base)
  <1>1. g \in Files /\ WritesOnce(plan.writes, g)
    BY MachoIs, MachoWrites
  <1>2. file \in Files /\ \A at \in Int, n \in Nat : \A what, from :
            Intact(g, at, n, what, from) => Intact(file, at, n, what, from)
    <2>. HIDE DEF g
    <2>. QED
      BY <1>1, OneWriteMakes
  <1>3. \A b \in Int : 0 + b = b
    OBVIOUS
  <1>4. \A b \in Int, n \in Nat : \A what, from :
            Intact(g, b, n, what, from) => Intact(file, 0 + b, n, what, from)
    BY <1>2, <1>3
  <1>. HIDE DEF g
  <1>. QED
    BY <1>2, <1>4, SegmentsAreHeld DEF g

-----------------------------------------------------------------------------
(* IM4P containers. *)

LEMMA LengthIs == \A n : LengthSize(n) \in Nat
BY DEF LengthSize

LeafSize(n) == 1 + LengthSize(n) + n

LEMMA LeafIs ==
    ASSUME NEW p \in Files
    PROVE  LET g == LeafCode(Leaf(p))
           IN  /\ g \in Files /\ g.size = LeafSize(p.size)
               /\ \A at \in Int, n \in Nat : \A what, from :
                     Intact(p, at, n, what, from) => Intact(g, 1 + LengthSize(p.size) + at, n, what, from)
  <1>. DEFINE k == 1 + LengthSize(p.size)
              t == TagAndLength("tag", p.size)
              g == LeafCode(Leaf(p))
  <1>1. k \in Nat /\ p.size \in Nat
    BY FileIs, LengthIs
  <1>2. t \in Files /\ t.size = k
    <2>1. t = Piece("tag", k)
      BY DEF TagAndLength
    <2>2. \A n \in Nat : Piece("tag", n) \in Files /\ Piece("tag", n).size = n
      BY PieceIs, NamesAreTags
    <2>. HIDE DEF t, k
    <2>. QED
      BY <1>1, <2>1, <2>2
  <1>3. g = Concatenated(<<t, p>>)
    BY DEF LeafCode, Leaf
  <1>. HIDE DEF t, g
  <1>4. /\ g \in Files /\ g.size = t.size + p.size
        /\ \A at \in Int, n \in Nat : \A what, from :
              Intact(p, at, n, what, from) => Intact(g, t.size + at, n, what, from)
    <2>. DEFINE c == Concatenated(<<t, p>>)
    <2>1. /\ c \in Files /\ c.size = t.size + p.size
          /\ \A at \in Int, n \in Nat : \A what, from :
              Intact(p, at, n, what, from) => Intact(c, t.size + at, n, what, from)
      BY <1>2, TwoJoined
    <2>. HIDE DEF c
    <2>. QED
      BY <1>3, <2>1 DEF c
  <1>. QED
    BY <1>2, <1>4 DEF g, LeafSize

StringsSize(identifier) ==
    LeafSize(4) + LeafSize(identifier) + LeafSize(DescriptionSize(identifier))

LEMMA DescriptionIs == \A n \in Nat : DescriptionSize(n) \in Nat
BY DEF DescriptionSize

LEMMA ContentsAre ==
    ASSUME NEW macho \in Files, NEW id \in Nat
    PROVE  LET g == Contents(Im4pTree(macho, id))
           IN  /\ g \in Files /\ g.size = StringsSize(id) + LeafSize(macho.size)
               /\ \A at \in Int, n \in Nat : \A what, from :
                     Intact(macho, at, n, what, from) =>
                        Intact(g, StringsSize(id) + (1 + LengthSize(macho.size) + at), n, what, from)
  <1>. DEFINE a == Piece("IM4P", 4)
              b == Piece("identifier", id)
              c == Piece("description", DescriptionSize(id))
              p == [i \in 1 .. 4 |-> LeafCode(Leaf(<<a, b, c, macho>>[i]))]
              g == Contents(Im4pTree(macho, id))
  <1>1. a \in Files /\ a.size = 4
    BY PieceIs, NamesAreTags
  <1>2. b \in Files /\ b.size = id
    BY PieceIs, NamesAreTags
  <1>3. c \in Files /\ c.size = DescriptionSize(id)
    <2>1. DescriptionSize(id) \in Nat
      BY DescriptionIs
    <2>2. \A n \in Nat : Piece("description", n) \in Files /\ Piece("description", n).size = n
      BY PieceIs, NamesAreTags
    <2>. QED
      BY <2>1, <2>2
  <1>4. g = Concatenated(p)
    <2>. DEFINE q == <<Leaf(a), Leaf(b), Leaf(c), Leaf(macho)>>
    <2>1. g = Concatenated([i \in DOMAIN q |-> LeafCode(q[i])])
      BY DEF Contents, Im4pTree, Tree
    <2>2. [i \in DOMAIN q |-> LeafCode(q[i])] = p
      <3>. HIDE DEF a, b, c
      <3>1. DOMAIN q = 1 .. 4 /\ \A i \in 1 .. 4 : q[i] = Leaf(<<a, b, c, macho>>[i])
        OBVIOUS
      <3>. HIDE DEF q
      <3>. QED
        BY <3>1
    <2>. QED
      BY <2>1, <2>2
  <1>. HIDE DEF a, b, c, g
  <1>. DEFINE u == LeafCode(Leaf(a))
              v == LeafCode(Leaf(b))
              w == LeafCode(Leaf(c))
              x == LeafCode(Leaf(macho))
              s == 1 + LengthSize(macho.size)
  <1>5. /\ p[1] = u /\ p[2] = v /\ p[3] = w /\ p[4] = x
        /\ p = [i \in 1 .. 4 |-> p[i]]
    OBVIOUS
  <1>6. /\ u \in Files /\ u.size = LeafSize(4) /\ v \in Files /\ v.size = LeafSize(id)
        /\ w \in Files /\ w.size = LeafSize(DescriptionSize(id))
    <2>1. u \in Files /\ u.size = LeafSize(a.size)
      BY <1>1, LeafIs
    <2>2. v \in Files /\ v.size = LeafSize(b.size)
      BY <1>2, LeafIs
    <2>3. w \in Files /\ w.size = LeafSize(c.size)
      BY <1>3, LeafIs
    <2>. HIDE DEF u, v, w
    <2>. QED
      BY <1>1, <1>2, <1>3, <2>1, <2>2, <2>3
  <1>7. /\ x \in Files /\ x.size = LeafSize(macho.size)
        /\ \A at \in Int, n \in Nat : \A what, from :
              Intact(macho, at, n, what, from) => Intact(x, s + at, n, what, from)
    BY LeafIs
  <1>8. s \in Nat
    BY LengthIs
  <1>. HIDE DEF p, u, v, w, x, s
  <1>9. p \in [1 .. 4 -> Files]
    <2>1. \A i \in 1 .. 4 : p[i] \in Files
      BY <1>5, <1>6, <1>7
    <2>. QED
      BY <1>5, <2>1
  <1>10. /\ g \in Files /\ g.size = SizeOfFirst(p, 4)
         /\ SizeOfFirst(p, 0) = 0
         /\ \A k \in 1 .. 4 : SizeOfFirst(p, k) = SizeOfFirst(p, k - 1) + p[k].size
         /\ \A i \in 1 .. 4 : \A y \in Int, m \in Nat : \A what, from :
               Intact(p[i], y, m, what, from) => Intact(g, SizeOfFirst(p, i - 1) + y, m, what, from)
    BY <1>4, <1>9, RunIs
  <1>11. SizeOfFirst(p, 3) = StringsSize(id) /\ SizeOfFirst(p, 4) = StringsSize(id) + LeafSize(macho.size)
    <2>1. SizeOfFirst(p, 1) = SizeOfFirst(p, 0) + u.size
      BY <1>5, <1>10
    <2>2. SizeOfFirst(p, 2) = SizeOfFirst(p, 1) + v.size
      BY <1>5, <1>10
    <2>3. SizeOfFirst(p, 3) = SizeOfFirst(p, 2) + w.size
      BY <1>5, <1>10
    <2>4. SizeOfFirst(p, 4) = SizeOfFirst(p, 3) + x.size
      BY <1>5, <1>10
    <2>5. LeafSize(4) \in Nat
      BY LengthIs DEF LeafSize
    <2>. QED
      BY <1>6, <1>7, <1>10, <2>1, <2>2, <2>3, <2>4, <2>5 DEF StringsSize
  <1>12. ASSUME NEW at \in Int, NEW n \in Nat, NEW what, NEW from, Intact(macho, at, n, what, from)
         PROVE  Intact(g, StringsSize(id) + (s + at), n, what, from)
    <2>1. s + at \in Int
      BY <1>8
    <2>2. Intact(p[4], s + at, n, what, from)
      BY <1>5, <1>7, <1>12
    <2>3. Intact(g, SizeOfFirst(p, 4 - 1) + (s + at), n, what, from)
      <3>. DEFINE y == s + at
      <3>1. 4 \in 1 .. 4 /\ y \in Int
        BY <2>1
      <3>. HIDE DEF y
      <3>2. Intact(p[4], y, n, what, from)
        BY <2>2 DEF y
      <3>3. Intact(g, SizeOfFirst(p, 4 - 1) + y, n, what, from)
        BY <1>10, <3>1, <3>2
      <3>. QED
        BY <3>3 DEF y
    <2>. QED
      BY <1>11, <2>3
  <1>. QED
    BY <1>10, <1>11, <1>12 DEF g, s

LEMMA Im4pIs ==
    ASSUME NEW macho \in Files, NEW id \in Nat
    PROVE  LET g == SequenceCode(Im4pTree(macho, id))
           IN  /\ g \in Files /\ Im4pPayloadAt(macho.size, id) \in Nat
               /\ \A at \in Int, n \in Nat : \A what, from :
                     Intact(macho, at, n, what, from) =>
                        Intact(g, Im4pPayloadAt(macho.size, id) + at, n, what, from)
  <1>. DEFINE c == Contents(Im4pTree(macho, id))
              k == 1 + LengthSize(c.size)
              t == Piece("tag", k)
              f == [size |-> k + c.size, parts |-> t.parts]
              g == SequenceCode(Im4pTree(macho, id))
              s == 1 + LengthSize(macho.size)
              base == StringsSize(id)
  <1>1. /\ c \in Files /\ c.size = base + LeafSize(macho.size)
        /\ \A at \in Int, n \in Nat : \A what, from :
               Intact(macho, at, n, what, from) => Intact(c, base + (s + at), n, what, from)
    BY ContentsAre
  <1>2. macho.size \in Nat /\ s \in Nat /\ base \in Nat
    <2>1. \A n \in Nat : LeafSize(n) \in Nat
      BY LengthIs DEF LeafSize
    <2>. QED
      BY <2>1, DescriptionIs, FileIs, LengthIs DEF StringsSize
  <1>. HIDE DEF c
  <1>3. c.size \in Nat /\ k \in Nat
    BY <1>1, FileIs, LengthIs
  <1>4. g = Overlay(f, k, c)
    <2>1. TagAndLength("tag", c.size) = t
      BY DEF TagAndLength
    <2>2. 1 + RESERVED - (RESERVED - LengthSize(c.size)) = k
      BY LengthIs DEF RESERVED
    <2>. HIDE DEF t, k
    <2>. QED
      BY <2>1, <2>2 DEF SequenceCode, c
  <1>5. t \in Files /\ t.size = k
    <2>1. \A n \in Nat : Piece("tag", n) \in Files /\ Piece("tag", n).size = n
      BY PieceIs, NamesAreTags
    <2>. HIDE DEF k
    <2>. QED
      BY <1>3, <2>1
  <1>. HIDE DEF t, k, g
  <1>6. f \in Files /\ f.size = k + c.size
    <2>1. t.parts \in Seq(DataParts) /\ \A i \in 1 .. Len(t.parts) : Ends(t.parts[i]) <= k
          /\ t.parts[i].at \in Nat /\ t.parts[i].size \in Nat
      BY <1>5, FileIs
    <2>2. \A i \in 1 .. Len(t.parts) : Ends(t.parts[i]) <= k + c.size
      BY <1>3, <2>1 DEF Ends
    <2>3. k + c.size \in Nat
      BY <1>3
    <2>. QED
      BY <2>1, <2>2, <2>3, IsFile
  <1>. HIDE DEF f
  <1>7. /\ g \in Files
        /\ \A b \in Int, n \in Nat : \A what, from : Intact(c, b, n, what, from) => Intact(g, k + b, n, what, from)
    <2>. DEFINE o == Overlay(f, k, c)
    <2>1. k + c.size <= f.size
      BY <1>3, <1>6
    <2>2. /\ o \in Files
          /\ \A b \in Int, n \in Nat : \A what, from : Intact(c, b, n, what, from) => Intact(o, k + b, n, what, from)
      BY <1>1, <1>3, <1>6, <2>1, Overlays
    <2>. HIDE DEF o
    <2>. QED
      BY <1>4, <2>2 DEF o
  <1>8. Im4pPayloadAt(macho.size, id) = k + base + s
    <2>1. base + (1 + LengthSize(macho.size) + macho.size) = c.size
      BY <1>1 DEF LeafSize
    <2>2. base = (1 + LengthSize(4) + 4) + (1 + LengthSize(id) + id)
                    + (1 + LengthSize(DescriptionSize(id)) + DescriptionSize(id))
      BY DEF StringsSize, LeafSize
    <2>. HIDE DEF base
    <2>3. Im4pPayloadAt(macho.size, id) = 1 + LengthSize(c.size) + base + 1 + LengthSize(macho.size)
      BY <2>1, <2>2 DEF Im4pPayloadAt
    <2>. QED
      BY <1>2, <1>3, <2>3, LengthIs DEF k
  <1>. HIDE DEF base, s
  <1>9. ASSUME NEW at \in Int, NEW n \in Nat, NEW what, NEW from, Intact(macho, at, n, what, from)
        PROVE  Intact(g, (k + base + s) + at, n, what, from)
    <2>. DEFINE y == base + (s + at)
    <2>1. y \in Int /\ k + y = (k + base + s) + at
      BY <1>2, <1>3
    <2>2. Intact(c, y, n, what, from)
      BY <1>1, <1>9
    <2>. HIDE DEF y
    <2>3. Intact(g, k + y, n, what, from)
      BY <1>7, <2>1, <2>2
    <2>. QED
      BY <2>1, <2>3
  <1>. QED
    BY <1>2, <1>3, <1>7, <1>8, <1>9 DEF g

LEMMA Im4pWrites ==
    ASSUME NEW macho \in Files, NEW id \in Nat
    PROVE  WritesOnce(Im4pPlan(macho, id).writes, SequenceCode(Im4pTree(macho, id)))
  <1>. DEFINE g == SequenceCode(Im4pTree(macho, id))
  <1>1. Im4pPlan(macho, id).writes = <<Write(g)>>
    BY DEF Im4pPlan, Plan
  <1>2. g \in Files
    BY Im4pIs
  <1>. HIDE DEF g
  <1>3. Write(g) \in Appending /\ Write(g).piece = g
    BY <1>2, WriteIs
  <1>. QED
    BY <1>1, <1>3 DEF WritesOnce, g

LEMMA Im4pIsRead ==
    ASSUME Measures(job.z), NEW base, job.identifier \in Nat,
           temp = ImageOf(MachoPlan(job.z, base)), file = ImageOf(Im4pPlan(temp, job.identifier))
    PROVE  Im4pReads
  <1>. DEFINE m == MachoBuffer(job.z)
              id == job.identifier
              g == SequenceCode(Im4pTree(temp, id))
              at == Im4pPayloadAt(temp.size, id)
  <1>1. m \in Files /\ WritesOnce(MachoPlan(job.z, base).writes, m)
    BY MachoIs, MachoWrites
  <1>2. temp \in Files /\ \A b \in Int, n \in Nat : \A what, from :
            Intact(m, b, n, what, from) => Intact(temp, b, n, what, from)
    <2>. DEFINE plan == MachoPlan(job.z, base)
    <2>1. WritesOnce(plan.writes, m) /\ temp = ImageOf(plan)
      BY <1>1
    <2>. HIDE DEF plan, m
    <2>. QED
      BY <1>1, <2>1, OneWriteMakes
  <1>3. /\ g \in Files /\ at \in Nat
        /\ \A b \in Int, n \in Nat : \A what, from :
               Intact(temp, b, n, what, from) => Intact(g, at + b, n, what, from)
    BY <1>2, Im4pIs
  <1>4. WritesOnce(Im4pPlan(temp, id).writes, g)
    BY <1>2, Im4pWrites
  <1>. HIDE DEF m, g, at
  <1>5. file \in Files /\ \A b \in Int, n \in Nat : \A what, from :
            Intact(g, b, n, what, from) => Intact(file, b, n, what, from)
    <2>. DEFINE plan == Im4pPlan(temp, id)
    <2>1. WritesOnce(plan.writes, g) /\ file = ImageOf(plan)
      BY <1>4
    <2>. HIDE DEF plan
    <2>. QED
      BY <1>3, <2>1, OneWriteMakes
  <1>6. \A b \in Int : at + b \in Int
    BY <1>3
  <1>7. \A b \in Int, n \in Nat : \A what, from :
            Intact(m, b, n, what, from) => Intact(file, at + b, n, what, from)
    BY <1>2, <1>3, <1>5, <1>6
  <1>8. SegmentsHold(at)
    BY <1>3, <1>5, <1>7, SegmentsAreHeld DEF m
  <1>. QED
    BY <1>8 DEF Im4pReads, at

-----------------------------------------------------------------------------
(* Images a loader maps: sections of distinct names, one after the other.  *)

OneRaw(r) ==
    /\ r.piece \in Files /\ r.vsize \in Nat /\ r.piece.size <= r.vsize
    /\ InMemory(r.vsize) = InMemory(r.piece.size)

Raws(s) ==
    /\ Len(s) \in Nat /\ DOMAIN s = 1 .. Len(s)
    /\ \A i \in 1 .. Len(s) : OneRaw(s[i])
    /\ \A i, k \in 1 .. Len(s) : s[i].name = s[k].name => i = k

LEMMA RoundedIs ==
    \A n \in Nat : /\ InFile(n) \in Nat /\ n <= InFile(n)
                   /\ InMemory(n) \in Nat /\ n <= InMemory(n) /\ InMemory(InMemory(n)) = InMemory(n)
  <1>. TAKE n \in Nat
  <1>. DEFINE q == (n + 4096 - 1) \div 4096
              r == (n + 512 - 1) \div 512
  <1>1. q \in Nat /\ n <= q * 4096
    OBVIOUS
  <1>2. r \in Nat /\ n <= r * 512
    OBVIOUS
  <1>3. InMemory(n) = q * 4096 /\ InFile(n) = r * 512
    BY DEF InMemory, InFile, AlignUp, SECTION_ALIGNMENT, FILE_ALIGNMENT
  <1>. HIDE DEF q, r
  <1>4. (q * 4096 + 4096 - 1) \div 4096 = q
    BY <1>1
  <1>5. InMemory(q * 4096) = q * 4096
    BY <1>4 DEF InMemory, AlignUp, SECTION_ALIGNMENT
  <1>. QED
    BY <1>1, <1>2, <1>3, <1>5

\* How far the sections before one reach.
LEMMA SectionSums ==
    ASSUME NEW s, Raws(s)
    PROVE  LET n == Len(s)
           IN  /\ FileBytes(s, 0) = 0 /\ MemoryBytes(s, 0) = 0
               /\ \A k \in 0 .. n : FileBytes(s, k) \in Nat /\ MemoryBytes(s, k) \in Nat
               /\ \A i \in 1 .. n, k \in 1 .. n + 1 : i < k =>
                     /\ FileBytes(s, i - 1) + InFile(s[i].piece.size) <= FileBytes(s, k - 1)
                     /\ MemoryBytes(s, i - 1) + InMemory(s[i].piece.size) <= MemoryBytes(s, k - 1)
  <1>. DEFINE n == Len(s)
              f == [i \in DOMAIN s |-> InFile(s[i].piece.size)]
              m == [i \in DOMAIN s |-> InMemory(s[i].piece.size)]
  <1>1. n \in Nat /\ DOMAIN s = 1 .. n /\ \A i \in 1 .. n : s[i].piece \in Files
    BY DEF Raws, OneRaw
  <1>2. \A i \in 1 .. n : /\ f[i] = InFile(s[i].piece.size) /\ f[i] \in Nat
                          /\ m[i] = InMemory(s[i].piece.size) /\ m[i] \in Nat
    BY <1>1, FileIs, RoundedIs
  <1>3. \A k : FileBytes(s, k) = Summed(f, k) /\ MemoryBytes(s, k) = Summed(m, k)
    BY DEF FileBytes, MemoryBytes, Summed
  <1>. HIDE DEF n, f, m
  <1>4. /\ Summed(f, 0) = 0 /\ (\A k \in 0 .. n : Summed(f, k) \in Nat)
        /\ \A i \in 1 .. n, k \in 1 .. n + 1 : i < k => Summed(f, i - 1) + f[i] <= Summed(f, k - 1)
    BY <1>1, <1>2, SumSteps, SumsGrow
  <1>5. /\ Summed(m, 0) = 0 /\ (\A k \in 0 .. n : Summed(m, k) \in Nat)
        /\ \A i \in 1 .. n, k \in 1 .. n + 1 : i < k => Summed(m, i - 1) + m[i] <= Summed(m, k - 1)
    BY <1>1, <1>2, SumSteps, SumsGrow
  <1>. QED
    BY <1>2, <1>3, <1>4, <1>5 DEF n

LEMMA PlacedAre ==
    ASSUME NEW s, Raws(s)
    PROVE  LET p == Placed(s)
           IN  /\ DOMAIN p = 1 .. Len(s)
               /\ \A i \in 1 .. Len(s) :
                     /\ p[i].name = s[i].name /\ p[i].vsize = s[i].vsize
                     /\ p[i].rva = SECTION_ALIGNMENT + MemoryBytes(s, i - 1)
                     /\ p[i].raw = HeadersSize(Len(s)) + FileBytes(s, i - 1)
                     /\ p[i].rva \in Nat /\ p[i].raw \in Nat /\ SECTION_ALIGNMENT <= p[i].rva
  <1>. DEFINE n == Len(s)
              p == Placed(s)
  <1>1. n \in Nat /\ DOMAIN s = 1 .. n
    BY DEF Raws
  <1>2. HeadersSize(n) \in Nat /\ SECTION_ALIGNMENT \in Nat
    <2>1. SECTION_HEADERS_AT + 40 * n \in Nat
      BY <1>1 DEF SECTION_HEADERS_AT
    <2>. QED
      BY <2>1, RoundedIs DEF HeadersSize, SECTION_ALIGNMENT
  <1>3. \A k \in 0 .. n : FileBytes(s, k) \in Nat /\ MemoryBytes(s, k) \in Nat
    BY SectionSums
  <1>4. DOMAIN p = 1 .. n /\ \A i \in 1 .. n :
                     /\ p[i].name = s[i].name /\ p[i].vsize = s[i].vsize
                     /\ p[i].rva = SECTION_ALIGNMENT + MemoryBytes(s, i - 1)
                     /\ p[i].raw = HeadersSize(n) + FileBytes(s, i - 1)
    BY <1>1 DEF Placed
  <1>. HIDE DEF p, n
  <1>5. ASSUME NEW i \in 1 .. n
        PROVE  p[i].rva \in Nat /\ p[i].raw \in Nat /\ SECTION_ALIGNMENT <= p[i].rva
    <2>1. i - 1 \in 0 .. n
      BY <1>1
    <2>2. FileBytes(s, i - 1) \in Nat /\ MemoryBytes(s, i - 1) \in Nat
      BY <1>3, <2>1
    <2>. QED
      BY <1>2, <1>4, <2>2
  <1>. QED
    BY <1>4, <1>5 DEF p, n

\* The buffer: every section is whole.
LEMMA PeBufferIs ==
    ASSUME NEW s, Raws(s)
    PROVE  LET p == Placed(s)
               g == PeBuffer(s, p)
           IN  /\ g \in Files
               /\ \A i \in 1 .. Len(s) : \A b \in Int, m \in Nat : \A what, from :
                     Intact(s[i].piece, b, m, what, from) => Intact(g, p[i].raw + b, m, what, from)
  <1>. DEFINE n == Len(s)
              p == Placed(s)
              g == PeBuffer(s, p)
              head == HeadersSize(n)
              size == head + FileBytes(s, n)
              blank == Blank(size, "zeros")
              h == Piece("header", SECTION_HEADERS_AT + 40 * n)
              f == Overlay(blank, 0, h)
              c == [i \in DOMAIN s |-> Copy(p[i].raw, s[i].piece)]
  <1>1. n \in Nat /\ DOMAIN s = 1 .. n /\ \A i \in 1 .. n : s[i].piece \in Files /\ s[i].piece.size \in Nat
    BY FileIs DEF Raws, OneRaw
  <1>2. /\ \A k \in 0 .. n : FileBytes(s, k) \in Nat
        /\ \A i \in 1 .. n, k \in 1 .. n + 1 : i < k =>
              FileBytes(s, i - 1) + InFile(s[i].piece.size) <= FileBytes(s, k - 1)
    BY SectionSums
  <1>3. SECTION_HEADERS_AT + 40 * n \in Nat /\ head \in Nat /\ SECTION_HEADERS_AT + 40 * n <= head
    <2>1. SECTION_HEADERS_AT + 40 * n \in Nat
      BY <1>1 DEF SECTION_HEADERS_AT
    <2>. QED
      BY <2>1, RoundedIs DEF HeadersSize
  <1>4. \A i \in 1 .. n : p[i].raw = head + FileBytes(s, i - 1) /\ p[i].raw \in Nat
    BY PlacedAre
  <1>5. g = Overlaid(f, c)
    BY DEF PeBuffer
  <1>6. size \in Nat /\ SECTION_HEADERS_AT + 40 * n <= size
    <2>1. n \in 0 .. n
      BY <1>1
    <2>2. FileBytes(s, n) \in Nat
      BY <1>2, <2>1
    <2>. HIDE DEF head
    <2>. QED
      BY <1>3, <2>2
  <1>7. f \in Files /\ f.size = size
    <2>1. \A k \in Nat : Piece("zeros", k) \in Files /\ Piece("zeros", k).size = k
      BY PieceIs, NamesAreTags
    <2>2. \A k \in Nat : Piece("header", k) \in Files /\ Piece("header", k).size = k
      BY PieceIs, NamesAreTags
    <2>. HIDE DEF size
    <2>3. blank \in Files /\ blank.size = size
      BY <1>6, <2>1 DEF Blank
    <2>4. h \in Files /\ h.size = SECTION_HEADERS_AT + 40 * n
      BY <1>3, <2>2
    <2>. HIDE DEF blank, h, n
    <2>5. 0 \in Nat /\ 0 + h.size <= blank.size
      BY <1>3, <1>6, <2>3, <2>4
    <2>. QED
      BY <2>3, <2>4, <2>5, Overlays
  <1>8. /\ c \in [1 .. n -> FileCopies]
        /\ \A i \in 1 .. n : c[i].at = p[i].raw /\ c[i].piece = s[i].piece
    <2>. HIDE DEF p, n
    <2>1. \A a \in Nat, x \in Files : Copy(a, x) \in FileCopies /\ Copy(a, x).at = a /\ Copy(a, x).piece = x
      BY DEF Copy, FileCopies
    <2>2. \A i \in 1 .. n : c[i] = Copy(p[i].raw, s[i].piece)
      BY <1>1
    <2>3. c = [i \in 1 .. n |-> c[i]]
      BY <1>1
    <2>. HIDE DEF c
    <2>4. \A i \in 1 .. n : c[i] \in FileCopies /\ c[i].at = p[i].raw /\ c[i].piece = s[i].piece
      BY <1>1, <1>4, <2>1, <2>2
    <2>. QED
      BY <2>3, <2>4
  <1>. HIDE DEF n, p, head, f, c, g
  <1>9. ASSUME NEW i \in 1 .. n, NEW k \in 1 .. n + 1, i < k
        PROVE  c[i].at + c[i].piece.size <= head + FileBytes(s, k - 1)
    <2>1. FileBytes(s, i - 1) + InFile(s[i].piece.size) <= FileBytes(s, k - 1)
      BY <1>2, <1>9
    <2>2. i - 1 \in 0 .. n /\ k - 1 \in 0 .. n
      BY <1>1
    <2>3. FileBytes(s, i - 1) \in Nat /\ FileBytes(s, k - 1) \in Nat
      BY <1>2, <2>2
    <2>4. s[i].piece.size \in Nat /\ InFile(s[i].piece.size) \in Nat /\ s[i].piece.size <= InFile(s[i].piece.size)
      BY <1>1, RoundedIs
    <2>5. c[i].at = head + FileBytes(s, i - 1) /\ c[i].piece = s[i].piece
      BY <1>4, <1>8
    <2>. QED
      BY <1>3, <2>1, <2>3, <2>4, <2>5
  <1>10. \A i \in 1 .. n : c[i].at + c[i].piece.size <= f.size
    <2>. TAKE i \in 1 .. n
    <2>1. n + 1 \in 1 .. n + 1 /\ i < n + 1 /\ (n + 1) - 1 = n
      BY <1>1
    <2>2. c[i].at + c[i].piece.size <= head + FileBytes(s, (n + 1) - 1)
      BY <1>9, <2>1
    <2>. QED
      BY <1>7, <2>1, <2>2
  <1>11. \A i, k \in 1 .. n : i < k => Clear(c[i], c[k])
    <2>. TAKE i, k \in 1 .. n
    <2>. HAVE i < k
    <2>1. k \in 1 .. n + 1
      BY <1>1
    <2>2. c[i].at + c[i].piece.size <= head + FileBytes(s, k - 1)
      BY <1>9, <2>1
    <2>3. c[k].at = head + FileBytes(s, k - 1)
      BY <1>4, <1>8
    <2>. QED
      BY <2>2, <2>3 DEF Clear
  <1>12. Carries(g, f, n, c)
    BY <1>1, <1>5, <1>7, <1>8, <1>10, <1>11, OverlaidIs
  <1>13. ASSUME NEW i \in 1 .. n, NEW b \in Int, NEW m \in Nat, NEW what, NEW from,
                Intact(s[i].piece, b, m, what, from)
         PROVE  Intact(g, p[i].raw + b, m, what, from)
    <2>1. Intact(c[i].piece, b, m, what, from)
      BY <1>8, <1>13
    <2>2. Intact(g, c[i].at + b, m, what, from)
      BY <1>12, <2>1 DEF Carries
    <2>. QED
      BY <1>8, <2>2
  <1>. QED
    BY <1>12, <1>13 DEF Carries, g, p, n

-----------------------------------------------------------------------------
(* What the loader makes of such an image. *)

LEMMA AddressIs ==
    ASSUME NEW s, Raws(s), NEW h, h.sections = Placed(s),
           NEW i \in 1 .. Len(s), NEW k \in Nat, k < s[i].vsize
    PROVE  FileOffsetOf(h, Placed(s)[i].rva + k) = Placed(s)[i].raw + k
  <1>. DEFINE n == Len(s)
              p == Placed(s)
              rva == p[i].rva + k
              in == {j \in DOMAIN p : p[j].rva <= rva /\ rva < p[j].rva + p[j].vsize}
  <1>1. n \in Nat /\ \A j \in 1 .. n : /\ s[j].piece \in Files /\ s[j].vsize \in Nat
                                       /\ InMemory(s[j].vsize) = InMemory(s[j].piece.size)
    BY DEF Raws, OneRaw
  <1>2. /\ DOMAIN p = 1 .. n
        /\ \A j \in 1 .. n : /\ p[j].vsize = s[j].vsize /\ p[j].rva = SECTION_ALIGNMENT + MemoryBytes(s, j - 1)
                             /\ p[j].rva \in Nat /\ p[j].raw \in Nat
    BY PlacedAre
  <1>3. \A a \in 1 .. n, b \in 1 .. n : a < b => p[a].rva + p[a].vsize <= p[b].rva
    <2>. SUFFICES ASSUME NEW a \in 1 .. n, NEW b \in 1 .. n, a < b
                  PROVE  p[a].rva + p[a].vsize <= p[b].rva
      OBVIOUS
    <2>1. b \in 1 .. n + 1 /\ a - 1 \in 0 .. n /\ b - 1 \in 0 .. n
      BY <1>1
    <2>2. MemoryBytes(s, a - 1) + InMemory(s[a].piece.size) <= MemoryBytes(s, b - 1)
      BY <2>1, SectionSums
    <2>3. MemoryBytes(s, a - 1) \in Nat /\ MemoryBytes(s, b - 1) \in Nat
      BY <2>1, SectionSums
    <2>4. s[a].vsize \in Nat /\ s[a].vsize <= InMemory(s[a].piece.size) /\ InMemory(s[a].piece.size) \in Nat
      BY <1>1, RoundedIs
    <2>5. SECTION_ALIGNMENT \in Nat
      BY DEF SECTION_ALIGNMENT
    <2>. HIDE DEF p
    <2>6. p[a].vsize = s[a].vsize /\ p[a].rva = SECTION_ALIGNMENT + MemoryBytes(s, a - 1)
          /\ p[b].rva = SECTION_ALIGNMENT + MemoryBytes(s, b - 1)
      BY <1>2
    <2>. DEFINE x == MemoryBytes(s, a - 1)
                y == MemoryBytes(s, b - 1)
                v == InMemory(s[a].piece.size)
    <2>7. x + v <= y /\ x \in Nat /\ y \in Nat /\ v \in Nat /\ s[a].vsize <= v
      BY <2>2, <2>3, <2>4
    <2>8. p[a].rva = SECTION_ALIGNMENT + x /\ p[b].rva = SECTION_ALIGNMENT + y
      BY <2>6
    <2>. HIDE DEF x, y, v
    <2>. QED
      BY <2>4, <2>5, <2>6, <2>7, <2>8
  <1>. HIDE DEF p, n
  <1>4. in = {i}
    <2>0. i \in 1 .. n
      BY DEF n
    <2>1. i \in in
      BY <1>1, <1>2, <2>0
    <2>2. ASSUME NEW j \in in PROVE j = i
      <3>0. j \in 1 .. n
        BY <1>2
      <3>1. p[j].rva <= rva /\ rva < p[j].rva + p[j].vsize /\ rva < p[i].rva + p[i].vsize /\ p[i].rva <= rva
            /\ rva \in Nat
        BY <1>1, <1>2, <2>0
      <3>. HIDE DEF rva, in
      <3>2. p[j].rva \in Nat /\ p[i].rva \in Nat /\ p[j].vsize \in Nat /\ p[i].vsize \in Nat
        BY <1>1, <1>2, <2>0, <3>0
      <3>3. ~(j < i)
        <4>. SUFFICES ASSUME j < i PROVE FALSE
          OBVIOUS
        <4>1. p[j].rva + p[j].vsize <= p[i].rva
          BY <1>3, <2>0, <3>0
        <4>. QED
          BY <3>1, <3>2, <4>1
      <3>4. ~(i < j)
        <4>. SUFFICES ASSUME i < j PROVE FALSE
          OBVIOUS
        <4>1. p[i].rva + p[i].vsize <= p[j].rva
          BY <1>3, <2>0, <3>0
        <4>. QED
          BY <3>1, <3>2, <4>1
      <3>. QED
        BY <1>1, <2>0, <3>0, <3>3, <3>4
    <2>. QED
      BY <2>1, <2>2
  <1>5. Cardinality({i}) = 1 /\ (CHOOSE j \in {i} : TRUE) = i
    BY FS_Singleton
  <1>6. {j \in DOMAIN h.sections :
            /\ h.sections[j].rva <= rva /\ rva < h.sections[j].rva + h.sections[j].vsize} = {i}
    BY <1>4 DEF p
  <1>7. h.sections = p
    BY DEF p
  <1>. HIDE DEF rva
  <1>8. FileOffsetOf(h, rva) = p[i].raw + rva - p[i].rva
    BY <1>5, <1>6, <1>7 DEF FileOffsetOf
  <1>9. p[i].raw + rva - p[i].rva = p[i].raw + k
    BY <1>2 DEF rva, n
  <1>. QED
    BY <1>8, <1>9 DEF rva, p

\* The image of a plan over such sections.
Mapped(h, f, s) ==
    /\ Raws(s) /\ h.sections = Placed(s)
    /\ h.imageSize = SECTION_ALIGNMENT + MemoryBytes(s, Len(s))
    /\ f \in Files
    /\ \A i \in 1 .. Len(s) : \A b \in Int, m \in Nat : \A what, from :
          Intact(s[i].piece, b, m, what, from) => Intact(f, Placed(s)[i].raw + b, m, what, from)

LEMMA PeWrites ==
    ASSUME NEW s, Raws(s), NEW accepts, NEW entry, NEW directories, NEW checked \in BOOLEAN
    PROVE  WritesOnce(PePlan(accepts, s, entry, directories, checked).writes, PeBuffer(s, Placed(s)))
  <1>. DEFINE g == PeBuffer(s, Placed(s))
  <1>. DEFINE w == [Write(g) EXCEPT !.compared = checked]
  <1>1. PePlan(accepts, s, entry, directories, checked).writes = <<w>>
    BY DEF PePlan, Plan
  <1>2. g \in Files
    BY PeBufferIs
  <1>. HIDE DEF g
  <1>3. w \in Appending /\ w.piece = g
    BY <1>2, WriteIs
  <1>. HIDE DEF w
  <1>. QED
    BY <1>1, <1>3 DEF WritesOnce, g

LEMMA PeMaps ==
    ASSUME NEW s, Raws(s), NEW accepts, NEW entry, NEW directories, NEW checked \in BOOLEAN,
           NEW plan, plan = PePlan(accepts, s, entry, directories, checked),
           NEW h, h = plan.header, NEW f, f = ImageOf(plan)
    PROVE  Mapped(h, f, s) /\ h.entry = entry /\ h.directories = directories
  <1>. DEFINE g == PeBuffer(s, Placed(s))
              p == Placed(s)
  <1>1. /\ h.sections = p /\ h.imageSize = SECTION_ALIGNMENT + MemoryBytes(s, Len(s))
        /\ h.entry = entry /\ h.directories = directories
    BY DEF PePlan, Plan
  <1>2. /\ g \in Files
        /\ \A i \in 1 .. Len(s) : \A b \in Int, m \in Nat : \A what, from :
              Intact(s[i].piece, b, m, what, from) => Intact(g, p[i].raw + b, m, what, from)
    BY PeBufferIs
  <1>3. WritesOnce(plan.writes, g)
    BY PeWrites
  <1>4. \A i \in 1 .. Len(s) : p[i].raw \in Nat
    BY PlacedAre
  <1>. HIDE DEF g, p
  <1>5. /\ f \in Files
        /\ \A at \in Int, n \in Nat : \A what, from : Intact(g, at, n, what, from) => Intact(f, at, n, what, from)
    BY <1>2, <1>3, OneWriteMakes
  <1>6. ASSUME NEW i \in 1 .. Len(s), NEW b \in Int, NEW m \in Nat, NEW what, NEW from,
               Intact(s[i].piece, b, m, what, from)
        PROVE  Intact(f, p[i].raw + b, m, what, from)
    <2>1. Intact(g, p[i].raw + b, m, what, from)
      BY <1>2, <1>6
    <2>2. p[i].raw + b \in Int
      BY <1>4
    <2>. QED
      BY <1>5, <2>1, <2>2
  <1>. QED
    BY <1>1, <1>5, <1>6 DEF Mapped, p

\* What is intact in a file lies in it.
LEMMA IntactInside ==
    ASSUME NEW f \in Files, NEW b \in Int, NEW m \in Nat, m # 0, NEW what, NEW from, Intact(f, b, m, what, from)
    PROVE  0 <= b /\ b + m <= f.size
  <1>1. PICK i \in 1 .. Len(f.parts) : f.parts[i].at <= b /\ b + m <= Ends(f.parts[i])
    BY DEF Intact, IntactIn
  <1>2. f.parts[i].at \in Nat /\ f.parts[i].size \in Nat /\ Ends(f.parts[i]) <= f.size /\ f.size \in Nat
    BY FileIs
  <1>. QED
    BY <1>1, <1>2 DEF Ends

LEMMA LoadedIs ==
    ASSUME NEW h, NEW f, NEW s, Mapped(h, f, s), NEW i \in 1 .. Len(s),
           NEW b \in Int, NEW m \in Nat, NEW what, Intact(s[i].piece, b, m, what, 0)
    PROVE  LoadedAt(f, h, Placed(s)[i].rva + b, m, what)
  <1>. DEFINE p == Placed(s)
  <1>1. CASE m = 0
    BY <1>1 DEF LoadedAt
  <1>2. CASE m # 0
    <2>1. Raws(s) /\ h.sections = Placed(s) /\ f \in Files
      BY DEF Mapped
    <2>2. s[i].piece \in Files /\ s[i].vsize \in Nat /\ s[i].piece.size <= s[i].vsize
      BY <2>1 DEF Raws, OneRaw
    <2>3. s[i].piece.size \in Nat
      BY <2>2, FileIs
    <2>4. 0 <= b /\ b + m <= s[i].piece.size
      BY <1>2, <2>2, IntactInside
    <2>5. b \in Nat /\ b < s[i].vsize
      BY <1>2, <2>2, <2>3, <2>4
    <2>6. FileOffsetOf(h, p[i].rva + b) = p[i].raw + b
      BY <2>1, <2>5, AddressIs
    <2>7. p[i].raw \in Nat
      BY <2>1, PlacedAre
    <2>8. Intact(f, p[i].raw + b, m, what, 0)
      BY DEF Mapped
    <2>. HIDE DEF p
    <2>9. p[i].raw + b \in Int /\ p[i].raw + b >= 0
      BY <2>5, <2>7
    <2>10. Holds(f, p[i].raw + b, m, what)
      BY <2>1, <2>8, <2>9, IntactHolds
    <2>. QED
      BY <2>6, <2>9, <2>10 DEF LoadedAt, p
  <1>. QED
    BY <1>1, <1>2

LEMMA PlacementIs ==
    ASSUME NEW s, Raws(s), NEW h, h.sections = Placed(s), NEW i \in 1 .. Len(s)
    PROVE  Placement(h, s[i].name) = Placed(s)[i]
  <1>. DEFINE p == Placed(s)
  <1>1. DOMAIN p = 1 .. Len(s) /\ \A j \in 1 .. Len(s) : p[j].name = s[j].name
    BY PlacedAre
  <1>2. \A j \in 1 .. Len(s) : s[j].name = s[i].name => j = i
    BY DEF Raws
  <1>3. h.sections = p
    OBVIOUS
  <1>. HIDE DEF p
  <1>4. (CHOOSE j \in DOMAIN p : p[j].name = s[i].name) = i
    BY <1>1, <1>2
  <1>. QED
    BY <1>3, <1>4 DEF Placement, p

LEMMA AllInside ==
    ASSUME NEW s, Mapped(header, file, s)
    PROVE  InsideTheImage
  <1>. DEFINE p == Placed(s)
              n == Len(s)
  <1>1. Raws(s) /\ header.sections = p /\ header.imageSize = SECTION_ALIGNMENT + MemoryBytes(s, n)
    BY DEF Mapped
  <1>2. n \in Nat /\ \A i \in 1 .. n : s[i].piece \in Files /\ InMemory(s[i].vsize) = InMemory(s[i].piece.size)
    BY <1>1 DEF Raws, OneRaw
  <1>3. /\ DOMAIN p = 1 .. n
        /\ \A i \in 1 .. n : p[i].vsize = s[i].vsize /\ p[i].rva = SECTION_ALIGNMENT + MemoryBytes(s, i - 1)
    BY <1>1, PlacedAre
  <1>. HIDE DEF p, n
  <1>4. ASSUME NEW i \in 1 .. n PROVE p[i].rva + InMemory(p[i].vsize) <= header.imageSize
    <2>1. n + 1 \in 1 .. n + 1 /\ i < n + 1 /\ (n + 1) - 1 = n /\ i - 1 \in 0 .. n /\ n \in 0 .. n
      BY <1>2
    <2>2. MemoryBytes(s, i - 1) + InMemory(s[i].piece.size) <= MemoryBytes(s, (n + 1) - 1)
      <3>1. \A a \in 1 .. n, k \in 1 .. n + 1 : a < k =>
              MemoryBytes(s, a - 1) + InMemory(s[a].piece.size) <= MemoryBytes(s, k - 1)
        BY <1>1, SectionSums DEF n
      <3>. QED
        BY <2>1, <3>1
    <2>3. MemoryBytes(s, i - 1) \in Nat /\ MemoryBytes(s, n) \in Nat
      BY <1>1, <2>1, SectionSums DEF n
    <2>4. InMemory(s[i].piece.size) \in Nat
      BY <1>2, FileIs, RoundedIs
    <2>5. SECTION_ALIGNMENT \in Nat
      BY DEF SECTION_ALIGNMENT
    <2>. QED
      BY <1>1, <1>2, <1>3, <2>1, <2>2, <2>3, <2>4, <2>5
  <1>. QED
    BY <1>1, <1>3, <1>4 DEF InsideTheImage

\* A byte of the code behind an entry point.
LEMMA EntryIs ==
    ASSUME NEW s, Mapped(header, file, s), NEW i \in 1 .. Len(s), NEW base \in Nat,
           Measures(job.z), NEW from \in Nat,
           Intact(s[i].piece, base, job.z.code, "code", 0),
           from < job.z.code => header.entry = Placed(s)[i].rva + base + from
    PROVE  CodeAt(FileOffsetOf(header, header.entry), from)
  <1>. DEFINE p == Placed(s)
              n == job.z.code
              at == FileOffsetOf(header, header.entry)
  <1>0. n \in Nat
    BY DEF Measures
  <1>. SUFFICES ASSUME from < n
                PROVE  Inside(file, at, 1) /\ Content(file, at, 1) = [what |-> "code", from |-> from]
    BY DEF CodeAt
  <1>1. Raws(s) /\ header.sections = p /\ file \in Files
    BY DEF Mapped
  <1>2. s[i].piece \in Files /\ s[i].vsize \in Nat /\ s[i].piece.size <= s[i].vsize
    BY <1>1 DEF Raws, OneRaw
  <1>3. Intact(s[i].piece, base + from, 1, "code", 0 + (base + from) - base)
    <2>1. base \in Int /\ 0 \in Int /\ base + from \in Int /\ base <= base + from /\ base + from + 1 <= base + n
          /\ 1 \in Nat
      BY <1>0
    <2>. HIDE DEF n
    <2>. QED
      BY <1>0, <1>2, <2>1, IntactWithin DEF n
  <1>4. 0 + (base + from) - base = from
    OBVIOUS
  <1>5. Intact(s[i].piece, base + from, 1, "code", from)
    BY <1>3, <1>4
  <1>6. base + from \in Nat /\ base + from < s[i].vsize
    <2>1. base + from \in Int /\ 1 \in Nat /\ 1 # 0
      OBVIOUS
    <2>2. base + from + 1 <= s[i].piece.size
      BY <1>2, <1>5, <2>1, IntactInside
    <2>3. s[i].piece.size \in Nat
      BY <1>2, FileIs
    <2>. QED
      BY <1>2, <2>2, <2>3
  <1>7. p[i].raw \in Nat /\ p[i].rva \in Nat
    BY <1>1, PlacedAre
  <1>8. at = p[i].raw + (base + from)
    <2>1. FileOffsetOf(header, p[i].rva + (base + from)) = p[i].raw + (base + from)
      BY <1>1, <1>6, AddressIs
    <2>. HIDE DEF p
    <2>2. p[i].rva + (base + from) = header.entry
      BY <1>7 DEF p
    <2>. QED
      BY <2>1, <2>2
  <1>9. Intact(file, p[i].raw + (base + from), 1, "code", from)
    <2>1. base + from \in Int /\ 1 \in Nat
      OBVIOUS
    <2>. QED
      BY <1>5, <2>1 DEF Mapped
  <1>. HIDE DEF p, at
  <1>10. at \in Int /\ Intact(file, at, 1, "code", from)
    BY <1>6, <1>7, <1>8, <1>9
  <1>. DEFINE one == 1
  <1>11. one \in Nat /\ one # 0 /\ Intact(file, at, one, "code", from)
    BY <1>10
  <1>. HIDE DEF one
  <1>12. Inside(file, at, one) /\ Content(file, at, one) = [what |-> "code", from |-> from]
    BY <1>1, <1>10, <1>11, IntactIsContent
  <1>. QED
    BY <1>12 DEF one, at

-----------------------------------------------------------------------------
(* EFI images around an AETB file. *)

LEMMA AetbIs ==
    ASSUME NEW z, Measures(z)
    PROVE  LET g == Aetb(z)
           IN  /\ g \in Files /\ g.size \in Nat
               /\ Intact(g, 0, HEADER_SIZE, "aetb header", 0) /\ Intact(g, HEADER_SIZE, z.code, "code", 0)
               /\ AetbSize(z) \in Nat /\ HEADER_SIZE + z.code <= AetbSize(z)
  <1>. DEFINE s == AetbSections(z)
              a == Piece("aetb header", HEADER_SIZE)
              one == <<a>>
              m == [i \in DOMAIN s |-> Piece(TagOf(s[i].name), s[i].size)]
              p == one \o m
              g == Aetb(z)
  <1>1. /\ Len(s) = 6 /\ DOMAIN s = 1 .. 6
        /\ \A i \in 1 .. 6 : s[i].size \in Nat /\ TagOf(s[i].name) \in DataTags
    BY AetbListed DEF Listed
  <1>2. s[1].size = z.code /\ TagOf(s[1].name) = "code" /\ z.code \in Nat
    BY DEF AetbSections, TagOf, Measures
  <1>3. HEADER_SIZE \in Nat /\ HEADER_SIZE # 0
    BY DEF HEADER_SIZE
  <1>4. g = Concatenated(p)
    BY DEF Aetb
  <1>5. a \in Files /\ a.size = HEADER_SIZE /\ Intact(a, 0, HEADER_SIZE, "aetb header", 0)
    <2>. DEFINE n == HEADER_SIZE
    <2>1. n \in Nat
      BY <1>3
    <2>. HIDE DEF n
    <2>2. Piece("aetb header", n) \in Files /\ Piece("aetb header", n).size = n
          /\ Intact(Piece("aetb header", n), 0, n, "aetb header", 0)
      BY <2>1, PieceIs, NamesAreTags
    <2>. QED
      BY <2>2 DEF n
  <1>. HIDE DEF s, a
  <1>6. /\ \A i \in 1 .. 6 : m[i] = Piece(TagOf(s[i].name), s[i].size) /\ m[i] \in Files
        /\ m = [i \in 1 .. 6 |-> m[i]]
    BY <1>1, PieceIs
  <1>7. m[1] = Piece("code", z.code)
    BY <1>2, <1>6
  <1>8. m[1].size = z.code /\ Intact(m[1], 0, z.code, "code", 0)
    <2>1. Piece("code", z.code).size = z.code /\ Intact(Piece("code", z.code), 0, z.code, "code", 0)
      BY <1>2, PieceIs, NamesAreTags
    <2>. HIDE DEF m
    <2>. QED
      BY <1>7, <2>1
  <1>. HIDE DEF m
  <1>9. m \in Seq(Files) /\ Len(m) = 6 /\ one \in Seq(Files) /\ Len(one) = 1 /\ one[1] = a
    <2>1. one \in Seq(Files) /\ Len(one) = 1 /\ one[1] = a
      <3>1. a \in Files
        BY <1>5
      <3>. QED
        BY <3>1
    <2>2. m \in Seq(Files) /\ Len(m) = 6
      BY <1>6
    <2>. QED
      BY <2>1, <2>2
  <1>. HIDE DEF one
  <1>10. p \in [1 .. 7 -> Files] /\ p[1] = a /\ p[2] = m[1]
    <2>1. /\ Len(p) = Len(one) + Len(m) /\ p \in Seq(Files)
          /\ \A i \in 1 .. Len(one) + Len(m) : p[i] = IF i <= Len(one) THEN one[i] ELSE m[i - Len(one)]
      BY <1>9, ConcatProperties
    <2>2. Len(one) + Len(m) = 7
      BY <1>9
    <2>. HIDE DEF p
    <2>3. \A i \in 1 .. 7 : p[i] = IF i <= 1 THEN one[i] ELSE m[i - 1]
      BY <1>9, <2>1, <2>2
    <2>4. p[1] = one[1] /\ p[2] = m[2 - 1]
      BY <2>3
    <2>5. p \in [1 .. 7 -> Files]
      BY <2>1, <2>2
    <2>. QED
      BY <1>9, <2>4, <2>5
  <1>. HIDE DEF p, g
  <1>11. /\ g \in Files /\ SizeOfFirst(p, 0) = 0
         /\ \A k \in 1 .. 7 : SizeOfFirst(p, k) = SizeOfFirst(p, k - 1) + p[k].size
         /\ \A i \in 1 .. 7 : \A b \in Int, n \in Nat : \A what, from :
               Intact(p[i], b, n, what, from) => Intact(g, SizeOfFirst(p, i - 1) + b, n, what, from)
    BY <1>4, <1>10, RunIs
  <1>12. SizeOfFirst(p, 1 - 1) = 0 /\ SizeOfFirst(p, 2 - 1) = HEADER_SIZE
    <2>1. \A k \in 1 .. 7 : SizeOfFirst(p, k) = SizeOfFirst(p, k - 1) + p[k].size
      BY <1>11
    <2>2. SizeOfFirst(p, 1) = SizeOfFirst(p, 1 - 1) + p[1].size
      BY <2>1
    <2>3. 1 - 1 = 0 /\ 2 - 1 = 1
      OBVIOUS
    <2>4. p[1].size = HEADER_SIZE /\ SizeOfFirst(p, 1 - 1) = 0
      BY <1>5, <1>10, <1>11, <2>3
    <2>5. SizeOfFirst(p, 1) = HEADER_SIZE
      BY <1>3, <2>2, <2>4
    <2>. QED
      BY <2>3, <2>4, <2>5
  <1>13. Intact(g, 0, HEADER_SIZE, "aetb header", 0)
    <2>1. \A b \in Int, n \in Nat : \A what, from :
             Intact(p[1], b, n, what, from) => Intact(g, SizeOfFirst(p, 1 - 1) + b, n, what, from)
      BY <1>11
    <2>. DEFINE h == HEADER_SIZE
                x == SizeOfFirst(p, 1 - 1)
    <2>. HIDE DEF x
    <2>0. 0 \in Int /\ h \in Nat
      BY <1>3
    <2>2. Intact(p[1], 0, h, "aetb header", 0)
      BY <1>5, <1>10
    <2>. HIDE DEF h
    <2>3. Intact(g, SizeOfFirst(p, 1 - 1) + 0, h, "aetb header", 0)
      BY <2>0, <2>1, <2>2
    <2>4. Intact(g, x + 0, h, "aetb header", 0)
      BY <2>3 DEF x
    <2>5. x = 0
      BY <1>12 DEF x
    <2>. HIDE DEF x
    <2>6. x + 0 = 0
      BY <2>5
    <2>. QED
      BY <2>4, <2>6 DEF h
  <1>14. Intact(g, HEADER_SIZE, z.code, "code", 0)
    <2>1. \A b \in Int, n \in Nat : \A what, from :
             Intact(p[2], b, n, what, from) => Intact(g, SizeOfFirst(p, 2 - 1) + b, n, what, from)
      BY <1>11
    <2>2. 0 \in Int /\ z.code \in Nat /\ Intact(p[2], 0, z.code, "code", 0)
      BY <1>2, <1>8, <1>10
    <2>3. Intact(g, SizeOfFirst(p, 2 - 1) + 0, z.code, "code", 0)
      BY <2>1, <2>2
    <2>. DEFINE x == SizeOfFirst(p, 2 - 1)
    <2>4. Intact(g, x + 0, z.code, "code", 0)
      BY <2>3
    <2>5. x = HEADER_SIZE
      BY <1>12
    <2>. HIDE DEF x
    <2>6. x + 0 = HEADER_SIZE
      BY <1>3, <2>5
    <2>. QED
      BY <2>4, <2>6
  <1>15. AetbSize(z) \in Nat /\ HEADER_SIZE + z.code <= AetbSize(z)
    <2>1. AetbSize(z) = HEADER_SIZE + SizeOfFirst(s, 6)
      <3>1. (6 + 1) - 1 = 6
        OBVIOUS
      <3>. QED
        BY <1>1, <3>1 DEF AetbSize, SizeBefore, s
    <2>2. /\ SizeOfFirst(s, 0) = 0
          /\ \A k \in 1 .. 6 : SizeOfFirst(s, k) = SizeOfFirst(s, k - 1) + s[k].size
          /\ \A k \in 0 .. 6 : SizeOfFirst(s, k) \in Nat
      BY <1>1, SizeSteps
    <2>3. SizeOfFirst(s, 1) = SizeOfFirst(s, 0) + s[1].size
      BY <2>2
    <2>4. SizeOfFirst(s, 1) <= SizeOfFirst(s, 6)
      <3>1. SizeOfFirst(s, 2) = SizeOfFirst(s, 1) + s[2].size
        BY <2>2
      <3>2. SizeOfFirst(s, 3) = SizeOfFirst(s, 2) + s[3].size
        BY <2>2
      <3>3. SizeOfFirst(s, 4) = SizeOfFirst(s, 3) + s[4].size
        BY <2>2
      <3>4. SizeOfFirst(s, 5) = SizeOfFirst(s, 4) + s[5].size
        BY <2>2
      <3>5. SizeOfFirst(s, 6) = SizeOfFirst(s, 5) + s[6].size
        BY <2>2
      <3>6. s[2].size \in Nat /\ s[3].size \in Nat /\ s[4].size \in Nat /\ s[5].size \in Nat /\ s[6].size \in Nat
        BY <1>1
      <3>7. SizeOfFirst(s, 1) \in Nat
        BY <2>2
      <3>. QED
        BY <3>1, <3>2, <3>3, <3>4, <3>5, <3>6, <3>7
    <2>5. SizeOfFirst(s, 6) \in Nat
      BY <2>2
    <2>. QED
      BY <1>2, <1>3, <2>1, <2>2, <2>3, <2>4, <2>5
  <1>16. g.size \in Nat
    BY <1>11, FileIs
  <1>. QED
    BY <1>11, <1>13, <1>14, <1>15, <1>16 DEF g

\* Raw(name, piece), and with the whole pages it takes.
LEMMA RawIs ==
    ASSUME NEW name, NEW p \in Files
    PROVE  /\ OneRaw(Raw(name, p)) /\ Raw(name, p).name = name /\ Raw(name, p).piece = p
           /\ Raw(name, p).vsize = p.size
           /\ LET q == [Raw(name, p) EXCEPT !.vsize = InMemory(@)]
              IN  OneRaw(q) /\ q.name = name /\ q.piece = p
BY FileIs, RoundedIs DEF Raw, OneRaw

LEMMA EfiEntryIs ==
    ASSUME NEW z, Measures(z), NEW starts, \A place \in DOMAIN starts : place \in Nat /\ starts[place] \in Nat,
           NEW entry \in Nat, entry < z.code, EntryIsPlain(z, starts, entry)
    PROVE  EfiEntry(z, starts, entry) = SECTION_ALIGNMENT + HEADER_SIZE + entry
  <1>. DEFINE size == AetbSize(z)
              direct == EntryScore(z, starts, entry)
              relative == EntryScore(z, starts, HEADER_SIZE + entry)
              likelier == HEADER_SIZE + entry < size /\ (relative > direct \/ (direct < 3 /\ relative >= 3))
              chosen == IF likelier THEN HEADER_SIZE + entry ELSE entry
              usable == entry < size /\ chosen >= HEADER_SIZE
  <1>1. /\ size \in Nat /\ HEADER_SIZE = 256 /\ SECTION_ALIGNMENT = 4096 /\ z.code \in Nat
        /\ HEADER_SIZE + z.code <= size
    BY AetbIs DEF HEADER_SIZE, SECTION_ALIGNMENT, Measures
  <1>. HIDE DEF size
  <1>2. HEADER_SIZE + entry < size /\ entry < size
    BY <1>1
  <1>3. EfiEntry(z, starts, entry) = SECTION_ALIGNMENT + IF usable THEN chosen ELSE HEADER_SIZE
    BY DEF EfiEntry, size
  <1>. HIDE DEF direct, relative
  <1>4. CASE entry = 0
    BY <1>1, <1>2, <1>3, <1>4
  <1>5. CASE entry # 0
    <2>1. relative >= 3 /\ direct < 3
      BY <1>5 DEF EntryIsPlain, relative, direct
    <2>2. likelier
      BY <1>2, <2>1
    <2>3. chosen = HEADER_SIZE + entry /\ usable
      BY <1>1, <1>2, <2>2
    <2>. HIDE DEF chosen, usable
    <2>. QED
      BY <1>1, <1>3, <2>3
  <1>. QED
    BY <1>4, <1>5

EfiRaws(z) == <<Raw(".text", Aetb(z)), Raw(".reloc", Piece("reloc", 10))>>

EfiPages(z) == [i \in DOMAIN EfiRaws(z) |-> [EfiRaws(z)[i] EXCEPT !.vsize = InMemory(@)]]

LEMMA EfiPagesAre ==
    ASSUME NEW z, Measures(z)
    PROVE  /\ Raws(EfiRaws(z)) /\ Raws(EfiPages(z)) /\ Len(EfiPages(z)) = 2 /\ Len(EfiRaws(z)) = 2
           /\ EfiPages(z)[1].piece = Aetb(z) /\ EfiPages(z)[2].piece = Piece("reloc", 10)
           /\ EfiRaws(z)[1].piece = Aetb(z) /\ EfiRaws(z)[2].piece = Piece("reloc", 10)
  <1>. DEFINE g == Aetb(z)
              q == Piece("reloc", 10)
              a == Raw(".text", g)
              b == Raw(".reloc", q)
              c == [a EXCEPT !.vsize = InMemory(@)]
              d == [b EXCEPT !.vsize = InMemory(@)]
              r == <<a, b>>
              s == EfiPages(z)
  <1>1. g \in Files
    BY AetbIs
  <1>2. q \in Files
    BY PieceIs, NamesAreTags
  <1>3. r = EfiRaws(z)
    BY DEF EfiRaws
  <1>. HIDE DEF g, q
  <1>4. OneRaw(a) /\ a.name = ".text" /\ a.piece = g /\ OneRaw(c) /\ c.name = ".text" /\ c.piece = g
    BY <1>1, RawIs
  <1>5. OneRaw(b) /\ b.name = ".reloc" /\ b.piece = q /\ OneRaw(d) /\ d.name = ".reloc" /\ d.piece = q
    BY <1>2, RawIs
  <1>6. DOMAIN r = 1 .. 2 /\ Len(r) = 2 /\ r[1] = a /\ r[2] = b
    OBVIOUS
  <1>7. DOMAIN s = 1 .. 2 /\ Len(s) = 2 /\ s[1] = c /\ s[2] = d
    <2>1. s = [i \in DOMAIN r |-> [r[i] EXCEPT !.vsize = InMemory(@)]]
      BY <1>3 DEF EfiPages
    <2>. HIDE DEF s, r, a, b
    <2>2. s = [i \in 1 .. 2 |-> [r[i] EXCEPT !.vsize = InMemory(@)]]
      BY <1>6, <2>1
    <2>3. s[1] = c /\ s[2] = d
      BY <1>6, <2>2
    <2>4. DOMAIN s = 1 .. 2 /\ Len(s) = 2
      BY <2>2
    <2>. QED
      BY <2>3, <2>4
  <1>. HIDE DEF a, b, c, d, r, s
  <1>8. ".text" # ".reloc"
    OBVIOUS
  <1>9. Raws(r)
    <2>1. \A i \in 1 .. 2 : OneRaw(r[i])
      BY <1>4, <1>5, <1>6
    <2>2. \A i, k \in 1 .. 2 : r[i].name = r[k].name => i = k
      BY <1>4, <1>5, <1>6, <1>8
    <2>. QED
      BY <1>6, <2>1, <2>2 DEF Raws
  <1>10. Raws(s)
    <2>1. \A i \in 1 .. 2 : OneRaw(s[i])
      BY <1>4, <1>5, <1>7
    <2>2. \A i, k \in 1 .. 2 : s[i].name = s[k].name => i = k
      BY <1>4, <1>5, <1>7, <1>8
    <2>. QED
      BY <1>7, <2>1, <2>2 DEF Raws
  <1>. QED
    BY <1>3, <1>4, <1>5, <1>6, <1>7, <1>9, <1>10 DEF s, g, q

LEMMA EfiPlanIs ==
    ASSUME NEW z, NEW starts, NEW entry
    PROVE  EfiPlan(z, starts, entry) =
              PePlan(TRUE, EfiPages(z), EfiEntry(z, starts, entry),
                     [reloc |-> Zone(Placed(EfiRaws(z))[2].rva, 10)], TRUE)
BY DEF EfiPlan, EfiPages, EfiRaws

LEMMA EfiAppends ==
    ASSUME NEW z, Measures(z), NEW starts, NEW entry
    PROVE  EfiPlan(z, starts, entry).writes \in Seq(Appending)
  <1>1. Raws(EfiPages(z))
    BY EfiPagesAre
  <1>2. \A accepts, en, directories :
           WritesOnce(PePlan(accepts, EfiPages(z), en, directories, TRUE).writes,
                    PeBuffer(EfiPages(z), Placed(EfiPages(z))))
    BY <1>1, PeWrites
  <1>. QED
    BY <1>2, EfiPlanIs DEF WritesOnce

\* Places depend on the sizes of the pieces alone.
LEMMA SamePlaces ==
    ASSUME NEW s, NEW r, Raws(s), Raws(r), Len(s) = Len(r),
           \A i \in 1 .. Len(s) : s[i].piece.size = r[i].piece.size
    PROVE  \A i \in 1 .. Len(s) : Placed(s)[i].rva = Placed(r)[i].rva /\ Placed(s)[i].raw = Placed(r)[i].raw
  <1>. DEFINE n == Len(s)
              f == [i \in DOMAIN s |-> InFile(s[i].piece.size)]
              m == [i \in DOMAIN s |-> InMemory(s[i].piece.size)]
              g == [i \in DOMAIN r |-> InFile(r[i].piece.size)]
              o == [i \in DOMAIN r |-> InMemory(r[i].piece.size)]
  <1>1. n \in Nat /\ DOMAIN s = 1 .. n /\ DOMAIN r = 1 .. n
    BY DEF Raws
  <1>2. \A i \in 1 .. n : f[i] = g[i] /\ m[i] = o[i]
    BY <1>1
  <1>3. /\ \A k : FileBytes(s, k) = Summed(f, k) /\ MemoryBytes(s, k) = Summed(m, k)
        /\ \A k : FileBytes(r, k) = Summed(g, k) /\ MemoryBytes(r, k) = Summed(o, k)
    BY DEF FileBytes, MemoryBytes, Summed
  <1>. HIDE DEF n, f, m, g, o
  <1>4. \A k \in 0 .. n : Summed(f, k) = Summed(g, k) /\ Summed(m, k) = Summed(o, k)
    <2>1. DOMAIN f = 1 .. n /\ DOMAIN g = 1 .. n /\ DOMAIN m = 1 .. n /\ DOMAIN o = 1 .. n
      BY <1>1 DEF f, g, m, o
    <2>2. \A i \in 1 .. n : f[i] = g[i]
      BY <1>2
    <2>3. \A i \in 1 .. n : m[i] = o[i]
      BY <1>2
    <2>4. \A k \in 0 .. n : Summed(f, k) = Summed(g, k)
      <3>. TAKE k \in 0 .. n
      <3>0. k \in Int /\ 1 \in Int /\ \A i \in 1 .. k : i \in 1 .. n
        BY <1>1
      <3>1. IsFiniteSet(1 .. k) /\ \A i \in 1 .. k : f[i] = g[i]
        BY <2>2, <3>0, FS_Interval
      <3>. QED
        BY <3>1, SumCongruence DEF Summed
    <2>5. \A k \in 0 .. n : Summed(m, k) = Summed(o, k)
      <3>. TAKE k \in 0 .. n
      <3>0. k \in Int /\ 1 \in Int /\ \A i \in 1 .. k : i \in 1 .. n
        BY <1>1
      <3>1. IsFiniteSet(1 .. k) /\ \A i \in 1 .. k : m[i] = o[i]
        BY <2>3, <3>0, FS_Interval
      <3>. QED
        BY <3>1, SumCongruence DEF Summed
    <2>. QED
      BY <2>4, <2>5
  <1>5. \A k \in 0 .. n : FileBytes(s, k) = FileBytes(r, k) /\ MemoryBytes(s, k) = MemoryBytes(r, k)
    BY <1>3, <1>4
  <1>6. \A i \in 1 .. n : i - 1 \in 0 .. n
    BY <1>1
  <1>7. /\ \A i \in 1 .. n : Placed(s)[i].rva = SECTION_ALIGNMENT + MemoryBytes(s, i - 1)
                             /\ Placed(s)[i].raw = HeadersSize(n) + FileBytes(s, i - 1)
        /\ \A i \in 1 .. n : Placed(r)[i].rva = SECTION_ALIGNMENT + MemoryBytes(r, i - 1)
                             /\ Placed(r)[i].raw = HeadersSize(n) + FileBytes(r, i - 1)
    BY PlacedAre DEF n
  <1>. QED
    BY <1>5, <1>6, <1>7 DEF n

LEMMA FirstPlace == ASSUME NEW s, Raws(s), Len(s) # 0 PROVE Placed(s)[1].rva = SECTION_ALIGNMENT
  <1>1. Len(s) \in Nat /\ 1 \in 1 .. Len(s) /\ 1 - 1 = 0
    BY DEF Raws
  <1>2. Placed(s)[1].rva = SECTION_ALIGNMENT + MemoryBytes(s, 1 - 1)
    BY <1>1, PlacedAre
  <1>3. MemoryBytes(s, 0) = 0
    BY SectionSums
  <1>. QED
    BY <1>1, <1>2, <1>3 DEF SECTION_ALIGNMENT

LEMMA EfiIsRead ==
    ASSUME Measures(job.z), job.entry \in Nat,
           \A place \in DOMAIN job.starts : place \in Nat /\ job.starts[place] \in Nat,
           header = EfiPlan(job.z, job.starts, job.entry).header,
           file = ImageOf(EfiPlan(job.z, job.starts, job.entry))
    PROVE  EfiReads
  <1>. DEFINE z == job.z
              s == EfiPages(z)
              r == EfiRaws(z)
              g == Aetb(z)
              q == Piece("reloc", 10)
              plan == EfiPlan(z, job.starts, job.entry)
              entry == EfiEntry(z, job.starts, job.entry)
              directories == [reloc |-> Zone(Placed(r)[2].rva, 10)]
  <1>1. /\ Raws(r) /\ Raws(s) /\ Len(s) = 2 /\ Len(r) = 2 /\ s[1].piece = g /\ s[2].piece = q
        /\ r[1].piece = g /\ r[2].piece = q
    BY EfiPagesAre
  <1>2. plan = PePlan(TRUE, s, entry, directories, TRUE)
    BY EfiPlanIs
  <1>. HIDE DEF s, r, g, q
  <1>3. Mapped(header, file, s) /\ header.entry = entry /\ header.directories = directories
    <2>. HIDE DEF entry, directories
    <2>. DEFINE ok == TRUE
    <2>1. ok \in BOOLEAN /\ header = plan.header /\ file = ImageOf(plan)
      OBVIOUS
    <2>2. plan = PePlan(ok, s, entry, directories, ok)
      BY <1>2
    <2>. HIDE DEF plan, ok
    <2>. QED
      BY <1>1, <2>1, <2>2, PeMaps
  <1>4. InsideTheImage
    BY <1>3, AllInside
  <1>5. Placed(s)[1].rva = SECTION_ALIGNMENT /\ Placed(s)[2].rva = Placed(r)[2].rva
    <2>1. \A i \in 1 .. 2 : s[i].piece.size = r[i].piece.size
      BY <1>1
    <2>2. Len(s) # 0 /\ Len(s) = Len(r) /\ 2 \in 1 .. Len(s)
      BY <1>1
    <2>3. Placed(s)[1].rva = SECTION_ALIGNMENT
      BY <1>1, <2>2, FirstPlace
    <2>4. \A i \in 1 .. Len(s) : s[i].piece.size = r[i].piece.size
      BY <1>1, <2>1
    <2>5. Placed(s)[2].rva = Placed(r)[2].rva
      <3>1. Raws(s) /\ Raws(r) /\ Len(s) = Len(r) /\ 2 \in 1 .. Len(s)
        BY <1>1, <2>2
      <3>2. \A i \in 1 .. Len(s) : Placed(s)[i].rva = Placed(r)[i].rva /\ Placed(s)[i].raw = Placed(r)[i].raw
        BY Zenon, <2>4, <3>1, SamePlaces
      <3>. QED
        BY Zenon, <3>1, <3>2
    <2>. QED
      BY <2>3, <2>5
  <1>6. SECTION_ALIGNMENT + 0 = SECTION_ALIGNMENT /\ Placed(s)[2].rva + 0 = Placed(s)[2].rva
        /\ 1 \in 1 .. Len(s) /\ 2 \in 1 .. Len(s)
    <2>1. Placed(s)[2].rva \in Nat
      BY <1>1, PlacedAre
    <2>. QED
      BY <1>1, <2>1 DEF SECTION_ALIGNMENT
  <1>7. Relocations
    <2>1. Intact(q, 0, 10, "reloc", 0)
      BY PieceIs, NamesAreTags DEF q
    <2>2. LoadedAt(file, header, Placed(s)[2].rva + 0, 10, "reloc")
      <3>1. 0 \in Int /\ 10 \in Nat /\ Intact(s[2].piece, 0, 10, "reloc", 0)
        BY <1>1, <2>1
      <3>. QED
        BY <1>3, <1>6, <3>1, LoadedIs
    <2>3. header.directories.reloc.offset = Placed(s)[2].rva /\ header.directories.reloc.size = 10
      BY <1>3, <1>5 DEF Zone
    <2>. QED
      BY <1>6, <2>2, <2>3 DEF Relocations
  <1>8. LoadedAt(file, header, SECTION_ALIGNMENT, HEADER_SIZE, "aetb header")
    <2>1. Intact(s[1].piece, 0, HEADER_SIZE, "aetb header", 0)
      BY <1>1, AetbIs DEF g
    <2>2. HEADER_SIZE \in Nat /\ 0 \in Int
      BY DEF HEADER_SIZE
    <2>3. LoadedAt(file, header, Placed(s)[1].rva + 0, HEADER_SIZE, "aetb header")
      BY <1>3, <1>6, <2>1, <2>2, LoadedIs
    <2>. QED
      BY <1>5, <1>6, <2>3
  <1>9. ASSUME EntryIsPlain(z, job.starts, job.entry) PROVE EntersCode
    <2>1. job.entry < z.code => header.entry = Placed(s)[1].rva + HEADER_SIZE + job.entry
      <3>. SUFFICES ASSUME job.entry < z.code
                    PROVE  header.entry = Placed(s)[1].rva + HEADER_SIZE + job.entry
        OBVIOUS
      <3>1. entry = SECTION_ALIGNMENT + HEADER_SIZE + job.entry
        BY <1>9, EfiEntryIs
      <3>. HIDE DEF entry
      <3>. QED
        BY <1>3, <1>5, <3>1
    <2>2. Intact(s[1].piece, HEADER_SIZE, job.z.code, "code", 0)
      BY <1>1, AetbIs DEF g
    <2>3. HEADER_SIZE \in Nat /\ 0 \in Nat
      BY DEF HEADER_SIZE
    <2>4. CodeAt(FileOffsetOf(header, header.entry), job.entry)
      BY <1>3, <1>6, <2>1, <2>2, <2>3, EntryIs
    <2>. QED
      BY <2>4 DEF EntersCode
  <1>. QED
    BY <1>4, <1>7, <1>8, <1>9 DEF EfiReads

-----------------------------------------------------------------------------
(* Sections put one after the other. *)

SectionNames == {".text", ".data", ".rodata", ".rdata", ".pdata", ".reloc"}

RawSections == [name : SectionNames, piece : Files, vsize : Nat]

Sections(s, names) ==
    /\ s \in Seq(RawSections) /\ Raws(s)
    /\ \A i \in 1 .. Len(s) : s[i].name \in names

HasOne(s, r) == \E i \in 1 .. Len(s) : s[i] = r

\* Of the same names and sizes, the data apart.
Alike(a, b) ==
    /\ Len(a) = Len(b)
    /\ \A i \in 1 .. Len(a) : a[i].name = b[i].name /\ a[i].piece.size = b[i].piece.size

LEMMA OneSection ==
    ASSUME NEW name \in SectionNames, NEW p \in Files
    PROVE  LET r == Raw(name, p)
           IN  /\ r \in RawSections /\ OneRaw(r) /\ r.name = name /\ r.piece = p
               /\ Sections(<<r>>, {name}) /\ Len(<<r>>) = 1 /\ <<r>>[1] = r /\ HasOne(<<r>>, r)
  <1>. DEFINE r == Raw(name, p)
              s == <<r>>
  <1>1. OneRaw(r) /\ r.name = name /\ r.piece = p
    BY RawIs
  <1>2. r \in RawSections
    <2>1. p.size \in Nat
      BY FileIs
    <2>. QED
      BY <2>1 DEF Raw, RawSections
  <1>. HIDE DEF r
  <1>3. s \in Seq(RawSections) /\ Len(s) = 1 /\ DOMAIN s = 1 .. 1 /\ s[1] = r
    BY <1>2
  <1>. HIDE DEF s
  <1>4. \A i \in 1 .. Len(s) : i = 1
    BY <1>3
  <1>5. Raws(s)
    BY <1>1, <1>3, <1>4 DEF Raws
  <1>6. \A i \in 1 .. Len(s) : s[i].name \in {name}
    BY <1>1, <1>3, <1>4
  <1>7. 1 \in 1 .. Len(s)
    BY <1>3
  <1>. QED
    BY <1>1, <1>2, <1>3, <1>5, <1>6, <1>7 DEF r, s, Sections, HasOne

LEMMA Joins ==
    ASSUME NEW a, NEW b, NEW m, NEW n, Sections(a, m), Sections(b, n), m \cap n = {}
    PROVE  /\ Sections(a \o b, m \cup n) /\ Len(a \o b) = Len(a) + Len(b)
           /\ \A r : HasOne(a, r) \/ HasOne(b, r) => HasOne(a \o b, r)
           /\ Len(a) # 0 => (a \o b)[1] = a[1]
           /\ Len(b) # 0 => (a \o b)[Len(a \o b)] = b[Len(b)]
  <1>. DEFINE s == a \o b
              k == Len(a)
              l == Len(b)
  <1>1. /\ a \in Seq(RawSections) /\ b \in Seq(RawSections) /\ Raws(a) /\ Raws(b)
        /\ \A i \in 1 .. k : a[i].name \in m
        /\ \A i \in 1 .. l : b[i].name \in n
    BY DEF Sections
  <1>2. k \in Nat /\ l \in Nat
    BY <1>1
  <1>3. /\ s \in Seq(RawSections) /\ Len(s) = k + l
        /\ \A i \in 1 .. k + l : s[i] = IF i <= k THEN a[i] ELSE b[i - k]
    BY <1>1, ConcatProperties
  <1>. HIDE DEF s, k, l
  <1>4. DOMAIN s = 1 .. k + l /\ Len(s) \in Nat
    BY <1>3
  <1>5. \A i \in 1 .. k + l : /\ i <= k => i \in 1 .. k /\ s[i] = a[i]
                              /\ i > k => i - k \in 1 .. l /\ s[i] = b[i - k]
    BY <1>2, <1>3
  <1>6. \A i \in 1 .. k : i \in 1 .. k + l /\ s[i] = a[i]
    BY <1>2, <1>5
  <1>7. \A i \in 1 .. l : i + k \in 1 .. k + l /\ s[i + k] = b[i]
    <2>. TAKE i \in 1 .. l
    <2>1. i + k \in 1 .. k + l /\ i + k > k /\ (i + k) - k = i
      BY <1>2
    <2>2. s[i + k] = b[(i + k) - k]
      BY <1>5, <2>1
    <2>. QED
      BY <2>1, <2>2
  <1>8. \A i \in 1 .. k + l : OneRaw(s[i]) /\ s[i].name \in m \cup n
    <2>. TAKE i \in 1 .. k + l
    <2>1. CASE i <= k
      BY <1>1, <1>5, <2>1 DEF Raws, k
    <2>2. CASE i > k
      <3>1. i - k \in 1 .. l /\ s[i] = b[i - k]
        BY <1>5, <2>2
      <3>2. OneRaw(b[i - k])
        BY <1>1, <3>1 DEF Raws, l
      <3>. QED
        BY <1>1, <3>1, <3>2
    <2>. QED
      BY <1>2, <2>1, <2>2
  <1>9. \A i, j \in 1 .. k + l : s[i].name = s[j].name => i = j
    <2>. SUFFICES ASSUME NEW i \in 1 .. k + l, NEW j \in 1 .. k + l, s[i].name = s[j].name
                  PROVE  i = j
      OBVIOUS
    <2>1. CASE i <= k /\ j <= k
      BY <1>1, <1>5, <2>1 DEF Raws, k
    <2>2. CASE i > k /\ j > k
      <3>1. i - k \in 1 .. l /\ j - k \in 1 .. l /\ b[i - k].name = b[j - k].name
        BY <1>5, <2>2
      <3>2. i - k = j - k
        BY <1>1, <3>1 DEF Raws, l
      <3>. QED
        BY <1>2, <3>2
    <2>3. CASE i <= k /\ j > k
      BY <1>1, <1>5, <2>3
    <2>4. CASE i > k /\ j <= k
      BY <1>1, <1>5, <2>4
    <2>. QED
      BY <1>2, <2>1, <2>2, <2>3, <2>4
  <1>10. Sections(s, m \cup n)
    BY <1>3, <1>4, <1>8, <1>9 DEF Sections, Raws
  <1>11. \A r : HasOne(a, r) => HasOne(s, r)
    BY <1>3, <1>6 DEF HasOne, k
  <1>12. \A r : HasOne(b, r) => HasOne(s, r)
    BY <1>3, <1>7 DEF HasOne, l
  <1>13. k # 0 => s[1] = a[1]
    BY <1>2, <1>6
  <1>14. l # 0 => s[k + l] = b[l]
    <2>. SUFFICES ASSUME l # 0 PROVE s[k + l] = b[l]
      OBVIOUS
    <2>1. l \in 1 .. l /\ l + k = k + l
      BY <1>2
    <2>. QED
      BY <1>7, <2>1
  <1>. QED
    BY <1>3, <1>10, <1>11, <1>12, <1>13, <1>14 DEF s, k, l

LEMMA IfAnyIs ==
    ASSUME NEW name \in SectionNames, NEW p \in Files
    PROVE  /\ Sections(IfAny(Raw(name, p)), {name})
           /\ p.size # 0 => HasOne(IfAny(Raw(name, p)), Raw(name, p))
  <1>. DEFINE r == Raw(name, p)
  <1>1. Sections(<<r>>, {name}) /\ HasOne(<<r>>, r) /\ r.piece = p
    BY OneSection
  <1>. HIDE DEF r
  <1>2. Sections(<<>>, {name})
    BY DEF Sections, Raws
  <1>3. IfAny(r) = IF p.size = 0 THEN <<>> ELSE <<r>>
    BY <1>1 DEF IfAny
  <1>. QED
    BY <1>1, <1>2, <1>3 DEF r

\* Alike sections stay so when the same ones follow.
LEMMA AlikeJoins ==
    ASSUME NEW a, NEW b, NEW c, NEW k, NEW l, NEW n, Sections(a, k), Sections(b, l), Sections(c, n), Alike(a, b)
    PROVE  Alike(a \o c, b \o c)
  <1>. DEFINE s == a \o c
              t == b \o c
              m == Len(a)
              o == Len(c)
  <1>1. /\ a \in Seq(RawSections) /\ b \in Seq(RawSections) /\ c \in Seq(RawSections) /\ Len(b) = m
        /\ \A i \in 1 .. m : a[i].name = b[i].name /\ a[i].piece.size = b[i].piece.size
    BY DEF Sections, Alike
  <1>2. m \in Nat /\ o \in Nat
    BY <1>1
  <1>3. /\ Len(s) = m + o
        /\ \A i \in 1 .. m + o : s[i] = IF i <= m THEN a[i] ELSE c[i - m]
    BY <1>1, ConcatProperties
  <1>4. /\ Len(t) = Len(b) + o
        /\ \A i \in 1 .. Len(b) + o : t[i] = IF i <= Len(b) THEN b[i] ELSE c[i - Len(b)]
    BY <1>1, ConcatProperties
  <1>. HIDE DEF s, t, m, o
  <1>5. /\ Len(t) = m + o
        /\ \A i \in 1 .. m + o : t[i] = IF i <= m THEN b[i] ELSE c[i - m]
    BY <1>1, <1>4
  <1>6. ASSUME NEW i \in 1 .. m + o PROVE s[i].name = t[i].name /\ s[i].piece.size = t[i].piece.size
    <2>1. CASE i <= m
      <3>1. i \in 1 .. m
        BY <1>2, <2>1
      <3>2. s[i] = a[i] /\ t[i] = b[i]
        BY <1>3, <1>5, <2>1
      <3>. QED
        BY <1>1, <3>1, <3>2
    <2>2. CASE i > m
      <3>1. s[i] = c[i - m] /\ t[i] = c[i - m]
        BY <1>2, <1>3, <1>5, <2>2
      <3>. QED
        BY <3>1
    <2>. QED
      BY <1>2, <2>1, <2>2
  <1>. QED
    BY <1>3, <1>5, <1>6 DEF Alike, s, t

-----------------------------------------------------------------------------
(* The zones as sections. *)

ZoneNames == {".text", ".data", ".rodata"}

ZonesIn(s, z, text) ==
    /\ Len(s) # 0 /\ s[1] = Raw(".text", text)
    /\ z.mirror # 0 => HasOne(s, Raw(".data", Piece("mirror", z.mirror)))
    /\ z.truth # 0 => HasOne(s, Raw(".rodata", Piece("truth", z.truth)))

LEMMA ZoneSectionsAre ==
    ASSUME NEW z, Measures(z), NEW text \in Files
    PROVE  Sections(ZoneSections(z, text), ZoneNames) /\ ZonesIn(ZoneSections(z, text), z, text)
  <1>. DEFINE t == Raw(".text", text)
              p == Piece("mirror", z.mirror)
              q == Piece("truth", z.truth)
              d == IfAny(Raw(".data", p))
              r == IfAny(Raw(".rodata", q))
              a == <<t>>
              b == a \o d
              s == b \o r
  <1>1. z.mirror \in Nat /\ z.truth \in Nat
    BY DEF Measures
  <1>2. p \in Files /\ q \in Files /\ p.size = z.mirror /\ q.size = z.truth
    BY <1>1, PieceIs, NamesAreTags
  <1>. HIDE DEF p, q
  <1>3. {".text", ".data", ".rodata"} \subseteq SectionNames
    BY DEF SectionNames
  <1>4. Sections(a, {".text"}) /\ Len(a) = 1 /\ a[1] = t
    BY <1>3, OneSection
  <1>5. Sections(d, {".data"}) /\ (z.mirror # 0 => HasOne(d, Raw(".data", p)))
    BY <1>2, <1>3, IfAnyIs
  <1>6. Sections(r, {".rodata"}) /\ (z.truth # 0 => HasOne(r, Raw(".rodata", q)))
    BY <1>2, <1>3, IfAnyIs
  <1>7. ZoneSections(z, text) = s
    BY DEF ZoneSections, p, q
  <1>. HIDE DEF t, d, r, a
  <1>. DEFINE A == {".text"}
              D == {".data"}
              R == {".rodata"}
              B == A \cup D
  <1>8. A \cap D = {} /\ B \cap R = {} /\ B \cup R = ZoneNames
    BY DEF ZoneNames
  <1>9. Sections(a, A) /\ Sections(d, D) /\ Sections(r, R)
    BY <1>4, <1>5, <1>6
  <1>. HIDE DEF A, D, R
  <1>10. /\ Sections(b, A \cup D) /\ Len(b) = Len(a) + Len(d) /\ b[1] = a[1]
         /\ \A x : HasOne(d, x) => HasOne(b, x)
    <2>. DEFINE c == a \o d
    <2>1. /\ Sections(c, A \cup D) /\ Len(c) = Len(a) + Len(d) /\ (Len(a) # 0 => c[1] = a[1])
          /\ \A x : HasOne(a, x) \/ HasOne(d, x) => HasOne(c, x)
      BY <1>8, <1>9, Joins
    <2>2. b = c
      OBVIOUS
    <2>. HIDE DEF b, c
    <2>. QED
      BY <1>4, <2>1, <2>2
  <1>. HIDE DEF b
  <1>11. Len(d) \in Nat /\ Len(r) \in Nat
    BY <1>9 DEF Sections, Raws
  <1>12. Len(b) # 0 /\ Len(b) \in Nat
    BY <1>4, <1>10, <1>11
  <1>13. /\ Sections(s, B \cup R) /\ Len(s) = Len(b) + Len(r) /\ s[1] = b[1]
         /\ \A x : HasOne(b, x) \/ HasOne(r, x) => HasOne(s, x)
    BY <1>8, <1>9, <1>10, <1>12, Joins
  <1>. HIDE DEF s
  <1>14. Len(s) # 0 /\ s[1] = t
    BY <1>4, <1>10, <1>11, <1>12, <1>13
  <1>15. Sections(s, ZoneNames)
    BY <1>8, <1>13
  <1>16. (z.mirror # 0 => HasOne(s, Raw(".data", p))) /\ (z.truth # 0 => HasOne(s, Raw(".rodata", q)))
    BY <1>5, <1>6, <1>10, <1>13
  <1>. QED
    BY <1>7, <1>14, <1>15, <1>16 DEF ZonesIn, t, p, q

\* What follows the zones leaves them where they are.
LEMMA ZonesStay ==
    ASSUME NEW a, NEW b, NEW m, NEW n, Sections(a, m), Sections(b, n), m \cap n = {},
           NEW z, NEW text, ZonesIn(a, z, text)
    PROVE  ZonesIn(a \o b, z, text)
  <1>. DEFINE s == a \o b
  <1>1. /\ Sections(s, m \cup n) /\ Len(s) = Len(a) + Len(b)
        /\ \A r : HasOne(a, r) \/ HasOne(b, r) => HasOne(s, r)
        /\ Len(a) # 0 => s[1] = a[1]
    BY Joins
  <1>. HIDE DEF s
  <1>2. Len(a) \in Nat /\ Len(b) \in Nat
    BY DEF Sections, Raws
  <1>3. Len(a) # 0 /\ a[1] = Raw(".text", text)
    BY DEF ZonesIn
  <1>4. Len(s) # 0 /\ s[1] = Raw(".text", text)
    BY <1>1, <1>2, <1>3
  <1>. QED
    BY <1>1, <1>4 DEF ZonesIn, s

LEMMA ZonesAreLoaded ==
    ASSUME NEW s, Mapped(header, file, s), Measures(job.z), NEW text, ZonesIn(s, job.z, text)
    PROVE  ZonesLoaded
  <1>. DEFINE z == job.z
  <1>1. z.mirror \in Nat /\ z.truth \in Nat
    BY DEF Measures
  <1>2. ASSUME NEW name, NEW p \in Files, NEW what, NEW n \in Nat, HasOne(s, Raw(name, p)), Intact(p, 0, n, what, 0)
        PROVE  LoadedAt(file, header, Placement(header, name).rva, n, what)
    <2>1. PICK i \in 1 .. Len(s) : s[i] = Raw(name, p)
      BY <1>2 DEF HasOne
    <2>2. s[i].name = name /\ s[i].piece = p
      BY <2>1 DEF Raw
    <2>3. Raws(s) /\ header.sections = Placed(s)
      BY DEF Mapped
    <2>4. Placement(header, name) = Placed(s)[i]
      BY <2>2, <2>3, PlacementIs
    <2>5. 0 \in Int /\ Intact(s[i].piece, 0, n, what, 0)
      BY <1>2, <2>2
    <2>6. LoadedAt(file, header, Placed(s)[i].rva + 0, n, what)
      BY <2>5, LoadedIs
    <2>7. Placed(s)[i].rva \in Nat
      BY <2>3, PlacedAre
    <2>8. Placed(s)[i].rva + 0 = Placed(s)[i].rva
      BY <2>7
    <2>. QED
      BY <2>4, <2>6, <2>8
  <1>3. ASSUME NEW what \in {"mirror", "truth"}, NEW n \in Nat
        PROVE  Piece(what, n) \in Files /\ Intact(Piece(what, n), 0, n, what, 0)
    BY PieceIs, NamesAreTags
  <1>4. ASSUME z.mirror > 0
        PROVE  LoadedAt(file, header, Placement(header, ".data").rva, z.mirror, "mirror")
    <2>1. HasOne(s, Raw(".data", Piece("mirror", z.mirror)))
      BY <1>4 DEF ZonesIn
    <2>2. Piece("mirror", z.mirror) \in Files /\ Intact(Piece("mirror", z.mirror), 0, z.mirror, "mirror", 0)
      BY <1>1, <1>3
    <2>. QED
      BY <1>1, <1>2, <2>1, <2>2
  <1>5. ASSUME z.truth > 0
        PROVE  LoadedAt(file, header, Placement(header, ".rodata").rva, z.truth, "truth")
    <2>1. HasOne(s, Raw(".rodata", Piece("truth", z.truth)))
      BY <1>5 DEF ZonesIn
    <2>2. Piece("truth", z.truth) \in Files /\ Intact(Piece("truth", z.truth), 0, z.truth, "truth", 0)
      BY <1>1, <1>3
    <2>. QED
      BY <1>1, <1>2, <2>1, <2>2
  <1>6. DOMAIN SectionOf = {"mirror", "truth"} /\ SectionOf["mirror"] = ".data" /\ SectionOf["truth"] = ".rodata"
    BY DEF SectionOf
  <1>7. z["mirror"] = z.mirror /\ z["truth"] = z.truth
    OBVIOUS
  <1>. QED
    BY <1>4, <1>5, <1>6, <1>7 DEF ZonesLoaded

-----------------------------------------------------------------------------
(* EFI images with a section for each zone. *)

IndustrialRaws(z) == ZoneSections(z, Piece("code", z.code)) \o <<Raw(".reloc", NoRelocations)>>

LEMMA IndustrialRawsAre ==
    ASSUME NEW z, Measures(z)
    PROVE  LET s == IndustrialRaws(z)
           IN  /\ Raws(s) /\ ZonesIn(s, z, Piece("code", z.code))
               /\ s[Len(s)].piece = NoRelocations
  <1>. DEFINE c == Piece("code", z.code)
              a == ZoneSections(z, c)
              t == Raw(".reloc", NoRelocations)
              b == <<t>>
              s == a \o b
              N == {".reloc"}
  <1>1. z.code \in Nat
    BY DEF Measures
  <1>2. c \in Files /\ NoRelocations \in Files
    BY <1>1, PieceIs, NamesAreTags DEF NoRelocations
  <1>3. s = IndustrialRaws(z)
    BY DEF IndustrialRaws
  <1>. HIDE DEF c
  <1>4. Sections(a, ZoneNames) /\ ZonesIn(a, z, c)
    BY <1>2, ZoneSectionsAre
  <1>5. ".reloc" \in SectionNames
    BY DEF SectionNames
  <1>6. Sections(b, N) /\ Len(b) = 1 /\ b[1] = t /\ t.piece = NoRelocations
    BY <1>2, <1>5, OneSection
  <1>7. ZoneNames \cap N = {}
    BY DEF ZoneNames
  <1>. HIDE DEF a, b, t, N, s
  <1>8. Sections(s, ZoneNames \cup N) /\ s[Len(s)] = b[Len(b)]
    <2>. DEFINE r == a \o b
    <2>1. Sections(r, ZoneNames \cup N) /\ (Len(b) # 0 => r[Len(r)] = b[Len(b)])
      BY <1>4, <1>6, <1>7, Joins
    <2>2. s = r
      BY DEF s
    <2>. HIDE DEF r
    <2>. QED
      BY <1>6, <2>1, <2>2
  <1>9. ZonesIn(s, z, c)
    BY <1>4, <1>6, <1>7, ZonesStay DEF s
  <1>. QED
    BY <1>3, <1>6, <1>8, <1>9 DEF c, Sections

LEMMA IndustrialPlanIs ==
    ASSUME NEW z, NEW entry
    PROVE  LET s == IndustrialRaws(z)
           IN  IndustrialPlan(z, entry) =
                 PePlan(z.code > 0, s, SECTION_ALIGNMENT + entry, [reloc |-> Zone(Placed(s)[Len(s)].rva, 12)], TRUE)
BY DEF IndustrialPlan, IndustrialRaws

LEMMA IndustrialAppends ==
    ASSUME NEW z, Measures(z), NEW entry
    PROVE  IndustrialPlan(z, entry).writes \in Seq(Appending)
  <1>1. Raws(IndustrialRaws(z))
    BY IndustrialRawsAre
  <1>2. \A accepts, en, directories :
           WritesOnce(PePlan(accepts, IndustrialRaws(z), en, directories, TRUE).writes,
                    PeBuffer(IndustrialRaws(z), Placed(IndustrialRaws(z))))
    BY <1>1, PeWrites
  <1>. QED
    BY <1>2, IndustrialPlanIs DEF WritesOnce

\* The code is the first section, and execution begins in it.
LEMMA TextIsEntered ==
    ASSUME NEW s, Mapped(header, file, s), Measures(job.z), job.entry \in Nat, Len(s) # 0,
           Intact(s[1].piece, 0, job.z.code, "code", 0), header.entry = SECTION_ALIGNMENT + job.entry
    PROVE  EntersCode
  <1>1. Raws(s)
    BY DEF Mapped
  <1>2. 1 \in 1 .. Len(s)
    BY <1>1 DEF Raws
  <1>3. Placed(s)[1].rva = SECTION_ALIGNMENT
    BY <1>1, FirstPlace
  <1>4. Placed(s)[1].rva + 0 + job.entry = SECTION_ALIGNMENT + job.entry
    BY <1>3 DEF SECTION_ALIGNMENT
  <1>5. 0 \in Nat /\ header.entry = Placed(s)[1].rva + 0 + job.entry
    BY <1>4
  <1>6. CodeAt(FileOffsetOf(header, header.entry), job.entry)
    BY <1>2, <1>5, EntryIs
  <1>. QED
    BY <1>6 DEF EntersCode

LEMMA IndustrialIsRead ==
    ASSUME Measures(job.z), job.entry \in Nat,
           header = IndustrialPlan(job.z, job.entry).header,
           file = ImageOf(IndustrialPlan(job.z, job.entry))
    PROVE  PeReads
  <1>. DEFINE z == job.z
              s == IndustrialRaws(z)
              c == Piece("code", z.code)
              plan == IndustrialPlan(z, job.entry)
              entry == SECTION_ALIGNMENT + job.entry
              directories == [reloc |-> Zone(Placed(s)[Len(s)].rva, 12)]
              accepts == z.code > 0
  <1>1. Raws(s) /\ ZonesIn(s, z, c) /\ s[Len(s)].piece = NoRelocations
    BY IndustrialRawsAre
  <1>2. Intact(c, 0, z.code, "code", 0)
    <2>1. z.code \in Nat
      BY DEF Measures
    <2>. QED
      BY <2>1, PieceIs, NamesAreTags
  <1>. HIDE DEF s, c
  <1>3. Mapped(header, file, s) /\ header.entry = entry /\ header.directories = directories
    <2>. DEFINE ok == TRUE
    <2>1. ok \in BOOLEAN /\ header = plan.header /\ file = ImageOf(plan)
      OBVIOUS
    <2>2. plan = PePlan(accepts, s, entry, directories, ok)
      BY IndustrialPlanIs DEF s
    <2>. HIDE DEF plan, ok, entry, directories, accepts
    <2>. QED
      BY <1>1, <2>1, <2>2, PeMaps
  <1>4. InsideTheImage
    BY <1>3, AllInside
  <1>5. ZonesLoaded
    BY <1>1, <1>3, ZonesAreLoaded
  <1>6. Len(s) # 0 /\ s[1].piece = c /\ Len(s) \in 1 .. Len(s)
    <2>1. Len(s) # 0 /\ s[1] = Raw(".text", c)
      BY <1>1 DEF ZonesIn
    <2>2. s[1].piece = c
      BY <2>1 DEF Raw
    <2>. QED
      BY <1>1, <2>1, <2>2 DEF Raws
  <1>7. EntersCode
    BY <1>2, <1>3, <1>6, TextIsEntered
  <1>8. Relocations
    <2>. DEFINE i == Len(s)
                rva == Placed(s)[i].rva
    <2>1. 0 \in Int /\ 12 \in Nat /\ Intact(s[i].piece, 0, 12, "reloc", 0)
      <3>. DEFINE n == 12
                  p == Piece("reloc", n)
      <3>1. n \in Nat /\ s[i].piece = p
        BY <1>1 DEF NoRelocations
      <3>. HIDE DEF n
      <3>2. Intact(p, 0, n, "reloc", 0)
        BY <3>1, PieceIs, NamesAreTags
      <3>3. Intact(s[i].piece, 0, n, "reloc", 0)
        BY <3>1, <3>2
      <3>. QED
        BY <3>3 DEF n
    <2>2. i \in 1 .. Len(s)
      BY <1>6
    <2>. HIDE DEF i
    <2>3. LoadedAt(file, header, Placed(s)[i].rva + 0, 12, "reloc")
      BY <1>3, <2>1, <2>2, LoadedIs
    <2>4. rva \in Nat
      BY <1>1, <2>2, PlacedAre
    <2>5. rva + 0 = rva
      BY <2>4
    <2>6. header.directories.reloc = Zone(rva, 12)
      BY <1>3 DEF i
    <2>. HIDE DEF rva
    <2>7. header.directories.reloc.offset = rva /\ header.directories.reloc.size = 12
      BY <2>6 DEF Zone
    <2>. QED
      BY <2>3, <2>5, <2>7 DEF Relocations, rva
  <1>. QED
    BY <1>4, <1>5, <1>7, <1>8 DEF PeReads

-----------------------------------------------------------------------------
(* The imports of a driver: none is listed twice, every one that is called *)
(* is listed.                                                              *)

Calls == [at : Nat, name : ImportCalls]

ListedOf(s, names) ==
    /\ s \in Seq(ImportCalls)
    /\ \A i, k \in 1 .. Len(s) : s[i] = s[k] => i = k
    /\ \A i \in 1 .. Len(s) : s[i] \in names

Lists(s, name) == \E i \in 1 .. Len(s) : s[i] = name

LEMMA ListsJoin ==
    ASSUME NEW a, NEW b, NEW m, NEW n, ListedOf(a, m), ListedOf(b, n), m \cap n = {}
    PROVE  /\ ListedOf(a \o b, m \cup n)
           /\ \A x : Lists(a, x) \/ Lists(b, x) => Lists(a \o b, x)
  <1>. DEFINE s == a \o b
              k == Len(a)
              l == Len(b)
  <1>1. /\ a \in Seq(ImportCalls) /\ b \in Seq(ImportCalls)
        /\ \A i, j \in 1 .. k : a[i] = a[j] => i = j
        /\ \A i, j \in 1 .. l : b[i] = b[j] => i = j
        /\ \A i \in 1 .. k : a[i] \in m
        /\ \A i \in 1 .. l : b[i] \in n
    BY DEF ListedOf
  <1>2. k \in Nat /\ l \in Nat
    BY <1>1
  <1>3. /\ s \in Seq(ImportCalls) /\ Len(s) = k + l
        /\ \A i \in 1 .. k + l : s[i] = IF i <= k THEN a[i] ELSE b[i - k]
    BY <1>1, ConcatProperties
  <1>. HIDE DEF s, k, l
  <1>5. \A i \in 1 .. k + l : /\ i <= k => i \in 1 .. k /\ s[i] = a[i]
                              /\ i > k => i - k \in 1 .. l /\ s[i] = b[i - k]
    BY <1>2, <1>3
  <1>6. \A i \in 1 .. k : i \in 1 .. k + l /\ s[i] = a[i]
    BY <1>2, <1>5
  <1>7. \A i \in 1 .. l : i + k \in 1 .. k + l /\ s[i + k] = b[i]
    <2>. TAKE i \in 1 .. l
    <2>1. i + k \in 1 .. k + l /\ i + k > k /\ (i + k) - k = i
      BY <1>2
    <2>2. s[i + k] = b[(i + k) - k]
      BY <1>5, <2>1
    <2>. QED
      BY <2>1, <2>2
  <1>8. \A i \in 1 .. k + l : s[i] \in m \cup n
    BY <1>1, <1>2, <1>5
  <1>9. \A i, j \in 1 .. k + l : s[i] = s[j] => i = j
    <2>. SUFFICES ASSUME NEW i \in 1 .. k + l, NEW j \in 1 .. k + l, s[i] = s[j]
                  PROVE  i = j
      OBVIOUS
    <2>1. CASE i <= k /\ j <= k
      BY <1>1, <1>5, <2>1
    <2>2. CASE i > k /\ j > k
      <3>1. i - k \in 1 .. l /\ j - k \in 1 .. l /\ b[i - k] = b[j - k]
        BY <1>5, <2>2
      <3>2. i - k = j - k
        BY <1>1, <3>1
      <3>. QED
        BY <1>2, <3>2
    <2>3. CASE i <= k /\ j > k
      BY <1>1, <1>5, <2>3
    <2>4. CASE i > k /\ j <= k
      BY <1>1, <1>5, <2>4
    <2>. QED
      BY <1>2, <2>1, <2>2, <2>3, <2>4
  <1>10. ListedOf(s, m \cup n)
    BY <1>3, <1>8, <1>9 DEF ListedOf
  <1>11. \A x : Lists(a, x) => Lists(s, x)
    BY <1>3, <1>6 DEF Lists, k
  <1>12. \A x : Lists(b, x) => Lists(s, x)
    BY <1>3, <1>7 DEF Lists, l
  <1>. QED
    BY <1>10, <1>11, <1>12 DEF s

LEMMA ImportsKnown ==
    /\ ImportCalls = {"DbgPrint", "ExAllocatePoolWithTag", "IoCreateDevice"}
    /\ \A name \in ImportCalls : ImportNames[name] \in Nat /\ NameEntrySize(name) \in Nat
  <1>1. ImportCalls = {"DbgPrint", "ExAllocatePoolWithTag", "IoCreateDevice"}
    BY DEF ImportCalls, ImportNames
  <1>2. ASSUME NEW name \in ImportCalls PROVE ImportNames[name] \in Nat
    BY <1>1 DEF ImportNames
  <1>3. ASSUME NEW n \in Nat PROVE AlignUp(3 + n, 2) \in Nat
    BY DEF AlignUp
  <1>. QED
    BY <1>1, <1>2, <1>3 DEF NameEntrySize

LEMMA UsedAre ==
    ASSUME NEW z, NEW calls, \A k \in DOMAIN calls : calls[k].name \in ImportCalls
    PROVE  LET used == UsedImports(z, calls)
           IN  /\ ListedOf(used, ImportCalls)
               /\ \A k \in DOMAIN calls : calls[k].at + 4 <= z.code => Lists(used, calls[k].name)
  <1>. DEFINE used(n) == \E k \in DOMAIN calls : calls[k].name = n /\ calls[k].at + 4 <= z.code
              ifUsed(n) == IF used(n) THEN <<n>> ELSE <<>>
              d == "DbgPrint"
              e == "ExAllocatePoolWithTag"
              o == "IoCreateDevice"
              a == ifUsed(d)
              b == ifUsed(e)
              c == ifUsed(o)
              ab == a \o b
              abc == ab \o c
  <1>1. ImportCalls = {d, e, o}
    BY ImportsKnown
  <1>2. ASSUME NEW n \in ImportCalls
        PROVE  ListedOf(ifUsed(n), {n}) /\ (used(n) => Lists(ifUsed(n), n))
    <2>1. ListedOf(<<n>>, {n}) /\ Lists(<<n>>, n)
      BY DEF ListedOf, Lists
    <2>2. ListedOf(<<>>, {n})
      BY DEF ListedOf
    <2>. HIDE DEF used
    <2>. QED
      BY <2>1, <2>2
  <1>3. d \in ImportCalls /\ e \in ImportCalls /\ o \in ImportCalls
    BY <1>1
  <1>4. ListedOf(a, {d}) /\ ListedOf(b, {e}) /\ ListedOf(c, {o})
    BY <1>2, <1>3
  <1>5. (used(d) => Lists(a, d)) /\ (used(e) => Lists(b, e)) /\ (used(o) => Lists(c, o))
    BY <1>2, <1>3
  <1>6. {d} \cap {e} = {} /\ ({d} \cup {e}) \cap {o} = {} /\ ({d} \cup {e}) \cup {o} = ImportCalls
    BY <1>1
  <1>7. UsedImports(z, calls) = abc
    BY DEF UsedImports
  <1>. DEFINE D == {d}
              E == {e}
              O == {o}
  <1>. HIDE DEF a, b, c
  <1>8. ListedOf(ab, D \cup E) /\ \A x : Lists(a, x) \/ Lists(b, x) => Lists(ab, x)
    <2>1. ListedOf(a, D) /\ ListedOf(b, E) /\ D \cap E = {}
      BY <1>4, <1>6
    <2>. HIDE DEF D, E
    <2>. QED
      BY <2>1, ListsJoin
  <1>. HIDE DEF ab
  <1>9. ListedOf(abc, (D \cup E) \cup O) /\ \A x : Lists(ab, x) \/ Lists(c, x) => Lists(abc, x)
    <2>1. ListedOf(c, O) /\ (D \cup E) \cap O = {}
      BY <1>4, <1>6
    <2>. HIDE DEF D, E, O
    <2>. QED
      BY <1>8, <2>1, ListsJoin
  <1>. HIDE DEF abc
  <1>10. ASSUME NEW k \in DOMAIN calls, calls[k].at + 4 <= z.code PROVE Lists(abc, calls[k].name)
    <2>1. used(calls[k].name)
      BY <1>10
    <2>. HIDE DEF used
    <2>2. calls[k].name \in {d, e, o}
      BY <1>1
    <2>. QED
      BY <1>5, <1>8, <1>9, <2>1, <2>2
  <1>11. ListedOf(abc, ImportCalls)
    BY <1>6, <1>9
  <1>. QED
    BY <1>7, <1>10, <1>11

-----------------------------------------------------------------------------
(* The import section. *)

LEMMA SlotsAre ==
    ASSUME NEW used \in Seq(ImportCalls)
    PROVE  LET n == Len(used)
               p == Slots(used)
           IN  /\ p \in [1 .. n -> Files]
               /\ \A i \in 1 .. n : p[i].size = 8 /\ Intact(p[i], 0, 8, <<"slot of", used[i]>>, 0)
               /\ \A k \in 0 .. n : SizeOfFirst(p, k) = 8 * k
  <1>. DEFINE n == Len(used)
              p == Slots(used)
  <1>1. n \in Nat /\ DOMAIN used = 1 .. n /\ \A i \in 1 .. n : used[i] \in ImportCalls
    OBVIOUS
  <1>2. p = [i \in 1 .. n |-> Piece(<<"slot of", used[i]>>, 8)]
    BY <1>1 DEF Slots
  <1>3. \A x \in ImportCalls : <<"slot of", x>> \in DataTags
    BY DEF DataTags
  <1>4. \A x \in ImportCalls : /\ Piece(<<"slot of", x>>, 8) \in Files /\ Piece(<<"slot of", x>>, 8).size = 8
                               /\ Intact(Piece(<<"slot of", x>>, 8), 0, 8, <<"slot of", x>>, 0)
    <2>. DEFINE m == 8
    <2>1. m \in Nat
      OBVIOUS
    <2>. HIDE DEF m
    <2>2. \A x \in ImportCalls : /\ Piece(<<"slot of", x>>, m) \in Files /\ Piece(<<"slot of", x>>, m).size = m
                                 /\ Intact(Piece(<<"slot of", x>>, m), 0, m, <<"slot of", x>>, 0)
      BY <1>3, <2>1, PieceIs
    <2>. QED
      BY <2>2 DEF m
  <1>. HIDE DEF n, p
  <1>5. \A i \in 1 .. n : p[i] = Piece(<<"slot of", used[i]>>, 8)
    BY <1>2
  <1>6. \A i \in 1 .. n : /\ p[i] \in Files /\ p[i].size = 8
                          /\ Intact(p[i], 0, 8, <<"slot of", used[i]>>, 0)
    BY <1>1, <1>4, <1>5
  <1>7. p \in [1 .. n -> Files]
    BY <1>2, <1>6
  <1>8. /\ SizeOfFirst(p, 0) = 0
        /\ \A k \in 1 .. n : SizeOfFirst(p, k) = SizeOfFirst(p, k - 1) + p[k].size
    <2>1. DOMAIN p = 1 .. n
      BY <1>7
    <2>2. ASSUME NEW i \in 1 .. n PROVE p[i].size \in Nat
      <3>1. p[i].size = 8
        BY <1>6
      <3>. QED
        BY <3>1
    <2>. QED
      BY <1>1, <2>1, <2>2, SizeSteps
  <1>9. \A k \in 0 .. n : SizeOfFirst(p, k) = 8 * k
    <2>. DEFINE T == {k \in Nat : k <= n => SizeOfFirst(p, k) = 8 * k}
    <2>1. 0 \in T
      BY <1>8
    <2>2. ASSUME NEW k \in Nat, k \in T PROVE k + 1 \in T
      <3>1. CASE k + 1 <= n
        <4>1. k + 1 \in 1 .. n /\ (k + 1) - 1 = k /\ k <= n
          BY <1>1, <3>1
        <4>2. SizeOfFirst(p, k + 1) = SizeOfFirst(p, k) + p[k + 1].size /\ p[k + 1].size = 8
          BY <1>6, <1>8, <4>1
        <4>3. SizeOfFirst(p, k) = 8 * k
          BY <2>2, <4>1
        <4>. QED
          BY <4>2, <4>3
      <3>2. CASE ~(k + 1 <= n)
        BY <3>2
      <3>. QED
        BY <3>1, <3>2
    <2>3. \A k \in Nat : k \in T
      <3>. HIDE DEF T
      <3>. QED
        BY <2>1, <2>2, SetInduction
    <2>. QED
      BY <1>1, <2>3
  <1>. QED
    BY <1>6, <1>7, <1>9 DEF n, p

LEMMA NamesAre ==
    ASSUME NEW used \in Seq(ImportCalls)
    PROVE  LET n == Len(used)
               p == Names(used)
           IN  /\ p \in [1 .. n -> Files]
               /\ \A i \in 1 .. n : /\ NameEntrySize(used[i]) \in Nat
                                    /\ Intact(p[i], 0, NameEntrySize(used[i]), <<"name of", used[i]>>, 0)
  <1>. DEFINE n == Len(used)
              p == Names(used)
  <1>1. n \in Nat /\ DOMAIN used = 1 .. n /\ \A i \in 1 .. n : used[i] \in ImportCalls
    OBVIOUS
  <1>2. p = [i \in 1 .. n |-> Piece(<<"name of", used[i]>>, NameEntrySize(used[i]))]
    BY <1>1 DEF Names
  <1>3. \A x \in ImportCalls : <<"name of", x>> \in DataTags
    BY DEF DataTags
  <1>4. \A x \in ImportCalls, m \in Nat : /\ Piece(<<"name of", x>>, m) \in Files
                                          /\ Intact(Piece(<<"name of", x>>, m), 0, m, <<"name of", x>>, 0)
    BY <1>3, PieceIs
  <1>5. \A i \in 1 .. n : NameEntrySize(used[i]) \in Nat
    BY <1>1, ImportsKnown
  <1>. HIDE DEF n, p
  <1>6. \A i \in 1 .. n : p[i] = Piece(<<"name of", used[i]>>, NameEntrySize(used[i]))
    BY <1>2
  <1>7. \A i \in 1 .. n : p[i] \in Files /\ Intact(p[i], 0, NameEntrySize(used[i]), <<"name of", used[i]>>, 0)
    BY <1>1, <1>4, <1>5, <1>6
  <1>8. p \in [1 .. n -> Files]
    BY <1>2, <1>7
  <1>. QED
    BY <1>5, <1>7, <1>8 DEF n, p

LEMMA ImportsAre ==
    ASSUME NEW used \in Seq(ImportCalls)
    PROVE  LET g == ImportSection(used)
               n == Len(used)
           IN  /\ g \in Files /\ g.size \in Nat /\ g.size # 0
               /\ \A i \in 1 .. n :
                     /\ IatOffset(used) + 8 * (i - 1) \in Nat /\ NameOffset(used, i) \in Nat
                     /\ Intact(g, IatOffset(used) + 8 * (i - 1), 8, <<"slot of", used[i]>>, 0)
                     /\ Intact(g, NameOffset(used, i), NameEntrySize(used[i]), <<"name of", used[i]>>, 0)
  <1>. DEFINE g == ImportSection(used)
              n == Len(used)
              s == Slots(used)
              m == Names(used)
              a == Piece("descriptors", 40)
              b == Piece("lookup", 8 * n)
              c == Piece("end", 8)
              d == Concatenated(s)
              e == Concatenated(m)
              l == Piece("library", DLL_NAME_SIZE)
              p == <<a, b, c, d, c, e, l>>
  <1>1. n \in Nat
    OBVIOUS
  <1>2. g = Concatenated(p)
    BY DEF ImportSection
  <1>3. /\ s \in [1 .. n -> Files]
        /\ \A i \in 1 .. n : s[i].size = 8 /\ Intact(s[i], 0, 8, <<"slot of", used[i]>>, 0)
        /\ \A k \in 0 .. n : SizeOfFirst(s, k) = 8 * k
    BY SlotsAre
  <1>4. /\ m \in [1 .. n -> Files]
        /\ \A i \in 1 .. n : /\ NameEntrySize(used[i]) \in Nat
                             /\ Intact(m[i], 0, NameEntrySize(used[i]), <<"name of", used[i]>>, 0)
    BY NamesAre
  <1>5. {"descriptors", "lookup", "end", "library"} \subseteq DataTags
    BY DEF DataTags
  <1>6. \A size \in Nat : /\ Piece("descriptors", size) \in Files /\ Piece("descriptors", size).size = size
                          /\ Piece("lookup", size) \in Files /\ Piece("lookup", size).size = size
                          /\ Piece("end", size) \in Files /\ Piece("end", size).size = size
                          /\ Piece("library", size) \in Files
    BY <1>5, PieceIs
  <1>7. 40 \in Nat /\ 8 \in Nat /\ 8 * n \in Nat /\ DLL_NAME_SIZE \in Nat
    BY <1>1 DEF DLL_NAME_SIZE
  <1>8. a \in Files /\ b \in Files /\ c \in Files /\ l \in Files /\ a.size = 40 /\ b.size = 8 * n /\ c.size = 8
    BY <1>6, <1>7
  <1>. HIDE DEF n, s, m
  <1>9. /\ d \in Files /\ d.size = SizeOfFirst(s, n)
        /\ \A i \in 1 .. n : \A at \in Int, size \in Nat : \A what, from :
              Intact(s[i], at, size, what, from) => Intact(d, SizeOfFirst(s, i - 1) + at, size, what, from)
    BY <1>1, <1>3, RunIs
  <1>10. /\ e \in Files
         /\ \A k \in 0 .. n : SizeOfFirst(m, k) \in Nat
         /\ \A i \in 1 .. n : \A at \in Int, size \in Nat : \A what, from :
               Intact(m[i], at, size, what, from) => Intact(e, SizeOfFirst(m, i - 1) + at, size, what, from)
    BY <1>1, <1>4, RunIs
  <1>11. d.size = 8 * n
    <2>1. n \in 0 .. n
      BY <1>1
    <2>. QED
      BY <1>3, <1>9, <2>1
  <1>. HIDE DEF a, b, c, d, e, l
  <1>12. /\ p \in [1 .. 7 -> Files] /\ p[1] = a /\ p[2] = b /\ p[3] = c /\ p[4] = d /\ p[5] = c /\ p[6] = e
         /\ p[7] = l
    BY <1>8, <1>9, <1>10
  <1>. HIDE DEF p, g
  <1>13. /\ g \in Files /\ g.size = SizeOfFirst(p, 7)
         /\ SizeOfFirst(p, 0) = 0
         /\ \A k \in 1 .. 7 : SizeOfFirst(p, k) = SizeOfFirst(p, k - 1) + p[k].size
         /\ \A i \in 1 .. 7 : \A at \in Int, size \in Nat : \A what, from :
               Intact(p[i], at, size, what, from) => Intact(g, SizeOfFirst(p, i - 1) + at, size, what, from)
    <2>1. 7 \in Nat
      OBVIOUS
    <2>. QED
      BY <1>2, <1>12, <2>1, RunIs
  <1>14. /\ SizeOfFirst(p, 3) = IatOffset(used) /\ SizeOfFirst(p, 5) = NamesOffset(used)
         /\ IatOffset(used) \in Nat /\ NamesOffset(used) \in Nat
    <2>1. SizeOfFirst(p, 1) = SizeOfFirst(p, 1 - 1) + p[1].size
      BY <1>13
    <2>2. SizeOfFirst(p, 2) = SizeOfFirst(p, 2 - 1) + p[2].size
      BY <1>13
    <2>3. SizeOfFirst(p, 3) = SizeOfFirst(p, 3 - 1) + p[3].size
      BY <1>13
    <2>4. SizeOfFirst(p, 4) = SizeOfFirst(p, 4 - 1) + p[4].size
      BY <1>13
    <2>5. SizeOfFirst(p, 5) = SizeOfFirst(p, 5 - 1) + p[5].size
      BY <1>13
    <2>6. SizeOfFirst(p, 1 - 1) = 0 /\ p[1].size = 40
      BY <1>8, <1>12, <1>13
    <2>7. SizeOfFirst(p, 1) = 40
      BY <2>1, <2>6
    <2>8. SizeOfFirst(p, 2 - 1) = 40 /\ p[2].size = 8 * n
      BY <1>8, <1>12, <2>7
    <2>9. SizeOfFirst(p, 2) = 40 + 8 * n
      BY <1>1, <2>2, <2>8
    <2>10. SizeOfFirst(p, 3 - 1) = 40 + 8 * n /\ p[3].size = 8
      BY <1>8, <1>12, <2>9
    <2>11. SizeOfFirst(p, 3) = 48 + 8 * n
      BY <1>1, <2>3, <2>10
    <2>12. SizeOfFirst(p, 4 - 1) = 48 + 8 * n /\ p[4].size = 8 * n
      BY <1>11, <1>12, <2>11
    <2>13. SizeOfFirst(p, 4) = 48 + 16 * n
      BY <1>1, <2>4, <2>12
    <2>14. SizeOfFirst(p, 5 - 1) = 48 + 16 * n /\ p[5].size = 8
      BY <1>8, <1>12, <2>13
    <2>15. SizeOfFirst(p, 5) = 56 + 16 * n
      BY <1>1, <2>5, <2>14
    <2>16. IatOffset(used) = 48 + 8 * n /\ NamesOffset(used) = 56 + 16 * n
      BY <1>1 DEF IatOffset, NamesOffset, ThunksSize, n
    <2>. QED
      BY <1>1, <2>11, <2>15, <2>16
  <1>15. g.size \in Nat /\ g.size # 0
    <2>1. SizeOfFirst(p, 6) = SizeOfFirst(p, 6 - 1) + p[6].size
      BY <1>13
    <2>2. SizeOfFirst(p, 7) = SizeOfFirst(p, 7 - 1) + p[7].size
      BY <1>13
    <2>3. e.size \in Nat /\ l.size \in Nat
      BY <1>8, <1>10, FileIs
    <2>4. SizeOfFirst(p, 6 - 1) = NamesOffset(used) /\ p[6].size = e.size
      BY <1>12, <1>14
    <2>5. SizeOfFirst(p, 6) = NamesOffset(used) + e.size
      BY <2>1, <2>4
    <2>6. SizeOfFirst(p, 7 - 1) = NamesOffset(used) + e.size /\ p[7].size = l.size
      BY <1>12, <2>5
    <2>7. g.size = NamesOffset(used) + e.size + l.size
      BY <1>13, <2>2, <2>6
    <2>8. NamesOffset(used) > 0
      BY <1>1 DEF IatOffset, NamesOffset, ThunksSize, n
    <2>. QED
      BY <1>14, <2>3, <2>7, <2>8
  <1>16. ASSUME NEW i \in 1 .. n
         PROVE  /\ IatOffset(used) + 8 * (i - 1) \in Nat
                /\ Intact(g, IatOffset(used) + 8 * (i - 1), 8, <<"slot of", used[i]>>, 0)
    <2>. DEFINE what == <<"slot of", used[i]>>
                x == SizeOfFirst(s, i - 1)
                y == SizeOfFirst(p, 4 - 1)
    <2>1. i - 1 \in 0 .. n
      BY <1>1
    <2>2. x = 8 * (i - 1)
      BY <1>3, <2>1
    <2>3. y = IatOffset(used)
      BY <1>14
    <2>4. 0 \in Int /\ 8 \in Nat /\ Intact(s[i], 0, 8, what, 0)
      <3>1. \A k \in 1 .. n : s[k].size = 8 /\ Intact(s[k], 0, 8, <<"slot of", used[k]>>, 0)
        BY <1>3
      <3>2. Intact(s[i], 0, 8, <<"slot of", used[i]>>, 0)
        BY Zenon, <3>1
      <3>3. Intact(s[i], 0, 8, what, 0)
        BY Zenon, <3>2
      <3>4. 0 \in Int /\ 8 \in Nat
        OBVIOUS
      <3>. QED
        BY Zenon, <3>3, <3>4
    <2>. HIDE DEF what
    <2>5. Intact(d, x + 0, 8, what, 0)
      BY <1>9, <2>4
    <2>6. x + 0 \in Int
      BY <2>2
    <2>7. Intact(p[4], x + 0, 8, what, 0)
      BY <1>12, <2>5
    <2>8. \A at \in Int, size \in Nat : \A w, from :
             Intact(p[4], at, size, w, from) => Intact(g, y + at, size, w, from)
      BY <1>13
    <2>. HIDE DEF x, y
    <2>9. Intact(g, y + (x + 0), 8, what, 0)
      BY <2>4, <2>6, <2>7, <2>8
    <2>10. y + (x + 0) = IatOffset(used) + 8 * (i - 1) /\ IatOffset(used) + 8 * (i - 1) \in Nat
      BY <1>1, <1>14, <2>2, <2>3
    <2>. QED
      BY <2>9, <2>10 DEF what
  <1>17. ASSUME NEW i \in 1 .. n
         PROVE  /\ NameOffset(used, i) \in Nat
                /\ Intact(g, NameOffset(used, i), NameEntrySize(used[i]), <<"name of", used[i]>>, 0)
    <2>. DEFINE what == <<"name of", used[i]>>
                size == NameEntrySize(used[i])
                x == SizeOfFirst(m, i - 1)
                y == SizeOfFirst(p, 6 - 1)
    <2>1. i - 1 \in 0 .. n
      BY <1>1
    <2>2. x \in Nat
      BY <1>10, <2>1
    <2>3. y = NamesOffset(used)
      BY <1>14
    <2>4. 0 \in Int /\ size \in Nat /\ Intact(m[i], 0, size, what, 0)
      <3>1. \A k \in 1 .. n : /\ NameEntrySize(used[k]) \in Nat
                               /\ Intact(m[k], 0, NameEntrySize(used[k]), <<"name of", used[k]>>, 0)
        BY <1>4
      <3>2. size \in Nat /\ Intact(m[i], 0, size, what, 0)
        BY Zenon, <3>1
      <3>3. 0 \in Int
        OBVIOUS
      <3>. QED
        BY Zenon, <3>2, <3>3
    <2>. HIDE DEF what, size
    <2>5. Intact(e, x + 0, size, what, 0)
      BY <1>10, <2>4
    <2>6. x + 0 \in Int
      BY <2>2
    <2>7. Intact(p[6], x + 0, size, what, 0)
      BY <1>12, <2>5
    <2>8. \A at \in Int, k \in Nat : \A w, from : Intact(p[6], at, k, w, from) => Intact(g, y + at, k, w, from)
      BY <1>13
    <2>9. NameOffset(used, i) = NamesOffset(used) + x
      BY DEF NameOffset, m
    <2>. HIDE DEF x, y
    <2>10. Intact(g, y + (x + 0), size, what, 0)
      BY <2>4, <2>6, <2>7, <2>8
    <2>11. y + (x + 0) = NameOffset(used, i) /\ NameOffset(used, i) \in Nat
      BY <1>14, <2>2, <2>3, <2>9
    <2>. QED
      BY <2>10, <2>11 DEF what, size
  <1>. QED
    BY <1>13, <1>15, <1>16, <1>17 DEF n, g

-----------------------------------------------------------------------------
(* The code of a driver, its calls patched. *)

PatchAt(arm, at) == IF arm THEN at - 16 ELSE at

PatchSize(arm) == IF arm THEN 8 ELSE 4

PatchTag(arm, at, callee) ==
    IF arm THEN <<"loads", callee>> ELSE <<"distance", callee - (SECTION_ALIGNMENT + at + 4)>>

LEMMA PatchIs ==
    ASSUME NEW z, Measures(z), NEW arm \in BOOLEAN, NEW at \in Nat, NEW callee,
           Patched(z, arm, at) => callee \in Int
    PROVE  LET p == Patch(z, arm, at, callee)
           IN  /\ p \in FileCopies /\ p.at + p.piece.size <= z.code
               /\ Patched(z, arm, at) =>
                     /\ p.at = PatchAt(arm, at) /\ p.piece.size = PatchSize(arm)
                     /\ Intact(p.piece, 0, PatchSize(arm), PatchTag(arm, at, callee), 0)
               /\ ~Patched(z, arm, at) => p.piece.size = 0
  <1>. DEFINE p == Patch(z, arm, at, callee)
              n == PatchSize(arm)
              tag == PatchTag(arm, at, callee)
              g == Piece(tag, n)
              x == PatchAt(arm, at)
  <1>1. z.code \in Nat
    BY DEF Measures
  <1>2. \A a \in Nat, f \in Files : Copy(a, f) \in FileCopies /\ Copy(a, f).at = a /\ Copy(a, f).piece = f
    BY DEF Copy, FileCopies
  <1>3. CASE Patched(z, arm, at)
    <2>1. n \in Nat /\ x \in Nat /\ x + n <= z.code
      BY <1>1, <1>3 DEF Patched, PatchAt, PatchSize
    <2>2. tag \in DataTags
      <3>1. \A i \in Int : <<"loads", i>> \in DataTags /\ <<"distance", i>> \in DataTags
        BY DEF DataTags
      <3>2. callee \in Int /\ callee - (SECTION_ALIGNMENT + at + 4) \in Int
        BY <1>3 DEF SECTION_ALIGNMENT
      <3>. QED
        BY <3>1, <3>2 DEF PatchTag
    <2>3. p = Copy(x, g)
      BY <1>3 DEF Patch, PatchAt, PatchSize, PatchTag
    <2>. HIDE DEF n, tag, x
    <2>4. g \in Files /\ g.size = n /\ Intact(g, 0, n, tag, 0)
      BY <2>1, <2>2, PieceIs
    <2>. HIDE DEF g, p
    <2>5. p \in FileCopies /\ p.at = x /\ p.piece = g
      BY <1>2, <2>1, <2>3, <2>4
    <2>6. p.at + p.piece.size <= z.code
      BY <2>1, <2>4, <2>5
    <2>7. Intact(p.piece, 0, n, tag, 0)
      BY <2>4, <2>5
    <2>8. p.piece.size = n
      BY <2>4, <2>5
    <2>. QED
      BY <1>3, <2>5, <2>6, <2>7, <2>8 DEF p, n, tag, x
  <1>4. CASE ~Patched(z, arm, at)
    <2>1. p = Copy(0, EmptyFile)
      BY <1>4 DEF Patch
    <2>2. EmptyFile \in Files /\ EmptyFile.size = 0 /\ 0 \in Nat
      BY NothingIs DEF EmptyFile
    <2>. HIDE DEF p
    <2>3. p \in FileCopies /\ p.at = 0 /\ p.piece = EmptyFile
      BY <1>2, <2>1, <2>2
    <2>. QED
      BY <1>1, <1>4, <2>2, <2>3 DEF p
  <1>. QED
    BY <1>3, <1>4

MarkersOf(calls, arm) ==
    \A k, l \in DOMAIN calls : k < l => calls[k].at + PatchSize(arm) <= calls[l].at

LEMMA PatchedCodeIs ==
    ASSUME NEW z, Measures(z), NEW arm \in BOOLEAN, NEW calls \in Seq(Calls), MarkersOf(calls, arm),
           NEW table, NEW used,
           \A k \in DOMAIN calls : Patched(z, arm, calls[k].at) => SlotRva(table, used, calls[k].name) \in Int
    PROVE  LET g == PatchedCode(z, calls, arm, table, used)
               callee(k) == SlotRva(table, used, calls[k].name)
           IN  /\ g \in Files /\ g.size = z.code
               /\ \A k \in DOMAIN calls : Patched(z, arm, calls[k].at) =>
                     Intact(g, PatchAt(arm, calls[k].at), PatchSize(arm),
                            PatchTag(arm, calls[k].at, callee(k)), 0)
  <1>. DEFINE g == PatchedCode(z, calls, arm, table, used)
              callee(k) == SlotRva(table, used, calls[k].name)
              f == Piece("code", z.code)
              n == Len(calls)
              c == [k \in DOMAIN calls |-> Patch(z, arm, calls[k].at, callee(k))]
  <1>1. z.code \in Nat
    BY DEF Measures
  <1>2. n \in Nat /\ DOMAIN calls = 1 .. n /\ \A k \in 1 .. n : calls[k].at \in Nat
    <2>1. n \in Nat /\ DOMAIN calls = 1 .. n /\ \A k \in 1 .. n : calls[k] \in Calls
      OBVIOUS
    <2>. QED
      BY <2>1 DEF Calls
  <1>3. f \in Files /\ f.size = z.code
    BY <1>1, PieceIs, NamesAreTags
  <1>4. g = Overlaid(f, c)
    BY DEF PatchedCode
  <1>5. c = [k \in 1 .. n |-> c[k]] /\ \A k \in 1 .. n : c[k] = Patch(z, arm, calls[k].at, callee(k))
    BY <1>2
  <1>. HIDE DEF n, f, g, c, callee
  <1>6. ASSUME NEW k \in 1 .. n
        PROVE  /\ c[k] \in FileCopies /\ c[k].at + c[k].piece.size <= z.code
               /\ Patched(z, arm, calls[k].at) =>
                     /\ c[k].at = PatchAt(arm, calls[k].at) /\ c[k].piece.size = PatchSize(arm)
                     /\ Intact(c[k].piece, 0, PatchSize(arm), PatchTag(arm, calls[k].at, callee(k)), 0)
               /\ ~Patched(z, arm, calls[k].at) => c[k].piece.size = 0
    <2>. DEFINE at == calls[k].at
                t == callee(k)
    <2>1. at \in Nat /\ c[k] = Patch(z, arm, at, t)
      BY <1>2, <1>5
    <2>2. Patched(z, arm, at) => t \in Int
      BY <1>2 DEF callee
    <2>. HIDE DEF at, t
    <2>3. LET p == Patch(z, arm, at, t)
           IN  /\ p \in FileCopies /\ p.at + p.piece.size <= z.code
               /\ Patched(z, arm, at) =>
                     /\ p.at = PatchAt(arm, at) /\ p.piece.size = PatchSize(arm)
                     /\ Intact(p.piece, 0, PatchSize(arm), PatchTag(arm, at, t), 0)
               /\ ~Patched(z, arm, at) => p.piece.size = 0
      BY <2>1, <2>2, PatchIs
    <2>. DEFINE p == Patch(z, arm, at, t)
    <2>. HIDE DEF p
    <2>4. c[k] = p
      BY <2>1 DEF p
    <2>5. /\ p \in FileCopies /\ p.at + p.piece.size <= z.code
          /\ Patched(z, arm, at) =>
                     /\ p.at = PatchAt(arm, at) /\ p.piece.size = PatchSize(arm)
                     /\ Intact(p.piece, 0, PatchSize(arm), PatchTag(arm, at, t), 0)
          /\ ~Patched(z, arm, at) => p.piece.size = 0
      BY <2>3 DEF p
    <2>. QED
      BY <2>4, <2>5 DEF at, t
  <1>7. c \in [1 .. n -> FileCopies]
    <2>1. \A k \in 1 .. n : c[k] \in FileCopies
      BY <1>6
    <2>. QED
      BY <1>5, <2>1
  <1>8. \A k \in 1 .. n : c[k].at + c[k].piece.size <= f.size
    <2>. TAKE k \in 1 .. n
    <2>1. c[k].at + c[k].piece.size <= z.code
      BY <1>6
    <2>. QED
      BY <1>3, <2>1
  <1>9. \A k, l \in 1 .. n : k < l => Clear(c[k], c[l])
    <2>. SUFFICES ASSUME NEW k \in 1 .. n, NEW l \in 1 .. n, k < l PROVE Clear(c[k], c[l])
      OBVIOUS
    <2>1. CASE Patched(z, arm, calls[k].at) /\ Patched(z, arm, calls[l].at)
      <3>1. c[k].at = PatchAt(arm, calls[k].at) /\ c[k].piece.size = PatchSize(arm)
        BY <1>6, <2>1
      <3>2. c[l].at = PatchAt(arm, calls[l].at)
        BY <1>6, <2>1
      <3>3. calls[k].at + PatchSize(arm) <= calls[l].at
        BY <1>2 DEF MarkersOf
      <3>4. calls[k].at \in Nat /\ calls[l].at \in Nat
        BY <1>2
      <3>5. \A x, y \in Nat :
               x + PatchSize(arm) <= y => PatchAt(arm, x) + PatchSize(arm) <= PatchAt(arm, y)
        <4>1. CASE arm
          BY <4>1 DEF PatchAt, PatchSize
        <4>2. CASE ~arm
          BY <4>2 DEF PatchAt, PatchSize
        <4>. QED
          BY <4>1, <4>2
      <3>6. PatchAt(arm, calls[k].at) + PatchSize(arm) <= PatchAt(arm, calls[l].at)
        BY <3>3, <3>4, <3>5
      <3>. QED
        BY <3>1, <3>2, <3>6 DEF Clear
    <2>2. CASE ~Patched(z, arm, calls[k].at)
      BY <1>6, <2>2 DEF Clear
    <2>3. CASE ~Patched(z, arm, calls[l].at)
      BY <1>6, <2>3 DEF Clear
    <2>. QED
      BY <2>1, <2>2, <2>3
  <1>10. Carries(g, f, n, c)
    BY <1>2, <1>3, <1>4, <1>7, <1>8, <1>9, OverlaidIs
  <1>11. ASSUME NEW k \in 1 .. n, Patched(z, arm, calls[k].at)
         PROVE  Intact(g, PatchAt(arm, calls[k].at), PatchSize(arm), PatchTag(arm, calls[k].at, callee(k)), 0)
    <2>. DEFINE size == PatchSize(arm)
                tag == PatchTag(arm, calls[k].at, callee(k))
                x == PatchAt(arm, calls[k].at)
    <2>1. c[k].at = x /\ Intact(c[k].piece, 0, size, tag, 0)
      BY <1>6, <1>11
    <2>2. 0 \in Int /\ size \in Nat /\ x \in Int
      BY <1>2 DEF PatchSize, PatchAt
    <2>. HIDE DEF size, tag, x
    <2>3. Intact(g, c[k].at + 0, size, tag, 0)
      BY <1>10, <2>1, <2>2 DEF Carries
    <2>4. c[k].at + 0 = x
      BY <2>1, <2>2
    <2>. QED
      BY <2>3, <2>4 DEF size, tag, x
  <1>. QED
    BY <1>2, <1>3, <1>10, <1>11 DEF Carries, g, n, callee

-----------------------------------------------------------------------------
(* Its sections. *)

LEMMA AfterTheZones ==
    ASSUME NEW arm \in BOOLEAN, NEW imports \in Files
    PROVE  LET tail == <<Raw(".pdata", Piece("unwind", IF arm THEN 8 ELSE 16)), Raw(".reloc", NoRelocations)>>
           IN  /\ Sections(IfAny(Raw(".rdata", imports)), {".rdata"})
               /\ imports.size # 0 => HasOne(IfAny(Raw(".rdata", imports)), Raw(".rdata", imports))
               /\ Sections(tail, {".pdata", ".reloc"})
  <1>. DEFINE n == IF arm THEN 8 ELSE 16
              u == Piece("unwind", n)
              a == Raw(".pdata", u)
              b == Raw(".reloc", NoRelocations)
              s == <<a, b>>
  <1>1. n \in Nat /\ NoRelocations \in Files
    BY PieceIs, NamesAreTags DEF NoRelocations
  <1>2. {".rdata", ".pdata", ".reloc"} \subseteq SectionNames /\ "unwind" \in DataTags
    BY DEF SectionNames, DataTags
  <1>. HIDE DEF n
  <1>3. u \in Files
    BY <1>1, <1>2, PieceIs
  <1>. HIDE DEF u
  <1>4. a \in RawSections /\ OneRaw(a) /\ a.name = ".pdata" /\ b \in RawSections /\ OneRaw(b) /\ b.name = ".reloc"
    BY <1>1, <1>2, <1>3, OneSection
  <1>5. Sections(IfAny(Raw(".rdata", imports)), {".rdata"})
        /\ (imports.size # 0 => HasOne(IfAny(Raw(".rdata", imports)), Raw(".rdata", imports)))
    BY <1>2, IfAnyIs
  <1>. HIDE DEF a, b
  <1>6. s \in Seq(RawSections) /\ Len(s) = 2 /\ DOMAIN s = 1 .. 2 /\ s[1] = a /\ s[2] = b
    BY <1>4
  <1>. HIDE DEF s
  <1>7. \A i \in 1 .. 2 : OneRaw(s[i]) /\ s[i].name \in {".pdata", ".reloc"}
    BY <1>4, <1>6
  <1>8. \A i, k \in 1 .. 2 : s[i].name = s[k].name => i = k
    BY <1>4, <1>6
  <1>9. Sections(s, {".pdata", ".reloc"})
    BY <1>6, <1>7, <1>8 DEF Sections, Raws
  <1>. QED
    BY <1>5, <1>9 DEF s, a, b, u, n

LEMMA DriverRawsAre ==
    ASSUME NEW z, Measures(z), NEW arm \in BOOLEAN, NEW text \in Files, NEW imports \in Files
    PROVE  LET s == DriverRaws(z, arm, text, imports)
           IN  /\ Raws(s) /\ ZonesIn(s, z, text)
               /\ imports.size # 0 => HasOne(s, Raw(".rdata", imports))
               /\ \A other \in Files : other.size = text.size => Alike(s, DriverRaws(z, arm, other, imports))
  <1>. DEFINE tail == <<Raw(".pdata", Piece("unwind", IF arm THEN 8 ELSE 16)), Raw(".reloc", NoRelocations)>>
              mid == IfAny(Raw(".rdata", imports))
              a(t) == ZoneSections(z, t)
              b(t) == a(t) \o mid
              s(t) == b(t) \o tail
              M == {".rdata"}
              T == {".pdata", ".reloc"}
  <1>1. \A t : s(t) = DriverRaws(z, arm, t, imports)
    BY DEF DriverRaws
  <1>2. /\ Sections(mid, M) /\ Sections(tail, T)
        /\ imports.size # 0 => HasOne(mid, Raw(".rdata", imports))
    BY AfterTheZones
  <1>3. \A t \in Files : Sections(a(t), ZoneNames) /\ ZonesIn(a(t), z, t)
    BY ZoneSectionsAre
  <1>4. ZoneNames \cap M = {} /\ (ZoneNames \cup M) \cap T = {}
    BY DEF ZoneNames
  <1>5. ASSUME NEW t \in Files, NEW o \in Files, t.size = o.size PROVE Alike(a(t), a(o))
    <2>. DEFINE p == Raw(".text", t)
                q == Raw(".text", o)
                d == IfAny(Raw(".data", Piece("mirror", z.mirror)))
                r == IfAny(Raw(".rodata", Piece("truth", z.truth)))
    <2>1. {".text", ".data", ".rodata"} \subseteq SectionNames
      BY DEF SectionNames
    <2>2. z.mirror \in Nat /\ z.truth \in Nat
      BY DEF Measures
    <2>3. Piece("mirror", z.mirror) \in Files /\ Piece("truth", z.truth) \in Files
      BY <2>2, PieceIs, NamesAreTags
    <2>4. Sections(d, {".data"}) /\ Sections(r, {".rodata"})
      BY <2>1, <2>3, IfAnyIs
    <2>5. /\ Sections(<<p>>, {".text"}) /\ Len(<<p>>) = 1 /\ <<p>>[1] = p /\ p.name = ".text" /\ p.piece = t
          /\ Sections(<<q>>, {".text"}) /\ Len(<<q>>) = 1 /\ <<q>>[1] = q /\ q.name = ".text" /\ q.piece = o
      BY <2>1, OneSection
    <2>6. a(t) = (<<p>> \o d) \o r /\ a(o) = (<<q>> \o d) \o r
      BY DEF ZoneSections
    <2>. DEFINE P == <<p>>
                Q == <<q>>
                F == {".text"}
                D == {".data"}
                R == {".rodata"}
    <2>7. Alike(P, Q)
      <3>1. \A i \in 1 .. 1 : i = 1
        OBVIOUS
      <3>. HIDE DEF p, q
      <3>. QED
        BY <1>5, <2>5, <3>1 DEF Alike
    <2>8. Sections(P, F) /\ Sections(Q, F) /\ Sections(d, D) /\ Sections(r, R) /\ F \cap D = {}
      BY <2>4, <2>5
    <2>9. a(t) = (P \o d) \o r /\ a(o) = (Q \o d) \o r
      BY <2>6
    <2>. HIDE DEF P, Q, F, D, R, d, r, a
    <2>10. Alike(P \o d, Q \o d)
      BY <2>7, <2>8, AlikeJoins
    <2>11. Sections(P \o d, F \cup D) /\ Sections(Q \o d, F \cup D)
      BY <2>8, Joins
    <2>12. Alike((P \o d) \o r, (Q \o d) \o r)
      BY <2>8, <2>10, <2>11, AlikeJoins
    <2>. QED
      BY <2>9, <2>12
  <1>. HIDE DEF mid, tail, M, T, a
  <1>6. ASSUME NEW t \in Files
        PROVE  /\ Sections(b(t), ZoneNames \cup M) /\ ZonesIn(b(t), z, t)
               /\ imports.size # 0 => HasOne(b(t), Raw(".rdata", imports))
    <2>. DEFINE c == a(t)
                e == c \o mid
    <2>1. Sections(c, ZoneNames) /\ ZonesIn(c, z, t) /\ b(t) = e
      BY <1>3
    <2>. HIDE DEF c
    <2>2. Sections(e, ZoneNames \cup M) /\ \A x : HasOne(mid, x) => HasOne(e, x)
      BY <1>2, <1>4, <2>1, Joins
    <2>3. ZonesIn(e, z, t)
      BY <1>2, <1>4, <2>1, ZonesStay
    <2>. HIDE DEF e
    <2>. QED
      BY <1>2, <2>1, <2>2, <2>3
  <1>7. ASSUME NEW t \in Files, NEW o \in Files, t.size = o.size PROVE Alike(b(t), b(o))
    <2>. DEFINE c == a(t)
                e == a(o)
    <2>1. Sections(c, ZoneNames) /\ Sections(e, ZoneNames) /\ Alike(c, e) /\ b(t) = c \o mid /\ b(o) = e \o mid
      BY <1>3, <1>5, <1>7
    <2>. HIDE DEF c, e, b
    <2>2. Alike(c \o mid, e \o mid)
      BY <1>2, <2>1, AlikeJoins
    <2>. QED
      BY <2>1, <2>2
  <1>8. ASSUME NEW t \in Files, NEW o \in Files, t.size = o.size PROVE Alike(s(t), s(o))
    <2>. DEFINE c == b(t)
                e == b(o)
                N == ZoneNames \cup M
    <2>1. Sections(c, N) /\ Sections(e, N) /\ Alike(c, e) /\ s(t) = c \o tail /\ s(o) = e \o tail
      BY <1>6, <1>7, <1>8
    <2>. HIDE DEF c, e, b, s, N
    <2>2. Alike(c \o tail, e \o tail)
      BY <1>2, <2>1, AlikeJoins
    <2>. QED
      BY <2>1, <2>2
  <1>9. /\ Sections(s(text), (ZoneNames \cup M) \cup T) /\ ZonesIn(s(text), z, text)
        /\ imports.size # 0 => HasOne(s(text), Raw(".rdata", imports))
    <2>. DEFINE c == b(text)
                e == c \o tail
                N == ZoneNames \cup M
    <2>1. Sections(c, N) /\ ZonesIn(c, z, text) /\ (imports.size # 0 => HasOne(c, Raw(".rdata", imports)))
          /\ s(text) = e /\ N \cap T = {}
      BY <1>4, <1>6
    <2>. HIDE DEF c, N
    <2>2. Sections(e, N \cup T) /\ \A x : HasOne(c, x) => HasOne(e, x)
      BY <1>2, <2>1, Joins
    <2>3. ZonesIn(e, z, text)
      BY <1>2, <2>1, ZonesStay
    <2>. HIDE DEF e
    <2>4. Sections(s(text), N \cup T)
      BY <2>1, <2>2
    <2>5. imports.size # 0 => HasOne(s(text), Raw(".rdata", imports))
      BY <2>1, <2>2
    <2>. QED
      BY <2>1, <2>3, <2>4, <2>5 DEF N
  <1>. QED
    BY <1>1, <1>8, <1>9 DEF Sections

-----------------------------------------------------------------------------
(* Windows drivers. *)

DriverImports(z, calls) ==
    IF UsedImports(z, calls) = <<>> THEN EmptyFile ELSE ImportSection(UsedImports(z, calls))

DriverTable(z, calls, arm) ==
    IF UsedImports(z, calls) = <<>> THEN 0
    ELSE Placement([sections |-> Placed(DriverRaws(z, arm, Piece("code", z.code), DriverImports(z, calls)))],
                   ".rdata").rva

DriverCode(z, calls, arm) ==
    PatchedCode(z, calls, arm, DriverTable(z, calls, arm), UsedImports(z, calls))

DriverSections(z, calls, arm) == DriverRaws(z, arm, DriverCode(z, calls, arm), DriverImports(z, calls))

DriverOK(z, calls, arm) ==
    Measures(z) /\ arm \in BOOLEAN /\ calls \in Seq(Calls) /\ MarkersOf(calls, arm)

LEMMA DriverImportsAre ==
    ASSUME NEW z, NEW calls \in Seq(Calls)
    PROVE  LET used == UsedImports(z, calls)
               g == DriverImports(z, calls)
           IN  /\ used \in Seq(ImportCalls) /\ Len(used) \in Nat /\ DOMAIN used = 1 .. Len(used)
               /\ \A i, k \in 1 .. Len(used) : used[i] = used[k] => i = k
               /\ \A k \in DOMAIN calls : calls[k].at + 4 <= z.code => Lists(used, calls[k].name)
               /\ g \in Files /\ (used # <<>> => g.size # 0 /\ g = ImportSection(used))
               /\ Len(used) # 0 => used # <<>>
  <1>. DEFINE used == UsedImports(z, calls)
  <1>1. \A k \in DOMAIN calls : calls[k].name \in ImportCalls
    <2>1. \A k \in DOMAIN calls : calls[k] \in Calls
      OBVIOUS
    <2>. QED
      BY <2>1 DEF Calls
  <1>2. ListedOf(used, ImportCalls) /\ \A k \in DOMAIN calls : calls[k].at + 4 <= z.code => Lists(used, calls[k].name)
    BY <1>1, UsedAre
  <1>. HIDE DEF used
  <1>3. used \in Seq(ImportCalls) /\ \A i, k \in 1 .. Len(used) : used[i] = used[k] => i = k
    BY <1>2 DEF ListedOf
  <1>4. ImportSection(used) \in Files /\ ImportSection(used).size # 0
    BY <1>3, ImportsAre
  <1>5. DriverImports(z, calls) = IF used = <<>> THEN EmptyFile ELSE ImportSection(used)
    BY DEF DriverImports, used
  <1>6. Len(used) \in Nat /\ DOMAIN used = 1 .. Len(used) /\ (Len(used) # 0 => used # <<>>)
    BY <1>3
  <1>7. EmptyFile \in Files
    BY NothingIs
  <1>. QED
    BY <1>2, <1>3, <1>4, <1>5, <1>6, <1>7 DEF used

\* The import section is where it was when its place was worked out.
LEMMA TableIs ==
    ASSUME NEW z, NEW calls, NEW arm, DriverOK(z, calls, arm), UsedImports(z, calls) # <<>>,
           NEW text \in Files, text.size = z.code
    PROVE  LET s == DriverRaws(z, arm, text, DriverImports(z, calls))
               table == DriverTable(z, calls, arm)
           IN  /\ table \in Nat
               /\ \E i \in 1 .. Len(s) : s[i].piece = DriverImports(z, calls) /\ Placed(s)[i].rva = table
  <1>. DEFINE g == DriverImports(z, calls)
              c == Piece("code", z.code)
              r == DriverRaws(z, arm, c, g)
              s == DriverRaws(z, arm, text, g)
              h == [sections |-> Placed(r)]
              table == DriverTable(z, calls, arm)
              x == Raw(".rdata", g)
  <1>1. Measures(z) /\ arm \in BOOLEAN /\ calls \in Seq(Calls) /\ z.code \in Nat
    BY DEF DriverOK, Measures
  <1>2. g \in Files /\ g.size # 0
    BY <1>1, DriverImportsAre
  <1>3. c \in Files /\ c.size = z.code
    BY <1>1, PieceIs, NamesAreTags
  <1>4. table = Placement(h, ".rdata").rva
    BY DEF DriverTable
  <1>5. x.name = ".rdata" /\ x.piece = g
    BY DEF Raw
  <1>. HIDE DEF g, c, x
  <1>6. /\ Raws(r) /\ HasOne(r, x)
        /\ \A other \in Files : other.size = c.size => Alike(r, DriverRaws(z, arm, other, g))
    BY <1>1, <1>2, <1>3, DriverRawsAre DEF x
  <1>7. Raws(s) /\ HasOne(s, x)
    BY <1>1, <1>2, DriverRawsAre DEF x
  <1>8. Alike(r, s)
    BY <1>3, <1>6
  <1>. HIDE DEF r, s
  <1>9. PICK j \in 1 .. Len(r) : r[j] = x
    BY <1>6 DEF HasOne
  <1>10. PICK i \in 1 .. Len(s) : s[i] = x
    BY <1>7 DEF HasOne
  <1>11. /\ Len(r) = Len(s)
         /\ \A k \in 1 .. Len(r) : r[k].name = s[k].name /\ r[k].piece.size = s[k].piece.size
    BY <1>8 DEF Alike
  <1>12. i = j
    <2>1. i \in 1 .. Len(r) /\ r[i].name = s[i].name
      BY <1>11
    <2>2. r[i].name = r[j].name
      BY <1>9, <1>10, <2>1
    <2>. QED
      BY <1>6, <2>1, <2>2 DEF Raws
  <1>13. Placed(r)[j].rva = Placed(s)[j].rva
    <2>1. \A k \in 1 .. Len(r) : r[k].piece.size = s[k].piece.size
      BY <1>11
    <2>2. \A k \in 1 .. Len(r) : Placed(r)[k].rva = Placed(s)[k].rva /\ Placed(r)[k].raw = Placed(s)[k].raw
      BY Zenon, <1>6, <1>7, <1>11, <2>1, SamePlaces
    <2>. QED
      BY <2>2
  <1>14. table = Placed(r)[j].rva
    <2>1. h.sections = Placed(r)
      OBVIOUS
    <2>. HIDE DEF h
    <2>2. Placement(h, r[j].name) = Placed(r)[j]
      BY <1>6, <2>1, PlacementIs
    <2>. QED
      BY <1>4, <1>5, <1>9, <2>2
  <1>15. table \in Nat
    BY <1>6, <1>14, PlacedAre
  <1>16. s[i].piece = g /\ Placed(s)[i].rva = table
    BY <1>5, <1>10, <1>12, <1>13, <1>14
  <1>. QED
    BY <1>15, <1>16 DEF g, s

LEMMA SlotIs ==
    ASSUME NEW used \in Seq(ImportCalls), \A i, k \in 1 .. Len(used) : used[i] = used[k] => i = k,
           NEW name, Lists(used, name), NEW table \in Nat
    PROVE  \E i \in 1 .. Len(used) : /\ used[i] = name
                                     /\ SlotRva(table, used, name) = table + (IatOffset(used) + 8 * (i - 1))
                                     /\ IatOffset(used) + 8 * (i - 1) \in Nat
  <1>1. PICK i \in 1 .. Len(used) : used[i] = name
    BY DEF Lists
  <1>2. DOMAIN used = 1 .. Len(used) /\ Len(used) \in Nat
    OBVIOUS
  <1>3. (CHOOSE k \in DOMAIN used : used[k] = name) = i
    BY <1>1, <1>2
  <1>4. SlotRva(table, used, name) = table + IatOffset(used) + 8 * (i - 1)
    BY <1>3 DEF SlotRva
  <1>5. IatOffset(used) \in Nat
    BY <1>2 DEF IatOffset, ThunksSize
  <1>6. /\ table + IatOffset(used) + 8 * (i - 1) = table + (IatOffset(used) + 8 * (i - 1))
        /\ IatOffset(used) + 8 * (i - 1) \in Nat
    BY <1>2, <1>5
  <1>. QED
    BY <1>1, <1>4, <1>6

\* A marker that is patched calls an import that is listed.
LEMMA PatchedIsListed ==
    ASSUME NEW z, NEW calls, NEW arm, DriverOK(z, calls, arm), NEW k \in DOMAIN calls,
           Patched(z, arm, calls[k].at)
    PROVE  /\ UsedImports(z, calls) # <<>> /\ Lists(UsedImports(z, calls), calls[k].name)
           /\ DriverTable(z, calls, arm) \in Nat
           /\ SlotRva(DriverTable(z, calls, arm), UsedImports(z, calls), calls[k].name) \in Int
  <1>. DEFINE used == UsedImports(z, calls)
              table == DriverTable(z, calls, arm)
  <1>1. calls \in Seq(Calls) /\ Measures(z) /\ z.code \in Nat
    BY DEF DriverOK, Measures
  <1>2. calls[k].at \in Nat
    <2>1. calls[k] \in Calls
      BY <1>1
    <2>. QED
      BY <2>1 DEF Calls
  <1>3. calls[k].at + 4 <= z.code
    BY <1>1, <1>2 DEF Patched
  <1>4. /\ used \in Seq(ImportCalls) /\ (Len(used) # 0 => used # <<>>) /\ Len(used) \in Nat
        /\ \A i, l \in 1 .. Len(used) : used[i] = used[l] => i = l
        /\ Lists(used, calls[k].name)
    BY <1>1, <1>3, DriverImportsAre
  <1>5. used # <<>>
    BY <1>4 DEF Lists
  <1>6. table \in Nat
    <2>1. Piece("code", z.code) \in Files /\ Piece("code", z.code).size = z.code
      BY <1>1, PieceIs, NamesAreTags
    <2>. QED
      BY <1>5, <2>1, TableIs
  <1>. HIDE DEF used, table
  <1>7. SlotRva(table, used, calls[k].name) \in Int
    <2>1. PICK i \in 1 .. Len(used) : /\ SlotRva(table, used, calls[k].name) = table + (IatOffset(used) + 8 * (i - 1))
                                      /\ IatOffset(used) + 8 * (i - 1) \in Nat
      BY <1>4, <1>6, SlotIs
    <2>. QED
      BY <1>6, <2>1
  <1>. QED
    BY <1>4, <1>5, <1>6, <1>7 DEF used, table

LEMMA DriverCodeIs ==
    ASSUME NEW z, NEW calls, NEW arm, DriverOK(z, calls, arm)
    PROVE  LET g == DriverCode(z, calls, arm)
               callee(k) == SlotRva(DriverTable(z, calls, arm), UsedImports(z, calls), calls[k].name)
           IN  /\ g \in Files /\ g.size = z.code
               /\ \A k \in DOMAIN calls : Patched(z, arm, calls[k].at) =>
                     Intact(g, PatchAt(arm, calls[k].at), PatchSize(arm),
                            PatchTag(arm, calls[k].at, callee(k)), 0)
  <1>1. Measures(z) /\ arm \in BOOLEAN /\ calls \in Seq(Calls) /\ MarkersOf(calls, arm)
    BY DEF DriverOK
  <1>. DEFINE table == DriverTable(z, calls, arm)
              used == UsedImports(z, calls)
  <1>2. \A k \in DOMAIN calls : Patched(z, arm, calls[k].at) => SlotRva(table, used, calls[k].name) \in Int
    BY PatchedIsListed
  <1>3. DriverCode(z, calls, arm) = PatchedCode(z, calls, arm, table, used)
    BY DEF DriverCode
  <1>. HIDE DEF table, used
  <1>4. LET g == PatchedCode(z, calls, arm, table, used)
            callee(k) == SlotRva(table, used, calls[k].name)
        IN  /\ g \in Files /\ g.size = z.code
            /\ \A k \in DOMAIN calls : Patched(z, arm, calls[k].at) =>
                  Intact(g, PatchAt(arm, calls[k].at), PatchSize(arm),
                         PatchTag(arm, calls[k].at, callee(k)), 0)
    BY <1>1, <1>2, PatchedCodeIs
  <1>. QED
    BY <1>3, <1>4 DEF table, used

LEMMA DriverSectionsAre ==
    ASSUME NEW z, NEW calls, NEW arm, DriverOK(z, calls, arm)
    PROVE  LET s == DriverSections(z, calls, arm)
           IN  Raws(s) /\ ZonesIn(s, z, DriverCode(z, calls, arm))
  <1>1. Measures(z) /\ arm \in BOOLEAN /\ calls \in Seq(Calls)
    BY DEF DriverOK
  <1>2. DriverCode(z, calls, arm) \in Files
    BY DriverCodeIs
  <1>3. DriverImports(z, calls) \in Files
    BY <1>1, DriverImportsAre
  <1>. QED
    BY <1>1, <1>2, <1>3, DriverRawsAre DEF DriverSections

LEMMA DriverPlanIs ==
    ASSUME NEW z, NEW entry, NEW calls, NEW arm
    PROVE  DriverPlan(z, entry, calls, arm) =
              PePlan(z.code > 0, DriverSections(z, calls, arm), SECTION_ALIGNMENT + entry,
                     [imports |-> DriverTable(z, calls, arm), used |-> UsedImports(z, calls),
                      function |-> Zone(SECTION_ALIGNMENT + entry, z.code - entry)], FALSE)
BY DEF DriverPlan, DriverSections, DriverCode, DriverTable, DriverImports

LEMMA DriverAppends ==
    ASSUME NEW z, NEW calls, NEW arm, DriverOK(z, calls, arm), NEW entry
    PROVE  DriverPlan(z, entry, calls, arm).writes \in Seq(Appending)
  <1>. DEFINE s == DriverSections(z, calls, arm)
  <1>1. Raws(s)
    BY DriverSectionsAre
  <1>2. \A accepts, en, directories :
           WritesOnce(PePlan(accepts, s, en, directories, FALSE).writes, PeBuffer(s, Placed(s)))
    BY <1>1, PeWrites
  <1>. HIDE DEF s
  <1>. QED
    BY <1>2, DriverPlanIs DEF WritesOnce, s

\* What the first section holds, in the file.
LEMMA TextIs ==
    ASSUME NEW h, NEW f, NEW s, Mapped(h, f, s), Len(s) # 0, s[1].name = ".text"
    PROVE  /\ Placement(h, ".text") = Placed(s)[1] /\ Placed(s)[1].raw \in Nat /\ f \in Files
           /\ Placed(s)[1].vsize = s[1].vsize
           /\ \A b \in Int, m \in Nat : \A what, from :
                 Intact(s[1].piece, b, m, what, from) => Intact(f, Placed(s)[1].raw + b, m, what, from)
  <1>1. Raws(s) /\ h.sections = Placed(s) /\ f \in Files
    BY DEF Mapped
  <1>2. 1 \in 1 .. Len(s)
    BY <1>1 DEF Raws
  <1>3. Placement(h, s[1].name) = Placed(s)[1]
    BY <1>1, <1>2, PlacementIs
  <1>4. Placed(s)[1].raw \in Nat /\ Placed(s)[1].vsize = s[1].vsize
    BY <1>1, <1>2, PlacedAre
  <1>5. \A b \in Int, m \in Nat : \A what, from :
           Intact(s[1].piece, b, m, what, from) => Intact(f, Placed(s)[1].raw + b, m, what, from)
    BY <1>2 DEF Mapped
  <1>. QED
    BY <1>1, <1>3, <1>4, <1>5

\* What lies in a section is there for a reader of the memory.
LEMMA PartIsLoaded ==
    ASSUME NEW h, NEW f, NEW s, Mapped(h, f, s), NEW i \in 1 .. Len(s), NEW g, s[i].piece = g,
           NEW b \in Nat, NEW m \in Nat, NEW what, Intact(g, b, m, what, 0)
    PROVE  LoadedAt(f, h, Placed(s)[i].rva + b, m, what)
  <1>1. b \in Int /\ Intact(s[i].piece, b, m, what, 0)
    OBVIOUS
  <1>. QED
    BY <1>1, LoadedIs

LEMMA CallsReach ==
    ASSUME NEW z, NEW calls, NEW arm, DriverOK(z, calls, arm), NEW h, NEW f,
           Mapped(h, f, DriverSections(z, calls, arm)),
           NEW k \in DOMAIN calls, Patched(z, arm, calls[k].at)
    PROVE  CallReaches(f, h, calls[k], arm)
  <1>. DEFINE s == DriverSections(z, calls, arm)
              used == UsedImports(z, calls)
              table == DriverTable(z, calls, arm)
              g == DriverImports(z, calls)
              c == DriverCode(z, calls, arm)
              a == calls[k].at
              name == calls[k].name
              callee == SlotRva(table, used, name)
              x == PatchAt(arm, a)
              n == PatchSize(arm)
              tag == PatchTag(arm, a, callee)
              raw == Placed(s)[1].raw
  <1>1. Measures(z) /\ arm \in BOOLEAN /\ calls \in Seq(Calls)
    BY DEF DriverOK
  <1>2. a \in Nat
    <2>1. calls[k] \in Calls
      BY <1>1
    <2>. QED
      BY <2>1 DEF Calls
  <1>3. used # <<>> /\ Lists(used, name) /\ table \in Nat /\ callee \in Int
    BY PatchedIsListed
  <1>4. /\ used \in Seq(ImportCalls) /\ g = ImportSection(used) /\ g \in Files
        /\ \A i, l \in 1 .. Len(used) : used[i] = used[l] => i = l
    BY <1>1, <1>3, DriverImportsAre
  <1>5. Intact(c, x, n, tag, 0) /\ c \in Files /\ c.size = z.code
    BY DriverCodeIs
  <1>6. Raws(s) /\ ZonesIn(s, z, c)
    BY DriverSectionsAre
  <1>7. PICK i \in 1 .. Len(s) : s[i].piece = g /\ Placed(s)[i].rva = table
    <2>1. s = DriverRaws(z, arm, c, g)
      BY DEF DriverSections
    <2>. QED
      BY <1>3, <1>5, <2>1, TableIs
  <1>8. PICK j \in 1 .. Len(used) : /\ used[j] = name
                                    /\ callee = table + (IatOffset(used) + 8 * (j - 1))
                                    /\ IatOffset(used) + 8 * (j - 1) \in Nat
    BY <1>3, <1>4, SlotIs
  <1>9. Intact(g, IatOffset(used) + 8 * (j - 1), 8, <<"slot of", used[j]>>, 0)
    BY <1>4, ImportsAre
  <1>10. Mapped(h, f, s)
    OBVIOUS
  <1>11. Len(s) # 0 /\ s[1].name = ".text" /\ s[1].piece = c
    <2>1. Len(s) # 0 /\ s[1] = Raw(".text", c)
      BY <1>6 DEF ZonesIn
    <2>. QED
      BY <2>1 DEF Raw
  <1>. HIDE DEF s, used, table, g, c
  <1>12. LoadedAt(f, h, callee, 8, <<"slot of", name>>)
    <2>. DEFINE b == IatOffset(used) + 8 * (j - 1)
                what == <<"slot of", name>>
                m == 8
    <2>1. b \in Nat /\ m \in Nat /\ Intact(g, b, m, what, 0)
      BY <1>8, <1>9
    <2>2. callee = Placed(s)[i].rva + b
      BY <1>7, <1>8
    <2>. HIDE DEF b, what, m, callee
    <2>3. LoadedAt(f, h, Placed(s)[i].rva + b, m, what)
      BY <1>7, <1>10, <2>1, PartIsLoaded
    <2>. QED
      BY <2>2, <2>3 DEF what, m
  <1>13. /\ Placement(h, ".text").raw = raw /\ raw \in Nat /\ f \in Files
         /\ \A b \in Int, m \in Nat : \A what, from :
               Intact(c, b, m, what, from) => Intact(f, raw + b, m, what, from)
    <2>1. /\ Placement(h, ".text") = Placed(s)[1] /\ Placed(s)[1].raw \in Nat /\ f \in Files
          /\ \A b \in Int, m \in Nat : \A what, from :
                Intact(s[1].piece, b, m, what, from) => Intact(f, Placed(s)[1].raw + b, m, what, from)
      BY <1>10, <1>11, TextIs
    <2>. QED
      BY <1>11, <2>1
  <1>14. n \in Nat /\ 4 <= n /\ x \in Int
    BY <1>1, <1>2 DEF PatchSize, PatchAt
  <1>. DEFINE at == IF arm THEN raw + a - 16 ELSE raw + a
  <1>. HIDE DEF raw
  <1>15. raw + x = at
    BY <1>1, <1>2, <1>13 DEF PatchAt
  <1>. HIDE DEF callee, n, tag, x, at
  <1>16. Content(f, at, 4) = [what |-> tag, from |-> 0]
    <2>. DEFINE four == 4
    <2>1. Intact(f, raw + x, n, tag, 0)
      BY <1>5, <1>13, <1>14
    <2>2. Intact(f, at, n, tag, 0)
      BY <1>15, <2>1
    <2>3. at \in Int /\ 0 \in Int /\ four \in Nat /\ four # 0 /\ at <= at /\ at + four <= at + n
      BY <1>13, <1>14, <1>15
    <2>. HIDE DEF four
    <2>4. Intact(f, at, four, tag, 0 + at - at)
      BY <1>13, <1>14, <2>2, <2>3, IntactWithin
    <2>5. 0 + at - at = 0
      BY <2>3
    <2>6. Intact(f, at, four, tag, 0)
      BY <2>4, <2>5
    <2>7. Content(f, at, four) = [what |-> tag, from |-> 0]
      BY <1>13, <2>3, <2>6, IntactIsContent
    <2>. QED
      BY <2>7 DEF four
  <1>. DEFINE found == Content(f, at, 4).what
              address == IF arm THEN found[2] ELSE found[2] + SECTION_ALIGNMENT + a + 4
  <1>17. found = tag
    BY <1>16
  <1>. HIDE DEF found
  <1>18. found[1] = IF arm THEN "loads" ELSE "distance"
    BY <1>1, <1>17 DEF tag, PatchTag
  <1>19. address = callee
    <2>1. CASE arm
      BY <1>17, <2>1 DEF tag, PatchTag
    <2>2. CASE ~arm
      <3>1. found[2] = callee - (SECTION_ALIGNMENT + a + 4)
        BY <1>17, <2>2 DEF tag, PatchTag
      <3>2. SECTION_ALIGNMENT \in Nat /\ callee \in Int
        BY <1>3 DEF SECTION_ALIGNMENT, callee
      <3>. QED
        BY <1>2, <2>2, <3>1, <3>2
    <2>. QED
      BY <2>1, <2>2
  <1>. HIDE DEF address
  <1>20. LoadedAt(f, h, address, 8, <<"slot of", name>>)
    BY <1>12, <1>19
  <1>. QED
    BY <1>13, <1>18, <1>20 DEF CallReaches, found, address, at

LEMMA NamesAreLoaded ==
    ASSUME NEW z, NEW calls, NEW arm, DriverOK(z, calls, arm), NEW h, NEW f,
           Mapped(h, f, DriverSections(z, calls, arm)), NEW j \in DOMAIN UsedImports(z, calls)
    PROVE  LET used == UsedImports(z, calls)
           IN  LoadedAt(f, h, DriverTable(z, calls, arm) + NameOffset(used, j), NameEntrySize(used[j]),
                        <<"name of", used[j]>>)
  <1>. DEFINE s == DriverSections(z, calls, arm)
              used == UsedImports(z, calls)
              table == DriverTable(z, calls, arm)
              g == DriverImports(z, calls)
              c == DriverCode(z, calls, arm)
              b == NameOffset(used, j)
              m == NameEntrySize(used[j])
              what == <<"name of", used[j]>>
  <1>1. Measures(z) /\ arm \in BOOLEAN /\ calls \in Seq(Calls)
    BY DEF DriverOK
  <1>2. /\ used \in Seq(ImportCalls) /\ DOMAIN used = 1 .. Len(used) /\ Len(used) \in Nat
        /\ Len(used) # 0 => used # <<>>
        /\ used # <<>> => g = ImportSection(used)
    BY <1>1, DriverImportsAre
  <1>3. j \in 1 .. Len(used) /\ used # <<>>
    BY <1>2
  <1>4. c \in Files /\ c.size = z.code
    BY DriverCodeIs
  <1>5. PICK q \in 1 .. Len(s) : s[q].piece = g /\ Placed(s)[q].rva = table
    <2>1. s = DriverRaws(z, arm, c, g)
      BY DEF DriverSections
    <2>. QED
      BY <1>3, <1>4, <2>1, TableIs
  <1>6. Mapped(h, f, s)
    OBVIOUS
  <1>7. g = ImportSection(used) /\ m \in Nat
    <2>1. used[j] \in ImportCalls
      BY <1>2, <1>3
    <2>. QED
      BY <1>2, <1>3, <2>1, ImportsKnown
  <1>. HIDE DEF s, used, table, g, c
  <1>8. b \in Nat /\ Intact(g, b, m, what, 0)
    <2>1. \A i \in 1 .. Len(used) :
             /\ NameOffset(used, i) \in Nat
             /\ Intact(ImportSection(used), NameOffset(used, i), NameEntrySize(used[i]), <<"name of", used[i]>>, 0)
      BY <1>2, ImportsAre
    <2>. QED
      BY <1>3, <1>7, <2>1
  <1>. HIDE DEF b, m, what
  <1>9. LoadedAt(f, h, Placed(s)[q].rva + b, m, what)
    BY <1>5, <1>6, <1>7, <1>8, PartIsLoaded
  <1>10. LoadedAt(f, h, table + b, m, what)
    BY <1>5, <1>9
  <1>. QED
    BY <1>10 DEF used, table, b, m, what

LEMMA DriverIsRead ==
    ASSUME DriverOK(job.z, job.calls, job.arm), job.entry \in Nat,
           header = DriverPlan(job.z, job.entry, job.calls, job.arm).header,
           file = ImageOf(DriverPlan(job.z, job.entry, job.calls, job.arm))
    PROVE  DriverReads
  <1>. DEFINE z == job.z
              s == DriverSections(z, job.calls, job.arm)
              used == UsedImports(z, job.calls)
              table == DriverTable(z, job.calls, job.arm)
              c == DriverCode(z, job.calls, job.arm)
              plan == DriverPlan(z, job.entry, job.calls, job.arm)
              entry == SECTION_ALIGNMENT + job.entry
              directories == [imports |-> table, used |-> used,
                              function |-> Zone(SECTION_ALIGNMENT + job.entry, z.code - job.entry)]
              accepts == z.code > 0
  <1>1. Raws(s) /\ ZonesIn(s, z, c)
    BY DriverSectionsAre
  <1>2. Measures(z) /\ z.code \in Nat
    BY DEF DriverOK, Measures
  <1>3. c \in Files /\ c.size = z.code
    BY DriverCodeIs
  <1>4. Mapped(header, file, s) /\ header.entry = entry /\ header.directories = directories
    <2>. DEFINE no == FALSE
    <2>1. no \in BOOLEAN /\ header = plan.header /\ file = ImageOf(plan)
      OBVIOUS
    <2>2. plan = PePlan(accepts, s, entry, directories, no)
      BY DriverPlanIs
    <2>. HIDE DEF plan, no, entry, directories, accepts, s
    <2>. QED
      BY <1>1, <2>1, <2>2, PeMaps
  <1>5. InsideTheImage
    BY <1>4, AllInside
  <1>6. ZonesLoaded
    BY <1>1, <1>2, <1>4, ZonesAreLoaded
  <1>7. \A k \in DOMAIN job.calls :
           Patched(z, job.arm, job.calls[k].at) => CallReaches(file, header, job.calls[k], job.arm)
    BY <1>4, CallsReach
  <1>8. header.directories.used = used /\ header.directories.imports = table
        /\ header.directories.function = Zone(SECTION_ALIGNMENT + job.entry, z.code - job.entry)
    BY <1>4
  <1>9. \A j \in DOMAIN used :
           LoadedAt(file, header, table + NameOffset(used, j), NameEntrySize(used[j]), <<"name of", used[j]>>)
    BY <1>4, NamesAreLoaded
  <1>10. header.directories.function.offset + header.directories.function.size
            <= SECTION_ALIGNMENT + Placement(header, ".text").vsize
    <2>1. Len(s) # 0 /\ s[1] = Raw(".text", c)
      BY <1>1 DEF ZonesIn
    <2>. HIDE DEF s, c
    <2>2. s[1].name = ".text" /\ s[1].vsize = z.code
      BY <1>3, <2>1 DEF Raw
    <2>3. Placement(header, ".text") = Placed(s)[1] /\ Placed(s)[1].vsize = s[1].vsize
      BY <1>4, <2>1, <2>2, TextIs
    <2>4. Placement(header, ".text").vsize = z.code
      BY <2>2, <2>3
    <2>5. header.directories.function.offset = SECTION_ALIGNMENT + job.entry
          /\ header.directories.function.size = z.code - job.entry
      BY <1>8 DEF Zone
    <2>6. SECTION_ALIGNMENT \in Nat
      BY DEF SECTION_ALIGNMENT
    <2>. QED
      BY <1>2, <2>4, <2>5, <2>6
  <1>. HIDE DEF used, table, s
  <1>. QED
    BY <1>5, <1>6, <1>7, <1>8, <1>9, <1>10 DEF DriverReads

-----------------------------------------------------------------------------
(* Firmware. *)

LEMMA WholeHolds ==
    ASSUME NEW f, f.parts \in Seq(PartType), NEW at \in Int, NEW size \in Nat, NEW what,
           Whole(f.parts, at, size, what), Inside(f, at, size)
    PROVE  Holds(f, at, size, what)
  <1>. SUFFICES ASSUME size # 0 PROVE Holds(f, at, size, what)
    BY DEF Holds
  <1>1. Ranged(f.parts)
    BY Zenon, RangesAre DEF PartType
  <1>2. IntactIn(f.parts, at, size, what, 0)
    BY DEF Whole
  <1>3. Reads(f, at, size, what, 0)
    BY Zenon, <1>1, <1>2, RangeIsContent
  <1>. QED
    BY <1>3 DEF Reads, Holds

LEMMA RomIsRead ==
    ASSUME Fits(job), Written(file, job), header = RomPlanOf(job).header
    PROVE  RomReads
  <1>. DEFINE act == ActAt(job)
              Z == RomZones(job.z, act)
              h == HeaderInit("ROM!", [bits |-> job.bits])
              g == [h EXCEPT !.genesis = job.entry, !.zones = Z]
              code == job.z.code
              mirror == job.z.mirror
              truth == job.z.truth
              size == job.size
  <1>1. header = Sealed(g, "from zero")
    BY DEF RomPlanOf, RomPlan, Plan, RomHeader, ActAt
  <1>2. IsHeader(h, "ROM!")
    BY InitIs
  <1>3. IsHeader(g, "ROM!") /\ g.zones = Z
    <2>. HIDE DEF h, Z
    <2>. QED
      BY <1>2 DEF IsHeader, HeaderFields
  <1>4. header.zones = Z /\ HeaderValid(header)
    <2>. HIDE DEF g, Z
    <2>1. SealedBy(header, "from zero") /\ header.zones = Z /\ header.magic = "ROM!"
      BY Zenon, <1>1, <1>3, HeaderMade
    <2>. QED
      BY <2>1 DEF HeaderValid, AcceptedMagics
  <1>5. /\ Z.act.offset = act /\ Z.act.size = code
        /\ Z.mirror.offset = act + code /\ Z.mirror.size = mirror
        /\ Z.truth.offset = act + code + mirror /\ Z.truth.size = truth
    BY DEF RomZones, Zone
  <1>6. TagOf("act") = "code" /\ TagOf("mirror") = "mirror" /\ TagOf("truth") = "truth"
    BY DEF TagOf
  <1>7. RomParts(job, file.parts) /\ file.size = size
    BY FinalPartsAre DEF Written, Filed
  <1>8. /\ act \in Nat /\ act + code \in Nat /\ act + code + mirror \in Nat
        /\ act + code + mirror + truth <= size - ROM_RESET_VECTOR_SIZE
        /\ size \in Nat /\ code \in Nat /\ mirror \in Nat /\ truth \in Nat /\ size >= ROM_WINDOW_SIZE
    BY ZonesAre DEF Fits
  <1>. HIDE DEF act, Z, code, mirror, truth, size
  <1>9. /\ Inside(file, act, code) /\ Inside(file, act + code, mirror)
        /\ Inside(file, act + code + mirror, truth) /\ Inside(file, 0, HEADER_SIZE)
        /\ Inside(file, size - ROM_RESET_VECTOR_SIZE, ROM_RESET_VECTOR_SIZE)
        /\ size - ROM_RESET_VECTOR_SIZE \in Int /\ ROM_RESET_VECTOR_SIZE \in Nat /\ HEADER_SIZE \in Nat
        /\ 0 \in Int
    BY <1>7, <1>8 DEF Inside, ROM_RESET_VECTOR_SIZE, ROM_WINDOW_SIZE, HEADER_SIZE
  <1>10. /\ file.parts \in Seq(PartType)
         /\ size >= ROM_WINDOW_SIZE + HEADER_SIZE => Whole(file.parts, 0, HEADER_SIZE, "header")
         /\ Whole(file.parts, act, code, "code") /\ Whole(file.parts, act + code, mirror, "mirror")
         /\ Whole(file.parts, act + code + mirror, truth, "truth")
         /\ Whole(file.parts, size - ROM_RESET_VECTOR_SIZE, ROM_RESET_VECTOR_SIZE, "reset vector")
    BY Zenon, <1>7 DEF RomParts, act, code, mirror, truth, size, ResetVector
  <1>11. /\ act \in Int /\ act + code \in Int /\ act + code + mirror \in Int
    BY <1>8
  <1>12. size >= ROM_WINDOW_SIZE + HEADER_SIZE => HeaderThere
    BY Zenon, <1>9, <1>10, WholeHolds DEF HeaderThere
  <1>13. /\ Holds(file, act, code, "code") /\ Holds(file, act + code, mirror, "mirror")
         /\ Holds(file, act + code + mirror, truth, "truth")
         /\ Holds(file, size - ROM_RESET_VECTOR_SIZE, ROM_RESET_VECTOR_SIZE, "reset vector")
    BY Zenon, <1>8, <1>9, <1>10, <1>11, WholeHolds
  <1>14. ZonesHold({"act", "mirror", "truth"})
    <2>1. /\ Holds(file, header.zones["act"].offset, header.zones["act"].size, TagOf("act"))
          /\ Holds(file, header.zones["mirror"].offset, header.zones["mirror"].size, TagOf("mirror"))
          /\ Holds(file, header.zones["truth"].offset, header.zones["truth"].size, TagOf("truth"))
      BY <1>4, <1>5, <1>6, <1>13
    <2>. QED
      BY Zenon, <2>1 DEF ZonesHold
  <1>. QED
    BY <1>4, <1>7, <1>12, <1>13, <1>14 DEF RomReads, size

\* The plan of each format.
LEMMA ThePlanIs ==
    /\ job.format = "srv" => CurrentPlan = SrvPlan(job.z)
    /\ job.format = "hda" => CurrentPlan = HdaPlan(job.z)
    /\ job.format = "ax" => CurrentPlan = AxPlan(job.z)
    /\ job.format = "aetb" => CurrentPlan = AetbPlan(job.z)
    /\ job.format = "aki direct" => CurrentPlan = AkiDirect(job.z)
    /\ job.format = "srv direct" => CurrentPlan = SrvDirect(job.z)
    /\ job.format = "hda direct" => CurrentPlan = HdaDirect(job.z)
    /\ job.format = "iya" => CurrentPlan = IyaPlan(job.z.mirror, job.z.code)
    /\ job.format = "aki" => CurrentPlan = AkiPlan(KernelInput(job.z))
    /\ job.format = "aki woven" => CurrentPlan = AkiPlan(EmbryoInput(job.z))
    /\ job.format = "hda woven" => CurrentPlan = AsmHdaPlan(EmbryoInput(job.z))
    /\ job.format = "srv woven" => CurrentPlan = AsmSrvPlan(EmbryoInput(job.z))
    /\ job.format = "aetb woven" => CurrentPlan = AsmAetbPlan(EmbryoInput(job.z))
    /\ job.format = "efi" => CurrentPlan = EfiPlan(job.z, job.starts, job.entry)
    /\ job.format = "pe" => CurrentPlan = IndustrialPlan(job.z, job.entry)
    /\ job.format = "sys" => CurrentPlan = DriverPlan(job.z, job.entry, job.calls, job.arm)
    /\ job.format = "macho" => CurrentPlan = MachoPlan(job.z, job.base)
    /\ job.format = "bin" => CurrentPlan \in {BinPlan(job.z, job.entry, job.flat),
                                               BinFallbackPlan(job.z, job.entry, job.flat)}
    /\ job.format = "im4p" => CurrentPlan = IF stage = "temp" THEN MachoPlan(job.z, job.base)
                                            ELSE Im4pPlan(temp, job.identifier)
  <1>1. job.format = "srv" => CurrentPlan = SrvPlan(job.z)
    BY DEF CurrentPlan, PlanOf
  <1>2. job.format = "hda" => CurrentPlan = HdaPlan(job.z)
    BY DEF CurrentPlan, PlanOf
  <1>3. job.format = "ax" => CurrentPlan = AxPlan(job.z)
    BY DEF CurrentPlan, PlanOf
  <1>4. job.format = "aetb" => CurrentPlan = AetbPlan(job.z)
    BY DEF CurrentPlan, PlanOf
  <1>5. job.format = "aki direct" => CurrentPlan = AkiDirect(job.z)
    BY DEF CurrentPlan, PlanOf
  <1>6. job.format = "srv direct" => CurrentPlan = SrvDirect(job.z)
    BY DEF CurrentPlan, PlanOf
  <1>7. job.format = "hda direct" => CurrentPlan = HdaDirect(job.z)
    BY DEF CurrentPlan, PlanOf
  <1>8. job.format = "iya" => CurrentPlan = IyaPlan(job.z.mirror, job.z.code)
    BY DEF CurrentPlan, PlanOf
  <1>9. job.format = "aki" => CurrentPlan = AkiPlan(KernelInput(job.z))
    BY DEF CurrentPlan, PlanOf
  <1>10. job.format = "aki woven" => CurrentPlan = AkiPlan(EmbryoInput(job.z))
    BY DEF CurrentPlan, PlanOf
  <1>11. job.format = "hda woven" => CurrentPlan = AsmHdaPlan(EmbryoInput(job.z))
    BY DEF CurrentPlan, PlanOf
  <1>12. job.format = "srv woven" => CurrentPlan = AsmSrvPlan(EmbryoInput(job.z))
    BY DEF CurrentPlan, PlanOf
  <1>13. job.format = "aetb woven" => CurrentPlan = AsmAetbPlan(EmbryoInput(job.z))
    BY DEF CurrentPlan, PlanOf
  <1>14. job.format = "efi" => CurrentPlan = EfiPlan(job.z, job.starts, job.entry)
    BY DEF CurrentPlan, PlanOf
  <1>15. job.format = "pe" => CurrentPlan = IndustrialPlan(job.z, job.entry)
    BY DEF CurrentPlan, PlanOf
  <1>16. job.format = "sys" => CurrentPlan = DriverPlan(job.z, job.entry, job.calls, job.arm)
    BY DEF CurrentPlan, PlanOf
  <1>17. job.format = "macho" => CurrentPlan = MachoPlan(job.z, job.base)
    BY DEF CurrentPlan, PlanOf
  <1>18. job.format = "bin" => CurrentPlan \in {BinPlan(job.z, job.entry, job.flat),
                                                 BinFallbackPlan(job.z, job.entry, job.flat)}
    BY DEF CurrentPlan, PlanOf
  <1>19. job.format = "im4p" => CurrentPlan = IF stage = "temp" THEN MachoPlan(job.z, job.base)
                                             ELSE Im4pPlan(temp, job.identifier)
    BY DEF CurrentPlan, PlanOf
  <1>. QED
    BY Zenon, <1>1, <1>2, <1>3, <1>4, <1>5, <1>6, <1>7, <1>8, <1>9, <1>10, <1>11, <1>12, <1>13,
       <1>14, <1>15, <1>16, <1>17, <1>18, <1>19

\* The calls of a driver.
LEMMA DriverJob ==
    ASSUME job \in Jobs, job.format = "sys"
    PROVE  DriverOK(job.z, job.calls, job.arm) /\ job.entry \in Nat
  <1>1. Measures(job.z) /\ JobOK(job)
    BY JobIs
  <1>2. /\ job.entry \in Nat /\ job.arm \in BOOLEAN /\ MarkersApart(job)
        /\ job.calls \in Seq([at : Nat, name : DOMAIN ImportNames])
    BY <1>1 DEF JobOK
  <1>3. DOMAIN ImportNames = ImportCalls
    BY DEF ImportNames, ImportCalls
  <1>4. MarkersOf(job.calls, job.arm)
    BY <1>2 DEF MarkersApart, MarkersOf, PatchSize
  <1>. QED
    BY Zenon, <1>1, <1>2, <1>3, <1>4 DEF DriverOK, Calls

\* Whatever the format, the writes of its plan go to the end of the file.
LEMMA PlansAppend ==
    ASSUME job \in Jobs, job.format # "rom", CurrentPlan.accepts,
           job.format = "im4p" /\ stage # "temp" => temp \in Files
    PROVE  AppendOnly(CurrentPlan.writes)
  <1>. DEFINE p == CurrentPlan
  <1>. SUFFICES p.writes \in Seq(Appending)
    BY Appendable
  <1>1. Measures(job.z) /\ JobOK(job)
    BY JobIs
  <1>2. ASSUME job.format \in {"srv", "hda", "ax"} PROVE p.writes \in Seq(Appending)
    <2>1. \E init, id : p = ContiguousPlan(job.z, init, id)
      BY Zenon, <1>2, ThePlanIs DEF SrvPlan, HdaPlan, AxPlan
    <2>. QED
      BY Zenon, <1>1, <2>1, ContiguousAppends
  <1>3. ASSUME job.format = "aetb" PROVE p.writes \in Seq(Appending)
    BY Zenon, <1>1, <1>3, ThePlanIs, AetbFollows DEF Follows
  <1>4. ASSUME job.format \in {"aki direct", "srv direct", "hda direct"} PROVE p.writes \in Seq(Appending)
    <2>1. \E h, magic : \E s \in {AkiSections(job.z), SrvSections(job.z), HdaSections(job.z)} :
             p = SectionedPlan(h, magic, s)
      BY Zenon, <1>4, ThePlanIs DEF AkiDirect, SrvDirect, HdaDirect
    <2>2. \A s \in {AkiSections(job.z), SrvSections(job.z), HdaSections(job.z)} : Listed(s) /\ Present(s)
      BY Zenon, <1>1, DirectListed
    <2>. QED
      BY Zenon, <2>1, <2>2, DirectFollows DEF Follows
  <1>5. ASSUME job.format = "iya" PROVE p.writes \in Seq(Appending)
    <2>1. job.z.mirror \in Nat /\ job.z.code \in Nat
      BY <1>1 DEF Measures
    <2>. QED
      BY Zenon, <1>5, <2>1, ThePlanIs, IyaAppends
  <1>6. ASSUME job.format \in {"aki", "aki woven"} PROVE p.writes \in Seq(Appending)
    <2>1. \E in : Input(in) /\ p = AkiPlan(in)
      BY Zenon, <1>1, <1>6, ThePlanIs, KernelInputIs, EmbryoInputIs
    <2>. QED
      BY Zenon, <2>1, AkiAppends
  <1>7. ASSUME job.format \in {"hda woven", "srv woven", "aetb woven"} PROVE p.writes \in Seq(Appending)
    <2>1. Input(EmbryoInput(job.z))
      BY Zenon, <1>1, EmbryoInputIs
    <2>. QED
      BY Zenon, <1>7, <2>1, ThePlanIs, WovenPlansAppend
  <1>8. ASSUME job.format = "bin" PROVE p.writes \in Seq(Appending)
    <2>1. job.entry \in Nat /\ job.flat \in BOOLEAN
      BY <1>1, <1>8 DEF JobOK
    <2>2. p \in {BinPlan(job.z, job.entry, job.flat), BinFallbackPlan(job.z, job.entry, job.flat)}
      BY Zenon, <1>8, ThePlanIs
    <2>. HIDE DEF p
    <2>3. job.entry <= job.z.code
      BY Zenon, <1>1, <2>1, <2>2, BinAccepts DEF p
    <2>. QED
      BY Zenon, <1>1, <2>1, <2>2, <2>3, BinAppends DEF WritesOnce
  <1>9. ASSUME job.format = "efi" PROVE p.writes \in Seq(Appending)
    BY Zenon, <1>1, <1>9, ThePlanIs, EfiAppends
  <1>10. ASSUME job.format = "pe" PROVE p.writes \in Seq(Appending)
    BY Zenon, <1>1, <1>10, ThePlanIs, IndustrialAppends
  <1>11. ASSUME job.format = "sys" PROVE p.writes \in Seq(Appending)
    BY Zenon, <1>11, ThePlanIs, DriverJob, DriverAppends
  <1>12. ASSUME job.format = "macho" PROVE p.writes \in Seq(Appending)
    BY Zenon, <1>1, <1>12, ThePlanIs, MachoWrites DEF WritesOnce
  <1>13. ASSUME job.format = "im4p" PROVE p.writes \in Seq(Appending)
    <2>1. job.identifier \in Nat
      BY <1>1, <1>13 DEF JobOK
    <2>2. CASE stage = "temp"
      BY Zenon, <1>1, <1>13, <2>2, ThePlanIs, MachoWrites DEF WritesOnce
    <2>3. CASE stage # "temp"
      BY Zenon, <1>13, <2>1, <2>3, ThePlanIs, Im4pWrites DEF WritesOnce
    <2>. QED
      BY Zenon, <2>2, <2>3
  <1>14. job.format \in ImageFormats
    BY <1>1 DEF JobOK
  <1>. HIDE DEF p
  <1>. QED
    BY <1>2, <1>3, <1>4, <1>5, <1>6, <1>7, <1>8, <1>9, <1>10, <1>11, <1>12, <1>13, <1>14 DEF ImageFormats

-----------------------------------------------------------------------------
(* What is known of an image while it is written, and when it has been.    *)

TheMacho == MachoPlan(job.z, job.base)

Begun == CurrentPlan.accepts /\ header = CurrentPlan.header

InTheMaking == target = "file" /\ (job.format # "rom" => InProgress(file, todo, CurrentPlan.writes))

Made == job.format # "rom" => file = ImageOf(CurrentPlan)

ImageRun ==
    /\ stage = "temp" => job.format = "im4p"
    /\ job.format = "im4p" /\ stage # "temp" =>
          temp # NoFile /\ (~lost => TheMacho.accepts /\ temp = ImageOf(TheMacho))
    /\ pc = "writing" /\ ~lost => Begun /\ InTheMaking
    /\ pc \in {"returned", "done"} /\ result = 0 /\ ~lost => Begun /\ Made
    /\ pc = "done" /\ stage = "temp" => result # 0

IInv == job \in Jobs /\ pc \in Phases /\ ImageRun

LEMMA MachoAppends ==
    ASSUME NEW j \in Jobs
    PROVE  AppendOnly(MachoPlan(j.z, j.base).writes)
  <1>1. Measures(j.z)
    BY Zenon, JobIs
  <1>2. MachoPlan(j.z, j.base).writes \in Seq(Appending)
    BY Zenon, <1>1, MachoWrites DEF WritesOnce
  <1>. QED
    BY Zenon, <1>2, Appendable

LEMMA ThePlanAppends ==
    ASSUME job \in Jobs, job.format # "rom", CurrentPlan.accepts, ImageRun, ~lost
    PROVE  AppendOnly(CurrentPlan.writes)
  <1>1. ASSUME job.format = "im4p", stage # "temp" PROVE temp \in Files
    <2>1. TheMacho.accepts /\ temp = ImageOf(TheMacho)
      BY <1>1 DEF ImageRun
    <2>2. AppendOnly(TheMacho.writes)
      BY <2>1, MachoAppends DEF TheMacho
    <2>. QED
      BY <2>1, <2>2, ImageIsFile
  <1>. QED
    BY Zenon, <1>1, PlansAppend

LEMMA ImageInit == Init => IInv
BY DEF Init, IInv, ImageRun, Phases

LEMMA ImageStep == ASSUME IInv, [Next]_vars PROVE IInv'
  <1>0. job \in Jobs /\ pc \in Phases /\ ImageRun
    BY DEF IInv
  <1>1. CASE Refuse
    <2>1. /\ job' = job /\ stage' = stage /\ temp' = temp /\ lost' = lost
          /\ pc' = "returned" /\ result' = -1
      BY <1>1 DEF Refuse
    <2>. QED
      BY <1>0, <2>1 DEF IInv, ImageRun, Phases, TheMacho
  <1>2. CASE Open
    <2>1. /\ job' = job /\ stage' = stage /\ temp' = temp /\ pc = "start" /\ pc' = "writing"
          /\ CurrentPlan.accepts /\ todo' = CurrentPlan.writes /\ header' = CurrentPlan.header
          /\ target' = "file" /\ file' = EmptyFile /\ lost' = (lost /\ temp # NoFile)
      BY <1>2 DEF Open
    <2>2. CurrentPlan' = CurrentPlan
      BY <2>1 DEF CurrentPlan
    <2>3. ASSUME job.format = "im4p", stage # "temp" PROVE temp # NoFile /\ (lost' <=> lost)
      <3>1. temp # NoFile
        BY Zenon, <1>0, <2>3 DEF ImageRun
      <3>2. lost' = (lost /\ temp # NoFile)
        BY <2>1
      <3>. QED
        BY Zenon, <3>1, <3>2
    <2>4. ASSUME job.format # "rom", ~lost' PROVE InProgress(file', todo', CurrentPlan.writes)
      <3>1. ASSUME job.format = "im4p", stage # "temp" PROVE temp \in Files
        <4>1. ~lost
          BY <2>3, <2>4, <3>1
        <4>2. TheMacho.accepts /\ temp = ImageOf(TheMacho)
          BY <1>0, <3>1, <4>1 DEF ImageRun
        <4>3. AppendOnly(TheMacho.writes)
          BY <1>0, <4>2, MachoAppends DEF TheMacho
        <4>. QED
          BY <4>2, <4>3, ImageIsFile
      <3>2. AppendOnly(CurrentPlan.writes)
        BY Zenon, <1>0, <2>1, <2>4, <3>1, PlansAppend
      <3>. QED
        BY Zenon, <2>1, <3>2, ProgressBegins
    <2>. QED
      BY <1>0, <2>1, <2>2, <2>3, <2>4 DEF IInv, ImageRun, Phases, TheMacho, Begun, InTheMaking
  <1>3. CASE OpenFails
    <2>1. /\ job' = job /\ stage' = stage /\ temp' = temp /\ lost' = TRUE /\ pc' \in {"returned", "writing"}
      BY <1>3 DEF OpenFails
    <2>. QED
      BY <1>0, <2>1 DEF IInv, ImageRun, Phases, TheMacho
  <1>4. CASE SkipEmpty \/ WriteNext
    <2>1. /\ job' = job /\ stage' = stage /\ temp' = temp /\ header' = header /\ target' = target
          /\ lost' = lost /\ pc = "writing" /\ todo # <<>> /\ todo' = Tail(todo)
          /\ \/ pc' = "writing" /\ result' = result
             \/ pc' = "returned" /\ result' = -1
      BY <1>4 DEF SkipEmpty, WriteNext
    <2>2. CurrentPlan' = CurrentPlan
      BY <2>1 DEF CurrentPlan
    <2>3. ASSUME job.format # "rom", ~lost PROVE InProgress(file', todo', CurrentPlan.writes)
      <3>1. target = "file" /\ CurrentPlan.accepts /\ InProgress(file, todo, CurrentPlan.writes)
        BY <1>0, <2>1, <2>3 DEF ImageRun, InTheMaking, Begun
      <3>2. AppendOnly(CurrentPlan.writes)
        BY Zenon, <1>0, <2>3, <3>1, ThePlanAppends
      <3>3. /\ Head(todo).at = END_OF_FILE
            /\ InProgress(Appended(file, Head(todo).piece), todo', CurrentPlan.writes)
            /\ Head(todo).piece.size = 0 => InProgress(file, todo', CurrentPlan.writes)
        BY Zenon, <2>1, <3>1, <3>2, ProgressGoesOn
      <3>4. CASE SkipEmpty
        BY Zenon, <3>3, <3>4 DEF SkipEmpty
      <3>5. CASE WriteNext
        <4>1. file' = Put(Head(todo))
          BY <3>5 DEF WriteNext
        <4>2. Put(Head(todo)) = Appended(file, Head(todo).piece)
          BY <3>1, <3>3 DEF Put
        <4>. QED
          BY Zenon, <3>3, <4>1, <4>2
      <3>. QED
        BY <1>4, <3>4, <3>5
    <2>. QED
      BY <1>0, <2>1, <2>2, <2>3 DEF IInv, ImageRun, Phases, TheMacho, Begun, InTheMaking
  <1>5. CASE WriteFails
    <2>1. /\ job' = job /\ stage' = stage /\ temp' = temp /\ lost' = TRUE
          /\ pc = "writing" /\ pc' \in {"returned", pc}
      BY <1>5 DEF WriteFails
    <2>. QED
      BY <1>0, <2>1 DEF IInv, ImageRun, Phases, TheMacho
  <1>6. CASE Close
    <2>1. /\ job' = job /\ stage' = stage /\ temp' = temp /\ lost' = lost /\ header' = header
          /\ file' = file /\ pc = "writing" /\ todo = <<>> /\ pc' = "returned"
      BY <1>6 DEF Close
    <2>2. CurrentPlan' = CurrentPlan
      BY <2>1 DEF CurrentPlan
    <2>3. ASSUME job.format # "rom", ~lost PROVE file = ImageOf(CurrentPlan)
      <3>1. CurrentPlan.accepts /\ InProgress(file, <<>>, CurrentPlan.writes)
        BY <1>0, <2>1, <2>3 DEF ImageRun, InTheMaking, Begun
      <3>2. AppendOnly(CurrentPlan.writes)
        BY Zenon, <1>0, <2>3, <3>1, ThePlanAppends
      <3>. QED
        BY Zenon, <3>1, <3>2, ProgressEnds DEF ImageOf
    <2>. QED
      BY <1>0, <2>1, <2>2, <2>3 DEF IInv, ImageRun, Phases, TheMacho, Begun, Made
  <1>7. CASE FlushFails
    <2>1. /\ job' = job /\ stage' = stage /\ temp' = temp /\ lost' = TRUE /\ pc' = "returned"
      BY <1>7 DEF FlushFails
    <2>. QED
      BY <1>0, <2>1 DEF IInv, ImageRun, Phases, TheMacho
  <1>8. CASE Fallback
    <2>1. /\ job' = job /\ job.format = "bin" /\ stage' = "fallback" /\ temp' = temp /\ lost' = lost
          /\ pc' = "start"
      BY <1>8 DEF Fallback
    <2>. QED
      BY <1>0, <2>1 DEF IInv, ImageRun, Phases
  <1>9. CASE ReadBack
    <2>1. /\ job' = job /\ stage = "temp" /\ stage' = "main" /\ temp' = file /\ lost' = lost
          /\ pc = "returned" /\ result = 0 /\ file # NoFile /\ pc' = "start"
      BY <1>9 DEF ReadBack
    <2>2. job.format = "im4p" /\ CurrentPlan = TheMacho
      BY <1>0, <2>1 DEF ImageRun, CurrentPlan, PlanOf, TheMacho
    <2>3. ~lost => TheMacho.accepts /\ file = ImageOf(TheMacho)
      BY <1>0, <2>1, <2>2 DEF ImageRun, Begun, Made
    <2>. QED
      BY <1>0, <2>1, <2>2, <2>3 DEF IInv, ImageRun, Phases, TheMacho
  <1>10. CASE Finish
    <2>1. /\ job' = job /\ stage' = stage /\ temp' = temp /\ lost' = lost /\ header' = header
          /\ result' = result /\ pc = "returned" /\ pc' = "done" /\ (result = 0 => file' = file)
          /\ (stage = "temp" => result # 0)
      BY <1>10 DEF Finish
    <2>2. CurrentPlan' = CurrentPlan
      BY <2>1 DEF CurrentPlan
    <2>. QED
      BY <1>0, <2>1, <2>2 DEF IInv, ImageRun, Phases, TheMacho, Begun, Made
  <1>11. CASE Running
    <2>1. /\ job' = job /\ stage' = stage /\ temp' = temp /\ lost' = lost /\ pc' = "running"
      BY <1>11 DEF Running, PowerOn, CpuReset, CpuStep
    <2>. QED
      BY <1>0, <2>1 DEF IInv, ImageRun, Phases, TheMacho
  <1>12. CASE UNCHANGED vars
    <2>1. CurrentPlan' = CurrentPlan
      BY <1>12 DEF vars, CurrentPlan
    <2>. QED
      BY <1>0, <1>12, <2>1 DEF vars, IInv, ImageRun, Phases, TheMacho, Begun, InTheMaking, Made
  <1>. QED
    BY <1>1, <1>2, <1>3, <1>4, <1>5, <1>6, <1>7, <1>8, <1>9, <1>10, <1>11, <1>12 DEF Next, Writing

LEMMA ImagesShown == ASSUME IInv, RInv PROVE ImagesReadBack
  <1>. SUFFICES ASSUME Succeeded PROVE ImagesReadBack
    BY DEF ImagesReadBack
  <1>1. /\ job \in Jobs /\ pc = "done" /\ result = 0 /\ ~lost /\ CurrentPlan.accepts
        /\ header = CurrentPlan.header /\ (job.format # "rom" => file = ImageOf(CurrentPlan))
        /\ stage # "temp" /\ ImageRun
    BY DEF Succeeded, IInv, ImageRun, Begun, Made
  <1>2. Measures(job.z) /\ JobOK(job)
    BY <1>1, JobIs
  <1>3. job.format \in ImageFormats
    BY <1>2 DEF JobOK
  <1>4. ASSUME job.format \in {"srv", "hda", "ax"} PROVE CommonReads
    <2>1. {"SRV!", "HDA!", "AEX!"} \subseteq AcceptedMagics
      BY DEF AcceptedMagics
    <2>2. IsHeader(SrvHeader, "SRV!") /\ IsHeader(HdaHeader, "HDA!") /\ IsHeader(AxHeader, "AEX!")
      BY Zenon, InitIs DEF SrvHeader, HdaHeader, AxHeader
    <2>3. \E magic \in AcceptedMagics : \E init, id :
             IsHeader(init, magic) /\ CurrentPlan = ContiguousPlan(job.z, init, id)
      <3>1. "SRV!" \in AcceptedMagics /\ "HDA!" \in AcceptedMagics /\ "AEX!" \in AcceptedMagics
        BY <2>1
      <3>. QED
        BY Zenon, <1>4, <2>2, <3>1, ThePlanIs DEF SrvPlan, HdaPlan, AxPlan
    <2>. QED
      BY Zenon, <1>1, <1>2, <1>4, <2>3, ContiguousReads
  <1>5. ASSUME NEW magic, NEW s \in {AkiSections(job.z), SrvSections(job.z), HdaSections(job.z)}, NEW specific,
               CurrentPlan = SectionedPlan(DirectHeader(magic, specific), magic, s), job.format # "rom"
        PROVE  DirectReads(magic)
    <2>1. Listed(s) /\ Present(s)
      BY Zenon, <1>2, DirectListed
    <2>. QED
      BY Zenon, <1>1, <1>5, <2>1, DirectIsRead
  <1>6. ASSUME job.format = "aki direct" PROVE DirectReads("AKI!")
    BY Zenon, <1>5, <1>6, ThePlanIs DEF AkiDirect
  <1>7. ASSUME job.format = "srv direct" PROVE DirectReads("SRV!")
    BY Zenon, <1>5, <1>7, ThePlanIs DEF SrvDirect
  <1>8. ASSUME job.format = "hda direct" PROVE DirectReads("HDA!")
    BY Zenon, <1>5, <1>8, ThePlanIs DEF HdaDirect
  <1>9. ASSUME job.format = "aetb" PROVE AetbReads
    BY Zenon, <1>1, <1>2, <1>9, ThePlanIs, AetbIsRead
  <1>10. ASSUME job.format = "iya" PROVE IyaReads
    <2>1. job.z.mirror \in Nat /\ job.z.code \in Nat
      BY <1>2 DEF Measures
    <2>. QED
      BY Zenon, <1>1, <1>10, <2>1, ThePlanIs, IyaIsRead
  <1>11. ASSUME job.format = "aki" PROVE AkiReads
    BY Zenon, <1>1, <1>2, <1>11, ThePlanIs, AkiIsRead
  <1>12. ASSUME job.format = "aki woven" PROVE AkiWovenReads
    <2>1. CurrentPlan = AkiPlan(EmbryoInput(job.z))
      BY Zenon, <1>12, ThePlanIs
    <2>2. AkiPlan(EmbryoInput(job.z)).accepts => EmbryoInput(job.z).act.size > 0
      BY DEF AkiPlan, AsmPlan, OnHost, Plan
    <2>3. EmbryoInput(job.z).act.size = job.z.code
      BY DEF EmbryoInput, Piece
    <2>4. job.z.code # 0
      BY <1>1, <2>1, <2>2, <2>3
    <2>. QED
      BY Zenon, <1>1, <1>2, <1>12, <2>1, <2>4, AkiWovenIsRead
  <1>13. ASSUME job.format = "bin" PROVE BinReads
    <2>1. job.entry \in Nat /\ job.flat \in BOOLEAN
      BY <1>2, <1>13 DEF JobOK
    <2>. QED
      BY Zenon, <1>1, <1>2, <1>13, <2>1, ThePlanIs, BinIsRead
  <1>14. ASSUME job.format = "efi" PROVE EfiReads
    <2>1. job.entry \in Nat /\ \A place \in DOMAIN job.starts : place \in Nat /\ job.starts[place] \in Nat
      BY <1>2, <1>14 DEF JobOK
    <2>. QED
      BY Zenon, <1>1, <1>2, <1>14, <2>1, ThePlanIs, EfiIsRead
  <1>15. ASSUME job.format = "pe" PROVE PeReads
    <2>1. job.entry \in Nat
      BY <1>2, <1>15 DEF JobOK
    <2>. QED
      BY Zenon, <1>1, <1>2, <1>15, <2>1, ThePlanIs, IndustrialIsRead
  <1>16. ASSUME job.format = "sys" PROVE DriverReads
    BY Zenon, <1>1, <1>16, DriverJob, ThePlanIs, DriverIsRead
  <1>17. ASSUME job.format = "macho" PROVE SegmentsHold(0)
    BY Zenon, <1>1, <1>2, <1>17, ThePlanIs, MachoIsRead
  <1>18. ASSUME job.format = "im4p" PROVE Im4pReads
    <2>1. job.identifier \in Nat
      BY <1>2, <1>18 DEF JobOK
    <2>2. temp = ImageOf(TheMacho)
      BY <1>1, <1>18 DEF ImageRun
    <2>3. file = ImageOf(Im4pPlan(temp, job.identifier))
      BY Zenon, <1>1, <1>18, ThePlanIs
    <2>. QED
      BY Zenon, <1>2, <2>1, <2>2, <2>3, Im4pIsRead DEF TheMacho
  <1>19. ASSUME job.format = "rom" PROVE RomReads
    <2>1. Fits(job) /\ Written(file, job)
      BY <1>1, <1>19 DEF RInv, RomRun
    <2>2. header = RomPlanOf(job).header
      BY Zenon, <1>1, <1>19, RomPlanUsed
    <2>. QED
      BY Zenon, <2>1, <2>2, RomIsRead
  <1>20. ASSUME job.format \in {"hda woven", "srv woven", "aetb woven"} PROVE WovenReads
    BY Zenon, <1>1, <1>2, <1>20, ThePlanIs, WovenIsRead
  <1>21. job.format = "srv" => ImagesReadBack
    BY <1>4 DEF ImagesReadBack
  <1>22. job.format = "hda" => ImagesReadBack
    BY <1>4 DEF ImagesReadBack
  <1>23. job.format = "ax" => ImagesReadBack
    BY <1>4 DEF ImagesReadBack
  <1>24. job.format = "aki direct" => ImagesReadBack
    BY <1>6 DEF ImagesReadBack
  <1>25. job.format = "srv direct" => ImagesReadBack
    BY <1>7 DEF ImagesReadBack
  <1>26. job.format = "hda direct" => ImagesReadBack
    BY <1>8 DEF ImagesReadBack
  <1>27. job.format = "aetb" => ImagesReadBack
    BY <1>9 DEF ImagesReadBack
  <1>28. job.format = "iya" => ImagesReadBack
    BY <1>10 DEF ImagesReadBack
  <1>29. job.format = "aki" => ImagesReadBack
    BY <1>11 DEF ImagesReadBack
  <1>30. job.format = "aki woven" => ImagesReadBack
    BY <1>12 DEF ImagesReadBack
  <1>31. job.format = "bin" => ImagesReadBack
    BY <1>13 DEF ImagesReadBack
  <1>32. job.format = "efi" => ImagesReadBack
    BY <1>14 DEF ImagesReadBack
  <1>33. job.format = "pe" => ImagesReadBack
    BY <1>15 DEF ImagesReadBack
  <1>34. job.format = "sys" => ImagesReadBack
    BY <1>16 DEF ImagesReadBack
  <1>35. job.format = "macho" => ImagesReadBack
    BY <1>17 DEF ImagesReadBack
  <1>36. job.format = "im4p" => ImagesReadBack
    BY <1>18 DEF ImagesReadBack
  <1>37. job.format = "rom" => ImagesReadBack
    BY <1>19 DEF ImagesReadBack
  <1>38. job.format = "hda woven" => ImagesReadBack
    BY <1>20 DEF ImagesReadBack
  <1>39. job.format = "srv woven" => ImagesReadBack
    BY <1>20 DEF ImagesReadBack
  <1>40. job.format = "aetb woven" => ImagesReadBack
    BY <1>20 DEF ImagesReadBack
  <1>. QED
    BY Zenon, <1>3, <1>21, <1>22, <1>23, <1>24, <1>25, <1>26, <1>27, <1>28, <1>29, <1>30, <1>31,
       <1>32, <1>33, <1>34, <1>35, <1>36, <1>37, <1>38, <1>39, <1>40 DEF ImageFormats

(* Every successful write of whatever format, of bytes that all arrived,   *)
(* is an image whose headers lead to what they announce.                   *)
THEOREM SuccessfulImagesReadBack == Spec => []ImagesReadBack
  <1>1. Init => IInv /\ RInv
    BY ImageInit, RomInit
  <1>2. IInv /\ RInv /\ [Next]_vars => (IInv /\ RInv)'
    BY ImageStep, RomStep
  <1>3. IInv /\ RInv => ImagesReadBack
    BY ImagesShown
  <1>. QED
    BY <1>1, <1>2, <1>3, PTL DEF Spec

=============================================================================

-------------------------- MODULE ContainersProofs --------------------------
(***************************************************************************)
(* The image writers, for every job.  First what can be said of files that *)
(* are written range by range (BinaryFile): of a copy or of a row of them, *)
(* which bytes hold it and which are left as they were.  Then the boot     *)
(* images, what a reported success means, and the passes over firmware.    *)
(***************************************************************************)
EXTENDS ContainersCorrect, DataInduction, TLAPS

-----------------------------------------------------------------------------
(* Files that can be reasoned about: their parts lie inside them, and none *)
(* of them is empty.                                                       *)

ImportCalls == {"DbgPrint", "ExAllocatePoolWithTag", "IoCreateDevice"}
DataTags ==
    {"header", "code", "code from the entry", "mirror", "truth", "reloc", "symtab", "strtab", "aethela",
     "schema", "manifest", "aetb", "nops", "zeros", "dictionary", "engine", "manifests", "padding", "nexus",
     "aetb header", "unwind", "descriptors", "lookup", "end", "library", "commands", "tag", "IM4P",
     "identifier", "description"}
    \cup ({"slot of", "name of"} \X ImportCalls)
    \cup ({"distance", "loads"} \X Int)
DataParts == [at : Nat, size : Nat \ {0}, what : DataTags]
Ends(part) == part.at + part.size
Files ==
    {f \in [size : Nat, parts : Seq(DataParts)] : \A i \in 1 .. Len(f.parts) : Ends(f.parts[i]) <= f.size}

(* A range of n bytes holds the data of one copy, from a place in it on:   *)
(* nothing copied later touches it.                                        *)
IntactIn(parts, at, n, what, from) ==
    \E i \in 1 .. Len(parts) :
        /\ parts[i].at <= at /\ at + n <= Ends(parts[i])
        /\ parts[i].what = what /\ from = at - parts[i].at
        /\ \A k \in i + 1 .. Len(parts) : Ends(parts[k]) <= at \/ at + n <= parts[k].at
Intact(f, at, n, what, from) == n # 0 => IntactIn(f.parts, at, n, what, from)

LEMMA FileIs ==
    ASSUME NEW f \in Files
    PROVE  /\ f = [size |-> f.size, parts |-> f.parts] /\ f.size \in Nat /\ f.parts \in Seq(DataParts)
           /\ DOMAIN f.parts = 1 .. Len(f.parts) /\ Len(f.parts) \in Nat
           /\ \A i \in 1 .. Len(f.parts) :
                 /\ f.parts[i] = [at |-> f.parts[i].at, size |-> f.parts[i].size, what |-> f.parts[i].what]
                 /\ f.parts[i].at \in Nat /\ f.parts[i].size \in Nat /\ f.parts[i].size # 0
                 /\ f.parts[i].what \in DataTags /\ Ends(f.parts[i]) <= f.size
  <1>1. f \in [size : Nat, parts : Seq(DataParts)] /\ \A i \in 1 .. Len(f.parts) : Ends(f.parts[i]) <= f.size
    BY DEF Files
  <1>2. f = [size |-> f.size, parts |-> f.parts] /\ f.size \in Nat /\ f.parts \in Seq(DataParts)
    BY <1>1
  <1>. DEFINE s == f.parts
  <1>. HIDE DEF s
  <1>3. DOMAIN s = 1 .. Len(s) /\ Len(s) \in Nat /\ \A i \in 1 .. Len(s) : s[i] \in DataParts
    BY <1>2 DEF s
  <1>4. \A p \in DataParts : /\ p = [at |-> p.at, size |-> p.size, what |-> p.what]
                             /\ p.at \in Nat /\ p.size \in Nat /\ p.size # 0 /\ p.what \in DataTags
    BY DEF DataParts
  <1>5. \A i \in 1 .. Len(s) :
           /\ s[i] = [at |-> s[i].at, size |-> s[i].size, what |-> s[i].what]
           /\ s[i].at \in Nat /\ s[i].size \in Nat /\ s[i].size # 0 /\ s[i].what \in DataTags
    BY Zenon, <1>3, <1>4
  <1>. QED
    BY <1>1, <1>2, <1>3, <1>5 DEF s

LEMMA IsFile ==
    ASSUME NEW size \in Nat, NEW parts \in Seq(DataParts), \A i \in 1 .. Len(parts) : Ends(parts[i]) <= size
    PROVE  [size |-> size, parts |-> parts] \in Files
BY DEF Files

\* A part of a range that is intact.
LEMMA IntactWithin ==
    ASSUME NEW f \in Files, NEW at \in Int, NEW n \in Nat, NEW what, NEW from \in Int,
           Intact(f, at, n, what, from),
           NEW b \in Int, NEW m \in Nat, at <= b, b + m <= at + n
    PROVE  Intact(f, b, m, what, from + b - at)
  <1>. SUFFICES ASSUME m # 0 PROVE IntactIn(f.parts, b, m, what, from + b - at)
    BY DEF Intact
  <1>1. IntactIn(f.parts, at, n, what, from)
    BY DEF Intact
  <1>. DEFINE s == f.parts
  <1>2. Len(s) \in Nat /\ \A i \in 1 .. Len(s) : s[i].at \in Nat /\ s[i].size \in Nat
    BY FileIs
  <1>. HIDE DEF s
  <1>3. PICK i \in 1 .. Len(s) :
           /\ s[i].at <= at /\ at + n <= Ends(s[i]) /\ s[i].what = what /\ from = at - s[i].at
           /\ \A k \in i + 1 .. Len(s) : Ends(s[k]) <= at \/ at + n <= s[k].at
    BY <1>1 DEF IntactIn, s
  <1>4. s[i].at <= b /\ b + m <= Ends(s[i]) /\ from + b - at = b - s[i].at
    BY <1>2, <1>3 DEF Ends
  <1>5. \A k \in i + 1 .. Len(s) : Ends(s[k]) <= b \/ b + m <= s[k].at
    <2>. TAKE k \in i + 1 .. Len(s)
    <2>1. s[k].at \in Nat /\ s[k].size \in Nat
      BY <1>2
    <2>2. Ends(s[k]) <= at \/ at + n <= s[k].at
      BY <1>3
    <2>. QED
      BY <2>1, <2>2 DEF Ends
  <1>. QED
    BY <1>3, <1>4, <1>5 DEF IntactIn, s

\* What a reader finds in such a range.
RangeType(W) == [at : Int, size : Nat, what : W]
Ranged(parts) ==
    /\ Len(parts) \in Nat /\ DOMAIN parts = 1 .. Len(parts)
    /\ \A i \in 1 .. Len(parts) : parts[i].at \in Int /\ parts[i].size \in Nat
LEMMA RangesAre == \A W : \A parts \in Seq(RangeType(W)) : Ranged(parts)
  <1>. SUFFICES ASSUME NEW W, NEW parts \in Seq(RangeType(W)) PROVE Ranged(parts)
    OBVIOUS
  <1>1. \A p \in RangeType(W) : p.at \in Int /\ p.size \in Nat
    BY DEF RangeType
  <1>2. Len(parts) \in Nat /\ DOMAIN parts = 1 .. Len(parts) /\ \A i \in 1 .. Len(parts) : parts[i] \in RangeType(W)
    OBVIOUS
  <1>. QED
    BY <1>1, <1>2 DEF Ranged

Reads(f, at, n, what, from) == Content(f, at, n) = [what |-> what, from |-> from]
LEMMA RangeIsContent ==
    ASSUME NEW f, Ranged(f.parts), NEW at \in Int, NEW n \in Nat, NEW what, NEW from,
           IntactIn(f.parts, at, n, what, from), n # 0
    PROVE  Reads(f, at, n, what, from)
  <1>. DEFINE s == f.parts
              touching == {i \in DOMAIN s : Overlaps(s[i], at, n)}
              latest == CHOOSE i \in touching : \A j \in touching : j <= i
              part == s[latest]
  <1>1. Len(s) \in Nat /\ DOMAIN s = 1 .. Len(s) /\ \A i \in 1 .. Len(s) : s[i].at \in Int /\ s[i].size \in Nat
    BY DEF Ranged
  <1>2. Content(f, at, n) = IF touching = {} THEN Mixture
                            ELSE IF part.at <= at /\ at + n <= part.at + part.size
                                 THEN [what |-> part.what, from |-> at - part.at]
                                 ELSE Mixture
    BY DEF Content
  <1>. HIDE DEF s
  <1>3. PICK i \in 1 .. Len(s) :
           /\ s[i].at <= at /\ at + n <= Ends(s[i]) /\ s[i].what = what /\ from = at - s[i].at
           /\ \A k \in i + 1 .. Len(s) : Ends(s[k]) <= at \/ at + n <= s[k].at
    BY DEF IntactIn, s
  <1>4. i \in touching
    BY <1>1, <1>3 DEF Overlaps, Ends
  <1>5. \A j \in touching : j <= i
    <2>. SUFFICES ASSUME NEW j \in touching, j > i PROVE FALSE
      BY <1>1
    <2>1. j \in i + 1 .. Len(s) /\ s[j].at \in Int /\ s[j].size \in Nat
      BY <1>1
    <2>2. Ends(s[j]) <= at \/ at + n <= s[j].at
      BY <1>3, <2>1
    <2>3. s[j].at < at + n /\ at < s[j].at + s[j].size
      BY DEF Overlaps
    <2>. QED
      BY <2>1, <2>2, <2>3 DEF Ends
  <1>6. \A j \in touching : j \in Int
    BY <1>1
  <1>. HIDE DEF touching
  <1>7. latest = i
    <2>1. \A x \in touching : (\A j \in touching : j <= x) => x = i
      BY <1>4, <1>5, <1>6
    <2>. QED
      BY <1>4, <1>5, <2>1
  <1>. HIDE DEF latest
  <1>. QED
    BY <1>2, <1>3, <1>4, <1>7 DEF Ends, Reads

LEMMA IntactIsContent ==
    ASSUME NEW f \in Files, NEW at \in Int, NEW n \in Nat, NEW what, NEW from, n # 0,
           Intact(f, at, n, what, from)
    PROVE  /\ Content(f, at, n) = [what |-> what, from |-> from]
           /\ Inside(f, at, n) /\ from \in Nat /\ what \in DataTags
  <1>1. f.parts \in Seq(DataParts) /\ f.size \in Nat
    BY FileIs
  <1>2. DataParts \subseteq RangeType(DataTags)
    BY DEF DataParts, RangeType
  <1>3. Ranged(f.parts)
    BY <1>1, <1>2, RangesAre
  <1>4. IntactIn(f.parts, at, n, what, from)
    BY DEF Intact
  <1>. DEFINE s == f.parts
  <1>5. \A i \in 1 .. Len(s) : s[i].at \in Nat /\ s[i].size \in Nat /\ s[i].what \in DataTags
                              /\ Ends(s[i]) <= f.size
    BY FileIs
  <1>. HIDE DEF s
  <1>6. PICK i \in 1 .. Len(s) :
           s[i].at <= at /\ at + n <= Ends(s[i]) /\ s[i].what = what /\ from = at - s[i].at
    BY <1>4 DEF IntactIn, s
  <1>7. Inside(f, at, n) /\ from \in Nat /\ what \in DataTags
    BY <1>1, <1>5, <1>6 DEF Inside, Ends
  <1>8. Content(f, at, n) = [what |-> what, from |-> from]
    <2>1. Reads(f, at, n, what, from)
      BY Zenon, <1>3, <1>4, RangeIsContent
    <2>. QED
      BY <2>1 DEF Reads
  <1>. QED
    BY Zenon, <1>7, <1>8

\* What a further copy does to the ranges it covers, and to those it leaves alone.
LEMMA IntactAfter ==
    ASSUME NEW W, NEW parts \in Seq(RangeType(W)), NEW part \in RangeType(W),
           NEW at \in Int, NEW n \in Nat
    PROVE  /\ parts \o <<part>> \in Seq(RangeType(W))
           /\ part.at <= at /\ at + n <= Ends(part) =>
                 IntactIn(parts \o <<part>>, at, n, part.what, at - part.at)
           /\ Ends(part) <= at \/ at + n <= part.at => \A what, from :
                 IntactIn(parts, at, n, what, from) => IntactIn(parts \o <<part>>, at, n, what, from)
  <1>. DEFINE more == parts \o <<part>>
  <1>1. /\ more \in Seq(RangeType(W)) /\ Len(more) = Len(parts) + 1 /\ Len(parts) \in Nat
        /\ more[Len(parts) + 1] = part
        /\ \A i \in 1 .. Len(parts) : more[i] = parts[i]
    OBVIOUS
  <1>. HIDE DEF more
  <1>2. ASSUME part.at <= at, at + n <= Ends(part) PROVE IntactIn(more, at, n, part.what, at - part.at)
    <2>1. Len(parts) + 1 \in 1 .. Len(more) /\ \A k \in Len(parts) + 1 + 1 .. Len(more) : FALSE
      BY <1>1
    <2>. QED
      BY <1>1, <1>2, <2>1 DEF IntactIn
  <1>3. ASSUME Ends(part) <= at \/ at + n <= part.at,
               NEW what, NEW from, IntactIn(parts, at, n, what, from)
        PROVE  IntactIn(more, at, n, what, from)
    <2>1. PICK i \in 1 .. Len(parts) :
             /\ parts[i].at <= at /\ at + n <= Ends(parts[i])
             /\ parts[i].what = what /\ from = at - parts[i].at
             /\ \A k \in i + 1 .. Len(parts) : Ends(parts[k]) <= at \/ at + n <= parts[k].at
      BY <1>3 DEF IntactIn
    <2>2. i \in 1 .. Len(more) /\ more[i] = parts[i]
      BY <1>1
    <2>3. \A k \in i + 1 .. Len(more) : Ends(more[k]) <= at \/ at + n <= more[k].at
      <3>. TAKE k \in i + 1 .. Len(more)
      <3>1. k \in i + 1 .. Len(parts) \/ k = Len(parts) + 1
        BY <1>1
      <3>. QED
        BY <1>1, <1>3, <2>1, <3>1
    <2>. QED
      BY <2>1, <2>2, <2>3 DEF IntactIn
  <1>. QED
    BY <1>1, <1>2, <1>3 DEF more

\* A byte of such a range.
FoundIn(parts, at, what, from) == IntactIn(parts, at, 1, what, from)
LEMMA IntactByte ==
    ASSUME NEW W, NEW parts \in Seq(RangeType(W)), NEW at \in Int, NEW n \in Nat, NEW what,
           IntactIn(parts, at, n, what, 0), NEW k \in Nat, k < n
    PROVE  FoundIn(parts, at + k, what, k)
  <1>1. \A i \in 1 .. Len(parts) : parts[i].at \in Int /\ parts[i].size \in Nat
    BY RangesAre DEF Ranged
  <1>2. PICK i \in 1 .. Len(parts) :
           /\ parts[i].at <= at /\ at + n <= Ends(parts[i])
           /\ parts[i].what = what /\ 0 = at - parts[i].at
           /\ \A m \in i + 1 .. Len(parts) : Ends(parts[m]) <= at \/ at + n <= parts[m].at
    BY DEF IntactIn
  <1>. DEFINE b == at + k
  <1>3. parts[i].at <= b /\ b + 1 <= Ends(parts[i]) /\ k = b - parts[i].at
    BY <1>1, <1>2 DEF Ends
  <1>4. \A m \in i + 1 .. Len(parts) : Ends(parts[m]) <= b \/ b + 1 <= parts[m].at
    <2>. TAKE m \in i + 1 .. Len(parts)
    <2>1. parts[m].at \in Int /\ parts[m].size \in Nat
      BY <1>1
    <2>2. Ends(parts[m]) <= at \/ at + n <= parts[m].at
      BY <1>2
    <2>. QED
      BY <2>1, <2>2 DEF Ends
  <1>. HIDE DEF b
  <1>5. IntactIn(parts, b, 1, what, k)
    BY Zenon, <1>2, <1>3, <1>4 DEF IntactIn
  <1>. QED
    BY <1>5 DEF FoundIn, b

LEMMA IntactHolds ==
    ASSUME NEW f \in Files, NEW at \in Int, NEW n \in Nat, NEW what, Intact(f, at, n, what, 0)
    PROVE  Holds(f, at, n, what)
BY IntactIsContent DEF Holds

-----------------------------------------------------------------------------
(* Copies into such files. *)

LEMMA ShiftedIs ==
    ASSUME NEW q \in Seq(DataParts), NEW by \in Nat
    PROVE  /\ Shifted(q, by) \in Seq(DataParts) /\ Len(Shifted(q, by)) = Len(q)
           /\ \A i \in 1 .. Len(q) : /\ Shifted(q, by)[i].at = q[i].at + by
                                     /\ Shifted(q, by)[i].size = q[i].size
                                     /\ Shifted(q, by)[i].what = q[i].what
  <1>. DEFINE s == Shifted(q, by)
              moved(p) == [p EXCEPT !.at = @ + by]
  <1>1. DOMAIN q = 1 .. Len(q) /\ Len(q) \in Nat /\ \A i \in 1 .. Len(q) : q[i] \in DataParts
    OBVIOUS
  <1>2. s = [i \in 1 .. Len(q) |-> moved(q[i])]
    BY <1>1 DEF Shifted
  <1>3. \A p \in DataParts : /\ moved(p) \in DataParts /\ moved(p).at = p.at + by
                             /\ moved(p).size = p.size /\ moved(p).what = p.what
    <2>. TAKE p \in DataParts
    <2>1. /\ p = [at |-> p.at, size |-> p.size, what |-> p.what]
          /\ p.at \in Nat /\ p.size \in Nat \ {0} /\ p.what \in DataTags
      BY DEF DataParts
    <2>2. moved(p) = [at |-> p.at + by, size |-> p.size, what |-> p.what]
      BY <2>1
    <2>3. p.at + by \in Nat
      BY <2>1
    <2>. HIDE DEF moved
    <2>. QED
      BY <2>1, <2>2, <2>3 DEF DataParts
  <1>. HIDE DEF moved, s
  <1>4. \A i \in 1 .. Len(q) : /\ s[i] \in DataParts /\ s[i].at = q[i].at + by
                               /\ s[i].size = q[i].size /\ s[i].what = q[i].what
    BY <1>1, <1>2, <1>3
  <1>5. s \in Seq(DataParts) /\ Len(s) = Len(q)
    BY <1>1, <1>2, <1>4
  <1>. QED
    BY <1>4, <1>5 DEF s

\* Joined(parts, f, at, p): what a file's parts become.
Over(f, at, p) == f.parts \o Shifted(p.parts, at)

LEMMA OverIs ==
    ASSUME NEW f \in Files, NEW p \in Files, NEW at \in Nat
    PROVE  LET s == Over(f, at, p)
           IN  /\ s \in Seq(DataParts) /\ Len(s) = Len(f.parts) + Len(p.parts)
               /\ \A i \in 1 .. Len(f.parts) : s[i] = f.parts[i]
               /\ \A i \in 1 .. Len(p.parts) :
                     /\ s[Len(f.parts) + i].at = p.parts[i].at + at
                     /\ s[Len(f.parts) + i].size = p.parts[i].size
                     /\ s[Len(f.parts) + i].what = p.parts[i].what
  <1>. DEFINE a == f.parts
              b == Shifted(p.parts, at)
  <1>1. a \in Seq(DataParts) /\ p.parts \in Seq(DataParts)
    BY FileIs
  <1>2. b \in Seq(DataParts) /\ Len(b) = Len(p.parts)
        /\ \A i \in 1 .. Len(p.parts) : /\ b[i].at = p.parts[i].at + at /\ b[i].size = p.parts[i].size
                                        /\ b[i].what = p.parts[i].what
    BY <1>1, ShiftedIs
  <1>. HIDE DEF a, b
  <1>4. a \in Seq(DataParts) /\ b \in Seq(DataParts)
    BY <1>1, <1>2
  <1>3. /\ a \o b \in Seq(DataParts) /\ Len(a \o b) = Len(a) + Len(b)
        /\ (\A i \in 1 .. Len(a) : (a \o b)[i] = a[i])
        /\ (\A i \in 1 .. Len(b) : (a \o b)[Len(a) + i] = b[i])
    BY <1>4
  <1>. QED
    BY <1>2, <1>3 DEF a, b, Over

\* Both parts of what results end inside it, if there is room.
LEMMA OverEnds ==
    ASSUME NEW f \in Files, NEW p \in Files, NEW at \in Nat, NEW size \in Nat,
           f.size <= size, at + p.size <= size
    PROVE  [size |-> size, parts |-> Over(f, at, p)] \in Files
  <1>. DEFINE s == Over(f, at, p)
              m == Len(f.parts)
              n == Len(p.parts)
  <1>1. /\ m \in Nat /\ n \in Nat /\ f.size \in Nat /\ p.size \in Nat
        /\ \A i \in 1 .. m : /\ Ends(f.parts[i]) <= f.size
                             /\ f.parts[i].at \in Nat /\ f.parts[i].size \in Nat
        /\ \A i \in 1 .. n : /\ Ends(p.parts[i]) <= p.size
                             /\ p.parts[i].at \in Nat /\ p.parts[i].size \in Nat
    BY FileIs
  <1>2. /\ s \in Seq(DataParts) /\ Len(s) = m + n
        /\ \A i \in 1 .. m : s[i] = f.parts[i]
        /\ \A i \in 1 .. n : s[m + i].at = p.parts[i].at + at /\ s[m + i].size = p.parts[i].size
    BY OverIs
  <1>. HIDE DEF s, m, n
  <1>3. \A i \in 1 .. Len(s) : Ends(s[i]) <= size
    <2>. TAKE i \in 1 .. Len(s)
    <2>1. CASE i \in 1 .. m
      BY <1>1, <1>2, <2>1 DEF Ends
    <2>2. CASE i \notin 1 .. m
      <3>0. i - m \in 1 .. n /\ m + (i - m) = i
        BY <1>1, <1>2, <2>2
      <3>1. PICK x \in 1 .. n : i = m + x
        BY <3>0
      <3>2. s[i].at = p.parts[x].at + at /\ s[i].size = p.parts[x].size
        BY <1>2, <3>1
      <3>3. Ends(p.parts[x]) <= p.size /\ p.parts[x].at \in Nat /\ p.parts[x].size \in Nat
        BY <1>1, <3>1
      <3>4. p.size \in Nat
        BY <1>1
      <3>. QED
        BY <3>2, <3>3, <3>4 DEF Ends
    <2>. QED
      BY <2>1, <2>2
  <1>. QED
    BY <1>2, <1>3 DEF Files, s

\* What the copy does not touch stays intact.
LEMMA OverKeeps ==
    ASSUME NEW f \in Files, NEW p \in Files, NEW at \in Nat,
           NEW b \in Int, NEW n \in Nat, NEW what, NEW from, IntactIn(f.parts, b, n, what, from),
           b + n <= at \/ at + p.size <= b
    PROVE  IntactIn(Over(f, at, p), b, n, what, from)
  <1>. DEFINE s == Over(f, at, p)
              a == f.parts
              q == p.parts
  <1>1. /\ Len(a) \in Nat /\ Len(q) \in Nat /\ p.size \in Nat
        /\ \A i \in 1 .. Len(q) : Ends(q[i]) <= p.size /\ q[i].at \in Nat /\ q[i].size \in Nat
    BY FileIs
  <1>2. /\ Len(s) = Len(a) + Len(q) /\ \A i \in 1 .. Len(a) : s[i] = a[i]
        /\ \A i \in 1 .. Len(q) : s[Len(a) + i].at = q[i].at + at /\ s[Len(a) + i].size = q[i].size
    BY OverIs
  <1>. HIDE DEF s, a, q
  <1>3. PICK i \in 1 .. Len(a) :
           /\ a[i].at <= b /\ b + n <= Ends(a[i]) /\ a[i].what = what /\ from = b - a[i].at
           /\ \A k \in i + 1 .. Len(a) : Ends(a[k]) <= b \/ b + n <= a[k].at
    BY DEF IntactIn, a
  <1>4. \A k \in i + 1 .. Len(s) : Ends(s[k]) <= b \/ b + n <= s[k].at
    <2>. TAKE k \in i + 1 .. Len(s)
    <2>1. CASE k <= Len(a)
      BY <1>1, <1>2, <1>3, <2>1
    <2>2. CASE k > Len(a)
      <3>0. k - Len(a) \in 1 .. Len(q) /\ Len(a) + (k - Len(a)) = k
        BY <1>1, <1>2, <1>3, <2>2
      <3>1. PICK x \in 1 .. Len(q) : k = Len(a) + x
        BY <3>0
      <3>2. s[k].at = q[x].at + at /\ s[k].size = q[x].size
        BY <1>2, <3>1
      <3>3. Ends(q[x]) <= p.size /\ q[x].at \in Nat /\ q[x].size \in Nat
        BY <1>1, <3>1
      <3>4. p.size \in Nat /\ Len(s) \in Nat /\ Len(a) \in Nat
        BY <1>1, <1>2
      <3>5. at <= s[k].at /\ s[k].at \in Int
        BY <3>2, <3>3
      <3>6. Ends(s[k]) <= at + p.size
        BY <3>2, <3>3, <3>4 DEF Ends
      <3>7. Ends(s[k]) \in Int
        BY <3>2, <3>3 DEF Ends
      <3>8. CASE b + n <= at
        BY <3>5, <3>8
      <3>9. CASE at + p.size <= b
        BY <3>4, <3>6, <3>7, <3>9
      <3>. QED
        BY <3>8, <3>9
    <2>. QED
      BY <1>1, <1>3, <2>1, <2>2
  <1>5. i \in 1 .. Len(s) /\ s[i] = a[i]
    BY <1>1, <1>2
  <1>. QED
    BY <1>3, <1>4, <1>5 DEF IntactIn, s

\* What is intact in the piece copied is intact where it has been copied to.
LEMMA OverPuts ==
    ASSUME NEW f \in Files, NEW p \in Files, NEW at \in Nat,
           NEW b \in Int, NEW n \in Nat, NEW what, NEW from, IntactIn(p.parts, b, n, what, from),
           NEW c, c = at + b
    PROVE  IntactIn(Over(f, at, p), c, n, what, from)
  <1>. DEFINE s == Over(f, at, p)
              m == Len(f.parts)
              q == p.parts
  <1>1. /\ m \in Nat /\ Len(q) \in Nat
        /\ \A i \in 1 .. Len(q) : q[i].at \in Nat /\ q[i].size \in Nat
    BY FileIs
  <1>2. /\ Len(s) = m + Len(q)
        /\ \A i \in 1 .. Len(q) : /\ s[m + i].at = q[i].at + at /\ s[m + i].size = q[i].size
                                  /\ s[m + i].what = q[i].what
    BY OverIs
  <1>. HIDE DEF s, m, q
  <1>3. PICK i \in 1 .. Len(q) :
           /\ q[i].at <= b /\ b + n <= Ends(q[i]) /\ q[i].what = what /\ from = b - q[i].at
           /\ \A k \in i + 1 .. Len(q) : Ends(q[k]) <= b \/ b + n <= q[k].at
    BY DEF IntactIn, q
  <1>. DEFINE h == m + i
  <1>4. \A k \in h + 1 .. Len(s) : Ends(s[k]) <= c \/ c + n <= s[k].at
    <2>. TAKE k \in h + 1 .. Len(s)
    <2>0. k - m \in i + 1 .. Len(q) /\ k - m \in 1 .. Len(q) /\ m + (k - m) = k
      BY <1>1, <1>2
    <2>1. PICK x \in i + 1 .. Len(q) : x \in 1 .. Len(q) /\ k = m + x
      BY <2>0
    <2>2. s[k].at = q[x].at + at /\ s[k].size = q[x].size
      BY <1>2, <2>1
    <2>3. q[x].at \in Nat /\ q[x].size \in Nat
      BY <1>1, <2>1
    <2>4. CASE Ends(q[x]) <= b
      BY <2>2, <2>3, <2>4 DEF Ends
    <2>5. CASE b + n <= q[x].at
      BY <2>2, <2>3, <2>5
    <2>. QED
      BY <1>3, <2>1, <2>4, <2>5
  <1>5. h \in 1 .. Len(s)
    BY <1>1, <1>2
  <1>6. q[i].at \in Nat /\ q[i].size \in Nat
    BY <1>1
  <1>7. s[h].at = q[i].at + at /\ s[h].size = q[i].size /\ s[h].what = q[i].what
    BY <1>2
  <1>. HIDE DEF h
  <1>8. s[h].at <= c /\ s[h].what = what /\ from = c - s[h].at
    BY <1>3, <1>6, <1>7
  <1>9. c + n <= Ends(s[h])
    BY <1>3, <1>6, <1>7 DEF Ends
  <1>10. IntactIn(s, c, n, what, from)
    BY <1>4, <1>5, <1>8, <1>9 DEF IntactIn
  <1>. QED
    BY <1>10 DEF s

-----------------------------------------------------------------------------
(* The operations of BinaryFile. *)

LEMMA PieceIs ==
    ASSUME NEW what \in DataTags, NEW size \in Nat
    PROVE  /\ Piece(what, size) \in Files /\ Piece(what, size).size = size
           /\ Intact(Piece(what, size), 0, size, what, 0)
  <1>. DEFINE p == Piece(what, size)
              part == Part(0, size, what)
  <1>1. p = [size |-> size, parts |-> IF size = 0 THEN <<>> ELSE <<part>>]
    BY DEF Piece
  <1>2. part.at = 0 /\ part.size = size /\ part.what = what /\ (size # 0 => part \in DataParts)
    BY DEF Part, DataParts
  <1>3. Ends(part) = size
    BY <1>2 DEF Ends
  <1>. HIDE DEF p, part
  <1>4. CASE size = 0
    <2>1. p = [size |-> 0, parts |-> <<>>]
      BY <1>1, <1>4
    <2>2. <<>> \in Seq(DataParts) /\ \A i \in 1 .. Len(<<>>) : Ends(<<>>[i]) <= 0
      OBVIOUS
    <2>3. p \in Files
      BY <2>1, <2>2, IsFile
    <2>4. p.size = size
      BY <1>4, <2>1
    <2>. QED
      BY Zenon, <1>4, <2>3, <2>4 DEF Intact, p
  <1>5. CASE size # 0
    <2>1. p.size = size /\ p.parts = <<part>> /\ p = [size |-> p.size, parts |-> p.parts]
      BY <1>1, <1>5
    <2>2. p.parts \in Seq(DataParts) /\ Len(p.parts) = 1 /\ p.parts[1] = part
      BY <1>2, <1>5, <2>1
    <2>0. \A i \in 1 .. Len(p.parts) : Ends(p.parts[i]) <= size
      BY <1>3, <2>2
    <2>. DEFINE parts == p.parts
    <2>. HIDE DEF parts
    <2>3. p \in Files
      <3>1. parts \in Seq(DataParts) /\ \A i \in 1 .. Len(parts) : Ends(parts[i]) <= size
        BY Zenon, <2>0, <2>2 DEF parts
      <3>2. p = [size |-> size, parts |-> parts]
        BY <2>1 DEF parts
      <3>. QED
        BY Zenon, <3>1, <3>2, IsFile
    <2>4. IntactIn(p.parts, 0, size, what, 0)
      BY <1>2, <1>3, <2>2 DEF IntactIn
    <2>. QED
      BY <2>1, <2>3, <2>4 DEF Intact, p
  <1>. QED
    BY <1>4, <1>5

LEMMA NothingIs ==
    /\ EmptyFile \in Files
    /\ \A f \in Files : f.size = 0 => f = EmptyFile
  <1>1. EmptyFile \in Files
    <2>1. <<>> \in Seq(DataParts) /\ \A i \in 1 .. Len(<<>>) : Ends(<<>>[i]) <= 0
      OBVIOUS
    <2>. QED
      BY <2>1, IsFile DEF EmptyFile
  <1>2. ASSUME NEW f \in Files, f.size = 0 PROVE f = EmptyFile
    <2>. DEFINE s == f.parts
    <2>1. f = [size |-> 0, parts |-> s] /\ s \in Seq(DataParts)
      BY <1>2, FileIs
    <2>2. Len(s) \in Nat /\ \A i \in 1 .. Len(s) : /\ s[i].at \in Nat /\ s[i].size \in Nat /\ s[i].size # 0
                                                   /\ Ends(s[i]) <= 0
      BY <1>2, FileIs
    <2>. HIDE DEF s
    <2>3. \A i \in 1 .. Len(s) : FALSE
      BY <2>2 DEF Ends
    <2>4. Len(s) = 0
      BY <2>2, <2>3
    <2>5. s = <<>>
      BY <2>1, <2>4
    <2>. QED
      BY <2>1, <2>5 DEF EmptyFile
  <1>. QED
    BY <1>1, <1>2

LEMMA Overlays ==
    ASSUME NEW f \in Files, NEW p \in Files, NEW at \in Nat, at + p.size <= f.size
    PROVE  LET g == Overlay(f, at, p)
           IN  /\ g \in Files /\ g.size = f.size
               /\ \A b \in Int, n \in Nat : \A what, from :
                     /\ Intact(f, b, n, what, from) /\ (b + n <= at \/ at + p.size <= b)
                           => Intact(g, b, n, what, from)
                     /\ Intact(p, b, n, what, from) => Intact(g, at + b, n, what, from)
  <1>. DEFINE g == Overlay(f, at, p)
  <1>1. g = [size |-> f.size, parts |-> Over(f, at, p)]
    <2>1. f = [size |-> f.size, parts |-> f.parts]
      BY FileIs
    <2>2. g = [f EXCEPT !.parts = Over(f, at, p)]
      BY DEF Overlay, Over
    <2>. HIDE DEF g
    <2>. QED
      BY <2>1, <2>2
  <1>2. f.size \in Nat /\ p.size \in Nat
    BY FileIs
  <1>3. g \in Files
    BY <1>1, <1>2, OverEnds
  <1>4. g.size = f.size /\ g.parts = Over(f, at, p)
    BY <1>1
  <1>. HIDE DEF g
  <1>5. ASSUME NEW b \in Int, NEW n \in Nat, NEW what, NEW from
        PROVE  /\ Intact(f, b, n, what, from) /\ (b + n <= at \/ at + p.size <= b)
                     => Intact(g, b, n, what, from)
               /\ Intact(p, b, n, what, from) => Intact(g, at + b, n, what, from)
    <2>1. ASSUME IntactIn(f.parts, b, n, what, from), b + n <= at \/ at + p.size <= b
          PROVE  IntactIn(g.parts, b, n, what, from)
      BY Zenon, <1>4, <2>1, OverKeeps
    <2>2. ASSUME IntactIn(p.parts, b, n, what, from)
          PROVE  IntactIn(g.parts, at + b, n, what, from)
      BY Zenon, <1>4, <2>2, OverPuts
    <2>. QED
      BY Zenon, <2>1, <2>2 DEF Intact
  <1>. QED
    BY Zenon, <1>3, <1>4, <1>5 DEF g

LEMMA Appends ==
    ASSUME NEW f \in Files, NEW p \in Files
    PROVE  LET g == Appended(f, p)
           IN  /\ g \in Files /\ g.size = f.size + p.size
               /\ \A b \in Int, n \in Nat : \A what, from :
                     /\ Intact(f, b, n, what, from) => Intact(g, b, n, what, from)
                     /\ Intact(p, b, n, what, from) => Intact(g, f.size + b, n, what, from)
  <1>. DEFINE g == Appended(f, p)
  <1>2. f.size \in Nat /\ p.size \in Nat /\ f.size + p.size \in Nat
    BY FileIs
  <1>1. g = [size |-> f.size + p.size, parts |-> Over(f, f.size, p)]
    BY DEF Appended, Over
  <1>3. g \in Files
    BY <1>1, <1>2, OverEnds
  <1>4. g.size = f.size + p.size /\ g.parts = Over(f, f.size, p)
    BY <1>1
  <1>. HIDE DEF g
  <1>5. ASSUME NEW b \in Int, NEW n \in Nat, NEW what, NEW from
        PROVE  /\ Intact(f, b, n, what, from) => Intact(g, b, n, what, from)
               /\ Intact(p, b, n, what, from) => Intact(g, f.size + b, n, what, from)
    <2>1. ASSUME n # 0, Intact(f, b, n, what, from)
          PROVE  IntactIn(g.parts, b, n, what, from)
      <3>1. b + n <= f.size
        BY <2>1, IntactIsContent DEF Inside
      <3>2. IntactIn(f.parts, b, n, what, from)
        BY <2>1 DEF Intact
      <3>. QED
        BY Zenon, <1>2, <1>4, <3>1, <3>2, OverKeeps
    <2>2. ASSUME IntactIn(p.parts, b, n, what, from)
          PROVE  IntactIn(g.parts, f.size + b, n, what, from)
      BY Zenon, <1>2, <1>4, <2>2, OverPuts
    <2>. QED
      BY Zenon, <2>1, <2>2 DEF Intact
  <1>. QED
    BY Zenon, <1>3, <1>4, <1>5 DEF g

-----------------------------------------------------------------------------
(* Sums of sizes, one more at a time. *)

Summed(fun, k) == SumFunctionOnSet(fun, 1 .. k)

LEMMA SumSteps ==
    ASSUME NEW n \in Nat, NEW fun, \A i \in 1 .. n : fun[i] \in Nat
    PROVE  /\ Summed(fun, 0) = 0
           /\ \A k \in 1 .. n : Summed(fun, k) = Summed(fun, k - 1) + fun[k]
           /\ \A k \in 0 .. n : Summed(fun, k) \in Nat
  <1>1. Summed(fun, 0) = 0
    <2>1. 1 .. 0 = {}
      OBVIOUS
    <2>. QED
      BY <2>1, SumOfNone DEF Summed
  <1>2. ASSUME NEW k \in 1 .. n PROVE Summed(fun, k) = Summed(fun, k - 1) + fun[k]
    <2>. DEFINE m == k - 1
    <2>1. m \in Nat /\ m + 1 = k /\ \A i \in 1 .. m + 1 : fun[i] \in Int
      OBVIOUS
    <2>. HIDE DEF m
    <2>2. SumFunctionOnSet(fun, 1 .. m + 1) = SumFunctionOnSet(fun, 1 .. m) + fun[m + 1]
      BY <2>1, SumOfFirst
    <2>. QED
      BY <2>1, <2>2 DEF Summed, m
  <1>3. \A k \in 0 .. n : Summed(fun, k) \in Nat
    <2>. DEFINE T == {k \in Nat : k <= n => Summed(fun, k) \in Nat}
    <2>1. 0 \in T
      BY <1>1
    <2>2. ASSUME NEW k \in Nat, k \in T PROVE k + 1 \in T
      <3>1. CASE k + 1 <= n
        <4>1. k + 1 \in 1 .. n /\ (k + 1) - 1 = k /\ k <= n
          BY <3>1
        <4>2. Summed(fun, k + 1) = Summed(fun, k) + fun[k + 1] /\ fun[k + 1] \in Nat
          BY <1>2, <4>1
        <4>. QED
          BY <2>2, <4>1, <4>2
      <3>2. CASE ~(k + 1 <= n)
        BY <3>2
      <3>. QED
        BY <3>1, <3>2
    <2>3. \A k \in Nat : k \in T
      <3>. HIDE DEF T
      <3>. QED
        BY <2>1, <2>2, SetInduction
    <2>. QED
      BY <2>3
  <1>. QED
    BY <1>1, <1>2, <1>3

\* Functions that agree on the first of their arguments have the same sums.
LEMMA SumsAre ==
    ASSUME NEW n \in Nat, NEW fun, NEW gun, \A i \in 1 .. n : fun[i] = gun[i]
    PROVE  \A k \in 0 .. n : Summed(fun, k) = Summed(gun, k)
  <1>. TAKE k \in 0 .. n
  <1>1. IsFiniteSet(1 .. k) /\ \A i \in 1 .. k : fun[i] = gun[i]
    BY FS_Interval
  <1>. QED
    BY <1>1, SumCongruence DEF Summed

\* The sums of what is not negative grow.
LEMMA SumsGrow ==
    ASSUME NEW n \in Nat, NEW fun, \A i \in 1 .. n : fun[i] \in Nat
    PROVE  \A i \in 1 .. n, k \in 1 .. n + 1 : i < k => Summed(fun, i - 1) + fun[i] <= Summed(fun, k - 1)
  <1>. TAKE i \in 1 .. n
  <1>. DEFINE T == {k \in Nat : i <= k /\ k <= n => Summed(fun, i) <= Summed(fun, k)}
  <1>0. /\ \A k \in 1 .. n : Summed(fun, k) = Summed(fun, k - 1) + fun[k]
        /\ \A k \in 0 .. n : Summed(fun, k) \in Nat
    BY SumSteps
  <1>1. 0 \in T
    OBVIOUS
  <1>2. ASSUME NEW k \in Nat, k \in T PROVE k + 1 \in T
    <2>. SUFFICES ASSUME i <= k + 1, k + 1 <= n PROVE Summed(fun, i) <= Summed(fun, k + 1)
      OBVIOUS
    <2>1. CASE i = k + 1
      <3>1. Summed(fun, i) \in Nat
        BY <1>0
      <3>. QED
        BY <2>1, <3>1
    <2>2. CASE i # k + 1
      <3>1. k + 1 \in 1 .. n /\ (k + 1) - 1 = k /\ i <= k /\ k <= n
        BY <2>2
      <3>2. Summed(fun, k + 1) = Summed(fun, k) + fun[k + 1] /\ fun[k + 1] \in Nat
        BY <1>0, <3>1
      <3>3. Summed(fun, i) \in Nat /\ Summed(fun, k) \in Nat
        BY <1>0, <3>1
      <3>4. Summed(fun, i) <= Summed(fun, k)
        BY <1>2, <3>1
      <3>. QED
        BY <3>2, <3>3, <3>4
    <2>. QED
      BY <2>1, <2>2
  <1>3. \A k \in Nat : k \in T
    <2>. HIDE DEF T
    <2>. QED
      BY <1>1, <1>2, SetInduction
  <1>4. ASSUME NEW k \in 1 .. n + 1, i < k
        PROVE  Summed(fun, i - 1) + fun[i] <= Summed(fun, k - 1)
    <2>1. k - 1 \in Nat /\ i <= k - 1 /\ k - 1 <= n
      BY <1>4
    <2>2. Summed(fun, i) <= Summed(fun, k - 1)
      BY <1>3, <2>1
    <2>3. Summed(fun, i) = Summed(fun, i - 1) + fun[i]
      BY <1>0
    <2>. QED
      BY <2>2, <2>3
  <1>. QED
    BY <1>4

LEMMA SizeSteps ==
    ASSUME NEW n \in Nat, NEW s, DOMAIN s = 1 .. n, \A i \in 1 .. n : s[i].size \in Nat
    PROVE  /\ SizeOfFirst(s, 0) = 0
           /\ \A k \in 1 .. n : SizeOfFirst(s, k) = SizeOfFirst(s, k - 1) + s[k].size
           /\ \A k \in 0 .. n : SizeOfFirst(s, k) \in Nat
  <1>. DEFINE fun == [i \in DOMAIN s |-> s[i].size]
  <1>1. \A i \in 1 .. n : fun[i] = s[i].size
    OBVIOUS
  <1>2. \A k : SizeOfFirst(s, k) = Summed(fun, k)
    BY DEF SizeOfFirst, Summed
  <1>. HIDE DEF fun
  <1>3. \A i \in 1 .. n : fun[i] \in Nat
    BY <1>1
  <1>4. /\ Summed(fun, 0) = 0
        /\ \A k \in 1 .. n : Summed(fun, k) = Summed(fun, k - 1) + fun[k]
        /\ \A k \in 0 .. n : Summed(fun, k) \in Nat
    BY <1>3, SumSteps
  <1>. QED
    BY <1>1, <1>2, <1>4

-----------------------------------------------------------------------------
(* Several copies. *)

First(s, n) == [i \in 1 .. n |-> s[i]]
FileCopies == [at : Nat, piece : Files]

LEMMA OverlaidSteps ==
    ASSUME NEW n \in Nat, NEW size, NEW parts \in Seq(DataParts), NEW c \in [1 .. n + 1 -> FileCopies]
    PROVE  LET f == [size |-> size, parts |-> parts]
           IN  /\ Overlaid(f, c) = Overlay(Overlaid(f, First(c, n)), c[n + 1].at, c[n + 1].piece)
               /\ Overlaid(f, c).size = size
  <1>. DEFINE f == [size |-> size, parts |-> parts]
              d == First(c, n)
              p == [i \in 1 .. n + 1 |-> Shifted(c[i].piece.parts, c[i].at)]
              q == [i \in 1 .. n |-> p[i]]
              last == Shifted(c[n + 1].piece.parts, c[n + 1].at)
  <1>1. \A x \in FileCopies : Shifted(x.piece.parts, x.at) \in Seq(DataParts)
    <2>. TAKE x \in FileCopies
    <2>1. x.piece \in Files /\ x.at \in Nat
      BY DEF FileCopies
    <2>2. x.piece.parts \in Seq(DataParts)
      BY <2>1, FileIs
    <2>. QED
      BY <2>1, <2>2, ShiftedIs
  <1>2. \A i \in 1 .. n + 1 : p[i] \in Seq(DataParts)
    BY <1>1
  <1>3. p \in [1 .. n + 1 -> Seq(DataParts)] /\ p[n + 1] = last
    BY <1>2
  <1>4. q \in [1 .. n -> Seq(DataParts)]
    BY <1>2
  <1>5. FlattenSeq(p) = FlattenSeq(q) \o last
    BY <1>3, FlattenAppend
  <1>6. FlattenSeq(q) \in Seq(DataParts)
    BY <1>4, FlattenType
  <1>7. Overlaid(f, c) = [size |-> size, parts |-> parts \o FlattenSeq(p)]
    <2>1. DOMAIN c = 1 .. n + 1
      OBVIOUS
    <2>2. [i \in DOMAIN c |-> Shifted(c[i].piece.parts, c[i].at)] = p
      BY <2>1
    <2>. HIDE DEF p
    <2>3. Overlaid(f, c) = [f EXCEPT !.parts = parts \o FlattenSeq(p)]
      BY <2>2 DEF Overlaid
    <2>. QED
      BY <2>3
  <1>8. Overlaid(f, d) = [size |-> size, parts |-> parts \o FlattenSeq(q)]
    <2>1. DOMAIN d = 1 .. n /\ \A i \in 1 .. n : d[i] = c[i] /\ p[i] = Shifted(c[i].piece.parts, c[i].at)
      BY DEF First
    <2>2. [i \in DOMAIN d |-> Shifted(d[i].piece.parts, d[i].at)] = q
      BY <2>1
    <2>3. Overlaid(f, d) = [f EXCEPT !.parts = parts \o FlattenSeq(q)]
      BY <2>2 DEF Overlaid
    <2>. QED
      BY <2>3
  <1>9. Overlay(Overlaid(f, d), c[n + 1].at, c[n + 1].piece)
           = [size |-> size, parts |-> (parts \o FlattenSeq(q)) \o last]
    <2>. DEFINE g == Overlaid(f, d)
                r == parts \o FlattenSeq(q)
    <2>1. g = [size |-> size, parts |-> r]
      BY <1>8
    <2>. HIDE DEF g, r
    <2>2. Overlay(g, c[n + 1].at, c[n + 1].piece) = [g EXCEPT !.parts = r \o last]
      BY <2>1 DEF Overlay
    <2>. HIDE DEF last
    <2>3. Overlay(g, c[n + 1].at, c[n + 1].piece) = [size |-> size, parts |-> r \o last]
      BY <2>1, <2>2
    <2>. QED
      BY <2>3 DEF g, r
  <1>10. last \in Seq(DataParts)
    BY <1>3, <1>2
  <1>. HIDE DEF last, p, q, d
  <1>11. (parts \o FlattenSeq(q)) \o last = parts \o (FlattenSeq(q) \o last)
    BY <1>6, <1>10, ConcatAssociative
  <1>12. Overlaid(f, c).size = size
    BY <1>7
  <1>. QED
    BY Zenon, <1>5, <1>7, <1>9, <1>11, <1>12 DEF f, d

\* No copies at all.
LEMMA OverlaidNone ==
    ASSUME NEW size, NEW parts \in Seq(DataParts), NEW c, DOMAIN c = 1 .. 0
    PROVE  Overlaid([size |-> size, parts |-> parts], c) = [size |-> size, parts |-> parts]
  <1>. DEFINE p == [i \in DOMAIN c |-> Shifted(c[i].piece.parts, c[i].at)]
  <1>1. p = <<>>
    OBVIOUS
  <1>2. parts \o FlattenSeq(p) = parts
    BY <1>1, FlattenNone
  <1>. HIDE DEF p
  <1>3. Overlaid([size |-> size, parts |-> parts], c)
           = [[size |-> size, parts |-> parts] EXCEPT !.parts = parts \o FlattenSeq(p)]
    BY DEF Overlaid, p
  <1>. QED
    BY <1>2, <1>3

\* A copy of nothing.
LEMMA OverlayNothing ==
    ASSUME NEW f \in Files, NEW at \in Nat
    PROVE  Overlay(f, at, EmptyFile) = f
  <1>1. f = [size |-> f.size, parts |-> f.parts] /\ f.parts \in Seq(DataParts)
    BY FileIs
  <1>2. Shifted(EmptyFile.parts, at) = <<>>
    BY DEF Shifted, EmptyFile
  <1>3. f.parts \o <<>> = f.parts
    BY <1>1
  <1>. QED
    BY <1>1, <1>2, <1>3 DEF Overlay

\* Copies that leave each other alone.
Clear(c, d) ==
    c.piece.size = 0 \/ d.piece.size = 0 \/ c.at + c.piece.size <= d.at \/ d.at + d.piece.size <= c.at
OutOf(c, b, m) == c.piece.size = 0 \/ b + m <= c.at \/ c.at + c.piece.size <= b

(* What results from such copies: each of them stays intact, and so does   *)
(* what none of them touches.                                              *)
Carries(g, f, n, c) ==
    /\ g \in Files /\ g.size = f.size
    /\ \A i \in 1 .. n : \A b \in Int, m \in Nat : \A what, from :
          Intact(c[i].piece, b, m, what, from) => Intact(g, c[i].at + b, m, what, from)
    /\ \A b \in Int, m \in Nat : \A what, from :
          Intact(f, b, m, what, from) /\ (\A i \in 1 .. n : OutOf(c[i], b, m)) => Intact(g, b, m, what, from)

LEMMA OverlaysOne ==
    ASSUME NEW f \in Files, NEW n \in Nat, NEW c \in [1 .. n + 1 -> FileCopies],
           c[n + 1].at + c[n + 1].piece.size <= f.size,
           \A i \in 1 .. n : Clear(c[i], c[n + 1]),
           NEW g, Carries(g, f, n, First(c, n))
    PROVE  Carries(Overlay(g, c[n + 1].at, c[n + 1].piece), f, n + 1, c)
  <1>. DEFINE d == c[n + 1]
              h == Overlay(g, d.at, d.piece)
  <1>1. /\ d \in FileCopies /\ d.at \in Nat /\ d.piece \in Files /\ d.piece.size \in Nat
        /\ g \in Files /\ g.size = f.size
    <2>1. d \in FileCopies
      OBVIOUS
    <2>2. d.at \in Nat /\ d.piece \in Files
      BY <2>1 DEF FileCopies
    <2>. QED
      BY <2>1, <2>2, FileIs DEF Carries
  <1>2. /\ h \in Files /\ h.size = g.size
        /\ \A b \in Int, m \in Nat : \A what, from :
              /\ Intact(g, b, m, what, from) /\ (b + m <= d.at \/ d.at + d.piece.size <= b)
                    => Intact(h, b, m, what, from)
              /\ Intact(d.piece, b, m, what, from) => Intact(h, d.at + b, m, what, from)
    BY Zenon, <1>1, Overlays
  <1>3. d.piece.size = 0 => h = g
    BY <1>1, NothingIs, OverlayNothing
  <1>. HIDE DEF d, h
  <1>4. ASSUME NEW b \in Int, NEW m \in Nat, NEW what, NEW from,
               Intact(g, b, m, what, from), OutOf(d, b, m)
        PROVE  Intact(h, b, m, what, from)
    BY Zenon, <1>2, <1>3, <1>4 DEF OutOf
  <1>5. ASSUME NEW i \in 1 .. n + 1, NEW b \in Int, NEW m \in Nat, NEW what, NEW from,
               Intact(c[i].piece, b, m, what, from)
        PROVE  Intact(h, c[i].at + b, m, what, from)
    <2>1. CASE i = n + 1
      BY <1>2, <1>5, <2>1 DEF d
    <2>2. CASE i # n + 1
      <3>1. i \in 1 .. n /\ First(c, n)[i] = c[i]
        BY <2>2 DEF First
      <3>2. Intact(g, c[i].at + b, m, what, from)
        BY Zenon, <1>5, <3>1 DEF Carries
      <3>3. CASE m = 0
        BY <3>3 DEF Intact
      <3>4. CASE m # 0
        <4>1. c[i] \in FileCopies
          OBVIOUS
        <4>2. c[i].piece \in Files /\ c[i].at \in Nat
          BY <4>1 DEF FileCopies
        <4>3. Inside(c[i].piece, b, m) /\ c[i].piece.size \in Nat
          BY <1>5, <3>4, <4>2, IntactIsContent, FileIs
        <4>4. b >= 0 /\ b + m <= c[i].piece.size
          BY <4>3 DEF Inside
        <4>5. Clear(c[i], d)
          BY <3>1 DEF d
        <4>6. OutOf(d, c[i].at + b, m)
          BY <1>1, <3>4, <4>2, <4>3, <4>4, <4>5 DEF Clear, OutOf
        <4>7. c[i].at + b \in Int
          BY <4>2
        <4>. QED
          BY Zenon, <1>4, <3>2, <4>6, <4>7
      <3>. QED
        BY <3>3, <3>4
    <2>. QED
      BY <2>1, <2>2
  <1>6. ASSUME NEW b \in Int, NEW m \in Nat, NEW what, NEW from,
               Intact(f, b, m, what, from), \A i \in 1 .. n + 1 : OutOf(c[i], b, m)
        PROVE  Intact(h, b, m, what, from)
    <2>1. \A i \in 1 .. n : OutOf(First(c, n)[i], b, m)
      BY <1>6 DEF First
    <2>2. Intact(g, b, m, what, from)
      BY Zenon, <1>6, <2>1 DEF Carries
    <2>3. OutOf(d, b, m)
      BY <1>6 DEF d
    <2>. QED
      BY Zenon, <1>4, <2>2, <2>3
  <1>. QED
    BY Zenon, <1>1, <1>2, <1>5, <1>6 DEF Carries, d, h

LEMMA OverlaidIs ==
    ASSUME NEW f \in Files
    PROVE  \A n \in Nat : \A c \in [1 .. n -> FileCopies] :
              /\ \A i \in 1 .. n : c[i].at + c[i].piece.size <= f.size
              /\ \A i, k \in 1 .. n : i < k => Clear(c[i], c[k])
              => Carries(Overlaid(f, c), f, n, c)
  <1>. DEFINE Fit(n, c) == /\ \A i \in 1 .. n : c[i].at + c[i].piece.size <= f.size
                           /\ \A i, k \in 1 .. n : i < k => Clear(c[i], c[k])
              T == {n \in Nat : \A c \in [1 .. n -> FileCopies] :
                                   Fit(n, c) => Carries(Overlaid(f, c), f, n, c)}
              s == f.parts
  <1>0. f = [size |-> f.size, parts |-> s] /\ s \in Seq(DataParts)
    BY FileIs
  <1>. HIDE DEF s
  <1>1. 0 \in T
    <2>. SUFFICES ASSUME NEW c \in [1 .. 0 -> FileCopies] PROVE Carries(Overlaid(f, c), f, 0, c)
      OBVIOUS
    <2>1. DOMAIN c = 1 .. 0
      OBVIOUS
    <2>2. Overlaid(f, c) = f
      BY <1>0, <2>1, OverlaidNone
    <2>3. Carries(f, f, 0, c)
      <3>1. \A i \in 1 .. 0 : FALSE
        OBVIOUS
      <3>2. \A i \in 1 .. 0 : \A b \in Int, m \in Nat : \A what, from :
               Intact(c[i].piece, b, m, what, from) => Intact(f, c[i].at + b, m, what, from)
        BY <3>1, Zenon
      <3>3. \A b \in Int, m \in Nat : \A what, from : Intact(f, b, m, what, from) => Intact(f, b, m, what, from)
        OBVIOUS
      <3>4. f \in Files /\ f.size = f.size
        OBVIOUS
      <3>. HIDE DEF T, Fit
      <3>. QED
        BY ONLY <3>2, <3>3, <3>4 DEF Carries
    <2>. QED
      BY <2>2, <2>3
  <1>2. ASSUME NEW n \in Nat, n \in T PROVE n + 1 \in T
    <2>0. n + 1 \in Nat
      OBVIOUS
    <2>. SUFFICES ASSUME NEW c \in [1 .. n + 1 -> FileCopies], Fit(n + 1, c)
                  PROVE  Carries(Overlaid(f, c), f, n + 1, c)
      BY <2>0, Zenon
    <2>. DEFINE d == First(c, n)
                g == Overlaid(f, d)
    <2>1. d \in [1 .. n -> FileCopies] /\ \A i \in 1 .. n : d[i] = c[i]
      BY DEF First
    <2>2. Fit(n, d)
      BY <2>1
    <2>3. Carries(g, f, n, d)
      BY <1>2, <2>1, <2>2
    <2>4. Overlaid(f, c) = Overlay(g, c[n + 1].at, c[n + 1].piece)
      BY <1>0, OverlaidSteps
    <2>5. c[n + 1].at + c[n + 1].piece.size <= f.size /\ \A i \in 1 .. n : Clear(c[i], c[n + 1])
      <3>1. n + 1 \in 1 .. n + 1 /\ \A i \in 1 .. n : i \in 1 .. n + 1 /\ i < n + 1
        OBVIOUS
      <3>. QED
        BY <3>1
    <2>. HIDE DEF g, Fit
    <2>6. Carries(Overlay(g, c[n + 1].at, c[n + 1].piece), f, n + 1, c)
      BY Zenon, <2>3, <2>5, OverlaysOne DEF d
    <2>. QED
      BY <2>4, <2>6
  <1>3. \A n \in Nat : n \in T
    <2>. HIDE DEF T
    <2>. QED
      BY <1>1, <1>2, SetInduction
  <1>. QED
    BY Zenon, <1>3

\* One piece after the other.
ConcatOf(g, n, pieces) ==
    /\ g \in Files /\ g.size = SizeOfFirst(pieces, n)
    /\ \A i \in 1 .. n : \A b \in Int, m \in Nat : \A what, from :
          Intact(pieces[i], b, m, what, from) => Intact(g, SizeOfFirst(pieces, i - 1) + b, m, what, from)

LEMMA ConcatSteps ==
    ASSUME NEW n \in Nat, NEW p \in [1 .. n + 1 -> Files]
    PROVE  Concatenated(p) = Appended(Concatenated(First(p, n)), p[n + 1])
  <1>. DEFINE q == First(p, n)
              size(s, k) == SizeOfFirst(s, k)
              c == [i \in 1 .. n + 1 |-> Copy(size(p, i - 1), p[i])]
              d == [i \in 1 .. n |-> Copy(size(q, i - 1), q[i])]
              S == size(p, n + 1)
              f == [size |-> S, parts |-> <<>>]
              g == [size |-> size(q, n), parts |-> <<>>]
  <1>1. /\ DOMAIN p = 1 .. n + 1 /\ DOMAIN q = 1 .. n /\ Len(p) = n + 1 /\ Len(q) = n
        /\ \A i \in 1 .. n : q[i] = p[i]
    BY DEF First
  <1>2. \A i \in 1 .. n + 1 : p[i] \in Files /\ p[i].size \in Nat
    BY FileIs
  <1>3. /\ size(p, 0) = 0 /\ \A k \in 1 .. n + 1 : size(p, k) = size(p, k - 1) + p[k].size
        /\ \A k \in 0 .. n + 1 : size(p, k) \in Nat
    <2>1. n + 1 \in Nat /\ DOMAIN p = 1 .. n + 1 /\ \A i \in 1 .. n + 1 : p[i].size \in Nat
      BY <1>1, <1>2
    <2>. QED
      BY Zenon, <2>1, SizeSteps
  <1>4. \A k \in 0 .. n : size(q, k) = size(p, k)
    <2>. DEFINE fun == [i \in DOMAIN q |-> q[i].size]
                gun == [i \in DOMAIN p |-> p[i].size]
    <2>1. \A i \in 1 .. n : fun[i] = gun[i]
      BY <1>1
    <2>2. \A k : size(q, k) = Summed(fun, k) /\ size(p, k) = Summed(gun, k)
      BY DEF SizeOfFirst, Summed
    <2>. HIDE DEF fun, gun
    <2>. QED
      BY <2>1, <2>2, SumsAre
  <1>. HIDE DEF size
  <1>5. Concatenated(p) = Overlaid(f, c) /\ Concatenated(q) = Overlaid(g, d)
    BY <1>1 DEF Concatenated, size
  <1>6. c \in [1 .. n + 1 -> FileCopies]
    <2>1. \A i \in 1 .. n + 1 : Copy(size(p, i - 1), p[i]) \in FileCopies
      <3>. TAKE i \in 1 .. n + 1
      <3>1. size(p, i - 1) \in Nat
        BY <1>3
      <3>. QED
        BY <1>2, <3>1 DEF Copy, FileCopies
    <2>. QED
      BY <2>1
  <1>7. d = First(c, n)
    <2>1. \A i \in 1 .. n : Copy(size(q, i - 1), q[i]) = Copy(size(p, i - 1), p[i])
      BY <1>1, <1>4
    <2>. QED
      BY <2>1 DEF First
  <1>8. c[n + 1].at = size(p, n) /\ c[n + 1].piece = p[n + 1] /\ size(p, n) = size(q, n)
        /\ S = size(q, n) + p[n + 1].size
    BY <1>3, <1>4 DEF Copy
  <1>9. <<>> \in Seq(DataParts)
    OBVIOUS
  <1>. HIDE DEF c, d, q, S
  <1>. DEFINE x == Overlaid(f, First(c, n))
              y == Overlaid(g, d)
  <1>10. Overlaid(f, c) = Overlay(x, c[n + 1].at, c[n + 1].piece)
    <2>. DEFINE none == <<>>
    <2>1. none \in Seq(DataParts) /\ f = [size |-> S, parts |-> none]
      BY <1>9
    <2>. HIDE DEF none, f
    <2>. QED
      BY SMTT(60), <1>6, <2>1, OverlaidSteps DEF x
  <1>11. x = [size |-> S, parts |-> y.parts] /\ y = [size |-> size(q, n), parts |-> y.parts]
    BY <1>7 DEF Overlaid
  <1>. HIDE DEF x, y
  <1>12. Overlay(x, c[n + 1].at, c[n + 1].piece)
            = [size |-> S, parts |-> y.parts \o Shifted(p[n + 1].parts, size(q, n))]
    <2>. DEFINE r == y.parts
    <2>1. x = [size |-> S, parts |-> r]
      BY <1>11
    <2>. HIDE DEF r
    <2>2. Overlay(x, size(q, n), p[n + 1]) = [x EXCEPT !.parts = r \o Shifted(p[n + 1].parts, size(q, n))]
      BY <2>1 DEF Overlay
    <2>3. Overlay(x, size(q, n), p[n + 1])
             = [size |-> S, parts |-> r \o Shifted(p[n + 1].parts, size(q, n))]
      BY <2>1, <2>2
    <2>. QED
      BY Zenon, <1>8, <2>3 DEF r
  <1>13. Appended(y, p[n + 1])
            = [size |-> size(q, n) + p[n + 1].size,
               parts |-> y.parts \o Shifted(p[n + 1].parts, size(q, n))]
    <2>1. y.size = size(q, n)
      BY <1>11
    <2>. QED
      BY <2>1 DEF Appended
  <1>. QED
    BY Zenon, <1>5, <1>8, <1>10, <1>12, <1>13 DEF q, y

LEMMA ConcatNone == \A p \in [1 .. 0 -> Files] : Concatenated(p) = EmptyFile
  <1>. TAKE p \in [1 .. 0 -> Files]
  <1>1. Len(p) = 0 /\ DOMAIN p = 1 .. 0
    OBVIOUS
  <1>2. SizeOfFirst(p, 0) = 0
    <2>1. \A i \in 1 .. 0 : p[i].size \in Nat
      OBVIOUS
    <2>. QED
      BY <1>1, <2>1, SizeSteps
  <1>. DEFINE c == [i \in DOMAIN p |-> Copy(SizeOfFirst(p, i - 1), p[i])]
  <1>3. Concatenated(p) = Overlaid([size |-> 0, parts |-> <<>>], c)
    BY <1>1, <1>2 DEF Concatenated
  <1>4. DOMAIN c = 1 .. 0
    BY <1>1
  <1>5. <<>> \in Seq(DataParts)
    OBVIOUS
  <1>. HIDE DEF c
  <1>6. Overlaid([size |-> 0, parts |-> <<>>], c) = [size |-> 0, parts |-> <<>>]
    BY Zenon, <1>4, <1>5, OverlaidNone
  <1>. QED
    BY <1>3, <1>6 DEF EmptyFile

LEMMA ConcatIs ==
    \A n \in Nat : \A p \in [1 .. n -> Files] : ConcatOf(Concatenated(p), n, p)
  <1>. DEFINE T == {n \in Nat : \A p \in [1 .. n -> Files] : ConcatOf(Concatenated(p), n, p)}
  <1>1. 0 \in T
    <2>. SUFFICES ASSUME NEW p \in [1 .. 0 -> Files] PROVE ConcatOf(Concatenated(p), 0, p)
      OBVIOUS
    <2>1. Concatenated(p) = EmptyFile
      BY ConcatNone
    <2>2. SizeOfFirst(p, 0) = 0
      <3>1. DOMAIN p = 1 .. 0 /\ \A i \in 1 .. 0 : p[i].size \in Nat
        OBVIOUS
      <3>. QED
        BY <3>1, SizeSteps
    <2>. QED
      BY <2>1, <2>2, NothingIs DEF ConcatOf, EmptyFile
  <1>2. ASSUME NEW n \in Nat, n \in T PROVE n + 1 \in T
    <2>. SUFFICES ASSUME NEW p \in [1 .. n + 1 -> Files] PROVE ConcatOf(Concatenated(p), n + 1, p)
      OBVIOUS
    <2>. DEFINE q == First(p, n)
                g == Concatenated(q)
                last == p[n + 1]
                h == Concatenated(p)
    <2>1. q \in [1 .. n -> Files] /\ \A i \in 1 .. n : q[i] = p[i]
      BY DEF First
    <2>2. ConcatOf(g, n, q)
      BY <1>2, <2>1
    <2>3. h = Appended(g, last) /\ last \in Files
      BY ConcatSteps
    <2>. HIDE DEF g, h, last
    <2>4. g \in Files /\ g.size = SizeOfFirst(q, n)
      BY <2>2 DEF ConcatOf
    <2>5. /\ h \in Files /\ h.size = g.size + last.size
          /\ \A b \in Int, m \in Nat : \A what, from :
                /\ Intact(g, b, m, what, from) => Intact(h, b, m, what, from)
                /\ Intact(last, b, m, what, from) => Intact(h, g.size + b, m, what, from)
      BY Zenon, <2>3, <2>4, Appends
    <2>6. \A k \in 0 .. n : SizeOfFirst(q, k) = SizeOfFirst(p, k)
      <3>. DEFINE fun == [i \in DOMAIN q |-> q[i].size]
                  gun == [i \in DOMAIN p |-> p[i].size]
      <3>1. \A i \in 1 .. n : fun[i] = gun[i]
        BY <2>1
      <3>2. \A k : SizeOfFirst(q, k) = Summed(fun, k) /\ SizeOfFirst(p, k) = Summed(gun, k)
        BY DEF SizeOfFirst, Summed
      <3>. HIDE DEF fun, gun, q
      <3>. QED
        BY <3>1, <3>2, SumsAre
    <2>7. SizeOfFirst(p, n + 1) = SizeOfFirst(p, n) + last.size
      <3>1. n + 1 \in Nat /\ DOMAIN p = 1 .. n + 1 /\ \A i \in 1 .. n + 1 : p[i].size \in Nat
        BY FileIs
      <3>2. \A k \in 1 .. n + 1 : SizeOfFirst(p, k) = SizeOfFirst(p, k - 1) + p[k].size
        BY Zenon, <3>1, SizeSteps
      <3>3. n + 1 \in 1 .. n + 1 /\ (n + 1) - 1 = n
        OBVIOUS
      <3>. QED
        BY <3>2, <3>3 DEF last
    <2>8. h.size = SizeOfFirst(p, n + 1) /\ g.size = SizeOfFirst(p, n)
      BY <2>4, <2>5, <2>6, <2>7
    <2>9. ASSUME NEW i \in 1 .. n + 1, NEW b \in Int, NEW m \in Nat, NEW what, NEW from,
                 Intact(p[i], b, m, what, from)
          PROVE  Intact(h, SizeOfFirst(p, i - 1) + b, m, what, from)
      <3>1. CASE i = n + 1
        <4>1. (n + 1) - 1 = n
          OBVIOUS
        <4>. QED
          BY Zenon, <2>5, <2>8, <2>9, <3>1, <4>1 DEF last
      <3>2. CASE i # n + 1
        <4>1. i \in 1 .. n /\ i - 1 \in 0 .. n
          BY <3>2
        <4>2. q[i] = p[i] /\ SizeOfFirst(q, i - 1) = SizeOfFirst(p, i - 1)
          BY <2>1, <2>6, <4>1
        <4>3. Intact(g, SizeOfFirst(p, i - 1) + b, m, what, from)
          BY Zenon, <2>2, <2>9, <4>1, <4>2 DEF ConcatOf
        <4>4. SizeOfFirst(p, i - 1) + b \in Int
          <5>1. DOMAIN q = 1 .. n /\ \A x \in 1 .. n : q[x].size \in Nat
            BY <2>1, FileIs
          <5>2. SizeOfFirst(q, i - 1) \in Nat
            BY <4>1, <5>1, SizeSteps
          <5>. QED
            BY <4>2, <5>2
        <4>. QED
          BY Zenon, <2>5, <4>3, <4>4
      <3>. QED
        BY <3>1, <3>2
    <2>. QED
      BY Zenon, <2>5, <2>8, <2>9 DEF ConcatOf, h
  <1>3. \A n \in Nat : n \in T
    <2>. HIDE DEF T
    <2>. QED
      BY <1>1, <1>2, SetInduction
  <1>. QED
    BY Zenon, <1>3

-----------------------------------------------------------------------------
(* The two writers of boot images. *)

Boots == {"efi", "pe"}

(* A plan that hides no loss: no error number is taken for a handle, its   *)
(* one write is compared with what was asked for, and so is the close.     *)
OneWrite(writes) == \E w : writes = <<w>> /\ w.compared = TRUE
Watchful(plan) ==
    plan.errnoIsHandle = FALSE /\ plan.closeChecked = TRUE /\ OneWrite(plan.writes)

LEMMA PeWritersAreWatchful ==
    ASSUME NEW a, NEW raws, NEW entry, NEW directories
    PROVE  Watchful(PePlan(a, raws, entry, directories, TRUE))
BY DEF Watchful, OneWrite, PePlan, Plan, Write

LEMMA BootPlansAreWatchful ==
    ASSUME job.format \in Boots, NEW s, NEW macho
    PROVE  Watchful(PlanOf(job, s, macho))
<1>1. CASE job.format = "efi"
  <2>1. PlanOf(job, s, macho) = EfiPlan(job.z, job.starts, job.entry)
    BY <1>1 DEF PlanOf
  <2> QED BY <2>1, PeWritersAreWatchful DEF EfiPlan
<1>2. CASE job.format = "pe"
  <2>1. PlanOf(job, s, macho) = IndustrialPlan(job.z, job.entry)
    BY <1>2 DEF PlanOf
  <2> QED BY <2>1, PeWritersAreWatchful DEF IndustrialPlan
<1> QED BY <1>1, <1>2 DEF Boots

(* While a boot image is written nothing has been lost, what is still to   *)
(* be written is compared, and a writer that has lost bytes returns an     *)
(* error.                                                                  *)
Outcome ==
    job.format \in Boots =>
        /\ stage # "temp"
        /\ pc = "start" => ~lost
        /\ pc = "writing" => ~lost /\ (todo = <<>> \/ OneWrite(todo))
        /\ pc \in {"returned", "done"} => result # 0 \/ ~lost

Phases == {"start", "writing", "returned", "done", "running"}

WInv == pc \in Phases /\ Outcome

LEMMA OutcomeInit == Init => WInv
BY DEF Init, WInv, Outcome, Phases, Boots

LEMMA OutcomeStep == ASSUME WInv, [Next]_vars PROVE WInv'
<1>1. CASE Refuse
  BY <1>1 DEF WInv, Outcome, Phases, Refuse
<1>2. CASE Open
  <2>1. job' = job /\ pc' = "writing" /\ stage' = stage /\ pc = "start" /\ lost' = (lost /\ temp # NoFile)
    BY <1>2 DEF Open
  <2>2. ASSUME job.format \in Boots PROVE ~lost' /\ OneWrite(todo')
    <3>1. todo' = CurrentPlan.writes
      BY <1>2 DEF Open
    <3>2. Watchful(CurrentPlan)
      BY <2>2, BootPlansAreWatchful DEF CurrentPlan
    <3> QED BY <2>1, <2>2, <3>1, <3>2 DEF Watchful, WInv, Outcome
  <2> QED BY <2>1, <2>2 DEF WInv, Outcome, Phases
<1>3. CASE OpenFails
  <2>1. job' = job /\ pc = "start" /\ stage' = stage /\ pc' \in {"returned", "writing"}
    BY <1>3 DEF OpenFails
  <2>2. ASSUME job.format \in Boots PROVE pc' = "returned" /\ result' = -1
    <3>1. CurrentPlan.errnoIsHandle = FALSE
      BY <2>2, BootPlansAreWatchful DEF CurrentPlan, Watchful
    <3> QED BY <1>3, <3>1 DEF OpenFails
  <2> QED BY <2>1, <2>2 DEF WInv, Outcome, Phases
<1>4. CASE SkipEmpty \/ WriteNext
  <2>1. /\ job' = job /\ lost' = lost /\ stage' = stage /\ pc = "writing" /\ todo # <<>>
        /\ todo' = Tail(todo)
        /\ \/ pc' = "returned" /\ result' = -1
           \/ pc' = pc
    BY <1>4 DEF SkipEmpty, WriteNext
  <2>2. ASSUME OneWrite(todo) PROVE todo' = <<>>
    BY <2>1, <2>2 DEF OneWrite
  <2> QED BY <2>1, <2>2 DEF WInv, Outcome, Phases
<1>5. CASE WriteFails
  <2>1. /\ job' = job /\ stage' = stage /\ pc = "writing" /\ todo # <<>>
        /\ \/ pc' = "returned" /\ result' = -1
           \/ pc' = pc /\ ~Head(todo).compared
    BY <1>5 DEF WriteFails
  <2>2. OneWrite(todo) => Head(todo).compared = TRUE
    BY DEF OneWrite
  <2>3. job.format \in Boots => pc' = "returned" /\ result' = -1 /\ stage # "temp"
    BY <2>1, <2>2 DEF WInv, Outcome
  <2>4. pc' \in Phases
    BY <2>1 DEF WInv, Phases
  <2> QED BY <2>1, <2>3, <2>4 DEF WInv, Outcome
<1>6. CASE Close
  BY <1>6 DEF WInv, Outcome, Phases, Close
<1>7. CASE FlushFails
  <2>1. job' = job /\ stage' = stage /\ pc' = "returned" /\ result' = IF CurrentPlan.closeChecked THEN -1 ELSE 0
    BY <1>7 DEF FlushFails
  <2>2. ASSUME job.format \in Boots PROVE result' = -1
    BY <2>1, <2>2, BootPlansAreWatchful DEF CurrentPlan, Watchful
  <2> QED BY <2>1, <2>2 DEF WInv, Outcome, Phases
<1>8. CASE Fallback
  BY <1>8 DEF WInv, Outcome, Phases, Boots, Fallback
<1>9. CASE ReadBack
  BY <1>9 DEF WInv, Outcome, Phases, ReadBack
<1>10. CASE Finish
  BY <1>10 DEF WInv, Outcome, Phases, Finish
<1>11. CASE Running
  <2>1. job' = job /\ stage' = stage /\ pc' \in {"running"}
    BY <1>11 DEF Running, PowerOn, CpuReset, CpuStep
  <2> QED BY <2>1 DEF WInv, Outcome, Phases
<1>12. CASE UNCHANGED vars
  BY <1>12 DEF vars, WInv, Outcome
<1> QED
  BY <1>1, <1>2, <1>3, <1>4, <1>5, <1>6, <1>7, <1>8, <1>9, <1>10, <1>11, <1>12 DEF Next, Writing

(* The writers of EFI images report success only of images all of whose    *)
(* bytes have arrived: whatever job they are given, a write that came up   *)
(* short, or a close that lost what stdio held, is an error of theirs.     *)
THEOREM BootWritersReportLoss == Spec => []SuccessMeansWritten
<1>1. WInv => SuccessMeansWritten
  BY DEF WInv, Outcome, SuccessMeansWritten, Boots
<1>2. WInv /\ [Next]_vars => WInv'
  BY OutcomeStep
<1> QED BY <1>1, <1>2, OutcomeInit, PTL DEF Spec

-----------------------------------------------------------------------------
(* Programs as sequences of sizes. *)

IsProgram(p) ==
    /\ Len(p) \in Nat /\ DOMAIN p = 1 .. Len(p)
    /\ \A i \in 1 .. Len(p) : p[i].size \in Nat
\* Each instruction and each table takes room.
Solid(p) == \A i \in 1 .. Len(p) : p[i].size # 0

LEMMA Places ==
    ASSUME NEW p, IsProgram(p)
    PROVE  /\ PlaceOf(p, 1) = 0
           /\ \A i \in 1 .. Len(p) : PlaceOf(p, i + 1) = PlaceOf(p, i) + p[i].size
           /\ \A i \in 1 .. Len(p) + 1 : PlaceOf(p, i) \in Nat
  <1>. DEFINE sizes == [k \in DOMAIN p |-> p[k].size]
              n == Len(p)
              T == {i \in Nat : i <= n => PlaceOf(p, i + 1) \in Nat}
  <1>1. n \in Nat /\ \A i \in 1 .. n : sizes[i] \in Nat /\ sizes[i] = p[i].size
    BY DEF IsProgram
  <1>2. \A i : PlaceOf(p, i) = SumFunctionOnSet(sizes, 1 .. i - 1)
    BY DEF PlaceOf
  <1>. HIDE DEF sizes, n
  <1>3. PlaceOf(p, 1) = 0
    <2>1. 1 .. 1 - 1 = {}
      OBVIOUS
    <2>. QED
      BY <1>2, <2>1, SumOfNone
  <1>4. ASSUME NEW i \in Nat, i + 1 <= n
        PROVE  PlaceOf(p, (i + 1) + 1) = PlaceOf(p, i + 1) + p[i + 1].size /\ p[i + 1].size \in Nat
    <2>1. \A k \in 1 .. i + 1 : sizes[k] \in Int
      BY <1>1, <1>4
    <2>2. SumFunctionOnSet(sizes, 1 .. i + 1) = SumFunctionOnSet(sizes, 1 .. i) + sizes[i + 1]
      BY <2>1, SumOfFirst
    <2>3. (i + 1) + 1 - 1 = i + 1 /\ (i + 1) - 1 = i /\ i + 1 \in 1 .. n
      BY <1>1, <1>4
    <2>. QED
      BY <1>1, <1>2, <2>2, <2>3
  <1>5. \A i \in Nat : i \in T
    <2>1. 0 \in T
      BY <1>3
    <2>2. ASSUME NEW i \in Nat, i \in T PROVE i + 1 \in T
      <3>. SUFFICES ASSUME i + 1 <= n PROVE PlaceOf(p, (i + 1) + 1) \in Nat
        OBVIOUS
      <3>1. PlaceOf(p, i + 1) \in Nat
        BY <1>1, <2>2
      <3>. QED
        BY <1>4, <3>1
    <2>. HIDE DEF T
    <2>. QED
      BY <2>1, <2>2, SetInduction
  <1>6. ASSUME NEW i \in 1 .. n PROVE PlaceOf(p, i + 1) = PlaceOf(p, i) + p[i].size
    <2>1. i - 1 \in Nat /\ (i - 1) + 1 = i /\ i <= n
      BY <1>1
    <2>. QED
      BY <1>4, <2>1
  <1>7. ASSUME NEW i \in 1 .. n + 1 PROVE PlaceOf(p, i) \in Nat
    <2>1. i - 1 \in Nat /\ (i - 1) + 1 = i /\ i - 1 <= n
      BY <1>1
    <2>. QED
      BY <1>5, <2>1
  <1>. QED
    BY <1>3, <1>6, <1>7 DEF n

\* Places grow: no two instructions begin at the same one.
LEMMA PlacesGrow ==
    ASSUME NEW p, IsProgram(p), Solid(p)
    PROVE  \A i, j \in 1 .. Len(p) + 1 : i < j => PlaceOf(p, i) < PlaceOf(p, j)
  <1>. DEFINE n == Len(p)
              T == {d \in Nat : \A i \in 1 .. n + 1 : i + d + 1 <= n + 1 => PlaceOf(p, i) < PlaceOf(p, i + d + 1)}
  <1>0. /\ n \in Nat /\ \A i \in 1 .. n + 1 : PlaceOf(p, i) \in Nat
        /\ \A i \in 1 .. n : PlaceOf(p, i + 1) = PlaceOf(p, i) + p[i].size /\ p[i].size \in Nat \ {0}
    BY Places DEF IsProgram, Solid
  <1>. HIDE DEF n
  <1>1. \A i \in 1 .. n : PlaceOf(p, i) < PlaceOf(p, i + 1)
    <2>. TAKE i \in 1 .. n
    <2>1. PlaceOf(p, i) \in Nat
      BY <1>0
    <2>. QED
      BY <1>0, <2>1
  <1>2. 0 \in T
    <2>. SUFFICES ASSUME NEW i \in 1 .. n + 1, i + 0 + 1 <= n + 1 PROVE PlaceOf(p, i) < PlaceOf(p, i + 0 + 1)
      OBVIOUS
    <2>1. i \in 1 .. n /\ i + 0 + 1 = i + 1
      BY <1>0
    <2>. QED
      BY <1>1, <2>1
  <1>3. ASSUME NEW d \in Nat, d \in T PROVE d + 1 \in T
    <2>. SUFFICES ASSUME NEW i \in 1 .. n + 1, i + (d + 1) + 1 <= n + 1
                  PROVE  PlaceOf(p, i) < PlaceOf(p, i + (d + 1) + 1)
      OBVIOUS
    <2>1. i + d + 1 <= n + 1 /\ i + d + 1 \in 1 .. n /\ i + (d + 1) + 1 = (i + d + 1) + 1
          /\ i + (d + 1) + 1 \in 1 .. n + 1
      BY <1>0
    <2>2. PlaceOf(p, i) < PlaceOf(p, i + d + 1)
      BY <1>3, <2>1
    <2>3. PlaceOf(p, i + d + 1) < PlaceOf(p, (i + d + 1) + 1)
      BY <1>1, <2>1
    <2>4. PlaceOf(p, i) \in Nat /\ PlaceOf(p, i + d + 1) \in Nat /\ PlaceOf(p, (i + d + 1) + 1) \in Nat
      <3>1. i + d + 1 \in 1 .. n + 1 /\ (i + d + 1) + 1 \in 1 .. n + 1
        BY <1>0, <2>1
      <3>. QED
        BY <1>0, <3>1
    <2>. QED
      BY <2>1, <2>2, <2>3, <2>4
  <1>4. \A d \in Nat : d \in T
    <2>. HIDE DEF T
    <2>. QED
      BY <1>2, <1>3, SetInduction
  <1>5. ASSUME NEW i \in 1 .. n + 1, NEW j \in 1 .. n + 1, i < j PROVE PlaceOf(p, i) < PlaceOf(p, j)
    <2>1. j - i - 1 \in Nat /\ i + (j - i - 1) + 1 = j
      BY <1>0, <1>5
    <2>. QED
      BY <1>0, <1>4, <2>1
  <1>. QED
    BY <1>5 DEF n

LEMMA OneAtPlace ==
    ASSUME NEW p, IsProgram(p), Solid(p), NEW i \in 1 .. Len(p)
    PROVE  /\ AtPlace(p, PlaceOf(p, i)) = {i}
           /\ PlaceOf(p, i) \in 0 .. LengthOf(p) - 1
  <1>1. /\ Len(p) \in Nat /\ DOMAIN p = 1 .. Len(p)
        /\ \A j \in 1 .. Len(p) + 1 : PlaceOf(p, j) \in Nat
    BY Places DEF IsProgram
  <1>2. \A j \in 1 .. Len(p) : PlaceOf(p, j) = PlaceOf(p, i) => j = i
    <2>. TAKE j \in 1 .. Len(p)
    <2>1. i \in 1 .. Len(p) + 1 /\ j \in 1 .. Len(p) + 1
      BY <1>1
    <2>2. i < j => PlaceOf(p, i) < PlaceOf(p, j)
      BY <2>1, PlacesGrow
    <2>3. j < i => PlaceOf(p, j) < PlaceOf(p, i)
      BY <2>1, PlacesGrow
    <2>4. PlaceOf(p, i) \in Nat /\ PlaceOf(p, j) \in Nat
      BY <1>1, <2>1
    <2>5. i < j \/ j < i \/ j = i
      BY <1>1
    <2>. QED
      BY <2>2, <2>3, <2>4, <2>5
  <1>3. PlaceOf(p, i) < LengthOf(p)
    <2>1. i \in 1 .. Len(p) + 1 /\ Len(p) + 1 \in 1 .. Len(p) + 1 /\ i < Len(p) + 1
      BY <1>1
    <2>. QED
      BY <2>1, PlacesGrow DEF LengthOf
  <1>4. PlaceOf(p, i) \in Nat /\ LengthOf(p) \in Nat
    BY <1>1 DEF LengthOf
  <1>. QED
    BY <1>1, <1>2, <1>3, <1>4 DEF AtPlace

-----------------------------------------------------------------------------
(* The trampolines, written out. *)

LEMMA Joins13 ==
    ASSUME NEW x1, NEW x2, NEW x3, NEW x4, NEW x5, NEW x6, NEW x7, NEW x8, NEW x9,
           NEW x10, NEW x11, NEW x12, NEW x13
    PROVE  LET p == <<x1, x2, x3, x4, x5, x6, x7>> \o <<x8, x9, x10>> \o <<x11, x12, x13>>
           IN  /\ Len(p) = 13 /\ DOMAIN p = 1 .. 13 /\ p[1] = x1 /\ p[2] = x2 /\ p[3] = x3
               /\ p[4] = x4 /\ p[5] = x5 /\ p[6] = x6 /\ p[7] = x7 /\ p[8] = x8 /\ p[9] = x9
               /\ p[10] = x10 /\ p[11] = x11 /\ p[12] = x12 /\ p[13] = x13
  OBVIOUS

LEMMA Joins28 ==
    ASSUME NEW x1, NEW x2, NEW x3, NEW x4, NEW x5, NEW x6, NEW x7, NEW x8, NEW x9,
           NEW x10, NEW x11, NEW x12, NEW x13, NEW x14, NEW x15, NEW x16, NEW x17,
           NEW x18, NEW x19, NEW x20, NEW x21, NEW x22, NEW x23, NEW x24, NEW x25,
           NEW x26, NEW x27, NEW x28
    PROVE  LET p == <<x1, x2, x3, x4, x5, x6, x7>> \o <<x8, x9, x10, x11, x12, x13, x14, x15, x16, x17>>
                    \o <<x18, x19, x20, x21>> \o <<x22>> \o (<<x23, x24>> \o <<x25, x26, x27, x28>>)
           IN  /\ Len(p) = 28 /\ DOMAIN p = 1 .. 28 /\ p[1] = x1 /\ p[2] = x2 /\ p[3] = x3
               /\ p[4] = x4 /\ p[5] = x5 /\ p[6] = x6 /\ p[7] = x7 /\ p[8] = x8 /\ p[9] = x9
               /\ p[10] = x10 /\ p[11] = x11 /\ p[12] = x12 /\ p[13] = x13 /\ p[14] = x14
               /\ p[15] = x15 /\ p[16] = x16 /\ p[17] = x17 /\ p[18] = x18 /\ p[19] = x19
               /\ p[20] = x20 /\ p[21] = x21 /\ p[22] = x22 /\ p[23] = x23 /\ p[24] = x24
               /\ p[25] = x25 /\ p[26] = x26 /\ p[27] = x27 /\ p[28] = x28
  OBVIOUS

Has(n, op, size, arg) == n.op = op /\ n.size = size /\ n.arg = arg

LEMMA InstrHas == \A op, size, arg : Has(Instr(op, size, arg), op, size, arg)
  BY DEF Instr, Has

\* What both trampolines begin with.
Protected(p, gdtr, pm32) ==
    /\ Has(p[1], "cli", 1, 0) /\ Has(p[2], "A20", 6, 0) /\ Has(p[3], "lgdt", 7, gdtr)
    /\ Has(p[4], "set PE", 12, 0)
    /\ Has(p[5], "far jump", 8, [sel |-> 8, to |-> ROM_LOAD_BASE + pm32])
    /\ Has(p[6], "data segments", 10, 16) /\ Has(p[7], "stack", 5, ROM_STACK32)

\* The parameters Trampoline32 and Trampoline64 build a program from.
Build32(entry, gdtr, pm32) ==
    EnterProtected(gdtr, pm32)
    \o <<Instr("load entry", 5, entry), Instr("jump", 2, 0),
         Instr("gdtr", 6, [limit |-> 3 * 8 - 1, base |-> ROM_LOAD_BASE + gdtr + 6])>>
    \o Descriptors(<<"null", "code32", "data">>)
Build64(entry, gdtr, pm32, lm64, padding, tables) ==
    EnterProtected(gdtr, pm32)
    \o <<Instr("set PAE", 9, 0), Instr("set LME", 14, 0), Instr("load CR3", 8, ROM_LOAD_BASE + tables),
         Instr("set PG", 11, 0), Instr("far jump long", 7, [sel |-> 24, to |-> ROM_LOAD_BASE + lm64]),
         Instr("data segments again", 10, 16), Instr("stack again", 10, ROM_STACK64),
         Instr("load entry", 10, entry), Instr("jump", 2, 0),
         Instr("gdtr", 6, [limit |-> 4 * 8 - 1, base |-> ROM_LOAD_BASE + gdtr + 6])>>
    \o Descriptors(<<"null", "code32", "data", "code64">>)
    \o <<Instr("padding", padding, 0)>> \o PageTables(tables)

Is32(p, entry, gdtr, pm32) ==
    /\ Len(p) = 13 /\ DOMAIN p = 1 .. 13 /\ Protected(p, gdtr, pm32)
    /\ Has(p[8], "load entry", 5, entry) /\ Has(p[9], "jump", 2, 0)
    /\ Has(p[10], "gdtr", 6, [limit |-> 23, base |-> ROM_LOAD_BASE + gdtr + 6])
    /\ Has(p[11], "null", 8, 0) /\ Has(p[12], "code32", 8, 0) /\ Has(p[13], "data", 8, 0)

LongMode(p, entry, lm64, tables) ==
    /\ Has(p[8], "set PAE", 9, 0) /\ Has(p[9], "set LME", 14, 0)
    /\ Has(p[10], "load CR3", 8, ROM_LOAD_BASE + tables) /\ Has(p[11], "set PG", 11, 0)
    /\ Has(p[12], "far jump long", 7, [sel |-> 24, to |-> ROM_LOAD_BASE + lm64])
    /\ Has(p[13], "data segments again", 10, 16) /\ Has(p[14], "stack again", 10, ROM_STACK64)
    /\ Has(p[15], "load entry", 10, entry) /\ Has(p[16], "jump", 2, 0)
DescriptorTable(p, gdtr, padding) ==
    /\ Has(p[17], "gdtr", 6, [limit |-> 31, base |-> ROM_LOAD_BASE + gdtr + 6])
    /\ Has(p[18], "null", 8, 0) /\ Has(p[19], "code32", 8, 0)
    /\ Has(p[20], "data", 8, 0) /\ Has(p[21], "code64", 8, 0)
    /\ Has(p[22], "padding", padding, 0)
Pages(p, tables) ==
    /\ Has(p[23], "PML4", 4096, ROM_LOAD_BASE + tables + 4096)
    /\ Has(p[24], "PDPT", 4096, [i \in 0 .. 3 |-> ROM_LOAD_BASE + tables + 8192 + 4096 * i])
    /\ Has(p[25], "PD", 4096, 0) /\ Has(p[26], "PD", 4096, 1)
    /\ Has(p[27], "PD", 4096, 2) /\ Has(p[28], "PD", 4096, 3)
Is64(p, entry, gdtr, pm32, lm64, padding, tables) ==
    /\ Len(p) = 28 /\ DOMAIN p = 1 .. 28 /\ Protected(p, gdtr, pm32)
    /\ LongMode(p, entry, lm64, tables) /\ DescriptorTable(p, gdtr, padding) /\ Pages(p, tables)

LEMMA Built32 ==
    ASSUME NEW entry, NEW gdtr, NEW pm32
    PROVE  Is32(Build32(entry, gdtr, pm32), entry, gdtr, pm32)
  <1>. DEFINE x1 == Instr("cli", 1, 0)
              x2 == Instr("A20", 6, 0)
              x3 == Instr("lgdt", 7, gdtr)
              x4 == Instr("set PE", 12, 0)
              x5 == Instr("far jump", 8, [sel |-> 8, to |-> ROM_LOAD_BASE + pm32])
              x6 == Instr("data segments", 10, 16)
              x7 == Instr("stack", 5, ROM_STACK32)
              x8 == Instr("load entry", 5, entry)
              x9 == Instr("jump", 2, 0)
              x10 == Instr("gdtr", 6, [limit |-> 3 * 8 - 1, base |-> ROM_LOAD_BASE + gdtr + 6])
              x11 == Instr("null", 8, 0)
              x12 == Instr("code32", 8, 0)
              x13 == Instr("data", 8, 0)
              p == Build32(entry, gdtr, pm32)
  <1>1. Descriptors(<<"null", "code32", "data">>) = <<x11, x12, x13>>
    BY DEF Descriptors, Instr
  <1>2. p = <<x1, x2, x3, x4, x5, x6, x7>> \o <<x8, x9, x10>> \o <<x11, x12, x13>>
    BY <1>1 DEF Build32, EnterProtected
  <1>. HIDE DEF x1, x2, x3, x4, x5, x6, x7, x8, x9, x10, x11, x12, x13, p
  <1>3. Len(p) = 13 /\ DOMAIN p = 1 .. 13
        /\ p[1] = x1 /\ p[2] = x2 /\ p[3] = x3 /\ p[4] = x4 /\ p[5] = x5 /\ p[6] = x6 /\ p[7] = x7
        /\ p[8] = x8 /\ p[9] = x9 /\ p[10] = x10 /\ p[11] = x11 /\ p[12] = x12 /\ p[13] = x13
    BY <1>2, Joins13
  <1>4. Protected(p, gdtr, pm32)
    BY <1>3, InstrHas DEF Protected, x1, x2, x3, x4, x5, x6, x7
  <1>5. Has(p[10], "gdtr", 6, [limit |-> 23, base |-> ROM_LOAD_BASE + gdtr + 6])
    BY <1>3, InstrHas DEF x10
  <1>. QED
    BY <1>3, <1>4, <1>5, InstrHas DEF Is32, x8, x9, x11, x12, x13, p

LEMMA Built64 ==
    ASSUME NEW entry, NEW gdtr, NEW pm32, NEW lm64, NEW padding, NEW tables
    PROVE  Is64(Build64(entry, gdtr, pm32, lm64, padding, tables), entry, gdtr, pm32, lm64, padding, tables)
  <1>. DEFINE x1 == Instr("cli", 1, 0)
              x2 == Instr("A20", 6, 0)
              x3 == Instr("lgdt", 7, gdtr)
              x4 == Instr("set PE", 12, 0)
              x5 == Instr("far jump", 8, [sel |-> 8, to |-> ROM_LOAD_BASE + pm32])
              x6 == Instr("data segments", 10, 16)
              x7 == Instr("stack", 5, ROM_STACK32)
              x8 == Instr("set PAE", 9, 0)
              x9 == Instr("set LME", 14, 0)
              x10 == Instr("load CR3", 8, ROM_LOAD_BASE + tables)
              x11 == Instr("set PG", 11, 0)
              x12 == Instr("far jump long", 7, [sel |-> 24, to |-> ROM_LOAD_BASE + lm64])
              x13 == Instr("data segments again", 10, 16)
              x14 == Instr("stack again", 10, ROM_STACK64)
              x15 == Instr("load entry", 10, entry)
              x16 == Instr("jump", 2, 0)
              x17 == Instr("gdtr", 6, [limit |-> 4 * 8 - 1, base |-> ROM_LOAD_BASE + gdtr + 6])
              x18 == Instr("null", 8, 0)
              x19 == Instr("code32", 8, 0)
              x20 == Instr("data", 8, 0)
              x21 == Instr("code64", 8, 0)
              x22 == Instr("padding", padding, 0)
              x23 == Instr("PML4", 4096, ROM_LOAD_BASE + tables + 4096)
              x24 == Instr("PDPT", 4096, [i \in 0 .. 3 |-> ROM_LOAD_BASE + tables + 8192 + 4096 * i])
              x25 == Instr("PD", 4096, 0)
              x26 == Instr("PD", 4096, 1)
              x27 == Instr("PD", 4096, 2)
              x28 == Instr("PD", 4096, 3)
              p == Build64(entry, gdtr, pm32, lm64, padding, tables)
  <1>1. Descriptors(<<"null", "code32", "data", "code64">>) = <<x18, x19, x20, x21>>
    BY DEF Descriptors, Instr
  <1>2. PageTables(tables) = <<x23, x24>> \o <<x25, x26, x27, x28>>
    <2>1. [i \in 1 .. 4 |-> Instr("PD", 4096, i - 1)] = <<x25, x26, x27, x28>>
      BY DEF Instr
    <2>. QED
      BY <2>1 DEF PageTables
  <1>. HIDE DEF x23, x24, x25, x26, x27, x28
  <1>3. p = <<x1, x2, x3, x4, x5, x6, x7>> \o <<x8, x9, x10, x11, x12, x13, x14, x15, x16, x17>>
            \o <<x18, x19, x20, x21>> \o <<x22>> \o (<<x23, x24>> \o <<x25, x26, x27, x28>>)
    BY <1>1, <1>2 DEF Build64, EnterProtected
  <1>. HIDE DEF x1, x2, x3, x4, x5, x6, x7, x8, x9, x10, x11, x12, x13, x14,
                x15, x16, x17, x18, x19, x20, x21, x22, x23, x24, x25, x26, x27, x28, p
  <1>4. Len(p) = 28 /\ DOMAIN p = 1 .. 28
        /\ p[1] = x1 /\ p[2] = x2 /\ p[3] = x3 /\ p[4] = x4 /\ p[5] = x5 /\ p[6] = x6 /\ p[7] = x7
        /\ p[8] = x8 /\ p[9] = x9 /\ p[10] = x10 /\ p[11] = x11 /\ p[12] = x12 /\ p[13] = x13
        /\ p[14] = x14 /\ p[15] = x15 /\ p[16] = x16 /\ p[17] = x17 /\ p[18] = x18 /\ p[19] = x19
        /\ p[20] = x20 /\ p[21] = x21 /\ p[22] = x22 /\ p[23] = x23 /\ p[24] = x24 /\ p[25] = x25
        /\ p[26] = x26 /\ p[27] = x27 /\ p[28] = x28
    BY <1>3, Joins28
  <1>5. Protected(p, gdtr, pm32)
    BY <1>4, InstrHas DEF Protected, x1, x2, x3, x4, x5, x6, x7
  <1>6. Has(p[17], "gdtr", 6, [limit |-> 31, base |-> ROM_LOAD_BASE + gdtr + 6])
    BY <1>4, InstrHas DEF x17
  <1>7. LongMode(p, entry, lm64, tables)
    BY ZenonT(40), <1>4, InstrHas DEF LongMode, x8, x9, x10, x11, x12, x13, x14, x15, x16
  <1>8. DescriptorTable(p, gdtr, padding)
    BY <1>4, <1>6, InstrHas DEF DescriptorTable, x18, x19, x20, x21, x22
  <1>9. Pages(p, tables)
    BY <1>4, InstrHas DEF Pages, x23, x24, x25, x26, x27, x28
  <1>. QED
    BY <1>4, <1>5, <1>7, <1>8, <1>9 DEF Is64, p

-----------------------------------------------------------------------------
(* Where their parts are. *)

LEMMA OpAt ==
    ASSUME NEW p, NEW op, NEW k \in DOMAIN p, \A i \in DOMAIN p : p[i].op = op <=> i = k
    PROVE  PlaceOfOp(p, op) = PlaceOf(p, k)
  <1>1. (CHOOSE i \in DOMAIN p : p[i].op = op) = k
    OBVIOUS
  <1>. QED
    BY <1>1 DEF PlaceOfOp

\* The places of the first instructions, from their sizes.
LEMMA FirstPlaces ==
    ASSUME NEW p, IsProgram(p), Len(p) >= 13, NEW gdtr, NEW pm32, Protected(p, gdtr, pm32)
    PROVE  /\ PlaceOf(p, 1) = 0 /\ PlaceOf(p, 2) = 1 /\ PlaceOf(p, 3) = 7
           /\ PlaceOf(p, 4) = 14 /\ PlaceOf(p, 5) = 26 /\ PlaceOf(p, 6) = 34
           /\ PlaceOf(p, 7) = 44 /\ PlaceOf(p, 8) = 49
  <1>1. /\ p[1].size = 1 /\ p[2].size = 6 /\ p[3].size = 7 /\ p[4].size = 12
        /\ p[5].size = 8 /\ p[6].size = 10 /\ p[7].size = 5
    BY DEF Protected, Has
  <1>2. PlaceOf(p, 1) = 0
    BY Places
  <1>3. /\ 1 \in 1 .. Len(p) /\ 2 \in 1 .. Len(p) /\ 3 \in 1 .. Len(p) /\ 4 \in 1 .. Len(p)
        /\ 5 \in 1 .. Len(p) /\ 6 \in 1 .. Len(p) /\ 7 \in 1 .. Len(p)
    BY DEF IsProgram
  <1>4. /\ PlaceOf(p, 1 + 1) = PlaceOf(p, 1) + p[1].size
        /\ PlaceOf(p, 2 + 1) = PlaceOf(p, 2) + p[2].size
        /\ PlaceOf(p, 3 + 1) = PlaceOf(p, 3) + p[3].size
        /\ PlaceOf(p, 4 + 1) = PlaceOf(p, 4) + p[4].size
        /\ PlaceOf(p, 5 + 1) = PlaceOf(p, 5) + p[5].size
        /\ PlaceOf(p, 6 + 1) = PlaceOf(p, 6) + p[6].size
        /\ PlaceOf(p, 7 + 1) = PlaceOf(p, 7) + p[7].size
    BY Zenon, <1>3, Places
  <1>. QED
    BY <1>1, <1>2, <1>4

Places32(p) ==
    /\ PlaceOf(p, 1) = 0 /\ PlaceOf(p, 2) = 1 /\ PlaceOf(p, 3) = 7 /\ PlaceOf(p, 4) = 14
    /\ PlaceOf(p, 5) = 26 /\ PlaceOf(p, 6) = 34 /\ PlaceOf(p, 7) = 44 /\ PlaceOf(p, 8) = 49
    /\ PlaceOf(p, 9) = 54 /\ PlaceOf(p, 10) = 56 /\ PlaceOf(p, 11) = 62
    /\ PlaceOf(p, 12) = 70 /\ PlaceOf(p, 13) = 78 /\ PlaceOf(p, 14) = 86
LEMMA ThePlaces32 ==
    ASSUME NEW p, NEW entry, NEW gdtr, NEW pm32, Is32(p, entry, gdtr, pm32)
    PROVE  IsProgram(p) /\ Solid(p) /\ Places32(p)
  <1>1. /\ p[1].size = 1 /\ p[2].size = 6 /\ p[3].size = 7 /\ p[4].size = 12
        /\ p[5].size = 8 /\ p[6].size = 10 /\ p[7].size = 5 /\ p[8].size = 5
        /\ p[9].size = 2 /\ p[10].size = 6 /\ p[11].size = 8 /\ p[12].size = 8
        /\ p[13].size = 8
    BY DEF Is32, Protected, Has
  <1>2. Len(p) = 13 /\ DOMAIN p = 1 .. 13 /\ Protected(p, gdtr, pm32)
    BY DEF Is32
  <1>3. IsProgram(p) /\ Solid(p)
    <2>1. \A i \in 1 .. 13 : p[i].size \in Nat \ {0}
      <3>. TAKE i \in 1 .. 13
      <3>1. \/ i = 1 \/ i = 2 \/ i = 3 \/ i = 4 \/ i = 5 \/ i = 6 \/ i = 7
            \/ i = 8 \/ i = 9 \/ i = 10 \/ i = 11 \/ i = 12 \/ i = 13
        OBVIOUS
      <3>. QED
        BY <1>1, <3>1
    <2>. QED
      BY <1>2, <2>1 DEF IsProgram, Solid
  <1>4. /\ PlaceOf(p, 8 + 1) = PlaceOf(p, 8) + p[8].size
        /\ PlaceOf(p, 9 + 1) = PlaceOf(p, 9) + p[9].size
        /\ PlaceOf(p, 10 + 1) = PlaceOf(p, 10) + p[10].size
        /\ PlaceOf(p, 11 + 1) = PlaceOf(p, 11) + p[11].size
        /\ PlaceOf(p, 12 + 1) = PlaceOf(p, 12) + p[12].size
        /\ PlaceOf(p, 13 + 1) = PlaceOf(p, 13) + p[13].size
    <2>1. /\ 8 \in 1 .. Len(p) /\ 9 \in 1 .. Len(p) /\ 10 \in 1 .. Len(p)
          /\ 11 \in 1 .. Len(p) /\ 12 \in 1 .. Len(p) /\ 13 \in 1 .. Len(p)
      BY <1>2
    <2>. QED
      BY Zenon, <1>3, <2>1, Places
  <1>5. /\ PlaceOf(p, 1) = 0 /\ PlaceOf(p, 2) = 1 /\ PlaceOf(p, 3) = 7 /\ PlaceOf(p, 4) = 14
        /\ PlaceOf(p, 5) = 26 /\ PlaceOf(p, 6) = 34 /\ PlaceOf(p, 7) = 44
        /\ PlaceOf(p, 8) = 49
    <2>1. Len(p) >= 13
      BY <1>2
    <2>. QED
      BY <1>2, <1>3, <2>1, FirstPlaces
  <1>6. Places32(p)
    BY <1>1, <1>4, <1>5 DEF Places32
  <1>. QED
    BY <1>3, <1>6

LEMMA Trampoline32Is ==
    ASSUME NEW entry
    PROVE  Is32(Trampoline32(entry), entry, 56, 34)
  <1>. DEFINE d == Build32(entry, 0, 0)
  <1>1. Trampoline32(entry) = Build32(entry, PlaceOfOp(d, "gdtr"), PlaceOfOp(d, "data segments"))
    BY DEF Trampoline32, Build32
  <1>2. Is32(d, entry, 0, 0)
    BY Built32
  <1>. HIDE DEF d
  <1>3. Places32(d)
    BY <1>2, ThePlaces32
  <1>4. \A i \in 1 .. 13 : (d[i].op = "gdtr" <=> i = 10) /\ (d[i].op = "data segments" <=> i = 6)
    <2>1. /\ d[1].op = "cli" /\ d[2].op = "A20" /\ d[3].op = "lgdt" /\ d[4].op = "set PE"
          /\ d[5].op = "far jump" /\ d[6].op = "data segments" /\ d[7].op = "stack"
          /\ d[8].op = "load entry" /\ d[9].op = "jump" /\ d[10].op = "gdtr"
          /\ d[11].op = "null" /\ d[12].op = "code32" /\ d[13].op = "data"
      BY <1>2 DEF Is32, Protected, Has
    <2>. TAKE i \in 1 .. 13
    <2>2. \/ i = 1 \/ i = 2 \/ i = 3 \/ i = 4 \/ i = 5 \/ i = 6 \/ i = 7
          \/ i = 8 \/ i = 9 \/ i = 10 \/ i = 11 \/ i = 12 \/ i = 13
      OBVIOUS
    <2>. QED
      BY <2>1, <2>2
  <1>5. PlaceOfOp(d, "gdtr") = PlaceOf(d, 10) /\ PlaceOfOp(d, "data segments") = PlaceOf(d, 6)
    <2>1. DOMAIN d = 1 .. 13
      BY <1>2 DEF Is32
    <2>2. 10 \in DOMAIN d /\ 6 \in DOMAIN d
      BY <2>1
    <2>3. \A i \in DOMAIN d : (d[i].op = "gdtr") <=> (i = 10)
      BY Zenon, <1>4, <2>1
    <2>4. \A i \in DOMAIN d : (d[i].op = "data segments") <=> (i = 6)
      BY Zenon, <1>4, <2>1
    <2>. QED
      BY <2>2, <2>3, <2>4, OpAt
  <1>6. Trampoline32(entry) = Build32(entry, 56, 34)
    BY <1>1, <1>3, <1>5 DEF Places32
  <1>. QED
    BY <1>6, Built32

Places64(p, padding) ==
    /\ PlaceOf(p, 1) = 0 /\ PlaceOf(p, 2) = 1 /\ PlaceOf(p, 3) = 7 /\ PlaceOf(p, 4) = 14
    /\ PlaceOf(p, 5) = 26 /\ PlaceOf(p, 6) = 34 /\ PlaceOf(p, 7) = 44 /\ PlaceOf(p, 8) = 49
    /\ PlaceOf(p, 9) = 58 /\ PlaceOf(p, 10) = 72 /\ PlaceOf(p, 11) = 80 /\ PlaceOf(p, 12) = 91
    /\ PlaceOf(p, 13) = 98 /\ PlaceOf(p, 14) = 108 /\ PlaceOf(p, 15) = 118
    /\ PlaceOf(p, 16) = 128 /\ PlaceOf(p, 17) = 130 /\ PlaceOf(p, 18) = 136
    /\ PlaceOf(p, 19) = 144 /\ PlaceOf(p, 20) = 152 /\ PlaceOf(p, 21) = 160
    /\ PlaceOf(p, 22) = 168 /\ PlaceOf(p, 23) = 168 + padding
    /\ PlaceOf(p, 24) = 168 + padding + 4096 /\ PlaceOf(p, 25) = 168 + padding + 8192
    /\ PlaceOf(p, 26) = 168 + padding + 12288 /\ PlaceOf(p, 27) = 168 + padding + 16384
    /\ PlaceOf(p, 28) = 168 + padding + 20480 /\ PlaceOf(p, 29) = 168 + padding + 24576

LEMMA ThePlaces64 ==
    ASSUME NEW p, NEW entry, NEW gdtr, NEW pm32, NEW lm64, NEW padding \in Nat, NEW tables,
           Is64(p, entry, gdtr, pm32, lm64, padding, tables)
    PROVE  IsProgram(p) /\ (padding # 0 => Solid(p)) /\ Places64(p, padding)
  <1>1. /\ p[1].size = 1 /\ p[2].size = 6 /\ p[3].size = 7 /\ p[4].size = 12
        /\ p[5].size = 8 /\ p[6].size = 10 /\ p[7].size = 5
    BY DEF Is64, Protected, Has
  <1>2. /\ p[8].size = 9 /\ p[9].size = 14 /\ p[10].size = 8 /\ p[11].size = 11
        /\ p[12].size = 7 /\ p[13].size = 10 /\ p[14].size = 10 /\ p[15].size = 10
        /\ p[16].size = 2
    BY DEF Is64, LongMode, Has
  <1>3. /\ p[17].size = 6 /\ p[18].size = 8 /\ p[19].size = 8 /\ p[20].size = 8
        /\ p[21].size = 8 /\ p[22].size = padding
    BY DEF Is64, DescriptorTable, Has
  <1>4. /\ p[23].size = 4096 /\ p[24].size = 4096 /\ p[25].size = 4096
        /\ p[26].size = 4096 /\ p[27].size = 4096 /\ p[28].size = 4096
    BY SMT DEF Is64, Pages, Has
  <1>5. Len(p) = 28 /\ DOMAIN p = 1 .. 28 /\ Protected(p, gdtr, pm32)
    BY DEF Is64
  <1>6. \A i \in 1 .. 28 : p[i].size \in Nat /\ (padding # 0 => p[i].size # 0)
    <2>. TAKE i \in 1 .. 28
    <2>1. \/ i \in 1 .. 7 \/ i \in 8 .. 16 \/ i \in 17 .. 22 \/ i \in 23 .. 28
      OBVIOUS
    <2>2. CASE i \in 1 .. 7
      <3>1. i = 1 \/ i = 2 \/ i = 3 \/ i = 4 \/ i = 5 \/ i = 6 \/ i = 7
        BY <2>2
      <3>. QED
        BY SMT, <1>1, <3>1
    <2>3. CASE i \in 8 .. 16
      <3>1. i = 8 \/ i = 9 \/ i = 10 \/ i = 11 \/ i = 12 \/ i = 13 \/ i = 14 \/ i = 15 \/ i = 16
        BY <2>3
      <3>. QED
        BY SMT, <1>2, <3>1
    <2>4. CASE i \in 17 .. 22
      <3>1. i = 17 \/ i = 18 \/ i = 19 \/ i = 20 \/ i = 21 \/ i = 22
        BY <2>4
      <3>. QED
        BY SMT, <1>3, <3>1
    <2>5. CASE i \in 23 .. 28
      <3>1. i = 23 \/ i = 24 \/ i = 25 \/ i = 26 \/ i = 27 \/ i = 28
        BY <2>5
      <3>. QED
        BY SMT, <1>4, <3>1
    <2>. QED
      BY <2>1, <2>2, <2>3, <2>4, <2>5
  <1>7. IsProgram(p) /\ (padding # 0 => Solid(p))
    BY <1>5, <1>6 DEF IsProgram, Solid
  <1>8. \A i \in 1 .. Len(p) : PlaceOf(p, i + 1) = PlaceOf(p, i) + p[i].size
    BY <1>7, Places
  <1>9. /\ PlaceOf(p, 1) = 0 /\ PlaceOf(p, 2) = 1 /\ PlaceOf(p, 3) = 7 /\ PlaceOf(p, 4) = 14
        /\ PlaceOf(p, 5) = 26 /\ PlaceOf(p, 6) = 34 /\ PlaceOf(p, 7) = 44
        /\ PlaceOf(p, 8) = 49
    <2>1. Len(p) >= 13
      BY <1>5
    <2>. QED
      BY <1>5, <1>7, <2>1, FirstPlaces
  <1>10. /\ PlaceOf(p, 9) = 58 /\ PlaceOf(p, 10) = 72 /\ PlaceOf(p, 11) = 80
         /\ PlaceOf(p, 12) = 91 /\ PlaceOf(p, 13) = 98 /\ PlaceOf(p, 14) = 108
         /\ PlaceOf(p, 15) = 118 /\ PlaceOf(p, 16) = 128 /\ PlaceOf(p, 17) = 130
    <2>1. /\ 8 \in 1 .. Len(p) /\ 9 \in 1 .. Len(p) /\ 10 \in 1 .. Len(p) /\ 11 \in 1 .. Len(p)
          /\ 12 \in 1 .. Len(p) /\ 13 \in 1 .. Len(p) /\ 14 \in 1 .. Len(p)
          /\ 15 \in 1 .. Len(p) /\ 16 \in 1 .. Len(p)
      BY <1>5
    <2>2. /\ PlaceOf(p, 8 + 1) = PlaceOf(p, 8) + p[8].size
          /\ PlaceOf(p, 9 + 1) = PlaceOf(p, 9) + p[9].size
          /\ PlaceOf(p, 10 + 1) = PlaceOf(p, 10) + p[10].size
          /\ PlaceOf(p, 11 + 1) = PlaceOf(p, 11) + p[11].size
          /\ PlaceOf(p, 12 + 1) = PlaceOf(p, 12) + p[12].size
          /\ PlaceOf(p, 13 + 1) = PlaceOf(p, 13) + p[13].size
          /\ PlaceOf(p, 14 + 1) = PlaceOf(p, 14) + p[14].size
          /\ PlaceOf(p, 15 + 1) = PlaceOf(p, 15) + p[15].size
          /\ PlaceOf(p, 16 + 1) = PlaceOf(p, 16) + p[16].size
      BY Zenon, <1>8, <2>1
    <2>. QED
      BY SMT, <1>2, <1>9, <2>2
  <1>11. /\ PlaceOf(p, 18) = 136 /\ PlaceOf(p, 19) = 144 /\ PlaceOf(p, 20) = 152
         /\ PlaceOf(p, 21) = 160 /\ PlaceOf(p, 22) = 168 /\ PlaceOf(p, 23) = 168 + padding
    <2>1. /\ 17 \in 1 .. Len(p) /\ 18 \in 1 .. Len(p) /\ 19 \in 1 .. Len(p) /\ 20 \in 1 .. Len(p)
          /\ 21 \in 1 .. Len(p) /\ 22 \in 1 .. Len(p)
      BY <1>5
    <2>2. /\ PlaceOf(p, 17 + 1) = PlaceOf(p, 17) + p[17].size
          /\ PlaceOf(p, 18 + 1) = PlaceOf(p, 18) + p[18].size
          /\ PlaceOf(p, 19 + 1) = PlaceOf(p, 19) + p[19].size
          /\ PlaceOf(p, 20 + 1) = PlaceOf(p, 20) + p[20].size
          /\ PlaceOf(p, 21 + 1) = PlaceOf(p, 21) + p[21].size
          /\ PlaceOf(p, 22 + 1) = PlaceOf(p, 22) + p[22].size
      BY Zenon, <1>8, <2>1
    <2>. QED
      BY SMT, <1>3, <1>10, <2>2
  <1>12. /\ PlaceOf(p, 24) = 168 + padding + 4096 /\ PlaceOf(p, 25) = 168 + padding + 8192
         /\ PlaceOf(p, 26) = 168 + padding + 12288 /\ PlaceOf(p, 27) = 168 + padding + 16384
         /\ PlaceOf(p, 28) = 168 + padding + 20480 /\ PlaceOf(p, 29) = 168 + padding + 24576
    <2>1. /\ 23 \in 1 .. Len(p) /\ 24 \in 1 .. Len(p) /\ 25 \in 1 .. Len(p) /\ 26 \in 1 .. Len(p)
          /\ 27 \in 1 .. Len(p) /\ 28 \in 1 .. Len(p)
      BY <1>5
    <2>2. /\ PlaceOf(p, 23 + 1) = PlaceOf(p, 23) + p[23].size
          /\ PlaceOf(p, 24 + 1) = PlaceOf(p, 24) + p[24].size
          /\ PlaceOf(p, 25 + 1) = PlaceOf(p, 25) + p[25].size
          /\ PlaceOf(p, 26 + 1) = PlaceOf(p, 26) + p[26].size
          /\ PlaceOf(p, 27 + 1) = PlaceOf(p, 27) + p[27].size
          /\ PlaceOf(p, 28 + 1) = PlaceOf(p, 28) + p[28].size
      BY Zenon, <1>8, <2>1
    <2>. QED
      BY SMT, <1>4, <1>11, <2>2
  <1>13. Places64(p, padding)
    BY SMT, <1>9, <1>10, <1>11, <1>12 DEF Places64
  <1>. QED
    BY <1>7, <1>13

LEMMA Trampoline64Is ==
    ASSUME NEW entry
    PROVE  Is64(Trampoline64(entry), entry, 130, 34, 98, 3928, 4096)
  <1>. DEFINE d == Build64(entry, 0, 0, 0, 0, 0)
              at == PlaceOfOp(d, "padding")
              gdtr == PlaceOfOp(d, "gdtr")
              pm32 == PlaceOfOp(d, "data segments")
              lm64 == PlaceOfOp(d, "data segments again")
              padding == AlignUp(at, 4096) - at
              tables == at + padding
  <1>1. Trampoline64(entry) = Build64(entry, gdtr, pm32, lm64, padding, tables)
    BY DEF Trampoline64, Build64
  <1>2. Is64(d, entry, 0, 0, 0, 0, 0)
    BY Built64
  <1>. HIDE DEF d
  <1>3. Places64(d, 0)
    BY <1>2, ThePlaces64
  <1>4. /\ d[1].op = "cli" /\ d[2].op = "A20" /\ d[3].op = "lgdt" /\ d[4].op = "set PE"
        /\ d[5].op = "far jump" /\ d[6].op = "data segments" /\ d[7].op = "stack"
    BY <1>2 DEF Is64, Protected, Has
  <1>5. /\ d[8].op = "set PAE" /\ d[9].op = "set LME" /\ d[10].op = "load CR3"
        /\ d[11].op = "set PG" /\ d[12].op = "far jump long"
        /\ d[13].op = "data segments again" /\ d[14].op = "stack again"
        /\ d[15].op = "load entry" /\ d[16].op = "jump"
    BY <1>2 DEF Is64, LongMode, Has
  <1>6. /\ d[17].op = "gdtr" /\ d[18].op = "null" /\ d[19].op = "code32"
        /\ d[20].op = "data" /\ d[21].op = "code64" /\ d[22].op = "padding"
    BY <1>2 DEF Is64, DescriptorTable, Has
  <1>7. /\ d[23].op = "PML4" /\ d[24].op = "PDPT" /\ d[25].op = "PD"
        /\ d[26].op = "PD" /\ d[27].op = "PD" /\ d[28].op = "PD"
    BY SMT, <1>2 DEF Is64, Pages, Has
  <1>8. DOMAIN d = 1 .. 28
    BY <1>2 DEF Is64
  <1>9. /\ \A i \in 1 .. 28 : (d[i].op = "gdtr") <=> (i = 17)
        /\ \A i \in 1 .. 28 : (d[i].op = "data segments") <=> (i = 6)
        /\ \A i \in 1 .. 28 : (d[i].op = "data segments again") <=> (i = 13)
        /\ \A i \in 1 .. 28 : (d[i].op = "padding") <=> (i = 22)
    <2>1. \A i \in 1 .. 28 :
             \/ i = 1 \/ i = 2 \/ i = 3 \/ i = 4 \/ i = 5 \/ i = 6 \/ i = 7 \/ i = 8 \/ i = 9
             \/ i = 10 \/ i = 11 \/ i = 12 \/ i = 13 \/ i = 14 \/ i = 15 \/ i = 16 \/ i = 17
             \/ i = 18 \/ i = 19 \/ i = 20 \/ i = 21 \/ i = 22 \/ i = 23 \/ i = 24 \/ i = 25
             \/ i = 26 \/ i = 27 \/ i = 28
      OBVIOUS
    <2>2. \A i \in 1 .. 28 : (d[i].op = "gdtr") <=> (i = 17)
      BY <2>1, <1>4, <1>5, <1>6, <1>7
    <2>3. \A i \in 1 .. 28 : (d[i].op = "data segments") <=> (i = 6)
      BY <2>1, <1>4, <1>5, <1>6, <1>7
    <2>4. \A i \in 1 .. 28 : (d[i].op = "data segments again") <=> (i = 13)
      BY <2>1, <1>4, <1>5, <1>6, <1>7
    <2>5. \A i \in 1 .. 28 : (d[i].op = "padding") <=> (i = 22)
      BY <2>1, <1>4, <1>5, <1>6, <1>7
    <2>. QED
      BY <2>2, <2>3, <2>4, <2>5
  <1>10. /\ PlaceOfOp(d, "gdtr") = PlaceOf(d, 17) /\ PlaceOfOp(d, "data segments") = PlaceOf(d, 6)
         /\ PlaceOfOp(d, "data segments again") = PlaceOf(d, 13) /\ at = PlaceOf(d, 22)
    <2>1. 17 \in DOMAIN d /\ 6 \in DOMAIN d /\ 13 \in DOMAIN d /\ 22 \in DOMAIN d
      BY <1>8
    <2>2. /\ \A i \in DOMAIN d : (d[i].op = "gdtr") <=> (i = 17)
          /\ \A i \in DOMAIN d : (d[i].op = "data segments") <=> (i = 6)
          /\ \A i \in DOMAIN d : (d[i].op = "data segments again") <=> (i = 13)
          /\ \A i \in DOMAIN d : (d[i].op = "padding") <=> (i = 22)
      BY Zenon, <1>8, <1>9
    <2>. HIDE DEF at
    <2>3. PlaceOfOp(d, "gdtr") = PlaceOf(d, 17)
      BY ZenonT(40), <2>1, <2>2, OpAt
    <2>4. PlaceOfOp(d, "data segments") = PlaceOf(d, 6)
      BY ZenonT(40), <2>1, <2>2, OpAt
    <2>5. PlaceOfOp(d, "data segments again") = PlaceOf(d, 13)
      BY ZenonT(40), <2>1, <2>2, OpAt
    <2>6. PlaceOfOp(d, "padding") = PlaceOf(d, 22)
      BY ZenonT(40), <2>1, <2>2, OpAt
    <2>. QED
      BY <2>3, <2>4, <2>5, <2>6 DEF at
  <1>11. /\ PlaceOf(d, 17) = 130 /\ PlaceOf(d, 6) = 34 /\ PlaceOf(d, 13) = 98 /\ PlaceOf(d, 22) = 168
    BY <1>3 DEF Places64
  <1>12. AlignUp(168, 4096) - 168 = 3928 /\ 168 + (AlignUp(168, 4096) - 168) = 4096
    BY SMT DEF AlignUp
  <1>13. Trampoline64(entry) = Build64(entry, 130, 34, 98, 3928, 4096)
    <2>1. gdtr = 130 /\ pm32 = 34 /\ lm64 = 98 /\ at = 168
      BY <1>10, <1>11
    <2>. HIDE DEF at, gdtr, pm32, lm64
    <2>2. padding = 3928
      BY <1>12, <2>1
    <2>. HIDE DEF padding
    <2>3. tables = 4096
      BY <2>1, <2>2
    <2>. HIDE DEF tables
    <2>. QED
      BY <1>1, <2>1, <2>2, <2>3
  <1>. QED
    BY <1>13, Built64

Is16(p, entry) ==
    /\ Len(p) = 5 /\ DOMAIN p = 1 .. 5
    /\ Has(p[1], "cli", 1, 0) /\ Has(p[2], "clear segments", 2, 0)
    /\ p[3].op = "stack" /\ p[3].size = 7
    /\ Has(p[4], "jump through word", 5, 15) /\ Has(p[5], "word", 2, 17 + entry)
Places16(p) ==
    /\ PlaceOf(p, 1) = 0 /\ PlaceOf(p, 2) = 1 /\ PlaceOf(p, 3) = 3 /\ PlaceOf(p, 4) = 10
    /\ PlaceOf(p, 5) = 15 /\ PlaceOf(p, 6) = 17

LEMMA ThePlaces16 ==
    ASSUME NEW p, Len(p) = 5, DOMAIN p = 1 .. 5, p[1].size = 1, p[2].size = 2,
           p[3].size = 7, p[4].size = 5, p[5].size = 2
    PROVE  IsProgram(p) /\ Solid(p) /\ Places16(p)
  <1>1. IsProgram(p) /\ Solid(p)
    <2>1. \A i \in 1 .. 5 : p[i].size \in Nat \ {0}
      <3>. TAKE i \in 1 .. 5
      <3>1. i = 1 \/ i = 2 \/ i = 3 \/ i = 4 \/ i = 5
        OBVIOUS
      <3>. QED
        BY <3>1
    <2>. QED
      BY <2>1 DEF IsProgram, Solid
  <1>2. /\ PlaceOf(p, 1 + 1) = PlaceOf(p, 1) + p[1].size
        /\ PlaceOf(p, 2 + 1) = PlaceOf(p, 2) + p[2].size
        /\ PlaceOf(p, 3 + 1) = PlaceOf(p, 3) + p[3].size
        /\ PlaceOf(p, 4 + 1) = PlaceOf(p, 4) + p[4].size
        /\ PlaceOf(p, 5 + 1) = PlaceOf(p, 5) + p[5].size
    <2>1. 1 \in 1 .. Len(p) /\ 2 \in 1 .. Len(p) /\ 3 \in 1 .. Len(p) /\ 4 \in 1 .. Len(p) /\ 5 \in 1 .. Len(p)
      OBVIOUS
    <2>. QED
      BY Zenon, <1>1, <2>1, Places
  <1>3. PlaceOf(p, 1) = 0
    BY <1>1, Places
  <1>4. Places16(p)
    BY <1>2, <1>3 DEF Places16
  <1>. QED
    BY <1>1, <1>4

LEMMA Trampoline16Is ==
    ASSUME NEW entry
    PROVE  Is16(Trampoline16(entry), entry)
  <1>. DEFINE x1 == Instr("cli", 1, 0)
              x2 == Instr("clear segments", 2, 0)
              x3 == Instr("stack", 7, 31744)
              x4 == Instr("jump through word", 5, 15)
              x5 == Instr("word", 2, 0)
              code == <<x1, x2, x3, x4, x5>>
              p == [code EXCEPT ![5].arg = LengthOf(code) + entry]
  <1>1. Trampoline16(entry) = p
    BY DEF Trampoline16
  <1>2. Len(code) = 5 /\ DOMAIN code = 1 .. 5
    OBVIOUS
  <1>3. /\ code[1].size = 1 /\ code[2].size = 2 /\ code[3].size = 7 /\ code[4].size = 5
        /\ code[5].size = 2
    <2>1. x1.size = 1 /\ x2.size = 2 /\ x3.size = 7 /\ x4.size = 5 /\ x5.size = 2
      BY SMT DEF Instr
    <2>. HIDE DEF x1, x2, x3, x4, x5
    <2>. QED
      BY <2>1
  <1>4. LengthOf(code) = 17
    <2>. HIDE DEF code
    <2>1. Places16(code)
      BY <1>2, <1>3, ThePlaces16
    <2>. QED
      BY <1>2, <2>1 DEF LengthOf, Places16
  <1>5. p = <<x1, x2, x3, x4, [x5 EXCEPT !.arg = LengthOf(code) + entry]>>
    <2>. DEFINE n == LengthOf(code) + entry
    <2>. HIDE DEF x1, x2, x3, x4, x5, n
    <2>1. [<<x1, x2, x3, x4, x5>> EXCEPT ![5].arg = n] = <<x1, x2, x3, x4, [x5 EXCEPT !.arg = n]>>
      OBVIOUS
    <2>. QED
      BY <2>1 DEF n
  <1>6. [x5 EXCEPT !.arg = LengthOf(code) + entry] = Instr("word", 2, 17 + entry)
    <2>. HIDE DEF code
    <2>1. [x5 EXCEPT !.arg = 17 + entry] = Instr("word", 2, 17 + entry)
      BY DEF Instr
    <2>. QED
      BY <1>4, <2>1
  <1>. DEFINE y == Instr("word", 2, 17 + entry)
  <1>7. p = <<x1, x2, x3, x4, y>>
    <2>. HIDE DEF x1, x2, x3, x4, p
    <2>. QED
      BY <1>5, <1>6
  <1>. HIDE DEF x1, x2, x3, x4, y, p
  <1>8. /\ Len(p) = 5 /\ DOMAIN p = 1 .. 5
        /\ p[1] = x1 /\ p[2] = x2 /\ p[3] = x3 /\ p[4] = x4 /\ p[5] = y
    BY <1>7
  <1>9. Is16(p, entry)
    <2>1. /\ Has(x1, "cli", 1, 0) /\ Has(x2, "clear segments", 2, 0)
          /\ Has(x4, "jump through word", 5, 15) /\ Has(y, "word", 2, 17 + entry)
      BY InstrHas DEF x1, x2, x4, y
    <2>2. x3.op = "stack" /\ x3.size = 7
      BY SMT DEF x3, Instr
    <2>. QED
      BY <1>8, <2>1, <2>2 DEF Is16
  <1>. QED
    BY <1>1, <1>9

-----------------------------------------------------------------------------
(* Files, byte by byte. *)

ResetVector == "reset vector"
Tags == {"fill", "header", "trampoline", "code", "mirror", "truth", ResetVector}
PartType == RangeType(Tags)
FileType == [size : Int, parts : Seq(PartType)]

LEMMA FoundIsContent ==
    ASSUME NEW f \in FileType, NEW at \in Int, NEW what, NEW from, FoundIn(f.parts, at, what, from)
    PROVE  Reads(f, at, 1, what, from)
  <1>1. Ranged(f.parts)
    <2>1. f.parts \in Seq(RangeType(Tags))
      BY DEF FileType, PartType
    <2>. QED
      BY Zenon, <2>1, RangesAre
  <1>2. IntactIn(f.parts, at, 1, what, from)
    BY DEF FoundIn
  <1>3. 1 \in Nat /\ 1 # 0
    OBVIOUS
  <1>. QED
    BY Zenon, <1>1, <1>2, <1>3, RangeIsContent

-----------------------------------------------------------------------------
(* What the machine finds. *)

\* A file that holds a program in its reset window.
Ready(f, p) ==
    /\ f \in FileType /\ IsProgram(p) /\ Solid(p) /\ LengthOf(p) <= 28672
    /\ \A i \in 1 .. Len(p) :
          FoundIn(f.parts, f.size + (ROM_LOAD_BASE + PlaceOf(p, i)), "trampoline", PlaceOf(p, i))

There(f, p, i, address) ==
    /\ PlaceOf(p, i) \in Nat
    /\ FoundAt(f, address) = [what |-> "trampoline", from |-> PlaceOf(p, i)]
    /\ AtPlace(p, PlaceOf(p, i)) = {i}
    /\ EntryAt(f, p, address) = {p[i]}
LEMMA EntryThere ==
    ASSUME NEW f, NEW p, Ready(f, p), NEW i \in 1 .. Len(p)
    PROVE  There(f, p, i, ROM_LOAD_BASE + PlaceOf(p, i))
  <1>. DEFINE place == PlaceOf(p, i)
              address == ROM_LOAD_BASE + place
  <1>1. AtPlace(p, place) = {i} /\ place \in 0 .. LengthOf(p) - 1
    BY OneAtPlace DEF Ready
  <1>2. LengthOf(p) \in Nat
    <2>1. IsProgram(p)
      BY DEF Ready
    <2>2. Len(p) + 1 \in 1 .. Len(p) + 1
      BY <2>1 DEF IsProgram
    <2>. QED
      BY <2>1, <2>2, Places DEF LengthOf
  <1>3. f \in FileType /\ LengthOf(p) <= 28672 /\ FoundIn(f.parts, f.size + address, "trampoline", place)
    BY DEF Ready
  <1>4. place \in Nat /\ address < 0 /\ f.size + address \in Int
    <2>. HIDE DEF place
    <2>1. f.size \in Int
      BY <1>3 DEF FileType
    <2>. QED
      BY <1>1, <1>2, <1>3, <2>1 DEF ROM_LOAD_BASE
  <1>. HIDE DEF place, address
  <1>5. FoundAt(f, address) = [what |-> "trampoline", from |-> place]
    <2>1. Reads(f, f.size + address, 1, "trampoline", place)
      BY <1>3, <1>4, FoundIsContent
    <2>. QED
      BY <2>1 DEF FoundAt, Reads
  <1>6. EntryAt(f, p, address) = {p[i]}
    BY <1>1, <1>4, <1>5 DEF EntryAt
  <1>. QED
    BY <1>1, <1>4, <1>5, <1>6 DEF place, address, There

\* The tables of the two longer trampolines, G being their descriptor table.
Gdt32 == [limit |-> 23, base |-> ROM_LOAD_BASE + 62]
Gdt64 == [limit |-> 31, base |-> ROM_LOAD_BASE + 136]
Equipped(f, p, gdtr, G) ==
    /\ {g.arg : g \in EntryAt(f, p, ROM_LOAD_BASE + gdtr)} = {G}
    /\ DescriptorOf(f, p, G, 8) = {"code32"} /\ DescriptorOf(f, p, G, 16) = {"data"}

LEMMA Equipped32 ==
    ASSUME NEW f, NEW p, Ready(f, p), NEW entry, Is32(p, entry, 56, 34)
    PROVE  Equipped(f, p, 56, Gdt32)
  <1>1. PlaceOf(p, 10) = 56 /\ PlaceOf(p, 12) = 70 /\ PlaceOf(p, 13) = 78
    BY ThePlaces32 DEF Places32
  <1>2. 10 \in 1 .. Len(p) /\ 12 \in 1 .. Len(p) /\ 13 \in 1 .. Len(p)
    <2>1. Len(p) = 13
      BY Zenon DEF Is32
    <2>. QED
      BY <2>1
  <1>3. /\ p[10].arg = [limit |-> 23, base |-> ROM_LOAD_BASE + 56 + 6]
        /\ p[12].op = "code32" /\ p[13].op = "data"
    BY Zenon DEF Is32, Has
  <1>4. ROM_LOAD_BASE \in Int
    BY DEF ROM_LOAD_BASE
  <1>5. EntryAt(f, p, ROM_LOAD_BASE + PlaceOf(p, 10)) = {p[10]}
    <2>1. There(f, p, 10, ROM_LOAD_BASE + PlaceOf(p, 10))
      BY Zenon, <1>2, EntryThere
    <2>. QED
      BY <2>1 DEF There
  <1>6. EntryAt(f, p, ROM_LOAD_BASE + PlaceOf(p, 12)) = {p[12]}
    <2>1. There(f, p, 12, ROM_LOAD_BASE + PlaceOf(p, 12))
      BY Zenon, <1>2, EntryThere
    <2>. QED
      BY <2>1 DEF There
  <1>7. EntryAt(f, p, ROM_LOAD_BASE + PlaceOf(p, 13)) = {p[13]}
    <2>1. There(f, p, 13, ROM_LOAD_BASE + PlaceOf(p, 13))
      BY Zenon, <1>2, EntryThere
    <2>. QED
      BY <2>1 DEF There
  <1>8. {g.arg : g \in EntryAt(f, p, ROM_LOAD_BASE + 56)} = {Gdt32}
    <2>1. ROM_LOAD_BASE + 56 + 6 = ROM_LOAD_BASE + 62
      BY <1>4
    <2>2. p[10].arg = Gdt32
      BY <1>3, <2>1 DEF Gdt32
    <2>. QED
      BY <1>1, <1>5, <2>2
  <1>9. Gdt32.base + 8 = ROM_LOAD_BASE + 70 /\ Gdt32.base + 16 = ROM_LOAD_BASE + 78
        /\ ~(8 + 7 > Gdt32.limit) /\ ~(16 + 7 > Gdt32.limit)
    BY <1>4 DEF Gdt32
  <1>10. DescriptorOf(f, p, Gdt32, 8) = {"code32"}
    BY <1>1, <1>3, <1>6, <1>9 DEF DescriptorOf
  <1>11. DescriptorOf(f, p, Gdt32, 16) = {"data"}
    BY <1>1, <1>3, <1>7, <1>9 DEF DescriptorOf
  <1>. QED
    BY <1>8, <1>10, <1>11 DEF Equipped

Final64(p, entry) == Is64(p, entry, 130, 34, 98, 3928, 4096)
LEMMA Equipped64 ==
    ASSUME NEW f, NEW p, Ready(f, p), NEW entry, Final64(p, entry)
    PROVE  /\ Equipped(f, p, 130, Gdt64)
           /\ DescriptorOf(f, p, Gdt64, 24) = {"code64"}
           /\ MapsToItself(f, p, ROM_LOAD_BASE + 4096)
  <1>1. Places64(p, 3928)
    BY SMT, ThePlaces64 DEF Final64
  <1>2. DOMAIN p = 1 .. 28 /\ Len(p) = 28
    BY SMT DEF Final64, Is64
  <1>3. ROM_LOAD_BASE \in Int
    BY DEF ROM_LOAD_BASE
  <1>4. /\ PlaceOf(p, 17) = 130 /\ PlaceOf(p, 19) = 144 /\ PlaceOf(p, 20) = 152 /\ PlaceOf(p, 21) = 160
    BY <1>1 DEF Places64
  <1>5. /\ PlaceOf(p, 23) = 4096 /\ PlaceOf(p, 24) = 8192 /\ PlaceOf(p, 25) = 12288
        /\ PlaceOf(p, 26) = 16384 /\ PlaceOf(p, 27) = 20480 /\ PlaceOf(p, 28) = 24576
    BY SMT, <1>1 DEF Places64
  <1>6. \A i \in 1 .. 28 : There(f, p, i, ROM_LOAD_BASE + PlaceOf(p, i))
    BY Zenon, <1>2, EntryThere
  <1>7. /\ p[17].arg = [limit |-> 31, base |-> ROM_LOAD_BASE + 130 + 6]
        /\ p[19].op = "code32" /\ p[20].op = "data" /\ p[21].op = "code64"
    BY SMT DEF Final64, Is64, DescriptorTable, Has
  <1>8. /\ p[23].op = "PML4" /\ p[23].arg = ROM_LOAD_BASE + 4096 + 4096
        /\ p[24].op = "PDPT" /\ p[24].arg = [i \in 0 .. 3 |-> ROM_LOAD_BASE + 4096 + 8192 + 4096 * i]
        /\ p[25].op = "PD" /\ p[25].arg = 0 /\ p[26].op = "PD" /\ p[26].arg = 1
        /\ p[27].op = "PD" /\ p[27].arg = 2 /\ p[28].op = "PD" /\ p[28].arg = 3
    BY SMT DEF Final64, Is64, Pages, Has
  <1>9. /\ EntryAt(f, p, ROM_LOAD_BASE + 130) = {p[17]} /\ EntryAt(f, p, ROM_LOAD_BASE + 144) = {p[19]}
        /\ EntryAt(f, p, ROM_LOAD_BASE + 152) = {p[20]} /\ EntryAt(f, p, ROM_LOAD_BASE + 160) = {p[21]}
    <2>1. 17 \in 1 .. 28 /\ 19 \in 1 .. 28 /\ 20 \in 1 .. 28 /\ 21 \in 1 .. 28
      OBVIOUS
    <2>2. /\ There(f, p, 17, ROM_LOAD_BASE + 130) /\ There(f, p, 19, ROM_LOAD_BASE + 144)
          /\ There(f, p, 20, ROM_LOAD_BASE + 152) /\ There(f, p, 21, ROM_LOAD_BASE + 160)
      <3>1. /\ There(f, p, 17, ROM_LOAD_BASE + PlaceOf(p, 17))
            /\ There(f, p, 19, ROM_LOAD_BASE + PlaceOf(p, 19))
            /\ There(f, p, 20, ROM_LOAD_BASE + PlaceOf(p, 20))
            /\ There(f, p, 21, ROM_LOAD_BASE + PlaceOf(p, 21))
        BY Zenon, <1>6, <2>1
      <3>. QED
        BY SMT, <1>4, <3>1
    <2>. QED
      BY Zenon, <2>2 DEF There
  <1>10. {g.arg : g \in EntryAt(f, p, ROM_LOAD_BASE + 130)} = {Gdt64}
    <2>1. ROM_LOAD_BASE + 130 + 6 = ROM_LOAD_BASE + 136
      BY <1>3
    <2>2. p[17].arg = Gdt64
      BY <1>7, <2>1 DEF Gdt64
    <2>. QED
      BY <1>9, <2>2
  <1>11. /\ Gdt64.base + 8 = ROM_LOAD_BASE + 144 /\ Gdt64.base + 16 = ROM_LOAD_BASE + 152
         /\ Gdt64.base + 24 = ROM_LOAD_BASE + 160
         /\ ~(8 + 7 > Gdt64.limit) /\ ~(16 + 7 > Gdt64.limit) /\ ~(24 + 7 > Gdt64.limit)
    BY <1>3 DEF Gdt64
  <1>12. DescriptorOf(f, p, Gdt64, 8) = {"code32"}
    BY <1>7, <1>9, <1>11 DEF DescriptorOf
  <1>13. DescriptorOf(f, p, Gdt64, 16) = {"data"}
    BY <1>7, <1>9, <1>11 DEF DescriptorOf
  <1>14. DescriptorOf(f, p, Gdt64, 24) = {"code64"}
    BY <1>7, <1>9, <1>11 DEF DescriptorOf
  <1>15. MapsToItself(f, p, ROM_LOAD_BASE + 4096)
    <2>1. /\ PlaceOf(p, 23) \in Int /\ EntryAt(f, p, ROM_LOAD_BASE + PlaceOf(p, 23)) = {p[23]}
          /\ EntryAt(f, p, ROM_LOAD_BASE + PlaceOf(p, 24)) = {p[24]}
          /\ EntryAt(f, p, ROM_LOAD_BASE + PlaceOf(p, 25)) = {p[25]}
          /\ EntryAt(f, p, ROM_LOAD_BASE + PlaceOf(p, 26)) = {p[26]}
          /\ EntryAt(f, p, ROM_LOAD_BASE + PlaceOf(p, 27)) = {p[27]}
          /\ EntryAt(f, p, ROM_LOAD_BASE + PlaceOf(p, 28)) = {p[28]}
      <3>1. 23 \in 1 .. 28 /\ 24 \in 1 .. 28 /\ 25 \in 1 .. 28 /\ 26 \in 1 .. 28 /\ 27 \in 1 .. 28 /\ 28 \in 1 .. 28
        OBVIOUS
      <3>2. PlaceOf(p, 23) \in Int
        BY SMT, <1>5
      <3>3. /\ There(f, p, 23, ROM_LOAD_BASE + PlaceOf(p, 23))
            /\ There(f, p, 24, ROM_LOAD_BASE + PlaceOf(p, 24))
            /\ There(f, p, 25, ROM_LOAD_BASE + PlaceOf(p, 25))
            /\ There(f, p, 26, ROM_LOAD_BASE + PlaceOf(p, 26))
            /\ There(f, p, 27, ROM_LOAD_BASE + PlaceOf(p, 27))
            /\ There(f, p, 28, ROM_LOAD_BASE + PlaceOf(p, 28))
        BY Zenon, <1>6, <3>1
      <3>. QED
        BY Zenon, <3>2, <3>3 DEF There
    <2>. DEFINE pdpt == [i \in 0 .. 3 |-> ROM_LOAD_BASE + 4096 + 8192 + 4096 * i]
    <2>2. /\ pdpt[0] = ROM_LOAD_BASE + PlaceOf(p, 25) /\ pdpt[1] = ROM_LOAD_BASE + PlaceOf(p, 26)
          /\ pdpt[2] = ROM_LOAD_BASE + PlaceOf(p, 27) /\ pdpt[3] = ROM_LOAD_BASE + PlaceOf(p, 28)
      BY SMT, <1>3, <1>5
    <2>3. p[24].arg = pdpt /\ p[23].arg = ROM_LOAD_BASE + PlaceOf(p, 24)
          /\ ROM_LOAD_BASE + 4096 = ROM_LOAD_BASE + PlaceOf(p, 23)
      BY SMT, <1>3, <1>5, <1>8
    <2>. HIDE DEF pdpt
    <2>4. /\ p[25].op = "PD" /\ p[25].arg = 0 /\ p[26].op = "PD" /\ p[26].arg = 1
          /\ p[27].op = "PD" /\ p[27].arg = 2 /\ p[28].op = "PD" /\ p[28].arg = 3
      BY <1>8
    <2>5. \A i \in 0 .. 3 : \E pd \in EntryAt(f, p, pdpt[i]) : pd.op = "PD" /\ pd.arg = i
      <3>. TAKE i \in 0 .. 3
      <3>1. i = 0 \/ i = 1 \/ i = 2 \/ i = 3
        OBVIOUS
      <3>2. CASE i = 0
        BY <2>1, <2>2, <2>4, <3>2
      <3>3. CASE i = 1
        BY <2>1, <2>2, <2>4, <3>3
      <3>4. CASE i = 2
        BY <2>1, <2>2, <2>4, <3>4
      <3>5. CASE i = 3
        BY <2>1, <2>2, <2>4, <3>5
      <3>. QED
        BY <3>1, <3>2, <3>3, <3>4, <3>5
    <2>6. p[23].op = "PML4" /\ p[24].op = "PDPT"
      BY <1>8
    <2>. QED
      BY <2>1, <2>3, <2>5, <2>6 DEF MapsToItself
  <1>. QED
    BY <1>10, <1>12, <1>13, <1>14, <1>15 DEF Equipped

-----------------------------------------------------------------------------
(* What the machine does. *)

Past(c, n) == [c EXCEPT !.ip = @ + n.size]

Tables == [limit : Int, base : Int]
Modes == {"real", "protected", "long"}
Cpus == [mode : Modes, base : Int, ip : Int, gdt : Tables, pe : BOOLEAN, pae : BOOLEAN,
         lme : BOOLEAN, cr3 : Int, pg : BOOLEAN, stack : BOOLEAN, target : Int]

InReal(c, place) == c \in Cpus /\ c.mode = "real" /\ c.base = ROM_LOAD_BASE /\ c.ip = place
InFlat(c, mode, place) == c \in Cpus /\ c.mode = mode /\ c.base = 0 /\ c.ip = ROM_LOAD_BASE + place

(* What is known of the machine on its way, instruction by instruction.    *)
Real1(c, place, G) == InReal(c, place) /\ c.gdt = G
Real2(c, place, G) == Real1(c, place, G) /\ c.pe
Flat1(c, mode, place, G) == InFlat(c, mode, place) /\ c.gdt = G /\ c.pe
Flat2(c, mode, place, G) == Flat1(c, mode, place, G) /\ c.stack
Flat3(c, mode, place, G) == Flat2(c, mode, place, G) /\ c.pae
Flat4(c, mode, place, G) == Flat3(c, mode, place, G) /\ c.lme
Flat5(c, mode, place, G, root) == Flat4(c, mode, place, G) /\ c.cr3 = root
Loaded(c, mode, place, entry) == InFlat(c, mode, place) /\ c.stack /\ c.target = entry
Gone(c, mode, base, ip) == c \in Cpus /\ c.mode = mode /\ c.base = base /\ c.ip = ip /\ c.stack

\* The instructions whose names are more than a word.
SetPE == "set PE"
FarJump == "far jump"
DataSegments == "data segments"
SetPAE == "set PAE"
SetLME == "set LME"
LoadCR3 == "load CR3"
SetPG == "set PG"
FarJumpLong == "far jump long"
SegmentsAgain == "data segments again"
StackAgain == "stack again"
LoadEntry == "load entry"
JumpThroughWord == "jump through word"
ClearSegments == "clear segments"

\* Going on to the next instruction changes nothing else.
Same(c, d) ==
    /\ d.gdt = c.gdt /\ d.pe = c.pe /\ d.pae = c.pae /\ d.lme = c.lme /\ d.cr3 = c.cr3
    /\ d.stack = c.stack /\ d.target = c.target

LEMMA RealPast ==
    ASSUME NEW c, NEW n, NEW op, NEW size \in Int, NEW arg, Has(n, op, size, arg),
           NEW place \in Int, InReal(c, place)
    PROVE  InReal(Past(c, n), place + size) /\ Same(c, Past(c, n))
  <1>1. c \in Cpus /\ c.ip \in Int
    BY DEF InReal, Cpus
  <1>. DEFINE m == c.ip + size
  <1>2. m = place + size /\ m \in Int
    BY DEF InReal
  <1>3. Past(c, n) = [c EXCEPT !.ip = m]
    BY DEF Past, Has
  <1>. HIDE DEF m
  <1>4. InReal(Past(c, n), place + size)
    BY <1>1, <1>2, <1>3 DEF InReal, Cpus
  <1>. QED
    BY <1>1, <1>3, <1>4 DEF Same, Cpus

LEMMA FlatPast ==
    ASSUME NEW c, NEW n, NEW op, NEW size \in Int, NEW arg, Has(n, op, size, arg),
           NEW mode, NEW place \in Int, InFlat(c, mode, place)
    PROVE  InFlat(Past(c, n), mode, place + size) /\ Same(c, Past(c, n))
  <1>1. c \in Cpus /\ c.ip \in Int
    BY DEF InFlat, Cpus
  <1>. DEFINE m == c.ip + size
  <1>2. m = ROM_LOAD_BASE + (place + size) /\ m \in Int
    BY <1>1 DEF InFlat, ROM_LOAD_BASE
  <1>3. Past(c, n) = [c EXCEPT !.ip = m]
    BY DEF Past, Has
  <1>. HIDE DEF m
  <1>4. InFlat(Past(c, n), mode, place + size)
    BY <1>1, <1>2, <1>3 DEF InFlat, Cpus
  <1>. QED
    BY <1>1, <1>3, <1>4 DEF Same, Cpus

(* The one state an instruction leads to, by what is known of it.          *)
ToReal(f, p, c, n, place) == \E d : Executed(f, p, c, n) = {d} /\ InReal(d, place)
ToReal1(f, p, c, n, place, G) == \E d : Executed(f, p, c, n) = {d} /\ Real1(d, place, G)
ToReal2(f, p, c, n, place, G) == \E d : Executed(f, p, c, n) = {d} /\ Real2(d, place, G)
ToFlat1(f, p, c, n, mode, place, G) == \E d : Executed(f, p, c, n) = {d} /\ Flat1(d, mode, place, G)
ToFlat2(f, p, c, n, mode, place, G) == \E d : Executed(f, p, c, n) = {d} /\ Flat2(d, mode, place, G)

\* The instructions, one by one: what each leads to, and to nothing else.
LEMMA RealPasses ==
    ASSUME NEW f, NEW p, NEW c, NEW n, NEW op, NEW size \in Int, NEW arg, Has(n, op, size, arg),
           op \in {"cli", ClearSegments, "A20"}, NEW place \in Int, InReal(c, place)
    PROVE  ToReal(f, p, c, n, place + size)
  <1>1. n.op \in {"cli", "clear segments", "A20"}
    BY Zenon DEF Has, ClearSegments
  <1>2. Executed(f, p, c, n) = {Past(c, n)}
    BY Zenon, <1>1 DEF Executed, Past
  <1>. QED
    BY Zenon, <1>2, RealPast DEF ToReal

LEMMA RealStack ==
    ASSUME NEW f, NEW p, NEW c, NEW n, NEW size \in Int, NEW arg, Has(n, "stack", size, arg),
           NEW place \in Int, InReal(c, place)
    PROVE  \E d : Executed(f, p, c, n) = {d} /\ InReal(d, place + size) /\ d.stack
  <1>. DEFINE d == [Past(c, n) EXCEPT !.stack = TRUE]
  <1>1. Executed(f, p, c, n) = {d}
    <2>1. n.op = "stack"
      BY DEF Has
    <2>. QED
      BY Zenon, <2>1 DEF Executed, Past
  <1>2. InReal(Past(c, n), place + size)
    BY Zenon, RealPast
  <1>3. InReal(d, place + size) /\ d.stack
    BY <1>2 DEF InReal, Cpus
  <1>. QED
    BY <1>1, <1>3

LEMMA RealTable ==
    ASSUME NEW f, NEW p, NEW c, NEW n, NEW size \in Int, NEW gdtr, Has(n, "lgdt", size, gdtr),
           NEW place \in Int, InReal(c, place), NEW G \in Tables, Equipped(f, p, gdtr, G)
    PROVE  ToReal1(f, p, c, n, place + size, G)
  <1>. DEFINE E == EntryAt(f, p, ROM_LOAD_BASE + gdtr)
              d == [Past(c, n) EXCEPT !.gdt = G]
  <1>0. n.op = "lgdt" /\ n.arg = gdtr /\ c.base = ROM_LOAD_BASE
    BY DEF Has, InReal
  <1>1. Executed(f, p, c, n) = {[Past(c, n) EXCEPT !.gdt = g.arg] : g \in E}
    BY Zenon, <1>0 DEF Executed, Past
  <1>2. {x.arg : x \in E} = {G}
    BY Zenon DEF Equipped
  <1>. HIDE DEF E
  <1>3. {[Past(c, n) EXCEPT !.gdt = g.arg] : g \in E} = {d}
    BY Zenon, <1>2
  <1>4. InReal(Past(c, n), place + size)
    BY Zenon, RealPast
  <1>5. Real1(d, place + size, G)
    BY <1>4 DEF InReal, Cpus, Real1
  <1>. QED
    BY <1>1, <1>3, <1>5 DEF ToReal1

LEMMA RealProtect ==
    ASSUME NEW f, NEW p, NEW c, NEW n, NEW size \in Int, NEW arg, Has(n, SetPE, size, arg),
           NEW place \in Int, NEW G, Real1(c, place, G)
    PROVE  ToReal2(f, p, c, n, place + size, G)
  <1>. DEFINE d == [Past(c, n) EXCEPT !.pe = TRUE]
  <1>1. Executed(f, p, c, n) = {d}
    <2>1. n.op = "set PE"
      BY Zenon DEF Has, SetPE
    <2>. QED
      BY Zenon, <2>1 DEF Executed, Past
  <1>2. InReal(Past(c, n), place + size) /\ Past(c, n).gdt = G
    BY Zenon, RealPast DEF Same, Real1
  <1>3. Real2(d, place + size, G)
    BY <1>2 DEF InReal, Cpus, Real1, Real2
  <1>. QED
    BY <1>1, <1>3 DEF ToReal2

LEMMA CpuMoves ==
    ASSUME NEW c \in Cpus, NEW mode \in Modes, NEW base \in Int, NEW ip \in Int
    PROVE  [c EXCEPT !.mode = mode, !.base = base, !.ip = ip] \in Cpus
  <1>1. [c EXCEPT !.mode = mode] \in Cpus
    BY DEF Cpus
  <1>2. \A x \in Cpus : [x EXCEPT !.base = base] \in Cpus
    BY DEF Cpus
  <1>3. \A x \in Cpus : [x EXCEPT !.ip = ip] \in Cpus
    BY DEF Cpus
  <1>. QED
    BY <1>1, <1>2, <1>3

FarTo(n, op, sel, to) == n.op = op /\ n.arg.sel = sel /\ n.arg.to = ROM_LOAD_BASE + to
LEMMA FarJumps ==
    ASSUME NEW f, NEW p, NEW c, NEW n, NEW to \in Int, FarTo(n, FarJump, 8, to),
           NEW gdtr, NEW place \in Int, NEW G, Equipped(f, p, gdtr, G), Real2(c, place, G)
    PROVE  ToFlat1(f, p, c, n, "protected", to, G)
  <1>. DEFINE there == ROM_LOAD_BASE + to
              d == [c EXCEPT !.mode = "protected", !.base = 0, !.ip = there]
  <1>0. n.op = "far jump" /\ n.arg.to = there /\ n.arg.sel = 8
    BY Zenon DEF FarTo, FarJump
  <1>1. c \in Cpus /\ c.gdt = G /\ c.pe
    BY Zenon DEF InReal, Real1, Real2
  <1>2. Executed(f, p, c, n) = {d}
    <2>1. Executed(f, p, c, n) =
              {[c EXCEPT !.mode = "protected", !.base = 0, !.ip = n.arg.to] :
                   x \in DescriptorOf(f, p, c.gdt, n.arg.sel) \cap {"code32"}}
      BY Zenon, <1>0 DEF Executed
    <2>2. DescriptorOf(f, p, c.gdt, n.arg.sel) = {"code32"}
      BY Zenon, <1>0, <1>1 DEF Equipped
    <2>. QED
      BY Zenon, <1>0, <2>1, <2>2
  <1>3. there \in Int
    BY DEF ROM_LOAD_BASE
  <1>. HIDE DEF there
  <1>4. d.mode = "protected" /\ d.base = 0 /\ d.ip = there /\ d.gdt = G /\ d.pe
    BY <1>1 DEF Cpus
  <1>5. d \in Cpus
    <2>1. "protected" \in Modes
      BY Zenon DEF Modes
    <2>2. 0 \in Int
      OBVIOUS
    <2>. QED
      BY Zenon, <1>1, <1>3, <2>1, <2>2, CpuMoves
  <1>. HIDE DEF d
  <1>6. Flat1(d, "protected", to, G)
    BY Zenon, <1>4, <1>5 DEF InFlat, Flat1, there
  <1>. QED
    BY Zenon, <1>2, <1>6 DEF ToFlat1

LEMMA FlatSegments ==
    ASSUME NEW f, NEW p, NEW c, NEW n, NEW size \in Int, Has(n, DataSegments, size, 16),
           NEW mode, NEW place \in Int, NEW gdtr, NEW G, Equipped(f, p, gdtr, G),
           Flat1(c, mode, place, G)
    PROVE  ToFlat1(f, p, c, n, mode, place + size, G)
  <1>0. n.op = "data segments" /\ n.arg = 16 /\ c.gdt = G
    BY Zenon DEF Has, DataSegments, Flat1
  <1>1. Executed(f, p, c, n) = {Past(c, n)}
    <2>1. Executed(f, p, c, n) = {Past(c, n) : x \in DescriptorOf(f, p, c.gdt, n.arg) \cap {"data"}}
      BY Zenon, <1>0 DEF Executed, Past
    <2>2. DescriptorOf(f, p, c.gdt, n.arg) = {"data"}
      BY Zenon, <1>0 DEF Equipped
    <2>. QED
      BY Zenon, <2>1, <2>2
  <1>2. InFlat(Past(c, n), mode, place + size) /\ Same(c, Past(c, n))
    BY Zenon, FlatPast DEF Flat1
  <1>. QED
    BY Zenon, <1>1, <1>2 DEF Flat1, Same, ToFlat1

LEMMA FlatStack ==
    ASSUME NEW f, NEW p, NEW c, NEW n, NEW size \in Int, NEW arg, Has(n, "stack", size, arg),
           NEW mode, NEW place \in Int, NEW G, Flat1(c, mode, place, G)
    PROVE  ToFlat2(f, p, c, n, mode, place + size, G)
  <1>. DEFINE d == [Past(c, n) EXCEPT !.stack = TRUE]
  <1>1. Executed(f, p, c, n) = {d}
    <2>1. n.op = "stack"
      BY DEF Has
    <2>. QED
      BY Zenon, <2>1 DEF Executed, Past
  <1>2. InFlat(Past(c, n), mode, place + size) /\ Past(c, n).gdt = G /\ Past(c, n).pe
    BY Zenon, FlatPast DEF Flat1, Same
  <1>3. Flat2(d, mode, place + size, G)
    BY <1>2 DEF InFlat, Cpus, Flat1, Flat2
  <1>. QED
    BY <1>1, <1>3 DEF ToFlat2

(* Before the k-th instruction of what the longer trampolines begin with.  *)
Common(c, k, G) ==
    \/ k = 1 /\ InReal(c, 0)
    \/ k = 2 /\ InReal(c, 1)
    \/ k = 3 /\ InReal(c, 7)
    \/ k = 4 /\ Real1(c, 14, G)
    \/ k = 5 /\ Real2(c, 26, G)
    \/ k = 6 /\ Flat1(c, "protected", 34, G)
    \/ k = 7 /\ Flat1(c, "protected", 44, G)
    \/ k = 8 /\ Flat2(c, "protected", 49, G)

ToCommon(f, p, c, n, k, G) == \E d : Executed(f, p, c, n) = {d} /\ Common(d, k, G)
LEMMA CommonStep ==
    ASSUME NEW f, NEW p, NEW gdtr, NEW G \in Tables, Protected(p, gdtr, 34), Equipped(f, p, gdtr, G),
           NEW k \in 1 .. 7, NEW c, Common(c, k, G)
    PROVE  ToCommon(f, p, c, p[k], k + 1, G)
  <1>1. /\ Has(p[1], "cli", 1, 0) /\ Has(p[2], "A20", 6, 0) /\ Has(p[3], "lgdt", 7, gdtr)
        /\ Has(p[4], SetPE, 12, 0) /\ Has(p[6], DataSegments, 10, 16)
        /\ Has(p[7], "stack", 5, ROM_STACK32)
    BY Zenon DEF Protected, SetPE, DataSegments
  <1>0. /\ 0 \in Int /\ 1 \in Int /\ 5 \in Int /\ 6 \in Int /\ 7 \in Int /\ 8 \in Int /\ 10 \in Int
        /\ 12 \in Int /\ 14 \in Int /\ 26 \in Int /\ 34 \in Int /\ 44 \in Int
    OBVIOUS
  <1>2. CASE k = 1
    <2>1. InReal(c, 0)
      BY <1>2 DEF Common
    <2>2. ToReal(f, p, c, p[1], 0 + 1)
      BY Zenon, <1>0, <1>1, <2>1, RealPasses, "cli" \in {"cli", ClearSegments, "A20"}
    <2>. QED
      BY <1>2, <2>2 DEF Common, ToCommon, ToReal
  <1>3. CASE k = 2
    <2>1. InReal(c, 1)
      BY <1>3 DEF Common
    <2>2. ToReal(f, p, c, p[2], 1 + 6)
      BY Zenon, <1>0, <1>1, <2>1, RealPasses, "A20" \in {"cli", ClearSegments, "A20"}
    <2>. QED
      BY <1>3, <2>2 DEF Common, ToCommon, ToReal
  <1>4. CASE k = 3
    <2>1. InReal(c, 7)
      BY <1>4 DEF Common
    <2>2. ToReal1(f, p, c, p[3], 7 + 7, G)
      BY Zenon, <1>0, <1>1, <2>1, RealTable
    <2>. QED
      BY <1>4, <2>2 DEF Common, ToCommon, ToReal1
  <1>5. CASE k = 4
    <2>1. Real1(c, 14, G)
      BY <1>5 DEF Common
    <2>2. ToReal2(f, p, c, p[4], 14 + 12, G)
      BY Zenon, <1>0, <1>1, <2>1, RealProtect
    <2>. QED
      BY <1>5, <2>2 DEF Common, ToCommon, ToReal2
  <1>6. CASE k = 5
    <2>1. Real2(c, 26, G)
      BY <1>6 DEF Common
    <2>. DEFINE to == [sel |-> 8, to |-> ROM_LOAD_BASE + 34]
    <2>2. Has(p[5], FarJump, 8, to)
      BY Zenon DEF Protected, FarJump
    <2>3. to.sel = 8 /\ to.to = ROM_LOAD_BASE + 34
      OBVIOUS
    <2>. HIDE DEF to
    <2>4. FarTo(p[5], FarJump, 8, 34)
      BY Zenon, <2>2, <2>3 DEF Has, FarTo
    <2>5. ToFlat1(f, p, c, p[5], "protected", 34, G)
      BY Zenon, <1>0, <2>1, <2>4, FarJumps
    <2>. QED
      BY <1>6, <2>5 DEF Common, ToCommon, ToFlat1
  <1>7. CASE k = 6
    <2>1. Flat1(c, "protected", 34, G)
      BY <1>7 DEF Common
    <2>2. ToFlat1(f, p, c, p[6], "protected", 34 + 10, G)
      BY Zenon, <1>0, <1>1, <2>1, FlatSegments
    <2>. QED
      BY <1>7, <2>2 DEF Common, ToCommon, ToFlat1
  <1>8. CASE k = 7
    <2>1. Flat1(c, "protected", 44, G)
      BY <1>8 DEF Common
    <2>2. ToFlat2(f, p, c, p[7], "protected", 44 + 5, G)
      BY Zenon, <1>0, <1>1, <2>1, FlatStack
    <2>. QED
      BY <1>8, <2>2 DEF Common, ToCommon, ToFlat2
  <1>. QED
    BY <1>2, <1>3, <1>4, <1>5, <1>6, <1>7, <1>8

(* On to long mode. *)
ToFlat3(f, p, c, n, mode, place, G) == \E d : Executed(f, p, c, n) = {d} /\ Flat3(d, mode, place, G)
ToFlat4(f, p, c, n, mode, place, G) == \E d : Executed(f, p, c, n) = {d} /\ Flat4(d, mode, place, G)
ToFlat5(f, p, c, n, mode, place, G, root) ==
    \E d : Executed(f, p, c, n) = {d} /\ Flat5(d, mode, place, G, root)
Stacked(c, mode, place) == InFlat(c, mode, place) /\ c.stack
ToStacked(f, p, c, n, mode, place) == \E d : Executed(f, p, c, n) = {d} /\ Stacked(d, mode, place)
ToLoaded(f, p, c, n, mode, place, entry) ==
    \E d : Executed(f, p, c, n) = {d} /\ Loaded(d, mode, place, entry)
ToGone(f, p, c, n, mode, base, ip) == \E d : Executed(f, p, c, n) = {d} /\ Gone(d, mode, base, ip)

LEMMA SetsPAE ==
    ASSUME NEW f, NEW p, NEW c, NEW n, NEW size \in Int, NEW arg, Has(n, SetPAE, size, arg),
           NEW mode, NEW place \in Int, NEW G, Flat2(c, mode, place, G)
    PROVE  ToFlat3(f, p, c, n, mode, place + size, G)
  <1>. DEFINE d == [Past(c, n) EXCEPT !.pae = TRUE]
  <1>1. Executed(f, p, c, n) = {d}
    <2>1. n.op = "set PAE"
      BY Zenon DEF Has, SetPAE
    <2>. QED
      BY Zenon, <2>1 DEF Executed, Past
  <1>2. Flat2(Past(c, n), mode, place + size, G)
    BY Zenon, FlatPast DEF Flat1, Flat2, Same
  <1>3. Flat3(d, mode, place + size, G)
    BY <1>2 DEF InFlat, Cpus, Flat1, Flat2, Flat3
  <1>. QED
    BY <1>1, <1>3 DEF ToFlat3

LEMMA SetsLME ==
    ASSUME NEW f, NEW p, NEW c, NEW n, NEW size \in Int, NEW arg, Has(n, SetLME, size, arg),
           NEW mode, NEW place \in Int, NEW G, Flat3(c, mode, place, G)
    PROVE  ToFlat4(f, p, c, n, mode, place + size, G)
  <1>. DEFINE d == [Past(c, n) EXCEPT !.lme = TRUE]
  <1>1. Executed(f, p, c, n) = {d}
    <2>1. n.op = "set LME"
      BY Zenon DEF Has, SetLME
    <2>. QED
      BY Zenon, <2>1 DEF Executed, Past
  <1>2. Flat3(Past(c, n), mode, place + size, G)
    BY Zenon, FlatPast DEF Flat1, Flat2, Flat3, Same
  <1>3. Flat4(d, mode, place + size, G)
    BY <1>2 DEF InFlat, Cpus, Flat1, Flat2, Flat3, Flat4
  <1>. QED
    BY <1>1, <1>3 DEF ToFlat4

LEMMA LoadsCR3 ==
    ASSUME NEW f, NEW p, NEW c, NEW n, NEW size \in Int, NEW root \in Int, Has(n, LoadCR3, size, root),
           NEW mode, NEW place \in Int, NEW G, Flat4(c, mode, place, G)
    PROVE  ToFlat5(f, p, c, n, mode, place + size, G, root)
  <1>. DEFINE d == [Past(c, n) EXCEPT !.cr3 = root]
  <1>1. Executed(f, p, c, n) = {d}
    <2>1. n.op = "load CR3" /\ n.arg = root
      BY Zenon DEF Has, LoadCR3
    <2>. QED
      BY Zenon, <2>1 DEF Executed, Past
  <1>2. Flat4(Past(c, n), mode, place + size, G)
    BY Zenon, FlatPast DEF Flat1, Flat2, Flat3, Flat4, Same
  <1>3. Flat5(d, mode, place + size, G, root)
    BY <1>2 DEF InFlat, Cpus, Flat1, Flat2, Flat3, Flat4, Flat5
  <1>. QED
    BY <1>1, <1>3 DEF ToFlat5

LEMMA SetsPG ==
    ASSUME NEW f, NEW p, NEW c, NEW n, NEW size \in Int, NEW arg, Has(n, SetPG, size, arg),
           NEW mode, NEW place \in Int, NEW G, NEW root, Flat5(c, mode, place, G, root),
           MapsToItself(f, p, root)
    PROVE  ToFlat5(f, p, c, n, mode, place + size, G, root)
  <1>. DEFINE d == [Past(c, n) EXCEPT !.pg = TRUE]
  <1>1. Executed(f, p, c, n) = {d}
    <2>1. n.op = "set PG"
      BY Zenon DEF Has, SetPG
    <2>2. Executed(f, p, c, n) =
              IF c.pe /\ c.pae /\ c.lme /\ MapsToItself(f, p, c.cr3) THEN {d} ELSE {}
      BY Zenon, <2>1 DEF Executed, Past
    <2>. QED
      BY Zenon, <2>2 DEF Flat1, Flat2, Flat3, Flat4, Flat5
  <1>2. Flat5(Past(c, n), mode, place + size, G, root)
    BY Zenon, FlatPast DEF Flat1, Flat2, Flat3, Flat4, Flat5, Same
  <1>3. Flat5(d, mode, place + size, G, root)
    BY <1>2 DEF InFlat, Cpus, Flat1, Flat2, Flat3, Flat4, Flat5
  <1>. QED
    BY <1>1, <1>3 DEF ToFlat5

LEMMA FarJumpsLong ==
    ASSUME NEW f, NEW p, NEW c, NEW n, NEW to \in Int, FarTo(n, FarJumpLong, 24, to),
           NEW mode, NEW place \in Int, NEW G, NEW root, Flat5(c, mode, place, G, root),
           DescriptorOf(f, p, G, 24) = {"code64"}
    PROVE  ToStacked(f, p, c, n, "long", to)
  <1>. DEFINE there == ROM_LOAD_BASE + to
              d == [c EXCEPT !.mode = "long", !.ip = there]
  <1>0. n.op = "far jump long" /\ n.arg.to = there /\ n.arg.sel = 24
    BY Zenon DEF FarTo, FarJumpLong
  <1>1. c \in Cpus /\ c.gdt = G /\ c.stack /\ c.base = 0
    BY Zenon DEF InFlat, Flat1, Flat2, Flat3, Flat4, Flat5
  <1>2. Executed(f, p, c, n) = {d}
    <2>1. Executed(f, p, c, n) =
              {[c EXCEPT !.mode = "long", !.ip = n.arg.to] :
                   x \in DescriptorOf(f, p, c.gdt, n.arg.sel) \cap {"code64"}}
      BY Zenon, <1>0 DEF Executed
    <2>2. DescriptorOf(f, p, c.gdt, n.arg.sel) = {"code64"}
      BY Zenon, <1>0, <1>1
    <2>. QED
      BY Zenon, <1>0, <2>1, <2>2
  <1>3. there \in Int
    BY DEF ROM_LOAD_BASE
  <1>. HIDE DEF there
  <1>4. d.mode = "long" /\ d.base = 0 /\ d.ip = there /\ d.stack
    BY <1>1 DEF Cpus
  <1>5. d \in Cpus
    <2>1. "long" \in Modes
      BY Zenon DEF Modes
    <2>2. [c EXCEPT !.mode = "long"] \in Cpus
      BY <1>1, <2>1 DEF Cpus
    <2>3. \A x \in Cpus : [x EXCEPT !.ip = there] \in Cpus
      BY <1>3 DEF Cpus
    <2>. QED
      BY <2>2, <2>3
  <1>. HIDE DEF d
  <1>6. Stacked(d, "long", to)
    BY Zenon, <1>4, <1>5 DEF InFlat, Stacked, there
  <1>. QED
    BY Zenon, <1>2, <1>6 DEF ToStacked

LEMMA StackedPasses ==
    ASSUME NEW f, NEW p, NEW c, NEW n, NEW size \in Int, NEW arg, Has(n, SegmentsAgain, size, arg),
           NEW mode, NEW place \in Int, Stacked(c, mode, place)
    PROVE  ToStacked(f, p, c, n, mode, place + size)
  <1>1. Executed(f, p, c, n) = {Past(c, n)}
    <2>1. n.op = "data segments again"
      BY Zenon DEF Has, SegmentsAgain
    <2>. QED
      BY Zenon, <2>1 DEF Executed, Past
  <1>2. InFlat(Past(c, n), mode, place + size) /\ Same(c, Past(c, n))
    BY Zenon, FlatPast DEF Stacked
  <1>. QED
    BY Zenon, <1>1, <1>2 DEF Stacked, Same, ToStacked

LEMMA StackedAgain ==
    ASSUME NEW f, NEW p, NEW c, NEW n, NEW size \in Int, NEW arg, Has(n, StackAgain, size, arg),
           NEW mode, NEW place \in Int, Stacked(c, mode, place)
    PROVE  ToStacked(f, p, c, n, mode, place + size)
  <1>. DEFINE d == [Past(c, n) EXCEPT !.stack = TRUE]
  <1>1. Executed(f, p, c, n) = {d}
    <2>1. n.op = "stack again"
      BY Zenon DEF Has, StackAgain
    <2>. QED
      BY Zenon, <2>1 DEF Executed, Past
  <1>2. InFlat(Past(c, n), mode, place + size)
    BY Zenon, FlatPast DEF Stacked
  <1>3. Stacked(d, mode, place + size)
    BY <1>2 DEF InFlat, Cpus, Stacked
  <1>. QED
    BY <1>1, <1>3 DEF ToStacked

LEMMA LoadsEntry ==
    ASSUME NEW f, NEW p, NEW c, NEW n, NEW size \in Int, NEW entry \in Int, Has(n, LoadEntry, size, entry),
           NEW mode, NEW place \in Int, Stacked(c, mode, place)
    PROVE  ToLoaded(f, p, c, n, mode, place + size, entry)
  <1>. DEFINE d == [Past(c, n) EXCEPT !.target = entry]
  <1>1. Executed(f, p, c, n) = {d}
    <2>1. n.op = "load entry" /\ n.arg = entry
      BY Zenon DEF Has, LoadEntry
    <2>. QED
      BY Zenon, <2>1 DEF Executed, Past
  <1>2. InFlat(Past(c, n), mode, place + size) /\ Past(c, n).stack
    BY Zenon, FlatPast DEF Stacked, Same
  <1>3. Loaded(d, mode, place + size, entry)
    BY <1>2 DEF InFlat, Cpus, Loaded
  <1>. QED
    BY <1>1, <1>3 DEF ToLoaded

LEMMA Jumps ==
    ASSUME NEW f, NEW p, NEW c, NEW n, NEW size, NEW arg, Has(n, "jump", size, arg),
           NEW mode, NEW place, NEW entry \in Int, Loaded(c, mode, place, entry)
    PROVE  ToGone(f, p, c, n, mode, 0, entry)
  <1>. DEFINE d == [c EXCEPT !.ip = entry]
  <1>1. Executed(f, p, c, n) = {d}
    <2>1. n.op = "jump" /\ c.target = entry
      BY Zenon DEF Has, Loaded
    <2>. QED
      BY Zenon, <2>1 DEF Executed
  <1>2. Gone(d, mode, 0, entry)
    BY DEF Loaded, InFlat, Cpus, Gone
  <1>. QED
    BY <1>1, <1>2 DEF ToGone

-----------------------------------------------------------------------------
(* The way through each trampoline: before its k-th instruction. *)

On32(c, k, entry) == Common(c, k, Gdt32) \/ (k = 9 /\ Loaded(c, "protected", 54, entry))

Root64 == ROM_LOAD_BASE + 4096
On64(c, k, entry) ==
    \/ Common(c, k, Gdt64)
    \/ k = 9  /\ Flat3(c, "protected", 58, Gdt64)
    \/ k = 10 /\ Flat4(c, "protected", 72, Gdt64)
    \/ k = 11 /\ Flat5(c, "protected", 80, Gdt64, Root64)
    \/ k = 12 /\ Flat5(c, "protected", 91, Gdt64, Root64)
    \/ k = 13 /\ Stacked(c, "long", 98)
    \/ k = 14 /\ Stacked(c, "long", 108)
    \/ k = 15 /\ Stacked(c, "long", 118)
    \/ k = 16 /\ Loaded(c, "long", 128, entry)

On16(c, k) ==
    \/ k = 1 /\ InReal(c, 0)
    \/ k = 2 /\ InReal(c, 1)
    \/ k = 3 /\ InReal(c, 3)
    \/ k = 4 /\ InReal(c, 10) /\ c.stack

LEMMA Next32 ==
    ASSUME NEW f, NEW p, Ready(f, p), NEW entry \in Int, Is32(p, entry, 56, 34),
           NEW c, NEW k, On32(c, k, entry)
    PROVE  \E d : /\ Executed(f, p, c, p[k]) = {d}
                  /\ On32(d, k + 1, entry) \/ Gone(d, "protected", 0, entry)
  <1>1. Equipped(f, p, 56, Gdt32) /\ Protected(p, 56, 34)
    BY Zenon, Equipped32 DEF Is32
  <1>2. Gdt32 \in Tables
    BY DEF Gdt32, Tables, ROM_LOAD_BASE
  <1>3. Has(p[8], LoadEntry, 5, entry) /\ Has(p[9], "jump", 2, 0)
    BY Zenon DEF Is32, LoadEntry
  <1>4. CASE k \in 1 .. 7 /\ Common(c, k, Gdt32)
    <2>1. ToCommon(f, p, c, p[k], k + 1, Gdt32)
      BY Zenon, <1>1, <1>2, <1>4, CommonStep
    <2>. QED
      BY Zenon, <2>1 DEF On32, ToCommon
  <1>5. CASE k = 8 /\ Common(c, k, Gdt32)
    <2>1. Stacked(c, "protected", 49)
      BY <1>5 DEF Common, Flat1, Flat2, Stacked
    <2>2. 5 \in Int /\ 49 \in Int
      OBVIOUS
    <2>3. ToLoaded(f, p, c, p[8], "protected", 49 + 5, entry)
      BY Zenon, <1>3, <2>1, <2>2, LoadsEntry
    <2>. QED
      BY <1>5, <2>3 DEF ToLoaded, On32
  <1>6. CASE k = 9 /\ Loaded(c, "protected", 54, entry)
    <2>1. ToGone(f, p, c, p[9], "protected", 0, entry)
      BY Zenon, <1>3, <1>6, Jumps
    <2>. QED
      BY Zenon, <1>6, <2>1 DEF ToGone
  <1>7. \/ k \in 1 .. 7 /\ Common(c, k, Gdt32)
        \/ k = 8 /\ Common(c, k, Gdt32)
        \/ k = 9 /\ Loaded(c, "protected", 54, entry)
    BY DEF On32, Common
  <1>. QED
    BY <1>4, <1>5, <1>6, <1>7

LEMMA LongModeIs ==
    ASSUME NEW p, NEW entry, NEW lm64, NEW tables, LongMode(p, entry, lm64, tables)
    PROVE  /\ Has(p[8], SetPAE, 9, 0) /\ Has(p[9], SetLME, 14, 0)
           /\ Has(p[10], LoadCR3, 8, ROM_LOAD_BASE + tables) /\ Has(p[11], SetPG, 11, 0)
           /\ FarTo(p[12], FarJumpLong, 24, lm64)
           /\ Has(p[13], SegmentsAgain, 10, 16) /\ Has(p[14], StackAgain, 10, ROM_STACK64)
           /\ Has(p[15], LoadEntry, 10, entry) /\ Has(p[16], "jump", 2, 0)
  <1>1. /\ Has(p[8], SetPAE, 9, 0) /\ Has(p[9], SetLME, 14, 0)
        /\ Has(p[10], LoadCR3, 8, ROM_LOAD_BASE + tables) /\ Has(p[11], SetPG, 11, 0)
    BY Zenon DEF LongMode, SetPAE, SetLME, LoadCR3, SetPG
  <1>2. /\ Has(p[13], SegmentsAgain, 10, 16) /\ Has(p[14], StackAgain, 10, ROM_STACK64)
        /\ Has(p[15], LoadEntry, 10, entry) /\ Has(p[16], "jump", 2, 0)
    BY Zenon DEF LongMode, SegmentsAgain, StackAgain, LoadEntry
  <1>3. FarTo(p[12], FarJumpLong, 24, lm64)
    <2>. DEFINE to == [sel |-> 24, to |-> ROM_LOAD_BASE + lm64]
    <2>1. Has(p[12], FarJumpLong, 7, to)
      BY Zenon DEF LongMode, FarJumpLong
    <2>2. to.sel = 24 /\ to.to = ROM_LOAD_BASE + lm64
      OBVIOUS
    <2>. HIDE DEF to
    <2>. QED
      BY Zenon, <2>1, <2>2 DEF Has, FarTo
  <1>. QED
    BY Zenon, <1>1, <1>2, <1>3

LEMMA Next64 ==
    ASSUME NEW f, NEW p, Ready(f, p), NEW entry \in Int, Final64(p, entry),
           NEW c, NEW k, On64(c, k, entry)
    PROVE  \E d : /\ Executed(f, p, c, p[k]) = {d}
                  /\ On64(d, k + 1, entry) \/ Gone(d, "long", 0, entry)
  <1>1. /\ Equipped(f, p, 130, Gdt64) /\ DescriptorOf(f, p, Gdt64, 24) = {"code64"}
        /\ MapsToItself(f, p, ROM_LOAD_BASE + 4096)
    BY Equipped64
  <1>2. Gdt64 \in Tables /\ Root64 \in Int
    BY DEF Gdt64, Tables, Root64, ROM_LOAD_BASE
  <1>3. MapsToItself(f, p, Root64)
    BY <1>1 DEF Root64
  <1>4. /\ Protected(p, 130, 34)
        /\ Has(p[8], SetPAE, 9, 0) /\ Has(p[9], SetLME, 14, 0)
        /\ Has(p[10], LoadCR3, 8, Root64) /\ Has(p[11], SetPG, 11, 0)
        /\ FarTo(p[12], FarJumpLong, 24, 98)
        /\ Has(p[13], SegmentsAgain, 10, 16) /\ Has(p[14], StackAgain, 10, ROM_STACK64)
        /\ Has(p[15], LoadEntry, 10, entry) /\ Has(p[16], "jump", 2, 0)
    <2>. DEFINE tables == 4096
    <2>1. Protected(p, 130, 34) /\ LongMode(p, entry, 98, tables)
      BY DEF Final64, Is64
    <2>2. ROM_LOAD_BASE + tables = Root64
      BY DEF Root64
    <2>. HIDE DEF tables
    <2>. QED
      BY Zenon, <2>1, <2>2, LongModeIs
  <1>5. /\ 8 \in Int /\ 9 \in Int /\ 10 \in Int /\ 11 \in Int /\ 14 \in Int /\ 49 \in Int
        /\ 58 \in Int /\ 72 \in Int /\ 80 \in Int /\ 91 \in Int /\ 98 \in Int
        /\ 108 \in Int /\ 118 \in Int
    OBVIOUS
  <1>6. CASE k \in 1 .. 7 /\ Common(c, k, Gdt64)
    <2>1. Protected(p, 130, 34) /\ Equipped(f, p, 130, Gdt64) /\ Gdt64 \in Tables
      BY <1>1, <1>2, <1>4
    <2>2. ToCommon(f, p, c, p[k], k + 1, Gdt64)
      BY SMT, <2>1, <1>6, CommonStep
    <2>. QED
      BY SMT, <2>2 DEF On64, ToCommon
  <1>. HIDE DEF Root64
  <1>7. CASE k = 8 /\ Common(c, k, Gdt64)
    <2>1. Flat2(c, "protected", 49, Gdt64)
      BY <1>7 DEF Common
    <2>2. ToFlat3(f, p, c, p[8], "protected", 49 + 9, Gdt64)
      BY Zenon, <1>4, <1>5, <2>1, SetsPAE
    <2>. QED
      BY SMT, <1>7, <2>2 DEF ToFlat3, On64
  <1>8. CASE k = 9 /\ Flat3(c, "protected", 58, Gdt64)
    <2>2. ToFlat4(f, p, c, p[9], "protected", 58 + 14, Gdt64)
      BY Zenon, <1>4, <1>5, <1>8, SetsLME
    <2>. QED
      BY SMT, <1>8, <2>2 DEF ToFlat4, On64
  <1>9. CASE k = 10 /\ Flat4(c, "protected", 72, Gdt64)
    <2>2. ToFlat5(f, p, c, p[10], "protected", 72 + 8, Gdt64, Root64)
      BY Zenon, <1>2, <1>4, <1>5, <1>9, LoadsCR3
    <2>. QED
      BY SMT, <1>9, <2>2 DEF ToFlat5, On64
  <1>10. CASE k = 11 /\ Flat5(c, "protected", 80, Gdt64, Root64)
    <2>2. ToFlat5(f, p, c, p[11], "protected", 80 + 11, Gdt64, Root64)
      BY Zenon, <1>3, <1>4, <1>5, <1>10, SetsPG
    <2>. QED
      BY SMT, <1>10, <2>2 DEF ToFlat5, On64
  <1>11. CASE k = 12 /\ Flat5(c, "protected", 91, Gdt64, Root64)
    <2>2. ToStacked(f, p, c, p[12], "long", 98)
      BY SMT, <1>1, <1>4, <1>5, <1>11, FarJumpsLong
    <2>. QED
      BY SMT, <1>11, <2>2 DEF ToStacked, On64
  <1>12. CASE k = 13 /\ Stacked(c, "long", 98)
    <2>2. ToStacked(f, p, c, p[13], "long", 98 + 10)
      BY Zenon, <1>4, <1>5, <1>12, StackedPasses
    <2>. QED
      BY SMT, <1>12, <2>2 DEF ToStacked, On64
  <1>13. CASE k = 14 /\ Stacked(c, "long", 108)
    <2>2. ToStacked(f, p, c, p[14], "long", 108 + 10)
      BY Zenon, <1>4, <1>5, <1>13, StackedAgain
    <2>. QED
      BY SMT, <1>13, <2>2 DEF ToStacked, On64
  <1>14. CASE k = 15 /\ Stacked(c, "long", 118)
    <2>2. ToLoaded(f, p, c, p[15], "long", 118 + 10, entry)
      BY Zenon, <1>4, <1>5, <1>14, LoadsEntry
    <2>. QED
      BY SMT, <1>14, <2>2 DEF ToLoaded, On64
  <1>15. CASE k = 16 /\ Loaded(c, "long", 128, entry)
    <2>2. ToGone(f, p, c, p[16], "long", 0, entry)
      BY Zenon, <1>4, <1>15, Jumps
    <2>. QED
      BY SMT, <1>15, <2>2 DEF ToGone
  <1>16. \/ k \in 1 .. 7 /\ Common(c, k, Gdt64)
         \/ k = 8 /\ Common(c, k, Gdt64)
         \/ ~Common(c, k, Gdt64)
    BY DEF Common
  <1>. QED
    BY SMT, <1>6, <1>7, <1>8, <1>9, <1>10, <1>11, <1>12, <1>13, <1>14, <1>15, <1>16 DEF On64

Moves16(f, p, c, k, entry) ==
    \E d : /\ Executed(f, p, c, p[k]) = {d}
           /\ On16(d, k + 1) \/ Gone(d, "real", ROM_LOAD_BASE, 17 + entry)
LEMMA Next16 ==
    ASSUME NEW f, NEW p, Ready(f, p), NEW entry \in Int, Is16(p, entry), NEW c, NEW k, On16(c, k)
    PROVE  Moves16(f, p, c, k, entry)
  <1>. SUFFICES \E d : /\ Executed(f, p, c, p[k]) = {d}
                       /\ On16(d, k + 1) \/ Gone(d, "real", ROM_LOAD_BASE, 17 + entry)
    BY Zenon DEF Moves16
  <1>1. /\ Has(p[1], "cli", 1, 0) /\ Has(p[2], ClearSegments, 2, 0)
        /\ Has(p[3], "stack", 7, p[3].arg)
        /\ Has(p[4], JumpThroughWord, 5, 15) /\ p[5].arg = 17 + entry
    BY Zenon DEF Is16, Has, ClearSegments, JumpThroughWord
  <1>2. 0 \in Int /\ 1 \in Int /\ 2 \in Int /\ 3 \in Int /\ 5 \in Int /\ 7 \in Int /\ 10 \in Int
    OBVIOUS
  <1>3. EntryAt(f, p, ROM_LOAD_BASE + 15) = {p[5]}
    <2>1. Len(p) = 5 /\ DOMAIN p = 1 .. 5 /\ p[1].size = 1 /\ p[2].size = 2 /\ p[3].size = 7
          /\ p[4].size = 5 /\ p[5].size = 2
      BY Zenon DEF Is16, Has
    <2>2. PlaceOf(p, 5) = 15
      BY Zenon, <2>1, ThePlaces16 DEF Places16
    <2>3. 5 \in 1 .. Len(p)
      BY <2>1
    <2>4. There(f, p, 5, ROM_LOAD_BASE + PlaceOf(p, 5))
      BY Zenon, <2>3, EntryThere
    <2>. QED
      BY <2>2, <2>4 DEF There
  <1>4. CASE k = 1 /\ InReal(c, 0)
    <2>1. "cli" \in {"cli", ClearSegments, "A20"}
      OBVIOUS
    <2>2. ToReal(f, p, c, p[1], 0 + 1)
      BY Zenon, <1>1, <1>2, <1>4, <2>1, RealPasses
    <2>. QED
      BY <1>4, <2>2 DEF ToReal, On16
  <1>5. CASE k = 2 /\ InReal(c, 1)
    <2>1. ClearSegments \in {"cli", ClearSegments, "A20"}
      OBVIOUS
    <2>2. ToReal(f, p, c, p[2], 1 + 2)
      BY Zenon, <1>1, <1>2, <1>5, <2>1, RealPasses
    <2>. QED
      BY <1>5, <2>2 DEF ToReal, On16
  <1>6. CASE k = 3 /\ InReal(c, 3)
    <2>2. \E d : Executed(f, p, c, p[3]) = {d} /\ InReal(d, 3 + 7) /\ d.stack
      BY <1>1, <1>2, <1>6, RealStack
    <2>. QED
      BY <1>6, <2>2 DEF On16
  <1>7. CASE k = 4 /\ InReal(c, 10) /\ c.stack
    <2>. DEFINE d == [c EXCEPT !.ip = 17 + entry]
                E == EntryAt(f, p, ROM_LOAD_BASE + 15)
    <2>1. Executed(f, p, c, p[4]) = {d}
      <3>1. p[4].op = "jump through word" /\ p[4].arg = 15 /\ c.base = ROM_LOAD_BASE
        BY Zenon, <1>1, <1>7 DEF Has, JumpThroughWord, InReal
      <3>2. Executed(f, p, c, p[4]) = {[c EXCEPT !.ip = w.arg] : w \in E}
        BY Zenon, <3>1 DEF Executed
      <3>. HIDE DEF E
      <3>3. E = {p[5]}
        BY <1>3 DEF E
      <3>. QED
        BY Zenon, <1>1, <3>2, <3>3
    <2>2. Gone(d, "real", ROM_LOAD_BASE, 17 + entry)
      <3>. DEFINE ip == 17 + entry
      <3>1. ip \in Int
        OBVIOUS
      <3>. HIDE DEF ip
      <3>2. Gone([c EXCEPT !.ip = ip], "real", ROM_LOAD_BASE, ip)
        BY <1>7, <3>1 DEF InReal, Cpus, Gone
      <3>. QED
        BY <3>2 DEF ip
    <2>. QED
      BY <1>7, <2>1, <2>2
  <1>. QED
    BY <1>4, <1>5, <1>6, <1>7 DEF On16

(* Where the machine is on its way, and that it finds the instruction there. *)
AtStep(f, p, c, k) ==
    /\ k \in 1 .. Len(p)
    /\ c.base + c.ip = ROM_LOAD_BASE + PlaceOf(p, k)

LEMMA FindsInstruction ==
    ASSUME NEW f, NEW p, Ready(f, p), NEW c, NEW k, AtStep(f, p, c, k)
    PROVE  /\ Fetched(f, c).what = "trampoline"
           /\ AtPlace(p, Fetched(f, c).from) = {k}
  <1>1. There(f, p, k, ROM_LOAD_BASE + PlaceOf(p, k))
    BY EntryThere DEF AtStep
  <1>2. Fetched(f, c) = [what |-> "trampoline", from |-> PlaceOf(p, k)]
    BY <1>1 DEF Fetched, AtStep, There
  <1>. QED
    BY <1>1, <1>2 DEF There

LEMMA Step16 ==
    ASSUME NEW f, NEW p, NEW entry, Is16(p, entry), NEW c, NEW k, On16(c, k)
    PROVE  AtStep(f, p, c, k)
  <1>1. Places16(p) /\ Len(p) = 5
    <2>1. Len(p) = 5 /\ DOMAIN p = 1 .. 5 /\ p[1].size = 1 /\ p[2].size = 2 /\ p[3].size = 7
          /\ p[4].size = 5 /\ p[5].size = 2
      BY Zenon DEF Is16, Has
    <2>. QED
      BY Zenon, <2>1, ThePlaces16
  <1>. QED
    BY <1>1 DEF On16, InReal, Places16, AtStep

LEMMA Step32 ==
    ASSUME NEW f, NEW p, NEW entry, Is32(p, entry, 56, 34), NEW c, NEW k, On32(c, k, entry)
    PROVE  AtStep(f, p, c, k)
  <1>1. Places32(p) /\ Len(p) = 13
    BY ThePlaces32 DEF Is32
  <1>2. CASE Common(c, k, Gdt32)
    BY SMT, <1>1, <1>2 DEF Common, InReal, InFlat, Real1, Real2, Flat1, Flat2, Places32, AtStep,
                           ROM_LOAD_BASE
  <1>3. CASE k = 9 /\ Loaded(c, "protected", 54, entry)
    BY <1>1, <1>3 DEF Loaded, InFlat, Places32, AtStep, ROM_LOAD_BASE
  <1>. QED
    BY <1>2, <1>3 DEF On32

LEMMA Step64 ==
    ASSUME NEW f, NEW p, NEW entry, Final64(p, entry), NEW c, NEW k, On64(c, k, entry)
    PROVE  AtStep(f, p, c, k)
  <1>1. Places64(p, 3928) /\ Len(p) = 28
    BY ThePlaces64 DEF Final64, Is64
  <1>2. CASE Common(c, k, Gdt64)
    BY SMT, <1>1, <1>2 DEF Common, InReal, InFlat, Real1, Real2, Flat1, Flat2, Places64, AtStep,
                           ROM_LOAD_BASE
  <1>3. CASE ~Common(c, k, Gdt64)
    BY SMT, <1>1, <1>3 DEF On64, Flat1, Flat2, Flat3, Flat4, Flat5, Stacked, Loaded, InFlat,
                           Places64, AtStep, ROM_LOAD_BASE
  <1>. QED
    BY <1>2, <1>3

-----------------------------------------------------------------------------
(* What is written: after the fill, copies to given places. *)

Sizes == Nat \ {0}
Copies == {CheckedAt(at, what, size) : at \in Nat, what \in Tags, size \in Sizes}

PartOf(w) == Part(w.at, w.piece.size, w.piece.parts[1].what)
PartsOf(writes) == [i \in DOMAIN writes |-> PartOf(writes[i])]

LEMMA CopyIs ==
    ASSUME NEW at \in Nat, NEW what \in Tags, NEW size \in Sizes
    PROVE  LET w == CheckedAt(at, what, size)
           IN  /\ w.at = at /\ w.piece = Piece(what, size) /\ w.compared = TRUE
               /\ w.count = w.piece.size /\ PartOf(w) = Part(at, size, what)
               /\ Part(at, size, what) \in PartType
  <1>. DEFINE w == CheckedAt(at, what, size)
              piece == Piece(what, size)
  <1>1. piece.size = size /\ piece.parts = <<Part(0, size, what)>>
    BY DEF Piece, Sizes
  <1>2. /\ w.at = at /\ w.piece = piece /\ w.compared = TRUE /\ w.count = piece.size
    <2>. HIDE DEF piece
    <2>. QED
      BY DEF CheckedAt, Checked, Write, piece
  <1>. HIDE DEF w, piece
  <1>3. PartOf(w) = Part(at, size, what)
    BY <1>1, <1>2 DEF PartOf, Part
  <1>4. Part(at, size, what) \in PartType
    BY DEF Part, PartType, RangeType, Sizes
  <1>. QED
    BY <1>1, <1>2, <1>3, <1>4 DEF w, piece

\* None of them is of no bytes.
LEMMA CopyIsNotEmpty ==
    ASSUME NEW writes \in Seq(Copies), writes # <<>>
    PROVE  Head(writes).piece.size \in Sizes
  <1>. DEFINE w == Head(writes)
  <1>1. w \in Copies
    OBVIOUS
  <1>. HIDE DEF w
  <1>2. PICK at \in Nat, what \in Tags, size \in Sizes : w = CheckedAt(at, what, size)
    BY <1>1 DEF Copies
  <1>3. w.piece = Piece(what, size)
    BY Zenon, <1>2, CopyIs
  <1>. QED
    BY <1>3 DEF Piece, w

\* What such a copy makes of a file.
LEMMA CopyPuts ==
    ASSUME NEW f, f.parts \in Seq(PartType), NEW w \in Copies, f = [size |-> f.size, parts |-> f.parts]
    PROVE  LET g == Overlay(f, w.at, w.piece)
           IN  /\ g.size = f.size /\ g.parts = f.parts \o <<PartOf(w)>>
               /\ g.parts \in Seq(PartType) /\ g = [size |-> g.size, parts |-> g.parts]
  <1>1. PICK at \in Nat, what \in Tags, size \in Sizes : w = CheckedAt(at, what, size)
    BY DEF Copies
  <1>2. /\ w.at = at /\ w.piece = Piece(what, size) /\ PartOf(w) = Part(at, size, what)
        /\ PartOf(w) \in PartType
    BY <1>1, CopyIs
  <1>3. Shifted(w.piece.parts, w.at) = <<PartOf(w)>>
    <2>1. w.piece.parts = <<Part(0, size, what)>>
      BY <1>2 DEF Piece, Sizes
    <2>2. Shifted(<<Part(0, size, what)>>, at) = <<[Part(0, size, what) EXCEPT !.at = @ + at]>>
      BY DEF Shifted
    <2>3. [Part(0, size, what) EXCEPT !.at = @ + at] = Part(at, size, what)
      BY DEF Part
    <2>. QED
      BY <1>2, <2>1, <2>2, <2>3
  <1>. DEFINE parts == f.parts \o <<PartOf(w)>>
  <1>4. Overlay(f, w.at, w.piece) = [f EXCEPT !.parts = parts]
    BY <1>3 DEF Overlay
  <1>5. parts \in Seq(PartType)
    BY <1>2
  <1>. HIDE DEF parts
  <1>6. [f EXCEPT !.parts = parts] = [size |-> f.size, parts |-> parts]
    BY SMT
  <1>. QED
    BY <1>4, <1>5, <1>6 DEF parts

LEMMA PartsJoin ==
    ASSUME NEW a \in Seq(Copies), NEW b \in Seq(Copies)
    PROVE  /\ PartsOf(a \o b) = PartsOf(a) \o PartsOf(b)
           /\ PartsOf(a) \in Seq(PartType) /\ Len(PartsOf(a)) = Len(a)
  <1>1. \A w \in Copies : PartOf(w) \in PartType
    <2>. TAKE w \in Copies
    <2>1. PICK at \in Nat, what \in Tags, size \in Sizes : w = CheckedAt(at, what, size)
      BY DEF Copies
    <2>. QED
      BY <2>1, CopyIs
  <1>2. \A s \in Seq(Copies) : PartsOf(s) \in Seq(PartType) /\ Len(PartsOf(s)) = Len(s)
                               /\ \A i \in 1 .. Len(s) : PartsOf(s)[i] = PartOf(s[i])
    BY <1>1 DEF PartsOf
  <1>3. a \o b \in Seq(Copies) /\ Len(a \o b) = Len(a) + Len(b)
        /\ (\A i \in 1 .. Len(a) : (a \o b)[i] = a[i])
        /\ (\A i \in 1 .. Len(b) : (a \o b)[Len(a) + i] = b[i])
    OBVIOUS
  <1>. DEFINE s == a \o b
              p == PartsOf(s)
              q == PartsOf(a) \o PartsOf(b)
  <1>4. /\ q \in Seq(PartType) /\ Len(q) = Len(a) + Len(b)
        /\ \A i \in 1 .. Len(a) : q[i] = PartOf(a[i])
        /\ \A i \in 1 .. Len(b) : q[Len(a) + i] = PartOf(b[i])
    <2>1. PartsOf(a) \in Seq(PartType) /\ PartsOf(b) \in Seq(PartType)
          /\ Len(PartsOf(a)) = Len(a) /\ Len(PartsOf(b)) = Len(b)
          /\ (\A i \in 1 .. Len(a) : PartsOf(a)[i] = PartOf(a[i]))
          /\ (\A i \in 1 .. Len(b) : PartsOf(b)[i] = PartOf(b[i]))
      BY <1>2
    <2>. QED
      BY <2>1
  <1>5. p \in Seq(PartType) /\ Len(p) = Len(a) + Len(b)
        /\ \A i \in 1 .. Len(s) : p[i] = PartOf(s[i])
    BY <1>2, <1>3
  <1>6. \A i \in 1 .. Len(a) + Len(b) : p[i] = q[i]
    <2>. TAKE i \in 1 .. Len(a) + Len(b)
    <2>0. Len(a) \in Nat /\ Len(b) \in Nat
      OBVIOUS
    <2>1. CASE i \in 1 .. Len(a)
      BY <1>3, <1>4, <1>5, <2>0, <2>1
    <2>2. CASE i \notin 1 .. Len(a)
      <3>1. i - Len(a) \in 1 .. Len(b) /\ Len(a) + (i - Len(a)) = i
        BY <2>0, <2>2
      <3>2. s[i] = b[i - Len(a)] /\ q[i] = PartOf(b[i - Len(a)])
        BY <1>3, <1>4, <3>1
      <3>. QED
        BY <1>3, <1>5, <3>2
    <2>. QED
      BY <2>1, <2>2
  <1>. HIDE DEF p, q, s
  <1>7. p = q
    BY <1>4, <1>5, <1>6
  <1>. QED
    BY <1>2, <1>7 DEF p, q, s

-----------------------------------------------------------------------------
(* The writes of a ROM. *)

ProgramOf(j) == RomTrampoline(j.bits, j.size, j.entry)
ActAt(j) == ActFlowAt(j.bits, j.size, j.entry)

\* A job the writer accepts: its zones end before what follows them.
Fits(j) ==
    /\ j.bits \in {16, 32, 64} /\ j.size \in Nat /\ j.entry \in Nat
    /\ j.z.code \in Nat /\ j.z.mirror \in Nat /\ j.z.truth \in Nat
    /\ j.size >= ROM_WINDOW_SIZE
    /\ ActAt(j) + j.z.code + j.z.mirror + j.z.truth
          <= j.size - (IF j.bits = 16 THEN ROM_RESET_VECTOR_SIZE ELSE ROM_WINDOW_SIZE)

PutAt(at, what, size) == IF size = 0 THEN <<>> ELSE <<CheckedAt(at, what, size)>>
RomRest(j) ==
    <<CheckedAt(0, "header", HEADER_SIZE),
      CheckedAt(j.size - ROM_WINDOW_SIZE, "trampoline", LengthOf(ProgramOf(j)))>>
    \o PutAt(ActAt(j), "code", j.z.code) \o PutAt(ActAt(j) + j.z.code, "mirror", j.z.mirror)
    \o PutAt(ActAt(j) + j.z.code + j.z.mirror, "truth", j.z.truth)
    \o <<CheckedAt(j.size - ROM_RESET_VECTOR_SIZE, ResetVector, ROM_RESET_VECTOR_SIZE)>>

ProgramFacts(j) ==
    LET p == ProgramOf(j)
    IN  /\ IsProgram(p) /\ Solid(p) /\ LengthOf(p) \in Sizes /\ LengthOf(p) <= 28672
        /\ j.bits = 16 => /\ Is16(p, j.entry) /\ LengthOf(p) = 17
                          /\ ActAt(j) = j.size - ROM_WINDOW_SIZE + 17
        /\ j.bits = 32 => /\ Is32(p, HEADER_SIZE - j.size + j.entry, 56, 34)
                          /\ ActAt(j) = HEADER_SIZE
        /\ j.bits = 64 => /\ Final64(p, HEADER_SIZE - j.size + j.entry)
                          /\ ActAt(j) = HEADER_SIZE
LEMMA ProgramIs ==
    ASSUME NEW j, Fits(j)
    PROVE  ProgramFacts(j)
  <1>. DEFINE p == ProgramOf(j)
              entry == HEADER_SIZE - j.size + j.entry
  <1>1. CASE j.bits = 16
    <2>1. p = Trampoline16(j.entry)
      BY <1>1 DEF ProgramOf, RomTrampoline
    <2>2. Is16(p, j.entry)
      BY <2>1, Trampoline16Is
    <2>. HIDE DEF p
    <2>3. Len(p) = 5 /\ DOMAIN p = 1 .. 5 /\ p[1].size = 1 /\ p[2].size = 2 /\ p[3].size = 7
          /\ p[4].size = 5 /\ p[5].size = 2
      BY Zenon, <2>2 DEF Is16, Has
    <2>4. IsProgram(p) /\ Solid(p) /\ Places16(p)
      BY Zenon, <2>3, ThePlaces16
    <2>5. LengthOf(p) = 17
      BY <2>3, <2>4 DEF LengthOf, Places16
    <2>6. ActAt(j) = j.size - ROM_WINDOW_SIZE + 17
      BY <1>1, <2>1, <2>5 DEF ActAt, ActFlowAt
    <2>. QED
      BY <1>1, <2>2, <2>4, <2>5, <2>6 DEF p, Sizes, ProgramFacts
  <1>2. CASE j.bits = 32
    <2>1. p = Trampoline32(entry)
      BY <1>2 DEF ProgramOf, RomTrampoline
    <2>. HIDE DEF entry
    <2>2. Is32(p, entry, 56, 34)
      BY <2>1, Trampoline32Is
    <2>. HIDE DEF p
    <2>3. IsProgram(p) /\ Solid(p) /\ Places32(p)
      BY <2>2, ThePlaces32
    <2>4. LengthOf(p) = 86
      <3>1. Len(p) = 13
        BY Zenon, <2>2 DEF Is32
      <3>. QED
        BY <2>3, <3>1 DEF LengthOf, Places32
    <2>5. ActAt(j) = HEADER_SIZE
      BY <1>2 DEF ActAt, ActFlowAt
    <2>. QED
      BY <1>2, <2>2, <2>3, <2>4, <2>5 DEF p, entry, Sizes, ProgramFacts
  <1>3. CASE j.bits = 64
    <2>1. p = Trampoline64(entry)
      BY <1>3 DEF ProgramOf, RomTrampoline
    <2>. HIDE DEF entry
    <2>2. Final64(p, entry)
      BY SMT, <2>1, Trampoline64Is DEF Final64
    <2>. HIDE DEF p
    <2>3. IsProgram(p) /\ Solid(p) /\ Places64(p, 3928)
      BY SMT, <2>2, ThePlaces64 DEF Final64
    <2>4. LengthOf(p) = 28672
      BY SMT, <2>2, <2>3 DEF LengthOf, Places64, Final64, Is64
    <2>5. ActAt(j) = HEADER_SIZE
      BY <1>3 DEF ActAt, ActFlowAt
    <2>. QED
      BY SMT, <1>3, <2>2, <2>3, <2>4, <2>5 DEF p, entry, Sizes, ProgramFacts
  <1>4. j.bits = 16 \/ j.bits = 32 \/ j.bits = 64
    BY DEF Fits
  <1>. QED
    BY Zenon, <1>1, <1>2, <1>3, <1>4

Associates(x, y, z) == (x \o y) \o z = x \o (y \o z)
LEMMA Joined ==
    ASSUME NEW S, NEW x \in Seq(S), NEW y \in Seq(S), NEW z \in Seq(S)
    PROVE  Associates(x, y, z)
BY DEF Associates

Regrouped(a, b, c, p, q, s, r) ==
    <<a, b, c>> \o p \o q \o s \o <<r>> = <<a>> \o (<<b, c>> \o p \o q \o s \o <<r>>)
LEMMA Regroups ==
    ASSUME NEW S, NEW a \in S, NEW b \in S, NEW c \in S, NEW r \in S,
           NEW p \in Seq(S), NEW q \in Seq(S), NEW s \in Seq(S)
    PROVE  Regrouped(a, b, c, p, q, s, r)
  <1>. DEFINE aa == <<a>>
              bc == <<b, c>>
              ra == <<r>>
              u == bc \o p
              v == u \o q
              w == v \o s
  <1>. HIDE DEF u, v, w
  <1>1. <<a, b, c>> = aa \o bc /\ aa \in Seq(S) /\ bc \in Seq(S) /\ ra \in Seq(S)
    OBVIOUS
  <1>. HIDE DEF aa, bc, ra
  <1>2. u \in Seq(S)
    BY <1>1 DEF u
  <1>3. (aa \o bc) \o p = aa \o u
    <2>1. Associates(aa, bc, p)
      BY Zenon, <1>1, Joined
    <2>. QED
      BY Zenon, <2>1 DEF Associates, u
  <1>4. v \in Seq(S)
    BY <1>2 DEF v
  <1>5. (aa \o u) \o q = aa \o v
    <2>1. Associates(aa, u, q)
      BY Zenon, <1>1, <1>2, Joined
    <2>. QED
      BY Zenon, <2>1 DEF Associates, v
  <1>6. w \in Seq(S)
    BY <1>4 DEF w
  <1>7. (aa \o v) \o s = aa \o w
    <2>1. Associates(aa, v, s)
      BY Zenon, <1>1, <1>4, Joined
    <2>. QED
      BY Zenon, <2>1 DEF Associates, w
  <1>8. (aa \o w) \o ra = aa \o (w \o ra)
    <2>1. Associates(aa, w, ra)
      BY Zenon, <1>1, <1>6, Joined
    <2>. QED
      BY Zenon, <2>1 DEF Associates
  <1>9. <<a, b, c>> \o p \o q \o s \o ra = aa \o (w \o ra)
    BY Zenon, <1>1, <1>3, <1>5, <1>7, <1>8
  <1>10. w = bc \o p \o q \o s
    BY Zenon DEF u, v, w
  <1>. QED
    BY Zenon, <1>9, <1>10 DEF aa, ra, bc, Regrouped

LEMMA InCopies ==
    ASSUME NEW at \in Nat, NEW what \in Tags, NEW size \in Sizes
    PROVE  CheckedAt(at, what, size) \in Copies
BY SMT DEF Copies

LEMMA PutIs ==
    ASSUME NEW at \in Nat, NEW what \in Tags, NEW size \in Nat
    PROVE  PutAt(at, what, size) \in Seq(Copies)
  <1>1. CASE size = 0
    BY <1>1 DEF PutAt
  <1>2. CASE size # 0
    <2>. DEFINE w == CheckedAt(at, what, size)
    <2>1. w \in Copies
      BY <1>2, InCopies DEF Sizes
    <2>. HIDE DEF w
    <2>2. <<w>> \in Seq(Copies)
      BY <2>1
    <2>. QED
      BY <1>2, <2>2 DEF PutAt, w
  <1>. QED
    BY <1>1, <1>2

\* Where the zones are.
LEMMA ZonesAre ==
    ASSUME NEW j, Fits(j)
    PROVE  LET act == ActAt(j)  L == LengthOf(ProgramOf(j))  window == j.size - ROM_WINDOW_SIZE
           IN  /\ act \in Nat /\ act + j.z.code \in Nat /\ act + j.z.code + j.z.mirror \in Nat
               /\ L \in Sizes /\ L <= 28672 /\ window \in Nat
               /\ window + L <= act \/ act + j.z.code + j.z.mirror + j.z.truth <= window
               /\ act + j.z.code + j.z.mirror + j.z.truth <= j.size - ROM_RESET_VECTOR_SIZE
  <1>. DEFINE act == ActAt(j)
              L == LengthOf(ProgramOf(j))
              window == j.size - ROM_WINDOW_SIZE
  <1>1. /\ j.size \in Nat /\ j.z.code \in Nat /\ j.z.mirror \in Nat /\ j.z.truth \in Nat
        /\ j.size >= ROM_WINDOW_SIZE /\ j.bits \in {16, 32, 64}
        /\ act + j.z.code + j.z.mirror + j.z.truth
              <= j.size - (IF j.bits = 16 THEN ROM_RESET_VECTOR_SIZE ELSE ROM_WINDOW_SIZE)
    BY DEF Fits
  <1>2. L \in Sizes /\ L <= 28672
    BY ProgramIs DEF ProgramFacts
  <1>3. /\ j.bits = 16 => L = 17 /\ act = window + 17
        /\ j.bits = 32 => act = HEADER_SIZE
        /\ j.bits = 64 => act = HEADER_SIZE
    BY ProgramIs DEF ProgramFacts
  <1>. HIDE DEF act, L
  <1>4. window \in Nat /\ act \in Nat
    BY SMT, <1>1, <1>3 DEF ROM_WINDOW_SIZE, HEADER_SIZE
  <1>5. /\ act \in Nat /\ act + j.z.code \in Nat /\ act + j.z.code + j.z.mirror \in Nat
        /\ L \in Sizes /\ L <= 28672 /\ window \in Nat
        /\ window + L <= act \/ act + j.z.code + j.z.mirror + j.z.truth <= window
        /\ act + j.z.code + j.z.mirror + j.z.truth <= j.size - ROM_RESET_VECTOR_SIZE
    BY SMT, <1>1, <1>2, <1>3, <1>4 DEF ROM_WINDOW_SIZE, ROM_RESET_VECTOR_SIZE, Sizes
  <1>. QED
    BY <1>5 DEF act, L, window

LEMMA RestIs ==
    ASSUME NEW j, Fits(j)
    PROVE  RomRest(j) \in Seq(Copies)
  <1>. DEFINE act == ActAt(j)
              L == LengthOf(ProgramOf(j))
              window == j.size - ROM_WINDOW_SIZE
              reset == j.size - ROM_RESET_VECTOR_SIZE
              w1 == CheckedAt(0, "header", HEADER_SIZE)
              w2 == CheckedAt(window, "trampoline", L)
              w3 == PutAt(act, "code", j.z.code)
              w4 == PutAt(act + j.z.code, "mirror", j.z.mirror)
              w5 == PutAt(act + j.z.code + j.z.mirror, "truth", j.z.truth)
              w6 == CheckedAt(reset, ResetVector, ROM_RESET_VECTOR_SIZE)
  <1>1. /\ act \in Nat /\ act + j.z.code \in Nat /\ act + j.z.code + j.z.mirror \in Nat
        /\ L \in Sizes /\ window \in Nat
    BY ZonesAre
  <1>2. reset \in Nat /\ j.z.code \in Nat /\ j.z.mirror \in Nat /\ j.z.truth \in Nat
    BY DEF Fits, ROM_WINDOW_SIZE, ROM_RESET_VECTOR_SIZE
  <1>3. HEADER_SIZE \in Sizes /\ ROM_RESET_VECTOR_SIZE \in Sizes /\ 0 \in Nat
    BY DEF Sizes, HEADER_SIZE, ROM_RESET_VECTOR_SIZE
  <1>4. /\ "header" \in Tags /\ "trampoline" \in Tags /\ "code" \in Tags /\ "mirror" \in Tags
        /\ "truth" \in Tags /\ ResetVector \in Tags
    BY Zenon DEF Tags
  <1>. HIDE DEF act, L, window, reset
  <1>5. w1 \in Copies /\ w2 \in Copies /\ w6 \in Copies
    BY Zenon, <1>1, <1>2, <1>3, <1>4, InCopies
  <1>6. w3 \in Seq(Copies) /\ w4 \in Seq(Copies) /\ w5 \in Seq(Copies)
    <2>1. w3 \in Seq(Copies)
      BY Zenon, <1>1, <1>2, <1>4, PutIs
    <2>2. w4 \in Seq(Copies)
      BY Zenon, <1>1, <1>2, <1>4, PutIs
    <2>3. w5 \in Seq(Copies)
      BY Zenon, <1>1, <1>2, <1>4, PutIs
    <2>. QED
      BY <2>1, <2>2, <2>3
  <1>7. RomRest(j) = <<w1, w2>> \o w3 \o w4 \o w5 \o <<w6>>
    BY Zenon DEF RomRest, act, L, window, reset
  <1>. HIDE DEF w1, w2, w3, w4, w5, w6
  <1>. QED
    BY <1>5, <1>6, <1>7

-----------------------------------------------------------------------------
(* What the finished file holds. *)

\* A copy, or none when there is nothing to copy, laid over what was there.
Laid(parts, more, at, what, size) ==
    /\ more \in Seq(PartType)
    /\ size # 0 => IntactIn(more, at, size, what, 0)
    /\ \A b \in Int, n \in Nat : size = 0 \/ at + size <= b \/ b + n <= at =>
          \A w, from : IntactIn(parts, b, n, w, from) => IntactIn(more, b, n, w, from)

LEMMA PutLays ==
    ASSUME NEW parts \in Seq(PartType), NEW at \in Nat, NEW what \in Tags, NEW size \in Nat
    PROVE  Laid(parts, parts \o PartsOf(PutAt(at, what, size)), at, what, size)
  <1>. DEFINE put == PartsOf(PutAt(at, what, size))
              part == Part(at, size, what)
  <1>1. CASE size = 0
    <2>1. put = <<>>
      BY <1>1 DEF PutAt, PartsOf
    <2>2. parts \o <<>> = parts
      OBVIOUS
    <2>. QED
      BY <1>1, <2>1, <2>2 DEF Laid
  <1>2. CASE size # 0
    <2>. DEFINE w == CheckedAt(at, what, size)
    <2>1. size \in Sizes
      BY <1>2 DEF Sizes
    <2>2. PartOf(w) = part /\ part \in PartType
      BY <2>1, CopyIs
    <2>3. put = <<part>>
      <3>. HIDE DEF w
      <3>1. PartsOf(<<w>>) = <<PartOf(w)>>
        BY DEF PartsOf
      <3>. QED
        BY <1>2, <2>2, <3>1 DEF PutAt, w
    <2>4. part.what = what /\ part.at = at /\ Ends(part) = at + size
      BY DEF Part, Ends
    <2>. HIDE DEF put, part
    <2>5. parts \in Seq(RangeType(Tags)) /\ part \in RangeType(Tags)
      BY Zenon, <2>2 DEF PartType
    <2>6. parts \o <<part>> \in Seq(PartType)
      BY <2>2
    <2>7. IntactIn(parts \o <<part>>, at, size, what, 0)
      <3>1. at \in Int /\ part.at <= at /\ at + size <= Ends(part) /\ at - part.at = 0
        BY <2>4
      <3>2. IntactIn(parts \o <<part>>, at, size, part.what, at - part.at)
        BY Zenon, <2>5, <3>1, IntactAfter
      <3>. QED
        BY Zenon, <2>4, <3>1, <3>2
    <2>8. ASSUME NEW b \in Int, NEW n \in Nat, at + size <= b \/ b + n <= at
          PROVE  \A x, from : IntactIn(parts, b, n, x, from) => IntactIn(parts \o <<part>>, b, n, x, from)
      <3>1. Ends(part) <= b \/ b + n <= part.at
        BY <2>4, <2>8
      <3>. QED
        BY Zenon, <2>5, <3>1, IntactAfter
    <2>9. Laid(parts, parts \o <<part>>, at, what, size)
      BY <1>2, <2>6, <2>7, <2>8 DEF Laid
    <2>. QED
      BY Zenon, <2>3, <2>9 DEF put
  <1>. QED
    BY <1>1, <1>2

FinalParts(j) == <<Part(0, j.size, "fill")>> \o PartsOf(RomRest(j))

\* The file in the order its parts were laid.
Layers(j, q0, q1, q2, q3, q4, q5, q6) ==
    /\ q6 = FinalParts(j)
    /\ Laid(q0, q1, 0, "header", HEADER_SIZE)
    /\ Laid(q1, q2, j.size - ROM_WINDOW_SIZE, "trampoline", LengthOf(ProgramOf(j)))
    /\ Laid(q2, q3, ActAt(j), "code", j.z.code)
    /\ Laid(q3, q4, ActAt(j) + j.z.code, "mirror", j.z.mirror)
    /\ Laid(q4, q5, ActAt(j) + j.z.code + j.z.mirror, "truth", j.z.truth)
    /\ Laid(q5, q6, j.size - ROM_RESET_VECTOR_SIZE, ResetVector, ROM_RESET_VECTOR_SIZE)

LEMMA PartsAdd ==
    ASSUME NEW p \in Seq(PartType), NEW x \in Seq(Copies), NEW y \in Seq(Copies)
    PROVE  p \o PartsOf(x \o y) = (p \o PartsOf(x)) \o PartsOf(y)
  <1>. DEFINE u == PartsOf(x)
              v == PartsOf(y)
  <1>1. PartsOf(x \o y) = u \o v /\ u \in Seq(PartType) /\ v \in Seq(PartType)
    BY PartsJoin
  <1>. HIDE DEF u, v
  <1>2. Associates(p, u, v)
    BY Zenon, <1>1, Joined
  <1>. QED
    BY Zenon, <1>1, <1>2 DEF Associates, u, v

SixJoins(p, a, b, c, d, e, g) ==
    p \o PartsOf(a \o b \o c \o d \o e \o g)
       = p \o PartsOf(a) \o PartsOf(b) \o PartsOf(c) \o PartsOf(d) \o PartsOf(e) \o PartsOf(g)
LEMMA SixJoin ==
    ASSUME NEW p \in Seq(PartType), NEW a \in Seq(Copies), NEW b \in Seq(Copies),
           NEW c \in Seq(Copies), NEW d \in Seq(Copies), NEW e \in Seq(Copies), NEW g \in Seq(Copies)
    PROVE  SixJoins(p, a, b, c, d, e, g)
  <1>. DEFINE ab == a \o b
              abc == ab \o c
              abcd == abc \o d
              abcde == abcd \o e
  <1>. HIDE DEF ab, abc, abcd, abcde
  <1>1. ab \in Seq(Copies)
    BY DEF ab
  <1>2. abc \in Seq(Copies)
    BY <1>1 DEF abc
  <1>3. abcd \in Seq(Copies)
    BY <1>2 DEF abcd
  <1>4. abcde \in Seq(Copies)
    BY <1>3 DEF abcde
  <1>5. \A x, y \in Seq(Copies) : p \o PartsOf(x \o y) = (p \o PartsOf(x)) \o PartsOf(y)
    BY Zenon, PartsAdd
  <1>6. p \o PartsOf(ab) = p \o PartsOf(a) \o PartsOf(b)
    BY Zenon, <1>5 DEF ab
  <1>7. p \o PartsOf(abc) = (p \o PartsOf(ab)) \o PartsOf(c)
    BY Zenon, <1>1, <1>5 DEF abc
  <1>8. p \o PartsOf(abcd) = (p \o PartsOf(abc)) \o PartsOf(d)
    BY Zenon, <1>2, <1>5 DEF abcd
  <1>9. p \o PartsOf(abcde) = (p \o PartsOf(abcd)) \o PartsOf(e)
    BY Zenon, <1>3, <1>5 DEF abcde
  <1>10. p \o PartsOf(abcde \o g) = (p \o PartsOf(abcde)) \o PartsOf(g)
    BY Zenon, <1>4, <1>5
  <1>11. abcde = a \o b \o c \o d \o e
    BY Zenon DEF ab, abc, abcd, abcde
  <1>. QED
    BY Zenon, <1>6, <1>7, <1>8, <1>9, <1>10, <1>11 DEF SixJoins

Cat(S, x, y) ==
    /\ x \o y \in Seq(S) /\ Len(x \o y) = Len(x) + Len(y)
    /\ \A i \in 1 .. Len(x) : (x \o y)[i] = x[i]
    /\ \A i \in 1 .. Len(y) : (x \o y)[Len(x) + i] = y[i]
LEMMA Catenated ==
    ASSUME NEW S, NEW x \in Seq(S), NEW y \in Seq(S)
    PROVE  Cat(S, x, y)
BY DEF Cat
LEMMA Pair ==
    ASSUME NEW S, NEW a \in S, NEW b \in S
    PROVE  <<a, b>> = <<a>> \o <<b>>
  <1>. DEFINE aa == <<a>>
              bb == <<b>>
              u == aa \o bb
              v == <<a, b>>
  <1>1. v \in Seq(S) /\ Len(v) = 2 /\ v[1] = a /\ v[2] = b
    OBVIOUS
  <1>2. aa \in Seq(S) /\ Len(aa) = 1 /\ aa[1] = a /\ bb \in Seq(S) /\ Len(bb) = 1 /\ bb[1] = b
    OBVIOUS
  <1>. HIDE DEF aa, bb
  <1>0. Cat(S, aa, bb)
    BY Zenon, <1>2, Catenated
  <1>. HIDE DEF u, v
  <1>3. u \in Seq(S) /\ Len(u) = Len(aa) + Len(bb)
        /\ (\A i \in 1 .. Len(aa) : u[i] = aa[i]) /\ (\A i \in 1 .. Len(bb) : u[Len(aa) + i] = bb[i])
    BY Zenon, <1>0 DEF Cat, u
  <1>4. Len(u) = 2
    BY <1>2, <1>3
  <1>5. u[1] = a /\ u[1 + 1] = b
    BY <1>2, <1>3
  <1>6. \A i \in 1 .. 2 : u[i] = v[i]
    BY <1>1, <1>5
  <1>7. u = v
    BY <1>1, <1>3, <1>4, <1>6
  <1>. QED
    BY Zenon, <1>7 DEF u, v, aa, bb

LEMMA TheLayers ==
    ASSUME NEW j, Fits(j)
    PROVE  \E q0, q1, q2, q3, q4, q5, q6 : Layers(j, q0, q1, q2, q3, q4, q5, q6)
  <1>. DEFINE act == ActAt(j)
              L == LengthOf(ProgramOf(j))
              window == j.size - ROM_WINDOW_SIZE
              reset == j.size - ROM_RESET_VECTOR_SIZE
              act2 == act + j.z.code
              act3 == act + j.z.code + j.z.mirror
              p1 == PutAt(0, "header", HEADER_SIZE)
              p2 == PutAt(window, "trampoline", L)
              p3 == PutAt(act, "code", j.z.code)
              p4 == PutAt(act2, "mirror", j.z.mirror)
              p5 == PutAt(act3, "truth", j.z.truth)
              p6 == PutAt(reset, ResetVector, ROM_RESET_VECTOR_SIZE)
              q0 == <<Part(0, j.size, "fill")>>
              q1 == q0 \o PartsOf(p1)
              q2 == q1 \o PartsOf(p2)
              q3 == q2 \o PartsOf(p3)
              q4 == q3 \o PartsOf(p4)
              q5 == q4 \o PartsOf(p5)
              q6 == q5 \o PartsOf(p6)
  <1>1. /\ act \in Nat /\ act2 \in Nat /\ act3 \in Nat /\ L \in Sizes /\ window \in Nat
    BY ZonesAre
  <1>2. reset \in Nat /\ j.z.code \in Nat /\ j.z.mirror \in Nat /\ j.z.truth \in Nat /\ j.size \in Nat
    BY DEF Fits, ROM_WINDOW_SIZE, ROM_RESET_VECTOR_SIZE
  <1>3. HEADER_SIZE \in Sizes /\ ROM_RESET_VECTOR_SIZE \in Sizes /\ 0 \in Nat
    BY DEF Sizes, HEADER_SIZE, ROM_RESET_VECTOR_SIZE
  <1>4. /\ "header" \in Tags /\ "trampoline" \in Tags /\ "code" \in Tags /\ "mirror" \in Tags
        /\ "truth" \in Tags /\ ResetVector \in Tags /\ "fill" \in Tags
    BY Zenon DEF Tags
  <1>5. RomRest(j) = p1 \o p2 \o p3 \o p4 \o p5 \o p6
    <2>. DEFINE w1 == CheckedAt(0, "header", HEADER_SIZE)
                w2 == CheckedAt(window, "trampoline", L)
                w6 == CheckedAt(reset, ResetVector, ROM_RESET_VECTOR_SIZE)
    <2>1. RomRest(j) = <<w1, w2>> \o p3 \o p4 \o p5 \o <<w6>>
      BY Zenon DEF RomRest
    <2>2. L # 0 /\ HEADER_SIZE # 0 /\ ROM_RESET_VECTOR_SIZE # 0
      BY <1>1, <1>3 DEF Sizes
    <2>3. p1 = <<w1>> /\ p2 = <<w2>> /\ p6 = <<w6>>
      BY Zenon, <2>2 DEF PutAt
    <2>. HIDE DEF w1, w2, w6, p1, p2, p3, p4, p5, p6
    <2>4a. w1 \in {w1, w2} /\ w2 \in {w1, w2}
      OBVIOUS
    <2>4. <<w1, w2>> = <<w1>> \o <<w2>>
      BY Zenon, <2>4a, Pair
    <2>. QED
      BY Zenon, <2>1, <2>3, <2>4
  <1>. HIDE DEF act, L, window, reset, act2, act3
  <1>6. L \in Nat /\ HEADER_SIZE \in Nat /\ ROM_RESET_VECTOR_SIZE \in Nat
    BY <1>1, <1>3 DEF Sizes
  <1>7. p1 \in Seq(Copies) /\ p2 \in Seq(Copies)
    BY Zenon, <1>1, <1>3, <1>4, <1>6, PutIs
  <1>8. p3 \in Seq(Copies) /\ p4 \in Seq(Copies) /\ p5 \in Seq(Copies)
    BY Zenon, <1>1, <1>2, <1>4, PutIs
  <1>9. p6 \in Seq(Copies)
    BY Zenon, <1>2, <1>4, <1>6, PutIs
  <1>10. q0 \in Seq(PartType)
    BY <1>2, <1>4 DEF Part, PartType, RangeType
  <1>. HIDE DEF q0
  <1>. HIDE DEF q1, q2, q3, q4, q5, q6
  <1>11. Laid(q0, q1, 0, "header", HEADER_SIZE)
    BY Zenon, <1>3, <1>4, <1>6, <1>10, PutLays DEF q1
  <1>12. Laid(q1, q2, window, "trampoline", L)
    BY Zenon, <1>1, <1>4, <1>6, <1>11, PutLays DEF q2, Laid
  <1>13. Laid(q2, q3, act, "code", j.z.code)
    BY Zenon, <1>1, <1>2, <1>4, <1>12, PutLays DEF q3, Laid
  <1>14. Laid(q3, q4, act2, "mirror", j.z.mirror)
    BY Zenon, <1>1, <1>2, <1>4, <1>13, PutLays DEF q4, Laid
  <1>15. Laid(q4, q5, act3, "truth", j.z.truth)
    BY Zenon, <1>1, <1>2, <1>4, <1>14, PutLays DEF q5, Laid
  <1>16. Laid(q5, q6, reset, ResetVector, ROM_RESET_VECTOR_SIZE)
    BY Zenon, <1>2, <1>4, <1>6, <1>15, PutLays DEF q6, Laid
  <1>17. q6 = FinalParts(j)
    <2>1. q6 = q0 \o PartsOf(p1) \o PartsOf(p2) \o PartsOf(p3) \o PartsOf(p4) \o PartsOf(p5) \o PartsOf(p6)
      BY Zenon DEF q1, q2, q3, q4, q5, q6
    <2>. HIDE DEF p1, p2, p3, p4, p5, p6
    <2>2. SixJoins(q0, p1, p2, p3, p4, p5, p6)
      BY Zenon, <1>7, <1>8, <1>9, <1>10, SixJoin
    <2>3. q6 = q0 \o PartsOf(RomRest(j))
      BY Zenon, <1>5, <2>1, <2>2 DEF SixJoins
    <2>. QED
      BY Zenon, <2>3 DEF FinalParts, q0
  <1>18. Layers(j, q0, q1, q2, q3, q4, q5, q6)
    BY Zenon, <1>11, <1>12, <1>13, <1>14, <1>15, <1>16, <1>17 DEF Layers, act, act2, act3, window, reset, L
  <1>. QED
    BY Zenon, <1>18

\* What of it is whole.  The trampoline of an image of one window lies over the header.
Whole(parts, at, size, what) == size # 0 => IntactIn(parts, at, size, what, 0)
RomParts(j, parts) ==
    /\ parts \in Seq(PartType)
    /\ j.size >= ROM_WINDOW_SIZE + HEADER_SIZE => Whole(parts, 0, HEADER_SIZE, "header")
    /\ Whole(parts, j.size - ROM_WINDOW_SIZE, LengthOf(ProgramOf(j)), "trampoline")
    /\ Whole(parts, ActAt(j), j.z.code, "code")
    /\ Whole(parts, ActAt(j) + j.z.code, j.z.mirror, "mirror")
    /\ Whole(parts, ActAt(j) + j.z.code + j.z.mirror, j.z.truth, "truth")
    /\ Whole(parts, j.size - ROM_RESET_VECTOR_SIZE, ROM_RESET_VECTOR_SIZE, ResetVector)

LEMMA WholeStays ==
    ASSUME NEW p, NEW q, NEW at, NEW what, NEW size, Laid(p, q, at, what, size)
    PROVE  /\ q \in Seq(PartType) /\ Whole(q, at, size, what)
           /\ \A b \in Int, n \in Nat : \A w : Whole(p, b, n, w) =>
                 (size = 0 \/ n = 0 \/ at + size <= b \/ b + n <= at => Whole(q, b, n, w))
BY DEF Laid, Whole

LEMMA FinalPartsAre ==
    ASSUME NEW j, Fits(j)
    PROVE  RomParts(j, FinalParts(j))
  <1>0. PICK q0, q1, q2, q3, q4, q5, q6 : Layers(j, q0, q1, q2, q3, q4, q5, q6)
    BY Zenon, TheLayers
  <1>. DEFINE act == ActAt(j)
              L == LengthOf(ProgramOf(j))
              window == j.size - ROM_WINDOW_SIZE
              reset == j.size - ROM_RESET_VECTOR_SIZE
              code == j.z.code
              mirror == j.z.mirror
              truth == j.z.truth
              head == HEADER_SIZE
              vector == ROM_RESET_VECTOR_SIZE
              mirrorAt == act + code
              truthAt == act + code + mirror
              Roomy == j.size >= ROM_WINDOW_SIZE + head
  <1>1. /\ act \in Int /\ code \in Nat /\ mirror \in Nat /\ truth \in Nat /\ mirrorAt \in Int
        /\ truthAt \in Int /\ L \in Nat /\ window \in Int /\ reset \in Int /\ head \in Nat /\ 0 \in Int
        /\ window + L <= act \/ truthAt + truth <= window
        /\ truthAt + truth <= reset /\ window + L <= reset
        /\ mirrorAt = act + code /\ truthAt = mirrorAt + mirror
        /\ Roomy => head <= act /\ head <= window /\ head <= reset
    <2>1. /\ j.size \in Nat /\ code \in Nat /\ mirror \in Nat /\ truth \in Nat
          /\ j.size >= ROM_WINDOW_SIZE /\ j.bits \in {16, 32, 64}
      BY DEF Fits
    <2>2. /\ act \in Nat /\ L \in Sizes /\ L <= 28672 /\ window \in Nat
          /\ window + L <= act \/ act + code + mirror + truth <= window
          /\ act + code + mirror + truth <= reset
      BY ZonesAre
    <2>3. (j.bits = 16 => act = window + L) /\ (j.bits # 16 => act = head)
      BY <2>1, ProgramIs DEF ProgramFacts
    <2>. HIDE DEF act, L, code, mirror, truth
    <2>. QED
      BY SMT, <2>1, <2>2, <2>3 DEF ROM_WINDOW_SIZE, ROM_RESET_VECTOR_SIZE, HEADER_SIZE, Sizes
  <1>2. /\ q6 = FinalParts(j) /\ Laid(q0, q1, 0, "header", head) /\ Laid(q1, q2, window, "trampoline", L)
        /\ Laid(q2, q3, act, "code", code) /\ Laid(q3, q4, mirrorAt, "mirror", mirror)
        /\ Laid(q4, q5, truthAt, "truth", truth) /\ Laid(q5, q6, reset, ResetVector, vector)
    BY Zenon, <1>0 DEF Layers
  <1>. HIDE DEF act, L, window, reset, code, mirror, truth, head, vector, mirrorAt, truthAt, Roomy
  <1>3. ASSUME Roomy PROVE Whole(q6, 0, head, "header")
    <2>1. 0 + head <= window /\ 0 + head <= act /\ 0 + head <= mirrorAt /\ 0 + head <= truthAt
          /\ 0 + head <= reset
      BY <1>1, <1>3
    <2>. QED
      BY Zenon, <1>1, <1>2, <2>1, WholeStays
  <1>4. Whole(q6, window, L, "trampoline")
    <2>1. /\ act + code <= window \/ window + L <= act
          /\ mirrorAt + mirror <= window \/ window + L <= mirrorAt
          /\ truthAt + truth <= window \/ window + L <= truthAt
      BY <1>1
    <2>2. Whole(q3, window, L, "trampoline")
      BY Zenon, <1>1, <1>2, <2>1, WholeStays
    <2>3. Whole(q4, window, L, "trampoline")
      BY Zenon, <1>1, <1>2, <2>1, <2>2, WholeStays
    <2>4. Whole(q5, window, L, "trampoline")
      BY Zenon, <1>1, <1>2, <2>1, <2>3, WholeStays
    <2>. QED
      BY Zenon, <1>1, <1>2, <2>4, WholeStays
  <1>5. Whole(q6, act, code, "code")
    <2>1. act + code <= mirrorAt /\ act + code <= truthAt /\ act + code <= reset
      BY <1>1
    <2>. QED
      BY Zenon, <1>1, <1>2, <2>1, WholeStays
  <1>6. Whole(q6, mirrorAt, mirror, "mirror")
    <2>1. mirrorAt + mirror <= truthAt /\ mirrorAt + mirror <= reset
      BY <1>1
    <2>. QED
      BY Zenon, <1>1, <1>2, <2>1, WholeStays
  <1>7. Whole(q6, truthAt, truth, "truth")
    BY Zenon, <1>1, <1>2, WholeStays
  <1>8. Whole(q6, reset, vector, ResetVector) /\ q6 \in Seq(PartType)
    BY Zenon, <1>2, WholeStays
  <1>9. RomParts(j, q6)
    BY Zenon, <1>3, <1>4, <1>5, <1>6, <1>7, <1>8
       DEF RomParts, act, L, window, reset, code, mirror, truth, head, vector, mirrorAt, truthAt, Roomy
  <1>. QED
    BY Zenon, <1>2, <1>9

\* The bytes the machine will look for.
RomBytes(j, parts) ==
    /\ \A n \in Nat : n < LengthOf(ProgramOf(j)) =>
          FoundIn(parts, j.size - ROM_WINDOW_SIZE + n, "trampoline", n)
    /\ j.entry < j.z.code => FoundIn(parts, ActAt(j) + j.entry, "code", j.entry)
    /\ FoundIn(parts, j.size - ROM_RESET_VECTOR_SIZE, ResetVector, 0)
    /\ parts \in Seq(PartType)

LEMMA FinalBytes ==
    ASSUME NEW j, Fits(j)
    PROVE  RomBytes(j, FinalParts(j))
  <1>. DEFINE act == ActAt(j)
              L == LengthOf(ProgramOf(j))
              window == j.size - ROM_WINDOW_SIZE
              reset == j.size - ROM_RESET_VECTOR_SIZE
              code == j.z.code
              entry == j.entry
              vector == ROM_RESET_VECTOR_SIZE
              q == FinalParts(j)
  <1>1. /\ act \in Int /\ code \in Nat /\ entry \in Nat /\ L \in Nat /\ window \in Int /\ reset \in Int
        /\ vector \in Nat /\ 0 \in Nat /\ 0 < vector /\ reset + 0 = reset
    <2>1. j.size \in Nat /\ code \in Nat /\ entry \in Nat /\ act \in Nat /\ L \in Sizes
      BY ZonesAre DEF Fits
    <2>. HIDE DEF act, L, code, entry
    <2>. QED
      BY SMT, <2>1 DEF ROM_WINDOW_SIZE, ROM_RESET_VECTOR_SIZE, Sizes
  <1>2. /\ q \in Seq(PartType) /\ Whole(q, window, L, "trampoline") /\ Whole(q, act, code, "code")
        /\ Whole(q, reset, vector, ResetVector)
    BY Zenon, FinalPartsAre DEF RomParts
  <1>. HIDE DEF act, L, window, reset, code, entry, vector, q
  <1>3. q \in Seq(RangeType(Tags))
    BY Zenon, <1>2 DEF PartType
  <1>4. ASSUME NEW at \in Int, NEW n \in Nat, NEW what, Whole(q, at, n, what), NEW k \in Nat, k < n
        PROVE  FoundIn(q, at + k, what, k)
    <2>1. n # 0
      BY <1>4
    <2>2. IntactIn(q, at, n, what, 0)
      BY Zenon, <1>4, <2>1 DEF Whole
    <2>. QED
      BY Zenon, <1>3, <1>4, <2>2, IntactByte
  <1>5. FoundIn(q, reset, ResetVector, 0)
    <2>1. FoundIn(q, reset + 0, ResetVector, 0)
      BY Zenon, <1>1, <1>2, <1>4
    <2>. QED
      BY Zenon, <1>1, <2>1
  <1>6. RomBytes(j, q)
    BY Zenon, <1>1, <1>2, <1>4, <1>5 DEF RomBytes, act, L, window, reset, entry, code
  <1>. QED
    BY <1>6 DEF q

-----------------------------------------------------------------------------
(* The plan of the writer. *)

Measured(j) == {j.size, j.entry, j.z.code, j.z.mirror, j.z.truth} \subseteq Nat
RomPlanOf(j) == RomPlan(j.z, j.bits, j.size, j.entry)

LEMMA PlanIs ==
    ASSUME NEW j
    PROVE  /\ RomPlanOf(j).accepts => RomAccepted(j.z, j.bits, j.size, j.entry)
           /\ RomPlanOf(j).writes = RomWrites(j.z, j.bits, j.size, j.entry)
           /\ RomPlanOf(j).errnoIsHandle = FALSE
  <1>. DEFINE accepted == RomAccepted(j.z, j.bits, j.size, j.entry)
              head == RomHeader(j.z, j.bits, j.size, j.entry)
              writes == RomWrites(j.z, j.bits, j.size, j.entry)
  <1>. HIDE DEF accepted, head, writes
  <1>1. RomPlanOf(j) = Plan(accepted, head, writes, FALSE)
    BY Zenon DEF RomPlanOf, RomPlan, accepted, head, writes
  <1>2. /\ RomPlanOf(j).accepts => accepted
        /\ RomPlanOf(j).writes = writes /\ RomPlanOf(j).errnoIsHandle = FALSE
    BY <1>1 DEF Plan
  <1>. QED
    BY Zenon, <1>2 DEF accepted, writes

\* The arguments that are not refused are those whose zones have room.
LEMMA AcceptedFits ==
    ASSUME NEW j, Measured(j), RomPlanOf(j).accepts
    PROVE  Fits(j)
  <1>1. RomAccepted(j.z, j.bits, j.size, j.entry)
    BY Zenon, PlanIs
  <1>. DEFINE act == ActAt(j)
  <1>2. /\ j.size >= ROM_WINDOW_SIZE
        /\ \/ j.bits = 16 /\ PayloadEnd(j.z, act) <= j.size - ROM_RESET_VECTOR_SIZE
           \/ j.bits \in {32, 64} /\ PayloadEnd(j.z, act) <= j.size - ROM_WINDOW_SIZE
    BY Zenon, <1>1 DEF RomAccepted, ActAt
  <1>3. PayloadEnd(j.z, act) = act + j.z.code + j.z.mirror + j.z.truth
    BY Zenon DEF PayloadEnd
  <1>4. /\ j.size \in Nat /\ j.entry \in Nat /\ j.z.code \in Nat /\ j.z.mirror \in Nat
        /\ j.z.truth \in Nat
    BY DEF Measured
  <1>. HIDE DEF act
  <1>5. /\ j.bits \in {16, 32, 64}
        /\ act + j.z.code + j.z.mirror + j.z.truth
              <= j.size - (IF j.bits = 16 THEN ROM_RESET_VECTOR_SIZE ELSE ROM_WINDOW_SIZE)
    BY <1>2, <1>3
  <1>. QED
    BY <1>2, <1>4, <1>5 DEF Fits, act

FillWrite(j) == Checked("fill", j.size)

LEMMA RomWritesAre ==
    ASSUME NEW j, Fits(j)
    PROVE  RomPlanOf(j).writes = <<FillWrite(j)>> \o RomRest(j)
  <1>. DEFINE act == ActAt(j)
              zones == RomZones(j.z, act)
              put(name) == IF zones[name].size = 0 THEN <<>>
                           ELSE <<CheckedAt(zones[name].offset, TagOf(name), zones[name].size)>>
              a == FillWrite(j)
              b == CheckedAt(0, "header", HEADER_SIZE)
              c == CheckedAt(j.size - ROM_WINDOW_SIZE, "trampoline", LengthOf(ProgramOf(j)))
              r == CheckedAt(j.size - ROM_RESET_VECTOR_SIZE, ResetVector, ROM_RESET_VECTOR_SIZE)
              p == PutAt(act, "code", j.z.code)
              q == PutAt(act + j.z.code, "mirror", j.z.mirror)
              s == PutAt(act + j.z.code + j.z.mirror, "truth", j.z.truth)
  <1>1. RomPlanOf(j).writes = <<a, b, c>> \o put("act") \o put("mirror") \o put("truth") \o <<r>>
    <2>1. RomPlanOf(j).writes = RomWrites(j.z, j.bits, j.size, j.entry)
      BY Zenon, PlanIs
    <2>. QED
      BY Zenon, <2>1 DEF RomWrites, FillWrite, ProgramOf, ActAt, ResetVector
  <1>2. put("act") = p /\ put("mirror") = q /\ put("truth") = s
    <2>1. /\ zones["act"].offset = act /\ zones["act"].size = j.z.code
          /\ zones["mirror"].offset = act + j.z.code /\ zones["mirror"].size = j.z.mirror
          /\ zones["truth"].offset = act + j.z.code + j.z.mirror /\ zones["truth"].size = j.z.truth
      <3>. HIDE DEF act
      <3>. QED
        BY DEF RomZones, Zone
    <2>2. TagOf("act") = "code" /\ TagOf("mirror") = "mirror" /\ TagOf("truth") = "truth"
      BY DEF TagOf
    <2>. HIDE DEF zones, act
    <2>. QED
      BY Zenon, <2>1, <2>2 DEF PutAt
  <1>3. p \in Seq(Copies) /\ q \in Seq(Copies) /\ s \in Seq(Copies) /\ b \in Copies /\ c \in Copies
        /\ r \in Copies
    <2>1. /\ act \in Nat /\ act + j.z.code \in Nat /\ act + j.z.code + j.z.mirror \in Nat
          /\ LengthOf(ProgramOf(j)) \in Sizes /\ j.size - ROM_WINDOW_SIZE \in Nat
      BY ZonesAre
    <2>2. j.size - ROM_RESET_VECTOR_SIZE \in Nat /\ j.z.code \in Nat /\ j.z.mirror \in Nat
          /\ j.z.truth \in Nat
      BY DEF Fits, ROM_WINDOW_SIZE, ROM_RESET_VECTOR_SIZE
    <2>3. HEADER_SIZE \in Sizes /\ ROM_RESET_VECTOR_SIZE \in Sizes /\ 0 \in Nat
      BY DEF Sizes, HEADER_SIZE, ROM_RESET_VECTOR_SIZE
    <2>4. /\ "header" \in Tags /\ "trampoline" \in Tags /\ "code" \in Tags /\ "mirror" \in Tags
          /\ "truth" \in Tags /\ ResetVector \in Tags
      BY Zenon DEF Tags
    <2>5. b \in Copies /\ c \in Copies /\ r \in Copies
      BY Zenon, <2>1, <2>2, <2>3, <2>4, InCopies
    <2>6. p \in Seq(Copies)
      BY Zenon, <2>1, <2>2, <2>4, PutIs
    <2>7. q \in Seq(Copies)
      BY Zenon, <2>1, <2>2, <2>4, PutIs
    <2>8. s \in Seq(Copies)
      BY Zenon, <2>1, <2>2, <2>4, PutIs
    <2>. QED
      BY <2>5, <2>6, <2>7, <2>8
  <1>4. RomRest(j) = <<b, c>> \o p \o q \o s \o <<r>>
    BY Zenon DEF RomRest
  <1>. HIDE DEF put, a, b, c, r, p, q, s
  <1>. DEFINE S == Copies \cup {a}
  <1>5. p \in Seq(S) /\ q \in Seq(S) /\ s \in Seq(S)
    BY <1>3
  <1>6. a \in S /\ b \in S /\ c \in S /\ r \in S
    BY <1>3
  <1>. HIDE DEF S
  <1>7. Regrouped(a, b, c, p, q, s, r)
    BY Zenon, <1>5, <1>6, Regroups
  <1>. QED
    BY Zenon, <1>1, <1>2, <1>4, <1>7 DEF a, Regrouped

-----------------------------------------------------------------------------
(* While the image is written. *)

Filed(f, j) == f.size = j.size /\ f.parts \in Seq(PartType) /\ f = [size |-> f.size, parts |-> f.parts]
Making(f, writes, j) ==
    \/ f = EmptyFile /\ writes = <<FillWrite(j)>> \o RomRest(j)
    \/ Filed(f, j) /\ writes \in Seq(Copies) /\ f.parts \o PartsOf(writes) = FinalParts(j)
Written(f, j) == Filed(f, j) /\ f.parts = FinalParts(j)

\* The fill, which is at the end of an empty file.
LEMMA FillPuts ==
    ASSUME NEW j, Fits(j)
    PROVE  /\ FillWrite(j).at = END_OF_FILE /\ FillWrite(j).compared = TRUE
           /\ FillWrite(j).count = FillWrite(j).piece.size /\ FillWrite(j).piece.size \in Sizes
           /\ Making(Appended(EmptyFile, FillWrite(j).piece), RomRest(j), j)
  <1>. DEFINE piece == Piece("fill", j.size)
              f == Appended(EmptyFile, piece)
              part == Part(0, j.size, "fill")
  <1>1. FillWrite(j).piece = piece /\ FillWrite(j).at = END_OF_FILE /\ FillWrite(j).compared = TRUE
        /\ FillWrite(j).count = FillWrite(j).piece.size
    <2>. HIDE DEF piece
    <2>. QED
      BY DEF FillWrite, Checked, Write, piece
  <1>2. j.size \in Nat /\ j.size # 0
    BY DEF Fits, ROM_WINDOW_SIZE
  <1>3. piece.size = j.size /\ piece.parts = <<part>>
    BY <1>2 DEF Piece
  <1>4. Shifted(<<part>>, 0) = <<part>> /\ part \in PartType
    <2>1. part \in PartType
      <3>1. "fill" \in Tags
        BY Zenon DEF Tags
      <3>. QED
        BY <1>2, <3>1 DEF Part, PartType, RangeType
    <2>2. [part EXCEPT !.at = @ + 0] = part
      BY DEF Part
    <2>3. Shifted(<<part>>, 0) = <<[part EXCEPT !.at = @ + 0]>>
      BY DEF Shifted
    <2>. QED
      BY <2>1, <2>2, <2>3
  <1>5. f = [size |-> j.size, parts |-> <<part>>]
    <2>1. f = [size |-> 0 + piece.size, parts |-> <<>> \o Shifted(piece.parts, 0)]
      <3>. HIDE DEF piece
      <3>1. EmptyFile.size = 0 /\ EmptyFile.parts = <<>>
        BY DEF EmptyFile
      <3>. QED
        BY Zenon, <3>1 DEF Appended
    <2>2. <<>> \o <<part>> = <<part>>
      BY <1>4
    <2>3. 0 + j.size = j.size
      BY <1>2
    <2>. HIDE DEF piece, part, f
    <2>. QED
      BY Zenon, <1>3, <1>4, <2>1, <2>2, <2>3
  <1>6. Filed(f, j) /\ f.parts = <<part>>
    <2>. HIDE DEF f, part
    <2>. QED
      BY <1>4, <1>5 DEF Filed
  <1>7. RomRest(j) \in Seq(Copies)
    BY RestIs
  <1>8. Making(f, RomRest(j), j)
    BY Zenon, <1>6, <1>7 DEF Making, FinalParts
  <1>. QED
    BY <1>1, <1>2, <1>3, <1>8 DEF Sizes

LEMMA CopyPutsOne ==
    ASSUME NEW j, NEW f, NEW writes, Filed(f, j), writes \in Seq(Copies), writes # <<>>,
           f.parts \o PartsOf(writes) = FinalParts(j)
    PROVE  /\ Head(writes).at # END_OF_FILE /\ Head(writes).compared = TRUE
           /\ Head(writes).count = Head(writes).piece.size
           /\ Making(Overlay(f, Head(writes).at, Head(writes).piece), Tail(writes), j)
  <1>. DEFINE w == Head(writes)
              rest == Tail(writes)
              g == Overlay(f, w.at, w.piece)
              one == <<w>>
  <1>1. w \in Copies /\ rest \in Seq(Copies)
    OBVIOUS
  <1>2. writes = one \o rest /\ one \in Seq(Copies)
    OBVIOUS
  <1>3. w.at # END_OF_FILE /\ w.compared = TRUE /\ w.count = w.piece.size
    <2>1. PICK at \in Nat, what \in Tags, size \in Sizes : w = CheckedAt(at, what, size)
      BY <1>1 DEF Copies
    <2>. HIDE DEF w
    <2>2. w.at = at /\ w.compared = TRUE /\ w.count = w.piece.size
      BY Zenon, <2>1, CopyIs
    <2>. QED
      BY <2>2 DEF END_OF_FILE
  <1>4. PartsOf(one) = <<PartOf(w)>>
    <2>. HIDE DEF w
    <2>. QED
      BY DEF PartsOf
  <1>. HIDE DEF w, rest, one
  <1>5. f.parts \in Seq(PartType) /\ f = [size |-> f.size, parts |-> f.parts] /\ f.size = j.size
    BY DEF Filed
  <1>6. /\ g.size = f.size /\ g.parts = f.parts \o <<PartOf(w)>>
        /\ g.parts \in Seq(PartType) /\ g = [size |-> g.size, parts |-> g.parts]
    BY <1>1, <1>5, CopyPuts
  <1>. HIDE DEF g
  <1>7. f.parts \o PartsOf(one \o rest) = (f.parts \o PartsOf(one)) \o PartsOf(rest)
    BY <1>1, <1>2, <1>5, PartsAdd
  <1>8. g.parts \o PartsOf(rest) = FinalParts(j)
    BY Zenon, <1>2, <1>4, <1>6, <1>7
  <1>9. Filed(g, j)
    BY <1>5, <1>6 DEF Filed
  <1>10. Making(g, rest, j)
    BY <1>1, <1>8, <1>9 DEF Making
  <1>. QED
    BY Zenon, <1>3, <1>10 DEF g, w, rest

\* When nothing is left to write the file is whole.
LEMMA MadeIsWritten ==
    ASSUME NEW j, NEW f, Fits(j), Making(f, <<>>, j)
    PROVE  Written(f, j)
  <1>1. <<>> # <<FillWrite(j)>> \o RomRest(j)
    <2>. DEFINE a == FillWrite(j)
                S == Copies \cup {a}
                rest == RomRest(j)
    <2>1. rest \in Seq(Copies)
      BY RestIs
    <2>. HIDE DEF a, rest
    <2>2. <<a>> \in Seq(S) /\ rest \in Seq(S) /\ Len(<<a>>) = 1
      BY <2>1
    <2>. HIDE DEF S
    <2>3. Len(<<a>> \o rest) = 1 + Len(rest) /\ Len(rest) \in Nat
      BY <2>2
    <2>4. Len(<<a>> \o rest) # 0
      BY <2>3
    <2>5. <<>> # <<a>> \o rest
      BY <2>4
    <2>. QED
      BY Zenon, <2>5 DEF a, rest
  <1>2. Filed(f, j) /\ f.parts \o PartsOf(<<>>) = FinalParts(j)
    BY Zenon, <1>1 DEF Making
  <1>3. PartsOf(<<>>) = <<>>
    BY DEF PartsOf
  <1>4. f.parts \o <<>> = f.parts
    BY <1>2 DEF Filed
  <1>. QED
    BY Zenon, <1>2, <1>3, <1>4 DEF Written

-----------------------------------------------------------------------------
(* The machine with a whole image. *)

EntryAddress(j) == HEADER_SIZE - j.size + j.entry

Underway(j, c, k) ==
    \/ j.bits = 16 /\ On16(c, k)
    \/ j.bits = 32 /\ On32(c, k, EntryAddress(j))
    \/ j.bits = 64 /\ On64(c, k, EntryAddress(j))
Left(j, c) ==
    \/ j.bits = 16 /\ Gone(c, "real", ROM_LOAD_BASE, 17 + j.entry)
    \/ j.bits = 32 /\ Gone(c, "protected", 0, EntryAddress(j))
    \/ j.bits = 64 /\ Gone(c, "long", 0, EntryAddress(j))

LEMMA WrittenIsReady ==
    ASSUME NEW j, NEW f, Fits(j), Written(f, j)
    PROVE  Ready(f, ProgramOf(j))
  <1>. DEFINE p == ProgramOf(j)
  <1>1. IsProgram(p) /\ Solid(p) /\ LengthOf(p) \in Sizes /\ LengthOf(p) <= 28672
    BY ProgramIs DEF ProgramFacts
  <1>2. RomBytes(j, f.parts) /\ f.size = j.size /\ f.parts \in Seq(PartType)
        /\ f = [size |-> f.size, parts |-> f.parts]
    BY FinalBytes DEF Written, Filed
  <1>3. j.size \in Nat
    BY DEF Fits
  <1>. HIDE DEF p
  <1>4. ASSUME NEW i \in 1 .. Len(p)
        PROVE  FoundIn(f.parts, f.size + (ROM_LOAD_BASE + PlaceOf(p, i)), "trampoline", PlaceOf(p, i))
    <2>. DEFINE n == PlaceOf(p, i)
    <2>1. n \in 0 .. LengthOf(p) - 1
      BY <1>1, OneAtPlace
    <2>. HIDE DEF n
    <2>2. n \in Nat /\ n < LengthOf(p)
      BY <1>1, <2>1 DEF Sizes
    <2>3. FoundIn(f.parts, j.size - ROM_WINDOW_SIZE + n, "trampoline", n)
      BY Zenon, <1>2, <2>2 DEF RomBytes, p
    <2>4. f.size + (ROM_LOAD_BASE + n) = j.size - ROM_WINDOW_SIZE + n
      BY <1>2, <1>3, <2>2 DEF ROM_LOAD_BASE, ROM_WINDOW_SIZE
    <2>5. FoundIn(f.parts, f.size + (ROM_LOAD_BASE + n), "trampoline", n)
      BY Zenon, <2>3, <2>4
    <2>. QED
      BY Zenon, <2>5 DEF n
  <1>5. f \in FileType
    BY <1>2, <1>3 DEF FileType
  <1>. QED
    BY <1>1, <1>4, <1>5 DEF Ready, p

LEMMA Fetches ==
    ASSUME NEW f \in FileType, NEW c, NEW what, NEW from,
           c.base + c.ip \in Int, FoundIn(f.parts, f.size + (c.base + c.ip), what, from)
    PROVE  Fetched(f, c) = [what |-> what, from |-> from]
  <1>1. f.size + (c.base + c.ip) \in Int
    BY DEF FileType
  <1>2. Reads(f, f.size + (c.base + c.ip), 1, what, from)
    BY Zenon, <1>1, FoundIsContent
  <1>. QED
    BY Zenon, <1>2 DEF Reads, Fetched, FoundAt

LEMMA AtReset ==
    ASSUME NEW j, NEW f, Fits(j), Written(f, j)
    PROVE  Fetched(f, Reset) = [what |-> ResetVector, from |-> 0]
  <1>1. f \in FileType
    BY WrittenIsReady DEF Ready
  <1>2. RomBytes(j, f.parts) /\ f.size = j.size /\ j.size \in Nat
    BY FinalBytes DEF Written, Filed, Fits
  <1>3. Reset.base + Reset.ip = 0 - ROM_RESET_VECTOR_SIZE
    BY DEF Reset, ROM_LOAD_BASE, KB64, ROM_RESET_VECTOR_SIZE
  <1>4. f.size + (Reset.base + Reset.ip) = j.size - ROM_RESET_VECTOR_SIZE
        /\ Reset.base + Reset.ip \in Int
    BY <1>2, <1>3 DEF ROM_RESET_VECTOR_SIZE
  <1>5. FoundIn(f.parts, f.size + (Reset.base + Reset.ip), ResetVector, 0)
    BY Zenon, <1>2, <1>4 DEF RomBytes
  <1>. QED
    BY Zenon, <1>1, <1>4, <1>5, Fetches

LEMMA AtEntry ==
    ASSUME NEW j, NEW f, Fits(j), Written(f, j), NEW c, Left(j, c), j.entry < j.z.code
    PROVE  /\ Fetched(f, c) = [what |-> "code", from |-> j.entry]
           /\ c.mode = ModeFor(j.bits) /\ c.stack
  <1>1. f \in FileType
    BY WrittenIsReady DEF Ready
  <1>2. RomBytes(j, f.parts) /\ f.size = j.size /\ j.size \in Nat /\ j.entry \in Nat
    BY FinalBytes DEF Written, Filed, Fits
  <1>3. /\ j.bits = 16 => ActAt(j) = j.size - ROM_WINDOW_SIZE + 17
        /\ j.bits # 16 => ActAt(j) = HEADER_SIZE
    BY ProgramIs DEF ProgramFacts, Fits
  <1>4. f.size + (c.base + c.ip) = ActAt(j) + j.entry /\ c.base + c.ip \in Int
    <2>. HIDE DEF ActAt
    <2>. QED
      BY <1>2, <1>3 DEF Left, Gone, EntryAddress, ROM_LOAD_BASE, ROM_WINDOW_SIZE, HEADER_SIZE
  <1>5. FoundIn(f.parts, f.size + (c.base + c.ip), "code", j.entry)
    BY Zenon, <1>2, <1>4 DEF RomBytes
  <1>6. c.mode = ModeFor(j.bits) /\ c.stack
    BY DEF Left, Gone, ModeFor
  <1>. QED
    BY Zenon, <1>1, <1>4, <1>5, <1>6, Fetches

\* It finds the next instruction of the trampoline, and that has one outcome.
Advances(j, f, c, k) ==
    /\ Fetched(f, c).what = "trampoline"
    /\ AtPlace(ProgramOf(j), Fetched(f, c).from) = {k}
    /\ \E d : /\ Executed(f, ProgramOf(j), c, ProgramOf(j)[k]) = {d}
              /\ Underway(j, d, k + 1) \/ Left(j, d)

LEMMA UnderwayAdvances ==
    ASSUME NEW j, NEW f, Fits(j), Written(f, j), NEW c, NEW k, Underway(j, c, k)
    PROVE  Advances(j, f, c, k)
  <1>. DEFINE p == ProgramOf(j)
              entry == EntryAddress(j)
  <1>1. Ready(f, p)
    BY WrittenIsReady
  <1>2. entry \in Int /\ j.entry \in Int
    BY DEF Fits, EntryAddress, HEADER_SIZE
  <1>3. /\ j.bits = 16 => Is16(p, j.entry)
        /\ j.bits = 32 => Is32(p, entry, 56, 34)
        /\ j.bits = 64 => Final64(p, entry)
    BY ProgramIs DEF ProgramFacts, EntryAddress
  <1>. HIDE DEF p, entry
  <1>4. AtStep(f, p, c, k) /\ \E d : Executed(f, p, c, p[k]) = {d} /\ (Underway(j, d, k + 1) \/ Left(j, d))
    <2>1. CASE j.bits = 16 /\ On16(c, k)
      <3>1. AtStep(f, p, c, k)
        BY Zenon, <1>3, <2>1, Step16
      <3>2. Moves16(f, p, c, k, j.entry)
        BY Zenon, <1>1, <1>2, <1>3, <2>1, Next16
      <3>. QED
        BY Zenon, <2>1, <3>1, <3>2 DEF Underway, Left, Moves16
    <2>2. CASE j.bits = 32 /\ On32(c, k, entry)
      <3>1. AtStep(f, p, c, k)
        BY Zenon, <1>3, <2>2, Step32
      <3>2. \E d : Executed(f, p, c, p[k]) = {d}
                   /\ (On32(d, k + 1, entry) \/ Gone(d, "protected", 0, entry))
        BY <1>1, <1>2, <1>3, <2>2, Next32
      <3>. QED
        BY Zenon, <2>2, <3>1, <3>2 DEF Underway, Left, entry
    <2>3. CASE j.bits = 64 /\ On64(c, k, entry)
      <3>1. AtStep(f, p, c, k)
        BY Zenon, <1>3, <2>3, Step64
      <3>2. \E d : Executed(f, p, c, p[k]) = {d}
                   /\ (On64(d, k + 1, entry) \/ Gone(d, "long", 0, entry))
        BY <1>1, <1>2, <1>3, <2>3, Next64
      <3>. QED
        BY Zenon, <2>3, <3>1, <3>2 DEF Underway, Left, entry
    <2>. QED
      BY Zenon, <2>1, <2>2, <2>3 DEF Underway, entry
  <1>5. Fetched(f, c).what = "trampoline" /\ AtPlace(p, Fetched(f, c).from) = {k}
    BY Zenon, <1>1, <1>4, FindsInstruction
  <1>. QED
    BY Zenon, <1>4, <1>5 DEF Advances, p

\* The jump of the reset vector leads to the first instruction.
LEMMA ResetLeads ==
    ASSUME NEW j, Fits(j)
    PROVE  Underway(j, AfterReset(Reset), 1)
  <1>1. AfterReset(Reset) = [Reset EXCEPT !.ip = 0]
    BY DEF AfterReset, Reset, KB64, ROM_RESET_VECTOR_SIZE
  <1>2. InReal(AfterReset(Reset), 0)
    <2>1. Reset \in Cpus /\ Reset.mode = "real" /\ Reset.base = ROM_LOAD_BASE
      BY DEF Reset, Cpus, Modes, Tables, ROM_LOAD_BASE, KB64, ROM_RESET_VECTOR_SIZE
    <2>2. [Reset EXCEPT !.ip = 0] \in Cpus
      BY <2>1 DEF Cpus
    <2>3. /\ [Reset EXCEPT !.ip = 0].mode = Reset.mode /\ [Reset EXCEPT !.ip = 0].base = Reset.base
          /\ [Reset EXCEPT !.ip = 0].ip = 0
      BY <2>1 DEF Cpus
    <2>. QED
      BY Zenon, <1>1, <2>1, <2>2, <2>3 DEF InReal
  <1>. QED
    BY <1>2 DEF Underway, On16, On32, On64, Common, Fits

LEMMA TagsDiffer ==
    /\ ResetVector # "trampoline" /\ ResetVector # "code" /\ "code" # "trampoline"
    /\ \A f, c, what, from : Fetched(f, c) = [what |-> what, from |-> from] => Fetched(f, c).what = what
  <1>1. ResetVector # "trampoline" /\ ResetVector # "code" /\ "code" # "trampoline"
    BY Zenon DEF ResetVector
  <1>2. \A r, what, from : r = [what |-> what, from |-> from] => r.what = what
    OBVIOUS
  <1>. QED
    BY Zenon, <1>1, <1>2

LEMMA FirstOfJoined ==
    ASSUME NEW j, Fits(j)
    PROVE  LET writes == <<FillWrite(j)>> \o RomRest(j)
           IN  Head(writes) = FillWrite(j) /\ Tail(writes) = RomRest(j)
  <1>. DEFINE a == FillWrite(j)
              S == Copies \cup {a}
              rest == RomRest(j)
  <1>1. rest \in Seq(Copies)
    BY RestIs
  <1>. HIDE DEF a, rest
  <1>2. a \in S /\ rest \in Seq(S)
    BY <1>1
  <1>. HIDE DEF S
  <1>3. Head(<<a>> \o rest) = a /\ Tail(<<a>> \o rest) = rest
    BY <1>2
  <1>. QED
    BY Zenon, <1>3 DEF a, rest

Machine(j, c) ==
    \/ c = Reset
    \/ \E k : Underway(j, c, k)
    \/ Left(j, c)

-----------------------------------------------------------------------------
(* The invariant: until bytes are lost, what is written and what is still  *)
(* to be written make the image, and the machine is on the way laid for it.*)

RomRun ==
    /\ Measured(job) /\ stage = "main"
    /\ pc = "writing" /\ ~lost => target = "file" /\ Fits(job) /\ Making(file, todo, job)
    /\ pc \in {"returned", "done"} /\ result = 0 /\ ~lost => Fits(job) /\ Written(file, job)
    /\ pc = "running" =>
          Fits(job) /\ Written(file, job) /\ (job.entry < job.z.code => Machine(job, cpu))
RInv ==
    /\ pc \in Phases
    /\ pc = "running" => job.format = "rom"
    /\ job.format = "rom" => RomRun

LEMMA RomPlanUsed ==
    ASSUME job.format = "rom"
    PROVE  CurrentPlan = RomPlanOf(job)
BY DEF CurrentPlan, PlanOf, RomPlanOf

LEMMA RomInit == Init => RInv
  <1>. SUFFICES ASSUME Init PROVE RInv
    OBVIOUS
  <1>1. pc = "start" /\ pc \in Phases /\ job \in Jobs /\ (job.format = "rom" => stage = "main")
    BY DEF Init, Phases
  <1>2. job.format = "rom" => Measured(job)
    BY <1>1, JobsAssumption DEF JobOK, Measured
  <1>. QED
    BY <1>1, <1>2 DEF RInv, RomRun

LEMMA RomStep == ASSUME RInv, [Next]_vars PROVE RInv'
  <1>0. pc \in Phases /\ (job.format = "rom" => RomRun) /\ (pc = "running" => job.format = "rom")
    BY DEF RInv
  <1>1. CASE Refuse
    BY <1>0, <1>1 DEF Refuse, RInv, RomRun, Phases
  <1>2. CASE Open
    <2>1. job' = job /\ stage' = stage /\ pc' = "writing" /\ target' = "file" /\ file' = EmptyFile
          /\ CurrentPlan.accepts /\ todo' = CurrentPlan.writes
      BY <1>2 DEF Open
    <2>2. ASSUME job.format = "rom" PROVE Fits(job) /\ Making(file', todo', job)
      <3>1. CurrentPlan = RomPlanOf(job)
        BY <2>2, RomPlanUsed
      <3>2. Fits(job)
        BY <1>0, <2>1, <2>2, <3>1, AcceptedFits DEF RomRun
      <3>3. todo' = <<FillWrite(job)>> \o RomRest(job)
        BY Zenon, <2>1, <3>1, <3>2, RomWritesAre
      <3>. QED
        BY <2>1, <3>2, <3>3 DEF Making
    <2>3. pc' \in Phases
      BY <2>1 DEF Phases
    <2>. QED
      BY <1>0, <2>1, <2>2, <2>3 DEF RInv, RomRun
  <1>3. CASE OpenFails
    <2>1. job' = job /\ stage' = stage /\ pc' \in {"returned", "writing"} /\ lost' = TRUE
      BY <1>3 DEF OpenFails
    <2>. QED
      BY <1>0, <2>1 DEF RInv, RomRun, Phases
  <1>4. CASE WriteNext
    <2>1. /\ job' = job /\ stage' = stage /\ target' = target /\ lost' = lost
          /\ pc = "writing" /\ todo # <<>> /\ file' = Put(Head(todo)) /\ todo' = Tail(todo)
          /\ IF Head(todo).compared /\ Head(todo).count # Head(todo).piece.size
             THEN pc' = "returned" /\ result' = -1
             ELSE UNCHANGED <<pc, result>>
      BY <1>4 DEF WriteNext
    <2>2. ASSUME job.format = "rom", ~lost
          PROVE  pc' = "writing" /\ Fits(job) /\ target = "file" /\ Making(file', todo', job)
      <3>1. target = "file" /\ Fits(job) /\ Making(file, todo, job)
        BY <1>0, <2>1, <2>2 DEF RomRun
      <3>2. CASE file = EmptyFile /\ todo = <<FillWrite(job)>> \o RomRest(job)
        <4>1. Head(todo) = FillWrite(job) /\ Tail(todo) = RomRest(job)
          BY <3>1, <3>2, FirstOfJoined
        <4>2. /\ Head(todo).at = END_OF_FILE /\ Head(todo).count = Head(todo).piece.size
              /\ Making(Appended(file, Head(todo).piece), Tail(todo), job)
          BY Zenon, <3>1, <3>2, <4>1, FillPuts
        <4>3. Put(Head(todo)) = Appended(file, Head(todo).piece)
          BY <3>1, <4>2 DEF Put
        <4>. QED
          BY <2>1, <3>1, <4>2, <4>3
      <3>3. CASE Filed(file, job) /\ todo \in Seq(Copies) /\ file.parts \o PartsOf(todo) = FinalParts(job)
        <4>1. /\ Head(todo).at # END_OF_FILE /\ Head(todo).count = Head(todo).piece.size
              /\ Making(Overlay(file, Head(todo).at, Head(todo).piece), Tail(todo), job)
          BY Zenon, <2>1, <3>3, CopyPutsOne
        <4>2. Put(Head(todo)) = Overlay(file, Head(todo).at, Head(todo).piece)
          BY <3>1, <4>1 DEF Put
        <4>. QED
          BY <2>1, <3>1, <4>1, <4>2
      <3>. QED
        BY Zenon, <3>1, <3>2, <3>3 DEF Making
    <2>3. pc' \in Phases
      BY <1>0, <2>1 DEF Phases
    <2>. QED
      BY <1>0, <2>1, <2>2, <2>3 DEF RInv, RomRun
  <1>15. CASE SkipEmpty
    <2>1. /\ UNCHANGED <<job, stage, target, lost, pc, file, result>> /\ pc = "writing"
          /\ todo # <<>> /\ Head(todo).piece.size = 0
      BY <1>15 DEF SkipEmpty
    <2>2. ASSUME job.format = "rom", ~lost PROVE FALSE
      <3>1. Fits(job) /\ Making(file, todo, job)
        BY <1>0, <2>1, <2>2 DEF RomRun
      <3>2. CASE todo = <<FillWrite(job)>> \o RomRest(job)
        <4>1. Head(todo) = FillWrite(job)
          BY <3>1, <3>2, FirstOfJoined
        <4>2. Head(todo).piece.size \in Sizes
          BY Zenon, <3>1, <4>1, FillPuts
        <4>. QED
          BY <2>1, <4>2 DEF Sizes
      <3>3. CASE todo \in Seq(Copies)
        BY <2>1, <3>3, CopyIsNotEmpty DEF Sizes
      <3>. QED
        BY Zenon, <3>1, <3>2, <3>3 DEF Making
    <2>. QED
      BY <1>0, <2>1, <2>2 DEF RInv, RomRun
  <1>5. CASE WriteFails
    <2>1. /\ job' = job /\ stage' = stage /\ pc = "writing" /\ lost' = TRUE
          /\ \/ pc' = "returned"
             \/ pc' = pc
      BY <1>5 DEF WriteFails
    <2>. QED
      BY <1>0, <2>1 DEF RInv, RomRun, Phases
  <1>6. CASE Close
    <2>1. /\ job' = job /\ stage' = stage /\ pc = "writing" /\ todo = <<>> /\ pc' = "returned"
          /\ file' = file /\ lost' = lost
      BY <1>6 DEF Close
    <2>2. ASSUME job.format = "rom", ~lost PROVE Fits(job) /\ Written(file, job)
      <3>1. Fits(job) /\ Making(file, <<>>, job)
        BY <1>0, <2>1, <2>2 DEF RomRun
      <3>. QED
        BY <3>1, MadeIsWritten
    <2>. QED
      BY <1>0, <2>1, <2>2 DEF RInv, RomRun, Phases
  <1>7. CASE FlushFails
    <2>1. job' = job /\ stage' = stage /\ pc' = "returned" /\ lost' = TRUE
      BY <1>7 DEF FlushFails
    <2>. QED
      BY <1>0, <2>1 DEF RInv, RomRun, Phases
  <1>8. CASE Fallback
    <2>1. job' = job /\ job.format # "rom" /\ pc' = "start" /\ pc' \in Phases
      BY <1>8 DEF Fallback, Phases
    <2>. QED
      BY <2>1 DEF RInv
  <1>9. CASE ReadBack
    <2>1. job' = job /\ stage = "temp" /\ pc' = "start" /\ pc' \in Phases
      BY <1>9 DEF ReadBack, Phases
    <2>. QED
      BY <1>0, <2>1 DEF RInv, RomRun
  <1>10. CASE Finish
    <2>1. /\ job' = job /\ stage' = stage /\ pc = "returned" /\ pc' = "done" /\ lost' = lost
          /\ result' = result /\ file' = IF result # 0 THEN NoFile ELSE file
      BY <1>10 DEF Finish
    <2>. QED
      BY <1>0, <2>1 DEF RInv, RomRun, Phases
  <1>11. CASE PowerOn
    <2>1. /\ job' = job /\ stage' = stage /\ pc = "done" /\ result = 0 /\ ~lost /\ pc' = "running"
          /\ file' = file /\ cpu' = Reset /\ job.format = "rom"
      BY <1>11 DEF PowerOn
    <2>. QED
      BY <1>0, <2>1 DEF RInv, RomRun, Phases, Machine
  <1>12. CASE CpuReset
    <2>1. /\ job' = job /\ stage' = stage /\ pc = "running" /\ pc' = pc /\ file' = file
          /\ Fetched(file, cpu) = [what |-> ResetVector, from |-> 0] /\ cpu' = AfterReset(cpu)
      BY Zenon, <1>12 DEF CpuReset, ResetVector
    <2>2. ASSUME job.format = "rom", job.entry < job.z.code PROVE Machine(job, cpu')
      <3>1. Fits(job) /\ Written(file, job) /\ Machine(job, cpu)
        BY <1>0, <2>1, <2>2 DEF RomRun
      <3>2. CASE cpu = Reset
        BY Zenon, <2>1, <3>1, <3>2, ResetLeads DEF Machine
      <3>3. CASE \E k : Underway(job, cpu, k)
        <4>1. Fetched(file, cpu).what = "trampoline"
          BY Zenon, <3>1, <3>3, UnderwayAdvances DEF Advances
        <4>. QED
          BY Zenon, <2>1, <4>1, TagsDiffer
      <3>4. CASE Left(job, cpu)
        <4>0. Fetched(file, cpu) = [what |-> "code", from |-> job.entry]
          BY Zenon, <2>2, <3>1, <3>4, AtEntry
        <4>1. Fetched(file, cpu).what = "code"
          BY <4>0
        <4>. QED
          BY Zenon, <2>1, <4>1, TagsDiffer
      <3>. QED
        BY Zenon, <3>1, <3>2, <3>3, <3>4 DEF Machine
    <2>. QED
      BY <1>0, <2>1, <2>2 DEF RInv, RomRun
  <1>13. CASE CpuStep
    <2>1. /\ job' = job /\ stage' = stage /\ pc = "running" /\ pc' = pc /\ file' = file
          /\ Fetched(file, cpu).what = "trampoline"
          /\ \E i \in AtPlace(ProgramOf(job), Fetched(file, cpu).from) :
                cpu' \in Executed(file, ProgramOf(job), cpu, ProgramOf(job)[i])
      BY Zenon, <1>13 DEF CpuStep, Program, ProgramOf
    <2>2. ASSUME job.format = "rom", job.entry < job.z.code PROVE Machine(job, cpu')
      <3>1. Fits(job) /\ Written(file, job) /\ Machine(job, cpu)
        BY <1>0, <2>1, <2>2 DEF RomRun
      <3>2. CASE cpu = Reset
        <4>0. Fetched(file, cpu) = [what |-> ResetVector, from |-> 0]
          BY Zenon, <3>1, <3>2, AtReset
        <4>1. Fetched(file, cpu).what = ResetVector
          BY <4>0
        <4>. QED
          BY Zenon, <2>1, <4>1, TagsDiffer
      <3>3. CASE \E k : Underway(job, cpu, k)
        <4>1. PICK k : Underway(job, cpu, k)
          BY Zenon, <3>3
        <4>2. Advances(job, file, cpu, k)
          BY Zenon, <3>1, <4>1, UnderwayAdvances
        <4>3. Underway(job, cpu', k + 1) \/ Left(job, cpu')
          BY Zenon, <2>1, <4>2 DEF Advances
        <4>. QED
          BY Zenon, <4>3 DEF Machine
      <3>4. CASE Left(job, cpu)
        <4>0. Fetched(file, cpu) = [what |-> "code", from |-> job.entry]
          BY Zenon, <2>2, <3>1, <3>4, AtEntry
        <4>1. Fetched(file, cpu).what = "code"
          BY <4>0
        <4>. QED
          BY Zenon, <2>1, <4>1, TagsDiffer
      <3>. QED
        BY Zenon, <3>1, <3>2, <3>3, <3>4 DEF Machine
    <2>. QED
      BY <1>0, <2>1, <2>2 DEF RInv, RomRun
  <1>14. CASE UNCHANGED vars
    BY <1>0, <1>14 DEF vars, RInv, RomRun
  <1>. QED
    BY <1>1, <1>2, <1>3, <1>4, <1>5, <1>6, <1>7, <1>8, <1>9, <1>10, <1>11, <1>12, <1>13, <1>14,
       <1>15 DEF Next, Writing, Running

(* Whatever its sizes, its entry point and its width, a ROM that was       *)
(* written whole takes the machine from the reset vector to the entry      *)
(* point of the program, in its mode and with a stack: the trampolines of  *)
(* rom_gen.c compute each address they load, tables included.              *)
THEOREM RomAlwaysReachesEntry == Spec => []RomReachesEntry
<1>1. RInv => RomReachesEntry
  <2>. SUFFICES ASSUME RInv, Arrived, job.entry < job.z.code
                PROVE  /\ Fetched(file, cpu) = [what |-> "code", from |-> job.entry]
                       /\ cpu.mode = ModeFor(job.bits) /\ cpu.stack
    BY Zenon DEF RomReachesEntry
  <2>1. pc = "running" /\ Fetched(file, cpu).what # ResetVector /\ Fetched(file, cpu).what # "trampoline"
    BY Zenon DEF Arrived, ResetVector
  <2>2. job.format = "rom"
    BY <2>1 DEF RInv
  <2>3. Fits(job) /\ Written(file, job) /\ Machine(job, cpu)
    BY <2>1, <2>2 DEF RInv, RomRun
  <2>4. cpu # Reset
    BY <2>1, <2>3, AtReset
  <2>5. ASSUME NEW k, Underway(job, cpu, k) PROVE FALSE
    BY Zenon, <2>1, <2>3, <2>5, UnderwayAdvances DEF Advances
  <2>6. Left(job, cpu)
    BY Zenon, <2>3, <2>4, <2>5 DEF Machine
  <2>. QED
    BY Zenon, <2>3, <2>6, AtEntry
<1>2. RInv /\ [Next]_vars => RInv'
  BY RomStep
<1> QED BY <1>1, <1>2, RomInit, PTL DEF Spec

(* The machine always finds, where its pointer is, the reset vector, an    *)
(* instruction of the trampoline that it can carry out, or something past  *)
(* the trampoline: no selector, descriptor or page table is missing.       *)
NeverFaults ==
    pc = "running" /\ job.entry < job.z.code =>
        \/ Arrived
        \/ Fetched(file, cpu) = [what |-> "reset vector", from |-> 0]
        \/ \E i \in AtPlace(Program, Fetched(file, cpu).from) :
              Fetched(file, cpu).what = "trampoline" /\ Executed(file, Program, cpu, Program[i]) # {}

(* No trampoline of rom_gen.c holds an instruction that faults when the    *)
(* machine comes to it, for every ROM the writer accepts.                  *)
THEOREM RomNeverFaults == Spec => []NeverFaults
<1>1. RInv => NeverFaults
  <2>. SUFFICES ASSUME RInv, pc = "running", job.entry < job.z.code
                PROVE  \/ Arrived
                       \/ Fetched(file, cpu) = [what |-> ResetVector, from |-> 0]
                       \/ \E i \in AtPlace(ProgramOf(job), Fetched(file, cpu).from) :
                             /\ Fetched(file, cpu).what = "trampoline"
                             /\ Executed(file, ProgramOf(job), cpu, ProgramOf(job)[i]) # {}
    BY Zenon DEF NeverFaults, Program, ProgramOf, ResetVector
  <2>1. Fits(job) /\ Written(file, job) /\ Machine(job, cpu)
    BY DEF RInv, RomRun
  <2>2. CASE cpu = Reset
    BY Zenon, <2>1, <2>2, AtReset
  <2>3. ASSUME NEW k, Underway(job, cpu, k)
        PROVE  \E i \in AtPlace(ProgramOf(job), Fetched(file, cpu).from) :
                  /\ Fetched(file, cpu).what = "trampoline"
                  /\ Executed(file, ProgramOf(job), cpu, ProgramOf(job)[i]) # {}
    <3>1. Advances(job, file, cpu, k)
      BY Zenon, <2>1, <2>3, UnderwayAdvances
    <3>2. \A d : {d} # {}
      OBVIOUS
    <3>3. Executed(file, ProgramOf(job), cpu, ProgramOf(job)[k]) # {}
      BY Zenon, <3>1, <3>2 DEF Advances
    <3>4. k \in AtPlace(ProgramOf(job), Fetched(file, cpu).from)
      BY Zenon, <3>1 DEF Advances
    <3>. QED
      BY Zenon, <3>1, <3>3, <3>4 DEF Advances
  <2>4. CASE Left(job, cpu)
    <3>1. Fetched(file, cpu) = [what |-> "code", from |-> job.entry]
      BY Zenon, <2>1, <2>4, AtEntry
    <3>2. Fetched(file, cpu).what = "code"
      BY <3>1
    <3>. QED
      BY Zenon, <3>2, TagsDiffer DEF Arrived, ResetVector
  <2>. QED
    BY Zenon, <2>1, <2>2, <2>3, <2>4 DEF Machine
<1>2. RInv /\ [Next]_vars => RInv'
  BY RomStep
<1> QED BY <1>1, <1>2, RomInit, PTL DEF Spec

(* An instruction of the trampoline leads to one further behind, or out of *)
(* the trampoline.                                                         *)
MovesForward ==
    /\ pc = "running" /\ job.entry < job.z.code
    /\ Fetched(file, cpu).what = "trampoline" /\ Fetched(file', cpu').what = "trampoline"
    /\ cpu' # cpu
    => Fetched(file', cpu').from > Fetched(file, cpu).from

LEMMA PlaceFetched ==
    ASSUME NEW j, NEW f, Fits(j), Written(f, j), NEW c, NEW k, Underway(j, c, k)
    PROVE  /\ Fetched(f, c).from = PlaceOf(ProgramOf(j), k) /\ k \in 1 .. Len(ProgramOf(j))
           /\ PlaceOf(ProgramOf(j), k) \in Nat
           /\ PlaceOf(ProgramOf(j), k + 1) > PlaceOf(ProgramOf(j), k)
  <1>. DEFINE p == ProgramOf(j)
  <1>1. AtPlace(p, Fetched(f, c).from) = {k}
    BY Zenon, UnderwayAdvances DEF Advances
  <1>2. IsProgram(p) /\ Solid(p)
    BY ProgramIs DEF ProgramFacts
  <1>. HIDE DEF p
  <1>3. k \in DOMAIN p /\ PlaceOf(p, k) = Fetched(f, c).from
    BY <1>1 DEF AtPlace
  <1>4. k \in 1 .. Len(p) /\ Len(p) \in Nat
    BY <1>2, <1>3 DEF IsProgram
  <1>5. PlaceOf(p, k + 1) = PlaceOf(p, k) + p[k].size /\ PlaceOf(p, k) \in Nat
    <2>1. k \in 1 .. Len(p) + 1
      BY <1>4
    <2>. QED
      BY <1>2, <1>4, <2>1, Places
  <1>6. p[k].size \in Nat /\ p[k].size # 0
    BY <1>2, <1>4 DEF IsProgram, Solid
  <1>. QED
    BY <1>3, <1>4, <1>5, <1>6 DEF p

(* The machine never turns back inside a trampoline, so with               *)
(* RomNeverFaults it leaves it after at most as many steps as there are    *)
(* instructions: the part of RomArrives that needs no fairness.            *)
THEOREM RomOnlyMovesForward == Spec => [][MovesForward]_vars
<1>1. RInv /\ [Next]_vars => [MovesForward]_vars
  <2>. SUFFICES ASSUME RInv, Next, pc = "running", job.entry < job.z.code,
                       Fetched(file, cpu).what = "trampoline", Fetched(file', cpu').what = "trampoline"
                PROVE  Fetched(file', cpu').from > Fetched(file, cpu).from
    BY Zenon DEF MovesForward
  <2>1. CpuStep
    <3>1. ~PowerOn /\ ~Fallback /\ ~ReadBack /\ ~Finish /\ ~Writing
      BY DEF PowerOn, Fallback, ReadBack, Finish, Writing, Refuse, Open, OpenFails, SkipEmpty,
             WriteNext, WriteFails, Close, FlushFails
    <3>2. ~CpuReset
      <4>1. CpuReset => Fetched(file, cpu) = [what |-> ResetVector, from |-> 0]
        BY Zenon DEF CpuReset, ResetVector
      <4>. QED
        BY Zenon, <4>1, TagsDiffer
    <3>. QED
      BY <3>1, <3>2 DEF Next, Running
  <2>2. Fits(job) /\ Written(file, job) /\ Machine(job, cpu)
    BY DEF RInv, RomRun
  <2>3. PICK k : Underway(job, cpu, k)
    <3>1. cpu # Reset
      <4>1. ASSUME cpu = Reset PROVE Fetched(file, cpu) = [what |-> ResetVector, from |-> 0]
        BY Zenon, <2>2, <4>1, AtReset
      <4>. QED
        BY Zenon, <4>1, TagsDiffer
    <3>2. ~Left(job, cpu)
      <4>1. ASSUME Left(job, cpu) PROVE Fetched(file, cpu) = [what |-> "code", from |-> job.entry]
        BY Zenon, <2>2, <4>1, AtEntry
      <4>. QED
        BY Zenon, <4>1, TagsDiffer
    <3>. QED
      BY Zenon, <2>2, <3>1, <3>2 DEF Machine
  <2>4. Advances(job, file, cpu, k)
    BY Zenon, <2>2, <2>3, UnderwayAdvances
  <2>5. Underway(job, cpu', k + 1) \/ Left(job, cpu')
    <3>1. \E i \in AtPlace(ProgramOf(job), Fetched(file, cpu).from) :
             cpu' \in Executed(file, ProgramOf(job), cpu, ProgramOf(job)[i])
      BY Zenon, <2>1 DEF CpuStep, Program, ProgramOf
    <3>. QED
      BY Zenon, <2>4, <3>1 DEF Advances
  <2>6. file' = file
    BY <2>1 DEF CpuStep
  <2>7. ~Left(job, cpu')
    <3>1. ASSUME Left(job, cpu') PROVE Fetched(file, cpu') = [what |-> "code", from |-> job.entry]
      BY Zenon, <2>2, <3>1, AtEntry
    <3>. QED
      BY Zenon, <2>6, <3>1, TagsDiffer
  <2>8. Fetched(file, cpu).from = PlaceOf(ProgramOf(job), k)
        /\ PlaceOf(ProgramOf(job), k + 1) > PlaceOf(ProgramOf(job), k)
    BY Zenon, <2>2, <2>3, PlaceFetched
  <2>9. Fetched(file, cpu').from = PlaceOf(ProgramOf(job), k + 1)
    BY Zenon, <2>2, <2>5, <2>7, PlaceFetched
  <2>. QED
    BY Zenon, <2>6, <2>8, <2>9
<1>2. RInv /\ [Next]_vars => RInv'
  BY RomStep
<1> QED BY <1>1, <1>2, RomInit, PTL DEF Spec
=============================================================================

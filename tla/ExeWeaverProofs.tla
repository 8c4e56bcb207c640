-------------------------- MODULE ExeWeaverProofs --------------------------
(***************************************************************************)
(* Proofs about ExeWeaver.                                                 *)
(*                                                                         *)
(* Three ideas carry them.  Shape says which sections a context has: those *)
(* of the program in front, those of the blobs behind, no name twice.      *)
(* Stage says what a step of Finalize leaves alone: the shape, the imports *)
(* but for their slots, the words of the sections in front.  Final says    *)
(* what a finalized context is, from which Finalize may start once more.   *)
(* The invariant follows the context through the branch with them, and     *)
(* keeps of the written image that it is a final context.                  *)
(*                                                                         *)
(* A second invariant, CallsOK, is about the imports alone: each called    *)
(* specification is registered once and nothing else is, a finalized       *)
(* context's directories, tables and slots are linked to one another, and  *)
(* every call site holds the slot of its function.  The loader that walks  *)
(* the written bytes therefore finds what each call was for.               *)
(***************************************************************************)
EXTENDS ExeWeaver, DataInduction, FiniteSetTheorems, TLAPS

-----------------------------------------------------------------------------
(* Sizes and their sums. *)

USE DEF SECTION_ALIGNMENT, FILE_ALIGNMENT

LEMMA SumOverOne ==
    ASSUME NEW f, NEW i \in Nat, \A k \in 1 .. i + 1 : f[k] \in Nat
    PROVE  SumOver(f, i + 1) = SumOver(f, i) + f[i + 1]
  BY SumOfFirst DEF SumOver

\* The sums of the first sizes are those of one size less and the last.
LEMMA SumsOfSizes ==
    ASSUME NEW f, NEW n \in Nat, \A i \in 1 .. n : f[i] \in Nat
    PROVE  /\ SumOver(f, 0) = 0
           /\ \A i \in 0 .. n : SumOver(f, i) \in Nat
           /\ \A i \in 1 .. n : SumOver(f, i) = SumOver(f, i - 1) + f[i]
  <1>. DEFINE T == {i \in Nat : i <= n => SumOver(f, i) \in Nat}
  <1>1. SumOver(f, 0) = 0
    <2>1. 1 .. 0 = {}
      OBVIOUS
    <2>. QED
      BY <2>1, SumOfNone DEF SumOver
  <1>2. ASSUME NEW i \in Nat, i + 1 <= n
        PROVE  SumOver(f, i + 1) = SumOver(f, i) + f[i + 1] /\ f[i + 1] \in Nat
    <2>1. (\A k \in 1 .. i + 1 : f[k] \in Nat) /\ i + 1 \in 1 .. n
      BY <1>2
    <2>. QED
      BY <2>1, SumOverOne
  <1>3. \A i \in Nat : i \in T
    <2>1. 0 \in T
      BY <1>1
    <2>2. ASSUME NEW i \in Nat, i \in T PROVE i + 1 \in T
      BY <1>2, <2>2
    <2>. HIDE DEF T
    <2>. QED
      BY <2>1, <2>2, SetInduction
  <1>4. ASSUME NEW i \in 1 .. n PROVE SumOver(f, i) = SumOver(f, i - 1) + f[i]
    <2>1. i - 1 \in Nat /\ (i - 1) + 1 = i /\ i <= n
      OBVIOUS
    <2>. QED
      BY <2>1, <1>2
  <1>. QED
    BY <1>1, <1>3, <1>4

\* Sums stay in a set that is closed under addition: the multiples, say.
LEMMA SumsStayIn ==
    ASSUME NEW S \in SUBSET Nat, 0 \in S, \A a, b \in S : a + b \in S,
           NEW f, NEW n \in Nat, \A i \in 1 .. n : f[i] \in S
    PROVE  \A i \in 0 .. n : SumOver(f, i) \in S
  <1>. DEFINE T == {i \in Nat : i <= n => SumOver(f, i) \in S}
  <1>0. /\ SumOver(f, 0) = 0
        /\ \A i \in 1 .. n : SumOver(f, i) = SumOver(f, i - 1) + f[i]
    <2>1. \A i \in 1 .. n : f[i] \in Nat
      OBVIOUS
    <2>. QED
      BY <2>1, SumsOfSizes
  <1>1. 0 \in T
    BY <1>0
  <1>2. ASSUME NEW i \in Nat, i \in T PROVE i + 1 \in T
    <2>1. SUFFICES ASSUME i + 1 <= n PROVE SumOver(f, i + 1) \in S
      OBVIOUS
    <2>2. i + 1 \in 1 .. n /\ (i + 1) - 1 = i /\ SumOver(f, i) \in S
      BY <1>2, <2>1
    <2>3. SumOver(f, i + 1) = SumOver(f, (i + 1) - 1) + f[i + 1]
      BY <1>0, <2>2
    <2>4. f[i + 1] \in S
      BY <2>2
    <2>. QED
      BY <2>2, <2>3, <2>4
  <1>. HIDE DEF T
  <1>3. \A i \in Nat : i \in T
    BY <1>1, <1>2, SetInduction
  <1>. QED
    BY <1>3 DEF T

LEMMA AlignUpFits ==
    ASSUME NEW v \in Nat
    PROVE  /\ EXE_AlignUp(v, 512) \in Nat /\ EXE_AlignUp(v, 512) % 512 = 0
           /\ v <= EXE_AlignUp(v, 512) /\ EXE_AlignUp(v, 512) < v + 512
           /\ EXE_AlignUp(v, 4096) \in Nat /\ EXE_AlignUp(v, 4096) % 4096 = 0
           /\ v <= EXE_AlignUp(v, 4096) /\ EXE_AlignUp(v, 4096) < v + 4096
  BY DEF EXE_AlignUp

-----------------------------------------------------------------------------
(* Contexts and sections. *)

SectionFields == {"name", "size", "words", "names", "isCode", "va", "ptr"}
CtxFields == {"sections", "imports", "unwind", "dir", "headerSize", "imageSize", "entry"}

IsSection(s) == DOMAIN s = SectionFields /\ s.size \in Nat
IsCtx(c) ==
    /\ DOMAIN c = CtxFields
    /\ Len(c.sections) \in Nat /\ c.sections = [i \in 1 .. Len(c.sections) |-> c.sections[i]]
    /\ \A i \in 1 .. Len(c.sections) : IsSection(c.sections[i])

\* A set of numbers that is not empty has a least member.
LEMMA LeastMember ==
    ASSUME NEW S \in SUBSET Nat, S # {}
    PROVE  \E m \in S : \A j \in S : m <= j
  <1>1. PICK m \in S : \A j \in S : ~(<<j, m>> \in OpToRel(<, Nat))
    BY WFMin, NatLessThanWellFounded
  <1>2. ASSUME NEW j \in S PROVE m <= j
    <2>1. ~(j < m)
      BY <1>1 DEF OpToRel
    <2>. QED
      BY <2>1
  <1>. QED
    BY <1>2

\* What FindSection returns: the first section of the name, or nothing.
LEMMA FindSectionIs ==
    ASSUME NEW c, IsCtx(c), NEW name
    PROVE  /\ FindSection(c, name) \in 0 .. Len(c.sections)
           /\ FindSection(c, name) = 0 => \A i \in 1 .. Len(c.sections) : c.sections[i].name # name
           /\ FindSection(c, name) # 0 => c.sections[FindSection(c, name)].name = name
  <1>. DEFINE found == {i \in 1 .. Len(c.sections) : c.sections[i].name = name}
  <1>0. DOMAIN c.sections = 1 .. Len(c.sections)
    BY DEF IsCtx
  <1>1. FindSection(c, name) = IF found = {} THEN 0 ELSE CHOOSE i \in found : \A j \in found : i <= j
    BY <1>0 DEF FindSection
  <1>2. CASE found = {}
    BY <1>1, <1>2 DEF IsCtx
  <1>3. CASE found # {}
    <2>1. found \in SUBSET Nat
      OBVIOUS
    <2>2. \E m \in found : \A j \in found : m <= j
      BY <1>3, <2>1, LeastMember
    <2>. HIDE DEF found
    <2>3. FindSection(c, name) \in found
      BY <1>1, <1>3, <2>2
    <2>. QED
      BY <2>3 DEF found
  <1>. QED
    BY <1>2, <1>3
\* Two contexts that differ in the section at i only: in d it has the
\* payload of s, and it may be one more.
SameElsewhere(c, d) ==
    /\ d.imports = c.imports /\ d.unwind = c.unwind /\ d.entry = c.entry /\ d.dir = c.dir
    /\ d.headerSize = c.headerSize /\ d.imageSize = c.imageSize
Payload(d, i, s) ==
    /\ d.sections[i].name = s.name /\ d.sections[i].size = s.size
    /\ d.sections[i].words = s.words /\ d.sections[i].names = s.names
    /\ d.sections[i].isCode = s.isCode
Put(c, d, i, s) ==
    /\ IsCtx(d) /\ SameElsewhere(c, d)
    /\ i \in 1 .. Len(d.sections)
    /\ Len(d.sections) = IF i <= Len(c.sections) THEN Len(c.sections) ELSE Len(c.sections) + 1
    /\ \A k \in 1 .. Len(c.sections) : k # i => d.sections[k] = c.sections[k]
    /\ Payload(d, i, s)

LEMMA AppendIs ==
    ASSUME NEW s, NEW n \in Nat, s = [i \in 1 .. n |-> s[i]], NEW e
    PROVE  /\ Len(s) = n /\ Len(Append(s, e)) = n + 1
           /\ Append(s, e) = [i \in 1 .. n + 1 |-> Append(s, e)[i]]
           /\ \A i \in 1 .. n : Append(s, e)[i] = s[i]
           /\ Append(s, e)[n + 1] = e
  <1>. DEFINE S == {s[i] : i \in 1 .. n} \cup {e}
  <1>1. s \in Seq(S) /\ e \in S /\ Len(s) = n
    <2>1. s \in [1 .. n -> S]
      OBVIOUS
    <2>. QED
      BY <2>1
  <1>. HIDE DEF S
  <1>. QED
    BY <1>1

LEMMA SectionAdded ==
    ASSUME NEW c, IsCtx(c), NEW s, IsSection(s)
    PROVE  Put(c, AddSection(c, s), Len(c.sections) + 1, s)
  <1>. DEFINE n == Len(c.sections)
              d == AddSection(c, s)
  <1>1. /\ DOMAIN d = CtxFields /\ d.sections = Append(c.sections, s)
        /\ SameElsewhere(c, d)
    BY DEF AddSection, IsCtx, CtxFields, SameElsewhere
  <1>2. /\ Len(d.sections) = n + 1 /\ n \in Nat
        /\ d.sections = [i \in 1 .. n + 1 |-> d.sections[i]]
        /\ \A i \in 1 .. n : d.sections[i] = c.sections[i]
        /\ d.sections[n + 1] = s
    BY <1>1, AppendIs DEF IsCtx
  <1>3. \A i \in 1 .. n + 1 : IsSection(d.sections[i])
    <2>1. \A i \in 1 .. n : IsSection(d.sections[i])
      BY <1>2 DEF IsCtx
    <2>. QED
      BY <1>2, <2>1
  <1>4. IsCtx(d)
    BY <1>1, <1>2, <1>3 DEF IsCtx
  <1>. QED
    BY <1>1, <1>2, <1>4 DEF Put, Payload

LEMMA WordsReplaced ==
    ASSUME NEW c, IsCtx(c), NEW i \in 1 .. Len(c.sections), NEW words
    PROVE  /\ IsCtx(WithWords(c, i, words)) /\ SameElsewhere(c, WithWords(c, i, words))
           /\ Len(WithWords(c, i, words).sections) = Len(c.sections)
           /\ \A k \in 1 .. Len(c.sections) :
                 WithWords(c, i, words).sections[k] =
                   IF k = i THEN [c.sections[i] EXCEPT !.words = words] ELSE c.sections[k]
  <1>. DEFINE d == WithWords(c, i, words)
              n == Len(c.sections)
  <1>1. /\ DOMAIN d = CtxFields /\ SameElsewhere(c, d)
        /\ d.sections = [c.sections EXCEPT ![i] = [c.sections[i] EXCEPT !.words = words]]
    BY DEF WithWords, IsCtx, CtxFields, SameElsewhere
  <1>2. n \in Nat /\ DOMAIN c.sections = 1 .. n
    BY DEF IsCtx
  <1>3. \A k \in 1 .. n : d.sections[k] =
            IF k = i THEN [c.sections[i] EXCEPT !.words = words] ELSE c.sections[k]
    BY <1>1, <1>2
  <1>4. d.sections = [k \in 1 .. n |-> d.sections[k]]
    BY <1>1, <1>2
  <1>5. Len(d.sections) = n
    BY <1>2, <1>4
  <1>6. \A k \in 1 .. n : IsSection(d.sections[k])
    <2>1. \A k \in 1 .. n : IsSection(c.sections[k])
      BY DEF IsCtx
    <2>2. IsSection([c.sections[i] EXCEPT !.words = words])
      BY <2>1 DEF IsSection, SectionFields
    <2>. QED
      BY <2>1, <2>2, <1>3
  <1>7. IsCtx(d)
    BY <1>1, <1>2, <1>4, <1>5, <1>6 DEF IsCtx
  <1>. QED
    BY <1>1, <1>3, <1>5, <1>7

\* Where SyntheticSection puts its section.
PlaceOf(c, name) == IF FindSection(c, name) = 0 THEN Len(c.sections) + 1 ELSE FindSection(c, name)

LEMMA SyntheticSectionPut ==
    ASSUME NEW c, IsCtx(c), NEW s, IsSection(s)
    PROVE  Put(c, SyntheticSection(c, s), PlaceOf(c, s.name), s)
  <1>. DEFINE f == FindSection(c, s.name)
              n == Len(c.sections)
              d == SyntheticSection(c, s)
  <1>0. f \in 0 .. n /\ n \in Nat
    BY FindSectionIs DEF IsCtx
  <1>1. CASE f = 0
    BY <1>1, SectionAdded DEF SyntheticSection, PlaceOf
  <1>2. CASE f # 0
    <2>. DEFINE e == [s EXCEPT !.va = c.sections[f].va, !.ptr = c.sections[f].ptr]
    <2>0. f \in 1 .. n /\ DOMAIN c.sections = 1 .. n /\ d = [c EXCEPT !.sections[f] = e]
      BY <1>0, <1>2 DEF SyntheticSection, IsCtx
    <2>1. /\ DOMAIN d = CtxFields /\ SameElsewhere(c, d)
          /\ d.sections = [c.sections EXCEPT ![f] = e]
      <3>. HIDE DEF e, f, d
      <3>. QED
        BY <2>0 DEF IsCtx, CtxFields, SameElsewhere
    <2>2. /\ IsSection(e) /\ e.name = s.name /\ e.size = s.size /\ e.words = s.words
          /\ e.names = s.names /\ e.isCode = s.isCode
      BY DEF IsSection, SectionFields
    <2>3. d.sections[f] = e /\ \A k \in 1 .. n : k # f => d.sections[k] = c.sections[k]
      <3>. HIDE DEF e, f, d
      <3>. QED
        BY <2>0, <2>1
    <2>4. d.sections = [k \in 1 .. n |-> d.sections[k]] /\ Len(d.sections) = n
      <3>. HIDE DEF e, f, d
      <3>1. d.sections = [k \in 1 .. n |-> d.sections[k]]
        BY <2>0, <2>1
      <3>. QED
        BY <1>0, <3>1
    <2>5. \A k \in 1 .. n : IsSection(d.sections[k])
      <3>1. \A k \in 1 .. n : IsSection(c.sections[k])
        BY DEF IsCtx
      <3>. HIDE DEF e, f, d
      <3>. QED
        BY <2>2, <2>3, <3>1
    <2>6. IsCtx(d)
      <3>. HIDE DEF e, f, d
      <3>. QED
        BY <1>0, <2>1, <2>4, <2>5 DEF IsCtx
    <2>7. PlaceOf(c, s.name) = f
      BY <1>2 DEF PlaceOf
    <2>. HIDE DEF e, f, d
    <2>8. Put(c, d, f, s)
      BY <2>0, <2>1, <2>2, <2>3, <2>4, <2>6, <1>0 DEF Put, Payload
    <2>. QED
      BY <2>7, <2>8 DEF d
  <1>. QED
    BY <1>1, <1>2
-----------------------------------------------------------------------------
(* The layout. *)

SizesSame(c, d) ==
    /\ Len(d.sections) = Len(c.sections)
    /\ \A i \in 1 .. Len(c.sections) : d.sections[i].size = c.sections[i].size

LaidOut(c) ==
    /\ c.headerSize = HeaderSize(c)
    /\ c.imageSize = SECTION_ALIGNMENT + SumOver(PageSizes(c), Len(c.sections))
    /\ \A i \in 1 .. Len(c.sections) :
          /\ c.sections[i].va = SECTION_ALIGNMENT + SumOver(PageSizes(c), i - 1)
          /\ c.sections[i].ptr = HeaderSize(c) + SumOver(SectorSizes(c), i - 1)

LEMMA SameSizesSameLayout ==
    ASSUME NEW c, IsCtx(c), NEW d, IsCtx(d), SizesSame(c, d)
    PROVE  /\ PageSizes(d) = PageSizes(c) /\ SectorSizes(d) = SectorSizes(c)
           /\ HeaderSize(d) = HeaderSize(c)
  <1>1. DOMAIN c.sections = 1 .. Len(c.sections) /\ DOMAIN d.sections = 1 .. Len(c.sections)
    BY DEF IsCtx, SizesSame
  <1>2. \A i \in 1 .. Len(c.sections) : /\ PagesOf(d.sections[i]) = PagesOf(c.sections[i])
                                        /\ SectorsOf(d.sections[i]) = SectorsOf(c.sections[i])
    BY DEF SizesSame, PagesOf, SectorsOf
  <1>. QED
    BY <1>1, <1>2 DEF PageSizes, SectorSizes, HeaderSize, SizesSame

LEMMA LayoutAssigned ==
    ASSUME NEW c, IsCtx(c)
    PROVE  LET d == AssignLayout(c) IN
           /\ IsCtx(d) /\ LaidOut(d)
           /\ d.imports = c.imports /\ d.unwind = c.unwind /\ d.entry = c.entry
           /\ Len(d.sections) = Len(c.sections)
           /\ \A i \in 1 .. Len(c.sections) : Payload(d, i, c.sections[i])
  <1>. DEFINE d == AssignLayout(c)
              n == Len(c.sections)
              e(i) == [c.sections[i] EXCEPT !.va = SECTION_ALIGNMENT + SumOver(PageSizes(c), i - 1),
                                            !.ptr = HeaderSize(c) + SumOver(SectorSizes(c), i - 1)]
  <1>1. n \in Nat /\ DOMAIN c.sections = 1 .. n /\ \A i \in 1 .. n : IsSection(c.sections[i])
    BY DEF IsCtx
  <1>2. /\ DOMAIN d = CtxFields /\ d.sections = [i \in DOMAIN c.sections |-> e(i)]
        /\ d.imports = c.imports /\ d.unwind = c.unwind /\ d.entry = c.entry
        /\ d.headerSize = HeaderSize(c)
        /\ d.imageSize = SECTION_ALIGNMENT + SumOver(PageSizes(c), Len(c.sections))
    BY DEF AssignLayout, IsCtx, CtxFields
  <1>3. ASSUME NEW i \in 1 .. n
        PROVE  /\ IsSection(e(i)) /\ e(i).name = c.sections[i].name /\ e(i).size = c.sections[i].size
               /\ e(i).words = c.sections[i].words /\ e(i).names = c.sections[i].names
               /\ e(i).isCode = c.sections[i].isCode
               /\ e(i).va = SECTION_ALIGNMENT + SumOver(PageSizes(c), i - 1)
               /\ e(i).ptr = HeaderSize(c) + SumOver(SectorSizes(c), i - 1)
    BY <1>1 DEF IsSection, SectionFields
  <1>. HIDE DEF d, e
  <1>4. \A i \in 1 .. n : d.sections[i] = e(i)
    BY <1>1, <1>2
  <1>5. d.sections = [i \in 1 .. n |-> d.sections[i]] /\ Len(d.sections) = n
    BY <1>1, <1>2
  <1>6. IsCtx(d)
    BY <1>1, <1>2, <1>3, <1>4, <1>5 DEF IsCtx
  <1>7. SizesSame(c, d)
    <2>1. \A i \in 1 .. n : d.sections[i].size = c.sections[i].size
      BY <1>3, <1>4
    <2>. QED
      BY <1>5, <2>1 DEF SizesSame
  <1>8. LaidOut(d)
    BY <1>2, <1>3, <1>4, <1>5, <1>6, <1>7, SameSizesSameLayout DEF LaidOut
  <1>9. \A i \in 1 .. n : Payload(d, i, c.sections[i])
    BY <1>3, <1>4 DEF Payload
  <1>. QED
    BY <1>2, <1>5, <1>6, <1>8, <1>9 DEF d

LEMMA SizesAligned ==
    ASSUME NEW section, section.size \in Nat
    PROVE  /\ PagesOf(section) \in Nat /\ PagesOf(section) % 4096 = 0
           /\ section.size <= PagesOf(section) /\ PagesOf(section) < section.size + 4096
           /\ SectorsOf(section) \in Nat /\ SectorsOf(section) % 512 = 0
           /\ section.size <= SectorsOf(section)
  BY DEF PagesOf, SectorsOf, EXE_AlignUp

\* What the layout gives each section, and each two neighbours.
LEMMA LayoutChain ==
    ASSUME NEW c, IsCtx(c), LaidOut(c)
    PROVE  LET s == c.sections
               n == Len(c.sections)
           IN  /\ c.headerSize \in Nat /\ c.headerSize % FILE_ALIGNMENT = 0
               /\ HEADERS_SIZE + n * SECTION_HEADER_SIZE <= c.headerSize
               /\ c.headerSize < HEADERS_SIZE + n * SECTION_HEADER_SIZE + FILE_ALIGNMENT
               /\ \A i \in 1 .. n : /\ s[i].va \in Nat /\ s[i].va >= SECTION_ALIGNMENT
                                     /\ s[i].va % SECTION_ALIGNMENT = 0
                                     /\ s[i].ptr \in Nat /\ s[i].ptr >= c.headerSize
                                     /\ s[i].ptr % FILE_ALIGNMENT = 0
               /\ \A i \in 1 .. n - 1 : /\ s[i + 1].va = s[i].va + PagesOf(s[i])
                                         /\ s[i + 1].ptr = s[i].ptr + SectorsOf(s[i])
               /\ n >= 1 => s[1].va = SECTION_ALIGNMENT
               /\ n >= 1 => c.imageSize = s[n].va + PagesOf(s[n])
               /\ c.imageSize \in Nat
  <1>. DEFINE s == c.sections
              n == Len(c.sections)
              pages == PageSizes(c)
              sectors == SectorSizes(c)
  <1>1. /\ n \in Nat /\ DOMAIN s = 1 .. n /\ \A i \in 1 .. n : s[i].size \in Nat
    BY DEF IsCtx, IsSection
  <1>2. \A i \in 1 .. n : /\ PagesOf(s[i]) \in Nat /\ PagesOf(s[i]) % 4096 = 0
                          /\ SectorsOf(s[i]) \in Nat /\ SectorsOf(s[i]) % 512 = 0
    BY <1>1, SizesAligned
  <1>3. \A i \in 1 .. n : pages[i] = PagesOf(s[i]) /\ sectors[i] = SectorsOf(s[i])
    BY <1>1 DEF PageSizes, SectorSizes
  <1>4. /\ c.headerSize \in Nat /\ c.headerSize % 512 = 0
        /\ HEADERS_SIZE + n * SECTION_HEADER_SIZE <= c.headerSize
        /\ c.headerSize < HEADERS_SIZE + n * SECTION_HEADER_SIZE + 512
    <2>1. c.headerSize = EXE_AlignUp(HEADERS_SIZE + n * SECTION_HEADER_SIZE, 512)
      BY DEF LaidOut, HeaderSize
    <2>2. HEADERS_SIZE + n * SECTION_HEADER_SIZE \in Nat
      BY <1>1 DEF HEADERS_SIZE, SECTION_HEADER_SIZE
    <2>. HIDE DEF n
    <2>. QED
      BY <2>1, <2>2, AlignUpFits
  <1>. HIDE DEF pages, sectors
  <1>5. (\A i \in 1 .. n : pages[i] \in Nat) /\ (\A i \in 1 .. n : sectors[i] \in Nat)
    BY <1>2, <1>3
  <1>6. /\ SumOver(pages, 0) = 0
        /\ \A i \in 0 .. n : SumOver(pages, i) \in Nat
        /\ \A i \in 1 .. n : SumOver(pages, i) = SumOver(pages, i - 1) + pages[i]
    BY <1>1, <1>5, SumsOfSizes
  <1>7. /\ SumOver(sectors, 0) = 0
        /\ \A i \in 0 .. n : SumOver(sectors, i) \in Nat
        /\ \A i \in 1 .. n : SumOver(sectors, i) = SumOver(sectors, i - 1) + sectors[i]
    BY <1>1, <1>5, SumsOfSizes
  <1>8. \A i \in 0 .. n : SumOver(pages, i) % 4096 = 0
    <2>. DEFINE S == {x \in Nat : x % 4096 = 0}
    <2>1. S \in SUBSET Nat /\ 0 \in S /\ \A a, b \in S : a + b \in S
      OBVIOUS
    <2>2. \A i \in 1 .. n : pages[i] \in S
      BY <1>2, <1>3
    <2>3. \A i \in 0 .. n : SumOver(pages, i) \in S
      <3>. HIDE DEF S, n
      <3>. QED
        BY <1>1, <2>1, <2>2, SumsStayIn
    <2>. QED
      BY <2>3
  <1>9. \A i \in 0 .. n : SumOver(sectors, i) % 512 = 0
    <2>. DEFINE S == {x \in Nat : x % 512 = 0}
    <2>1. S \in SUBSET Nat /\ 0 \in S /\ \A a, b \in S : a + b \in S
      OBVIOUS
    <2>2. \A i \in 1 .. n : sectors[i] \in S
      BY <1>2, <1>3
    <2>3. \A i \in 0 .. n : SumOver(sectors, i) \in S
      <3>. HIDE DEF S, n
      <3>. QED
        BY <1>1, <2>1, <2>2, SumsStayIn
    <2>. QED
      BY <2>3
  <1>10. /\ c.imageSize = 4096 + SumOver(pages, n)
         /\ \A i \in 1 .. n : /\ s[i].va = 4096 + SumOver(pages, i - 1)
                              /\ s[i].ptr = c.headerSize + SumOver(sectors, i - 1)
    BY DEF LaidOut, pages, sectors
  <1>11. ASSUME NEW i \in 1 .. n
         PROVE  /\ s[i].va \in Nat /\ s[i].va >= 4096 /\ s[i].va % 4096 = 0
                /\ s[i].ptr \in Nat /\ s[i].ptr >= c.headerSize /\ s[i].ptr % 512 = 0
    <2>1. i - 1 \in 0 .. n
      BY <1>1
    <2>2. /\ SumOver(pages, i - 1) \in Nat /\ SumOver(pages, i - 1) % 4096 = 0
          /\ SumOver(sectors, i - 1) \in Nat /\ SumOver(sectors, i - 1) % 512 = 0
      BY <2>1, <1>6, <1>7, <1>8, <1>9
    <2>3. s[i].va = 4096 + SumOver(pages, i - 1) /\ s[i].ptr = c.headerSize + SumOver(sectors, i - 1)
      BY <1>10
    <2>. HIDE DEF s, n
    <2>. QED
      BY <2>2, <2>3, <1>4
  <1>12. ASSUME NEW i \in 1 .. n - 1
         PROVE  s[i + 1].va = s[i].va + PagesOf(s[i]) /\ s[i + 1].ptr = s[i].ptr + SectorsOf(s[i])
    <2>1. i \in 1 .. n /\ i + 1 \in 1 .. n /\ (i + 1) - 1 = i /\ i - 1 \in 0 .. n
      BY <1>1
    <2>2. /\ SumOver(pages, i) = SumOver(pages, i - 1) + PagesOf(s[i])
          /\ SumOver(sectors, i) = SumOver(sectors, i - 1) + SectorsOf(s[i])
      BY <2>1, <1>3, <1>6, <1>7
    <2>3. /\ s[i + 1].va = 4096 + SumOver(pages, i) /\ s[i].va = 4096 + SumOver(pages, i - 1)
          /\ s[i + 1].ptr = c.headerSize + SumOver(sectors, i)
          /\ s[i].ptr = c.headerSize + SumOver(sectors, i - 1)
      BY <2>1, <1>10
    <2>4. /\ SumOver(pages, i - 1) \in Nat /\ PagesOf(s[i]) \in Nat
          /\ SumOver(sectors, i - 1) \in Nat /\ SectorsOf(s[i]) \in Nat
      <3>1. PagesOf(s[i]) \in Nat /\ SectorsOf(s[i]) \in Nat
        BY <2>1, <1>2
      <3>. HIDE DEF pages, sectors, s, n
      <3>2. SumOver(pages, i - 1) \in Nat /\ SumOver(sectors, i - 1) \in Nat
        BY <2>1, <1>6, <1>7
      <3>. QED
        BY <3>1, <3>2
    <2>. HIDE DEF s, n
    <2>. QED
      BY <2>2, <2>3, <2>4, <1>4
  <1>13. c.imageSize \in Nat /\ (n >= 1 => c.imageSize = s[n].va + PagesOf(s[n]) /\ s[1].va = 4096)
    <2>1. SumOver(pages, n) \in Nat
      BY <1>1, <1>6
    <2>2. ASSUME n >= 1
          PROVE  /\ SumOver(pages, n) = SumOver(pages, n - 1) + PagesOf(s[n])
                 /\ s[n].va = 4096 + SumOver(pages, n - 1) /\ s[1].va = 4096 + SumOver(pages, 0)
                 /\ SumOver(pages, n - 1) \in Nat /\ PagesOf(s[n]) \in Nat
      <3>1. n \in 1 .. n /\ 1 \in 1 .. n /\ n - 1 \in 0 .. n /\ 1 - 1 = 0
        BY <1>1, <2>2
      <3>2. SumOver(pages, n) = SumOver(pages, n - 1) + PagesOf(s[n])
        BY <3>1, <1>3, <1>6
      <3>3. s[n].va = 4096 + SumOver(pages, n - 1) /\ s[1].va = 4096 + SumOver(pages, 1 - 1)
        BY <3>1, <1>10
      <3>4. SumOver(pages, n - 1) \in Nat /\ PagesOf(s[n]) \in Nat
        <4>1. PagesOf(s[n]) \in Nat
          BY <3>1, <1>2
        <4>2. SumOver(pages, n - 1) \in Nat
          BY <3>1, <1>6
        <4>. QED
          BY <4>1, <4>2
      <3>. QED
        BY <3>1, <3>2, <3>3, <3>4
    <2>. HIDE DEF s, n
    <2>. QED
      BY <2>1, <2>2, <1>6, <1>10
  <1>. QED
    BY <1>4, <1>11, <1>12, <1>13

-----------------------------------------------------------------------------
(* Which sections a context has: the ones of the program, then those the   *)
(* blobs add, no name twice.                                               *)

TailNames == {".idata", ".pdata", ".reloc"}
FrontLen(p) == 1 + (IF p.mirrorSize = 0 THEN 0 ELSE 1) + (IF p.truthSize = 0 THEN 0 ELSE 1)
FrontName(p, i) ==
    IF i = 1 THEN ".text" ELSE IF i = 2 /\ p.mirrorSize # 0 THEN ".data" ELSE ".rdata"
FrontSize(p, i) ==
    IF i = 1 THEN p.codeSize
    ELSE IF i = 2 /\ p.mirrorSize # 0 THEN p.mirrorSize ELSE p.truthSize

HasFront(c, p, n) ==
    /\ n <= Len(c.sections)
    /\ \A i \in 1 .. n : /\ c.sections[i].name = FrontName(p, i)
                         /\ c.sections[i].size = FrontSize(p, i)
                         /\ c.sections[i].isCode = (i = 1)
Distinct(c) ==
    \A i, j \in 1 .. Len(c.sections) : c.sections[i].name = c.sections[j].name => i = j
Have(c, name) == IF FindSection(c, name) = 0 THEN 0 ELSE 1

Shape(c, p, n) ==
    /\ IsCtx(c) /\ HasFront(c, p, n) /\ Distinct(c)
    /\ \A i \in n + 1 .. Len(c.sections) : c.sections[i].name \in TailNames
    /\ Len(c.sections) = n + Have(c, ".idata") + Have(c, ".pdata") + Have(c, ".reloc")

LEMMA FoundAt ==
    ASSUME NEW c, IsCtx(c), Distinct(c), NEW i \in 1 .. Len(c.sections)
    PROVE  FindSection(c, c.sections[i].name) = i
  <1>. DEFINE f == FindSection(c, c.sections[i].name)
  <1>1. /\ f \in 0 .. Len(c.sections)
        /\ f = 0 => \A j \in 1 .. Len(c.sections) : c.sections[j].name # c.sections[i].name
        /\ f # 0 => c.sections[f].name = c.sections[i].name
    BY FindSectionIs
  <1>2. f \in 1 .. Len(c.sections)
    BY <1>1 DEF IsCtx
  <1>. HIDE DEF f
  <1>3. f = i
    BY <1>1, <1>2 DEF Distinct
  <1>. QED
    BY <1>3 DEF f

LEMMA FrontNames == \A p, i : FrontName(p, i) \notin TailNames
  BY DEF FrontName, TailNames

\* A section that a blob adds or replaces leaves the others where they are.
LEMMA PutShape ==
    ASSUME NEW p, NEW n \in Nat, NEW c, Shape(c, p, n), NEW s, IsSection(s), s.name \in TailNames,
           NEW d, Put(c, d, PlaceOf(c, s.name), s)
    PROVE  /\ Shape(d, p, n)
           /\ PlaceOf(c, s.name) > n
           /\ FindSection(d, s.name) = PlaceOf(c, s.name)
           /\ \A name : name # s.name => FindSection(d, name) = FindSection(c, name)
  <1>. DEFINE k == PlaceOf(c, s.name)
              f == FindSection(c, s.name)
              m == Len(c.sections)
  <1>1. /\ m \in Nat /\ f \in 0 .. m /\ k = IF f = 0 THEN m + 1 ELSE f
        /\ f = 0 => \A i \in 1 .. m : c.sections[i].name # s.name
        /\ f # 0 => c.sections[f].name = s.name
    BY FindSectionIs DEF PlaceOf, Shape, IsCtx
  <1>2. /\ IsCtx(d) /\ k \in 1 .. Len(d.sections)
        /\ Len(d.sections) = IF k <= m THEN m ELSE m + 1
        /\ \A i \in 1 .. m : i # k => d.sections[i] = c.sections[i]
        /\ d.sections[k].name = s.name
    BY DEF Put, Payload
  <1>3. /\ n <= m
        /\ \A i \in 1 .. n : /\ c.sections[i].name = FrontName(p, i)
                             /\ c.sections[i].size = FrontSize(p, i)
                             /\ c.sections[i].isCode = (i = 1)
        /\ \A i, j \in 1 .. m : c.sections[i].name = c.sections[j].name => i = j
        /\ \A i \in n + 1 .. m : c.sections[i].name \in TailNames
        /\ IsCtx(c)
    BY DEF Shape, HasFront, Distinct
  <1>. HIDE DEF k, f, m
  <1>4. k > n
    <2>1. CASE f = 0
      BY <2>1, <1>1, <1>3
    <2>2. CASE f # 0
      <3>1. k = f /\ k \in 1 .. m /\ c.sections[k].name \in TailNames
        BY <2>2, <1>1
      <3>2. k \notin 1 .. n
        BY <3>1, <1>3, FrontNames
      <3>. QED
        BY <3>1, <3>2
    <2>. QED
      BY <2>1, <2>2
  <1>5. \A i \in 1 .. Len(d.sections) : i # k => /\ i \in 1 .. m /\ d.sections[i] = c.sections[i]
                                                /\ c.sections[i].name # s.name
    <2>. SUFFICES ASSUME NEW i \in 1 .. Len(d.sections), i # k
                  PROVE  i \in 1 .. m /\ d.sections[i] = c.sections[i] /\ c.sections[i].name # s.name
      OBVIOUS
    <2>1. i \in 1 .. m
      BY <1>1, <1>2
    <2>2. c.sections[i].name # s.name
      BY <2>1, <1>1, <1>3
    <2>. QED
      BY <2>1, <2>2, <1>2
  <1>6. HasFront(d, p, n)
    <2>1. n <= Len(d.sections)
      BY <1>1, <1>2, <1>3
    <2>2. ASSUME NEW i \in 1 .. n PROVE d.sections[i] = c.sections[i]
      BY <1>1, <1>2, <1>3, <1>4
    <2>. QED
      BY <2>1, <2>2, <1>3 DEF HasFront
  <1>7. Distinct(d)
    <2>. SUFFICES ASSUME NEW i \in 1 .. Len(d.sections), NEW j \in 1 .. Len(d.sections),
                         d.sections[i].name = d.sections[j].name
                  PROVE  i = j
      BY DEF Distinct
    <2>1. CASE i = k \/ j = k
      BY <2>1, <1>2, <1>5
    <2>2. CASE i # k /\ j # k
      BY <2>2, <1>3, <1>5
    <2>. QED
      BY <2>1, <2>2
  <1>8. \A i \in n + 1 .. Len(d.sections) : d.sections[i].name \in TailNames
    <2>. SUFFICES ASSUME NEW i \in n + 1 .. Len(d.sections) PROVE d.sections[i].name \in TailNames
      OBVIOUS
    <2>1. CASE i = k
      BY <2>1, <1>2
    <2>2. CASE i # k
      <3>1. i \in 1 .. m /\ d.sections[i] = c.sections[i]
        BY <2>2, <1>5
      <3>. QED
        BY <3>1, <1>3
    <2>. QED
      BY <2>1, <2>2
  <1>9. FindSection(d, s.name) = k
    BY <1>2, <1>7, FoundAt
  <1>10. ASSUME NEW name, name # s.name PROVE FindSection(d, name) = FindSection(c, name)
    <2>. DEFINE g == FindSection(c, name)
    <2>1. /\ g \in 0 .. m
          /\ g = 0 => \A i \in 1 .. m : c.sections[i].name # name
          /\ g # 0 => c.sections[g].name = name
      BY <1>3, FindSectionIs DEF m
    <2>2. CASE g = 0
      <3>1. \A i \in 1 .. Len(d.sections) : d.sections[i].name # name
        BY <2>1, <2>2, <1>2, <1>5, <1>10
      <3>2. /\ FindSection(d, name) \in 0 .. Len(d.sections)
            /\ FindSection(d, name) # 0 => d.sections[FindSection(d, name)].name = name
        BY <1>2, FindSectionIs
      <3>. QED
        BY <2>2, <3>1, <3>2
    <2>3. CASE g # 0
      <3>. HIDE DEF g
      <3>1. g \in 1 .. m /\ c.sections[g].name = name
        BY <2>1, <2>3
      <3>2. g # k
        BY <3>1, <1>1, <1>3, <1>10
      <3>3. g \in 1 .. Len(d.sections) /\ d.sections[g].name = name
        BY <3>1, <3>2, <1>1, <1>2
      <3>. QED
        BY <3>3, <1>2, <1>7, FoundAt DEF g
    <2>. QED
      BY <2>2, <2>3
  <1>11. Len(d.sections) = n + Have(d, ".idata") + Have(d, ".pdata") + Have(d, ".reloc")
    <2>1. m = n + Have(c, ".idata") + Have(c, ".pdata") + Have(c, ".reloc")
      BY DEF Shape, m
    <2>2. \A name \in TailNames : Have(c, name) \in {0, 1}
      BY DEF Have
    <2>3. Have(d, s.name) = 1
      BY <1>2, <1>9 DEF Have
    <2>4. \A name \in TailNames : name # s.name => Have(d, name) = Have(c, name)
      BY <1>10 DEF Have
    <2>5. Len(d.sections) = IF Have(c, s.name) = 0 THEN m + 1 ELSE m
      BY <1>1, <1>2 DEF Have, f
    <2>6. CASE s.name = ".idata"
      BY <2>1, <2>2, <2>3, <2>4, <2>5, <2>6, <1>1 DEF TailNames
    <2>7. CASE s.name = ".pdata"
      BY <2>1, <2>2, <2>3, <2>4, <2>5, <2>7, <1>1 DEF TailNames
    <2>8. CASE s.name = ".reloc"
      BY <2>1, <2>2, <2>3, <2>4, <2>5, <2>8, <1>1 DEF TailNames
    <2>. QED
      BY <2>6, <2>7, <2>8 DEF TailNames
  <1>12. Shape(d, p, n)
    BY <1>2, <1>6, <1>7, <1>8, <1>11 DEF Shape
  <1>. QED
    BY <1>4, <1>9, <1>10, <1>12 DEF k

\* Names, sizes and kinds decide the shape.
SameKinds(c, d) ==
    /\ IsCtx(d) /\ Len(d.sections) = Len(c.sections)
    /\ \A i \in 1 .. Len(c.sections) : /\ d.sections[i].name = c.sections[i].name
                                       /\ d.sections[i].size = c.sections[i].size
                                       /\ d.sections[i].isCode = c.sections[i].isCode

LEMMA ShapeKept ==
    ASSUME NEW p, NEW n \in Nat, NEW c, Shape(c, p, n), NEW d, SameKinds(c, d)
    PROVE  /\ Shape(d, p, n)
           /\ \A name : FindSection(d, name) = FindSection(c, name)
  <1>0. /\ IsCtx(d) /\ Len(d.sections) = Len(c.sections)
        /\ \A i \in 1 .. Len(c.sections) : /\ d.sections[i].name = c.sections[i].name
                                           /\ d.sections[i].size = c.sections[i].size
                                           /\ d.sections[i].isCode = c.sections[i].isCode
    BY DEF SameKinds
  <1>1. DOMAIN c.sections = 1 .. Len(c.sections) /\ DOMAIN d.sections = 1 .. Len(c.sections)
    BY <1>0 DEF Shape, IsCtx
  <1>2. ASSUME NEW name PROVE FindSection(d, name) = FindSection(c, name)
    <2>. DEFINE C == {i \in DOMAIN c.sections : c.sections[i].name = name}
                D == {i \in DOMAIN d.sections : d.sections[i].name = name}
    <2>1. C = D
      BY <1>0, <1>1
    <2>2. FindSection(c, name) = IF C = {} THEN 0 ELSE CHOOSE i \in C : \A j \in C : i <= j
      BY DEF FindSection
    <2>3. FindSection(d, name) = IF D = {} THEN 0 ELSE CHOOSE i \in D : \A j \in D : i <= j
      BY DEF FindSection
    <2>. HIDE DEF C, D
    <2>. QED
      BY <2>1, <2>2, <2>3
  <1>3. HasFront(d, p, n)
    <2>1. n <= Len(d.sections) /\ Len(c.sections) \in Nat
      BY <1>0 DEF Shape, HasFront, IsCtx
    <2>2. \A i \in 1 .. n : i \in 1 .. Len(c.sections)
      BY <1>0, <2>1
    <2>. QED
      BY <1>0, <2>1, <2>2 DEF Shape, HasFront
  <1>4. Distinct(d)
    BY <1>0 DEF Shape, Distinct
  <1>5. \A i \in n + 1 .. Len(d.sections) : d.sections[i].name \in TailNames
    <2>1. \A i \in n + 1 .. Len(c.sections) : i \in 1 .. Len(c.sections)
      BY DEF Shape, IsCtx
    <2>. QED
      BY <1>0, <2>1 DEF Shape
  <1>6. Len(d.sections) = n + Have(d, ".idata") + Have(d, ".pdata") + Have(d, ".reloc")
    BY <1>0, <1>2 DEF Shape, Have
  <1>. QED
    BY <1>0, <1>2, <1>3, <1>4, <1>5, <1>6 DEF Shape

\* The code is the first section, and there are at most six.
LEMMA ShapeHasText ==
    ASSUME NEW p, NEW n \in Nat \ {0}, NEW c, Shape(c, p, n)
    PROVE  /\ FindSection(c, ".text") = 1 /\ 1 \in 1 .. Len(c.sections)
           /\ c.sections[1].name = ".text" /\ c.sections[1].size = p.codeSize
           /\ c.sections[1].isCode
           /\ Len(c.sections) <= n + 3
  <1>1. /\ 1 \in 1 .. n /\ 1 \in 1 .. Len(c.sections)
        /\ c.sections[1].name = ".text" /\ c.sections[1].size = p.codeSize
        /\ c.sections[1].isCode
    <2>1. 1 \in 1 .. n /\ 1 \in 1 .. Len(c.sections)
      BY DEF Shape, HasFront, IsCtx
    <2>2. FrontName(p, 1) = ".text" /\ FrontSize(p, 1) = p.codeSize
      BY DEF FrontName, FrontSize
    <2>. QED
      BY <2>1, <2>2 DEF Shape, HasFront
  <1>2. FindSection(c, ".text") = 1
    BY <1>1, FoundAt DEF Shape
  <1>3. Len(c.sections) <= n + 3
    BY DEF Shape, Have
  <1>. QED
    BY <1>1, <1>2, <1>3

-----------------------------------------------------------------------------
(* Imports: their types, and that every offset is a number. *)

FnRecords == [name : DOMAIN StrLen, iat : Nat, hint : Nat]
LibRecords == [dll : DOMAIN StrLen, functions : Seq(FnRecords)]

LEMMA HintSizesAreSizes ==
    ASSUME NEW fns \in Seq(FnRecords), NEW library, library.functions = fns
    PROVE  \A j \in 1 .. Len(fns) : HintSizes(library)[j] \in Nat
  <1>1. \A fn \in FnRecords : HintSize(fn) \in Nat
    BY SpecsAssumption DEF FnRecords, HintSize
  <1>2. DOMAIN fns = 1 .. Len(fns) /\ \A j \in 1 .. Len(fns) : fns[j] \in FnRecords
    OBVIOUS
  <1>. QED
    BY <1>1, <1>2 DEF HintSizes

LEMMA SumOfHintSizes ==
    ASSUME NEW library \in LibRecords
    PROVE  \A j \in 0 .. Len(library.functions) : SumOver(HintSizes(library), j) \in Nat
  <1>. DEFINE fns == library.functions
  <1>1. fns \in Seq(FnRecords) /\ Len(fns) \in Nat
    BY DEF LibRecords
  <1>2. \A j \in 1 .. Len(fns) : HintSizes(library)[j] \in Nat
    BY <1>1, HintSizesAreSizes
  <1>. QED
    BY <1>1, <1>2, SumsOfSizes

LEMMA LibrarySizeIsSize ==
    ASSUME NEW library \in LibRecords
    PROVE  LibrarySize(library) \in Nat /\ ThunksSize(library) \in Nat
  <1>1. Len(library.functions) \in Nat /\ library.dll \in DOMAIN StrLen
    BY DEF LibRecords
  <1>2. SumOver(HintSizes(library), Len(library.functions)) \in Nat
    BY <1>1, SumOfHintSizes
  <1>3. StrLen[library.dll] \in Nat
    BY <1>1, SpecsAssumption
  <1>4. ThunksSize(library) \in Nat
    BY <1>1 DEF ThunksSize, THUNK_SIZE
  <1>. QED
    BY <1>2, <1>3, <1>4 DEF LibrarySize

LEMMA ImportOffsets ==
    ASSUME NEW c, c.imports \in Seq(LibRecords)
    PROVE  /\ ImportSize(c) \in Nat
           /\ \A i \in 1 .. Len(c.imports) :
                 /\ IltOffset(c, i) \in Nat /\ IatOffset(c, i) \in Nat
                 /\ \A j \in 1 .. Len(c.imports[i].functions) : HintOffset(c, i, j) \in Nat
  <1>1. /\ Len(c.imports) \in Nat /\ DOMAIN c.imports = 1 .. Len(c.imports)
        /\ \A i \in 1 .. Len(c.imports) : c.imports[i] \in LibRecords
    OBVIOUS
  <1>2. \A i \in 1 .. Len(c.imports) : LibrarySizes(c)[i] \in Nat
    BY <1>1, LibrarySizeIsSize DEF LibrarySizes
  <1>3. \A i \in 0 .. Len(c.imports) : SumOver(LibrarySizes(c), i) \in Nat
    BY <1>1, <1>2, SumsOfSizes
  <1>4. ImportSize(c) \in Nat
    <2>1. SumOver(LibrarySizes(c), Len(c.imports)) \in Nat
      BY <1>1, <1>3
    <2>. QED
      BY <2>1, <1>1 DEF ImportSize, DESCRIPTOR_SIZE, THUNK_SIZE
  <1>5. ASSUME NEW i \in 1 .. Len(c.imports)
        PROVE  IltOffset(c, i) \in Nat /\ IatOffset(c, i) \in Nat
    <2>1. SumOver(LibrarySizes(c), i - 1) \in Nat
      BY <1>1, <1>3
    <2>2. ThunksSize(c.imports[i]) \in Nat
      BY <1>1, LibrarySizeIsSize
    <2>. QED
      BY <2>1, <2>2, <1>1 DEF IltOffset, IatOffset, DESCRIPTOR_SIZE
  <1>6. ASSUME NEW i \in 1 .. Len(c.imports), NEW j \in 1 .. Len(c.imports[i].functions)
        PROVE  HintOffset(c, i, j) \in Nat
    <2>1. c.imports[i] \in LibRecords
      BY <1>1
    <2>2. j - 1 \in 0 .. Len(c.imports[i].functions)
      BY <2>1 DEF LibRecords
    <2>3. SumOver(HintSizes(c.imports[i]), j - 1) \in Nat
      BY <2>1, <2>2, SumOfHintSizes
    <2>4. ThunksSize(c.imports[i]) \in Nat
      BY <2>1, LibrarySizeIsSize
    <2>. QED
      BY <2>3, <2>4, <1>5 DEF HintOffset
  <1>. QED
    BY <1>4, <1>5, <1>6

-----------------------------------------------------------------------------
(* Finalize, blob by blob and patch by patch. *)

ImportsOK(x) ==
    /\ x \in Seq(LibRecords) /\ Len(x) <= MaxLibraries
    /\ \A i \in 1 .. Len(x) : Len(x[i].functions) \in 1 .. MaxImports

\* The same libraries and functions, with other slots and hints.
Renumbered(x, y) ==
    /\ y \in Seq(LibRecords) /\ Len(y) = Len(x)
    /\ \A i \in 1 .. Len(x) :
          /\ y[i].dll = x[i].dll
          /\ Len(y[i].functions) = Len(x[i].functions)
          /\ \A j \in 1 .. Len(x[i].functions) : y[i].functions[j].name = x[i].functions[j].name

Stage(c, d, p, n) ==
    /\ Shape(d, p, n) /\ Renumbered(c.imports, d.imports) /\ d.entry = c.entry
    /\ \A i \in 1 .. n : d.sections[i].words = c.sections[i].words

LEMMA RenumberedSelf == \A x \in Seq(LibRecords) : Renumbered(x, x)
  BY DEF Renumbered

LEMMA RenumberedOK ==
    ASSUME NEW x, ImportsOK(x), NEW y, Renumbered(x, y)
    PROVE  ImportsOK(y)
  BY DEF Renumbered, ImportsOK

LEMMA RenumberedTwice ==
    ASSUME NEW x, NEW y, NEW z, Renumbered(x, y), Renumbered(y, z)
    PROVE  Renumbered(x, z)
  BY DEF Renumbered

LEMMA StageTwice ==
    ASSUME NEW p, NEW n \in Nat, NEW c, NEW d, NEW e, Stage(c, d, p, n), Stage(d, e, p, n)
    PROVE  Stage(c, e, p, n)
  BY RenumberedTwice DEF Stage

LEMMA FunctionsReplaced ==
    ASSUME NEW x \in Seq(LibRecords), NEW g,
           \A i \in 1 .. Len(x) :
              /\ g[i] \in Seq(FnRecords) /\ Len(g[i]) = Len(x[i].functions)
              /\ \A j \in 1 .. Len(x[i].functions) : g[i][j].name = x[i].functions[j].name
    PROVE  Renumbered(x, [i \in DOMAIN x |-> [x[i] EXCEPT !.functions = g[i]]])
  <1>. DEFINE e(i) == [x[i] EXCEPT !.functions = g[i]]
              y == [i \in DOMAIN x |-> e(i)]
  <1>1. DOMAIN x = 1 .. Len(x) /\ Len(x) \in Nat /\ \A i \in 1 .. Len(x) : x[i] \in LibRecords
    OBVIOUS
  <1>2. \A i \in 1 .. Len(x) : e(i) \in LibRecords /\ e(i).dll = x[i].dll /\ e(i).functions = g[i]
    BY <1>1 DEF LibRecords
  <1>. HIDE DEF e
  <1>3. y \in Seq(LibRecords) /\ Len(y) = Len(x) /\ \A i \in 1 .. Len(x) : y[i] = e(i)
    BY <1>1, <1>2
  <1>. HIDE DEF y
  <1>4. Renumbered(x, y)
    BY <1>2, <1>3 DEF Renumbered
  <1>. QED
    BY <1>4 DEF y, e

InTail(c, d, s, p, n) ==
    LET k == FindSection(d, s.name) IN
    /\ Shape(d, p, n) /\ SameElsewhere(c, d)
    /\ k \in n + 1 .. Len(d.sections) /\ Payload(d, k, s)
    /\ \A i \in 1 .. n : d.sections[i] = c.sections[i]
    /\ \A name : name # s.name => FindSection(d, name) = FindSection(c, name)
    /\ \A i \in 1 .. Len(c.sections) : i # k => d.sections[i] = c.sections[i]
    /\ Len(c.sections) <= Len(d.sections)

LEMMA TailPut ==
    ASSUME NEW p, NEW n \in Nat, NEW c, Shape(c, p, n), NEW s, IsSection(s), s.name \in TailNames
    PROVE  InTail(c, SyntheticSection(c, s), s, p, n)
  <1>. DEFINE d == SyntheticSection(c, s)
              k == PlaceOf(c, s.name)
  <1>1. IsCtx(c)
    BY DEF Shape
  <1>2. Put(c, d, k, s)
    BY <1>1, SyntheticSectionPut
  <1>. HIDE DEF d
  <1>3. /\ Shape(d, p, n) /\ k > n /\ FindSection(d, s.name) = k
        /\ \A name : name # s.name => FindSection(d, name) = FindSection(c, name)
    BY <1>2, PutShape
  <1>. HIDE DEF k
  <1>4. /\ SameElsewhere(c, d) /\ k \in 1 .. Len(d.sections) /\ Payload(d, k, s)
        /\ \A i \in 1 .. Len(c.sections) : i # k => d.sections[i] = c.sections[i]
        /\ Len(d.sections) = IF k <= Len(c.sections) THEN Len(c.sections) ELSE Len(c.sections) + 1
        /\ Len(c.sections) \in Nat /\ n <= Len(c.sections)
    BY <1>2 DEF Put, Shape, IsCtx, HasFront
  <1>5. k \in n + 1 .. Len(d.sections) /\ Len(c.sections) <= Len(d.sections)
    BY <1>3, <1>4
  <1>6. \A i \in 1 .. n : d.sections[i] = c.sections[i]
    BY <1>3, <1>4
  <1>. QED
    BY <1>3, <1>4, <1>5, <1>6 DEF d, InTail

LEMMA ImportsBuilt ==
    ASSUME NEW p, NEW n \in Nat, NEW c, Shape(c, p, n), c.imports \in Seq(LibRecords)
    PROVE  LET d == BuildImports(c) IN
           /\ Stage(c, d, p, n) /\ d.unwind = c.unwind
           /\ \A name : name # ".idata" => FindSection(d, name) = FindSection(c, name)
           /\ FindSection(d, ".idata") = 0 =>
                 c.imports = <<>> /\ FindSection(c, ".idata") = 0
           /\ c.imports = <<>> => FindSection(d, ".idata") = FindSection(c, ".idata")
  <1>. DEFINE x == c.imports
              d == BuildImports(c)
  <1>1. CASE x = <<>>
    <2>1. d = c
      BY <1>1 DEF BuildImports
    <2>. QED
      BY <2>1, <1>1, RenumberedSelf DEF Stage
  <1>2. CASE x # <<>>
    <2>. DEFINE g == [i \in 1 .. Len(x) |->
                        [j \in DOMAIN x[i].functions |->
                           [name |-> x[i].functions[j].name,
                            iat  |-> IatOffset(c, i) + (j - 1) * THUNK_SIZE,
                            hint |-> HintOffset(c, i, j)]]]
                y == [i \in DOMAIN x |-> [x[i] EXCEPT !.functions = g[i]]]
                e == [c EXCEPT !.imports = y]
                s == Section(".idata", ImportSize(c), ImportWords(c, 0), ImportNames(c), FALSE)
    <2>0. DOMAIN x = 1 .. Len(x) /\ \A i \in 1 .. Len(x) : x[i] \in LibRecords
      OBVIOUS
    <2>1. d = SyntheticSection(e, s)
      <3>. DEFINE z == [i \in DOMAIN x |-> [x[i] EXCEPT !.functions =
                        [j \in DOMAIN x[i].functions |->
                           [name |-> x[i].functions[j].name,
                            iat  |-> IatOffset(c, i) + (j - 1) * THUNK_SIZE,
                            hint |-> HintOffset(c, i, j)]]]]
      <3>1. y = z
        BY <2>0
      <3>2. d = SyntheticSection([c EXCEPT !.imports = z], s)
        BY <1>2 DEF BuildImports
      <3>. HIDE DEF y, z, s, d
      <3>. QED
        BY <3>1, <3>2
    <2>2. Renumbered(x, y)
      <3>1. ASSUME NEW i \in 1 .. Len(x)
            PROVE  /\ g[i] \in Seq(FnRecords) /\ Len(g[i]) = Len(x[i].functions)
                   /\ \A j \in 1 .. Len(x[i].functions) : g[i][j].name = x[i].functions[j].name
        <4>. DEFINE fs == x[i].functions
                    f(j) == [name |-> fs[j].name, iat |-> IatOffset(c, i) + (j - 1) * THUNK_SIZE,
                             hint |-> HintOffset(c, i, j)]
        <4>1. fs \in Seq(FnRecords)
          BY <2>0 DEF LibRecords
        <4>2. DOMAIN fs = 1 .. Len(fs) /\ Len(fs) \in Nat /\ \A j \in 1 .. Len(fs) : fs[j] \in FnRecords
          BY <4>1
        <4>3. /\ IatOffset(c, i) \in Nat
              /\ \A j \in 1 .. Len(fs) : HintOffset(c, i, j) \in Nat
          BY ImportOffsets
        <4>4. g[i] = [j \in 1 .. Len(fs) |-> f(j)]
          BY <4>2
        <4>5. ASSUME NEW j \in 1 .. Len(fs) PROVE f(j) \in FnRecords /\ f(j).name = fs[j].name
          <5>1. (j - 1) * THUNK_SIZE \in Nat
            BY <4>2 DEF THUNK_SIZE
          <5>2. IatOffset(c, i) + (j - 1) * THUNK_SIZE \in Nat
            BY <5>1, <4>3
          <5>3. fs[j].name \in DOMAIN StrLen
            BY <4>2 DEF FnRecords
          <5>. QED
            BY <5>2, <5>3, <4>3 DEF FnRecords
        <4>. HIDE DEF f, g
        <4>6. g[i] \in Seq(FnRecords) /\ Len(g[i]) = Len(fs) /\ \A j \in 1 .. Len(fs) : g[i][j] = f(j)
          BY <4>2, <4>4, <4>5
        <4>. QED
          BY <4>5, <4>6
      <3>. HIDE DEF g
      <3>. QED
        BY <3>1, FunctionsReplaced
    <2>. HIDE DEF y, g
    <2>3. Shape(e, p, n) /\ e.sections = c.sections /\ e.imports = y /\ e.unwind = c.unwind
          /\ e.entry = c.entry /\ \A name : FindSection(e, name) = FindSection(c, name)
      <3>1. /\ DOMAIN e = CtxFields /\ e.sections = c.sections /\ e.imports = y
            /\ e.unwind = c.unwind /\ e.entry = c.entry
        BY DEF Shape, IsCtx, CtxFields
      <3>. HIDE DEF e
      <3>2. IsCtx(e)
        BY <3>1 DEF Shape, IsCtx
      <3>3. SameKinds(c, e)
        BY <3>1, <3>2 DEF SameKinds
      <3>4. Shape(e, p, n) /\ \A name : FindSection(e, name) = FindSection(c, name)
        BY <3>3, ShapeKept
      <3>. QED
        BY <3>1, <3>4
    <2>4. IsSection(s) /\ s.name = ".idata" /\ s.name \in TailNames
      BY ImportOffsets DEF Section, IsSection, SectionFields, TailNames
    <2>. HIDE DEF d, e, s
    <2>5. /\ Shape(d, p, n) /\ SameElsewhere(e, d)
          /\ FindSection(d, ".idata") \in n + 1 .. Len(d.sections)
          /\ \A i \in 1 .. n : d.sections[i] = e.sections[i]
          /\ \A name : name # ".idata" => FindSection(d, name) = FindSection(e, name)
      <3>1. Shape(e, p, n) /\ IsSection(s) /\ s.name \in TailNames
        BY <2>3, <2>4
      <3>2. /\ Shape(d, p, n) /\ SameElsewhere(e, d)
            /\ FindSection(d, s.name) \in n + 1 .. Len(d.sections)
            /\ \A i \in 1 .. n : d.sections[i] = e.sections[i]
            /\ \A name : name # s.name => FindSection(d, name) = FindSection(e, name)
        <4>1. InTail(e, d, s, p, n)
          BY <3>1, <2>1, TailPut
        <4>. QED
          BY <4>1 DEF InTail
      <3>. QED
        BY <3>2, <2>4
    <2>6. Stage(c, d, p, n) /\ d.unwind = c.unwind
      BY <2>2, <2>3, <2>5 DEF Stage, SameElsewhere
    <2>7. FindSection(d, ".idata") # 0
      BY <2>5
    <2>. QED
      BY <1>2, <2>3, <2>5, <2>6, <2>7 DEF d
  <1>. QED
    BY <1>1, <1>2

\* The exception record of a program whose code is at the first page.
OneRecord(p) ==
    <<[start |-> SECTION_ALIGNMENT, end |-> SECTION_ALIGNMENT + p.codeSize, info |-> RECORD_SIZE]>>

PdataIs(d, p, n) ==
    LET k == FindSection(d, ".pdata") IN
    /\ d.unwind = OneRecord(p)
    /\ k \in n + 1 .. Len(d.sections)
    /\ d.sections[k].name = ".pdata" /\ d.sections[k].size = RECORD_SIZE + UNWIND_INFO_SIZE

LEMMA RecordNumbered ==
    ASSUME NEW p, NEW r, r \in {[start |-> SECTION_ALIGNMENT, end |-> SECTION_ALIGNMENT + p.codeSize,
                                 info |-> 0], OneRecord(p)[1]}
    PROVE  [i \in 1 .. 1 |-> [<<r>>[i] EXCEPT !.info = 1 * RECORD_SIZE + (i - 1) * UNWIND_INFO_SIZE]]
             = OneRecord(p)
  <1>. DEFINE e(i) == [<<r>>[i] EXCEPT !.info = 1 * RECORD_SIZE + (i - 1) * UNWIND_INFO_SIZE]
  <1>1. e(1) = OneRecord(p)[1]
    BY DEF OneRecord, RECORD_SIZE, UNWIND_INFO_SIZE
  <1>2. OneRecord(p) = [i \in 1 .. 1 |-> OneRecord(p)[1]]
    BY DEF OneRecord
  <1>. HIDE DEF e
  <1>3. \A i \in 1 .. 1 : e(i) = OneRecord(p)[1]
    BY <1>1
  <1>4. [i \in 1 .. 1 |-> e(i)] = OneRecord(p)
    BY <1>2, <1>3
  <1>. QED
    BY <1>4 DEF e

LEMMA ExceptionsBuilt ==
    ASSUME NEW p, NEW n \in Nat \ {0}, NEW c, Shape(c, p, n), c.imports \in Seq(LibRecords),
           c.unwind \in {<<>>, OneRecord(p)}
    PROVE  LET d == BuildExceptions(c) IN
           /\ Stage(c, d, p, n) /\ d.imports = c.imports /\ PdataIs(d, p, n)
           /\ \A name : name # ".pdata" => FindSection(d, name) = FindSection(c, name)
  <1>. DEFINE r0 == [start |-> SECTION_ALIGNMENT, end |-> SECTION_ALIGNMENT + p.codeSize, info |-> 0]
              r == IF c.unwind = <<>> THEN r0 ELSE OneRecord(p)[1]
              d == BuildExceptions(c)
  <1>0. /\ FindSection(c, ".text") = 1 /\ c.sections[1].size = p.codeSize
    BY ShapeHasText
  <1>. DEFINE f == DefaultRecord(c)
  <1>1. /\ f.unwind = <<r>> /\ DOMAIN f = CtxFields /\ f.sections = c.sections
        /\ f.imports = c.imports /\ f.entry = c.entry
    <2>0. DOMAIN c = CtxFields
      BY DEF Shape, IsCtx
    <2>1. CASE c.unwind = <<>>
      <3>1. f = [c EXCEPT !.unwind = Append(<<>>, r0)]
        BY <2>1, <2>0, <1>0 DEF DefaultRecord, AddExceptionInfo, CtxFields
      <3>2. Append(<<>>, r0) = <<r>>
        BY <2>1
      <3>3. f = [c EXCEPT !.unwind = <<r>>]
        <4>. HIDE DEF r0, r, f
        <4>. QED
          BY <3>1, <3>2
      <3>. HIDE DEF f, r
      <3>. QED
        BY <2>0, <3>3 DEF CtxFields
    <2>2. CASE c.unwind # <<>>
      <3>1. f = c /\ c.unwind = <<r>>
        BY <2>2 DEF DefaultRecord, OneRecord
      <3>. HIDE DEF f, r
      <3>. QED
        BY <2>0, <3>1 DEF CtxFields
    <2>. QED
      BY <2>1, <2>2
  <1>. DEFINE records == [i \in 1 .. 1 |->
                 [<<r>>[i] EXCEPT !.info = 1 * RECORD_SIZE + (i - 1) * UNWIND_INFO_SIZE]]
              e == [f EXCEPT !.unwind = OneRecord(p)]
              s == Section(".pdata", 1 * (RECORD_SIZE + UNWIND_INFO_SIZE),
                           ExceptionWords(OneRecord(p), 0), Empty, FALSE)
  <1>2. records = OneRecord(p)
    <2>1. r \in {r0, OneRecord(p)[1]}
      OBVIOUS
    <2>. HIDE DEF r
    <2>. QED
      BY <2>1, RecordNumbered
  <1>3. d = SyntheticSection(e, s)
    <2>. HIDE DEF r
    <2>1. d = SyntheticSection([f EXCEPT !.unwind = records],
                Section(".pdata", 1 * (RECORD_SIZE + UNWIND_INFO_SIZE),
                        ExceptionWords(records, 0), Empty, FALSE))
      <3>1. Len(<<r>>) = 1
        OBVIOUS
      <3>. QED
        BY <3>1, <1>1 DEF BuildExceptions
    <2>. HIDE DEF records, d
    <2>. QED
      BY <2>1, <1>2
  <1>. HIDE DEF records, d, r, f
  <1>4. /\ Shape(e, p, n) /\ e.sections = c.sections /\ e.imports = c.imports
        /\ e.unwind = OneRecord(p) /\ e.entry = c.entry
        /\ \A name : FindSection(e, name) = FindSection(c, name)
    <2>1. /\ DOMAIN e = CtxFields /\ e.sections = f.sections /\ e.imports = f.imports
          /\ e.unwind = OneRecord(p) /\ e.entry = f.entry
      BY <1>1 DEF CtxFields
    <2>. HIDE DEF e
    <2>3. IsCtx(e)
      BY <1>1, <2>1 DEF Shape, IsCtx
    <2>4. SameKinds(c, e)
      BY <1>1, <2>1, <2>3 DEF SameKinds
    <2>5. Shape(e, p, n) /\ \A name : FindSection(e, name) = FindSection(c, name)
      BY <2>4, ShapeKept
    <2>. QED
      BY <1>1, <2>1, <2>5
  <1>5. /\ IsSection(s) /\ s.name = ".pdata" /\ s.name \in TailNames
        /\ s.size = RECORD_SIZE + UNWIND_INFO_SIZE
    BY DEF Section, IsSection, SectionFields, TailNames, RECORD_SIZE, UNWIND_INFO_SIZE
  <1>. HIDE DEF e, s
  <1>6. InTail(e, d, s, p, n)
    BY <1>3, <1>4, <1>5, TailPut
  <1>7. Stage(c, d, p, n) /\ d.imports = c.imports
    BY <1>4, <1>6, RenumberedSelf DEF InTail, Stage, SameElsewhere
  <1>8. PdataIs(d, p, n)
    BY <1>4, <1>5, <1>6 DEF InTail, PdataIs, Payload, SameElsewhere
  <1>9. \A name : name # ".pdata" => FindSection(d, name) = FindSection(c, name)
    BY <1>4, <1>5, <1>6 DEF InTail
  <1>. QED
    BY <1>7, <1>8, <1>9 DEF d

LEMMA RelocationsBuilt ==
    ASSUME NEW p, NEW n \in Nat \ {0}, NEW c, Shape(c, p, n), c.imports \in Seq(LibRecords),
           PdataIs(c, p, n)
    PROVE  LET d == BuildRelocations(c) IN
           /\ Stage(c, d, p, n) /\ d.imports = c.imports /\ PdataIs(d, p, n)
           /\ FindSection(d, ".reloc") # 0
           /\ \A name : name # ".reloc" => FindSection(d, name) = FindSection(c, name)
  <1>. DEFINE d == BuildRelocations(c)
              s == Section(".reloc", RELOC_SIZE,
                    [o \in {0, 4} |-> IF o = 0 THEN SECTION_ALIGNMENT ELSE RELOC_SIZE], Empty, FALSE)
              k == FindSection(c, ".pdata")
  <1>1. d = SyntheticSection(c, s)
    BY DEF BuildRelocations
  <1>2. IsSection(s) /\ s.name = ".reloc" /\ s.name \in TailNames
    BY DEF Section, IsSection, SectionFields, TailNames, RELOC_SIZE
  <1>. HIDE DEF d, s
  <1>3. InTail(c, d, s, p, n)
    BY <1>1, <1>2, TailPut
  <1>4. /\ Stage(c, d, p, n) /\ d.imports = c.imports /\ d.unwind = c.unwind
        /\ FindSection(d, ".reloc") \in n + 1 .. Len(d.sections)
        /\ \A name : name # ".reloc" => FindSection(d, name) = FindSection(c, name)
    BY <1>2, <1>3, RenumberedSelf DEF InTail, Stage, SameElsewhere
  <1>5. /\ k \in n + 1 .. Len(c.sections) /\ c.sections[k].name = ".pdata"
        /\ c.sections[k].size = RECORD_SIZE + UNWIND_INFO_SIZE /\ c.unwind = OneRecord(p)
    BY DEF PdataIs
  <1>6. FindSection(d, ".pdata") = k
    BY <1>4
  <1>. HIDE DEF k
  <1>7. k # FindSection(d, ".reloc")
    <2>1. d.sections[FindSection(d, ".reloc")].name = ".reloc"
      BY <1>2, <1>3 DEF InTail, Payload
    <2>2. d.sections[k].name = ".pdata"
      <3>1. IsCtx(d) /\ k # 0
        BY <1>4, <1>5 DEF Stage, Shape
      <3>. QED
        BY <1>6, <3>1, FindSectionIs
    <2>. QED
      BY <2>1, <2>2
  <1>8. d.sections[k] = c.sections[k] /\ Len(c.sections) <= Len(d.sections)
    <2>1. k \in 1 .. Len(c.sections)
      BY <1>5
    <2>. QED
      BY <2>1, <1>2, <1>3, <1>7 DEF InTail
  <1>9. PdataIs(d, p, n)
    <2>1. k \in n + 1 .. Len(d.sections)
      <3>1. Len(c.sections) \in Nat /\ Len(d.sections) \in Nat
        BY <1>4 DEF Stage, Shape, IsCtx
      <3>. QED
        BY <3>1, <1>5, <1>8
    <2>. QED
      BY <2>1, <1>4, <1>5, <1>6, <1>8 DEF PdataIs
  <1>. QED
    BY <1>4, <1>9 DEF d

\* What the patches leave alone: all but words, imports and directories.
Patched(c, d) ==
    /\ IsCtx(d) /\ Len(d.sections) = Len(c.sections)
    /\ \A i \in 1 .. Len(c.sections) :
          /\ d.sections[i].name = c.sections[i].name /\ d.sections[i].size = c.sections[i].size
          /\ d.sections[i].isCode = c.sections[i].isCode
          /\ d.sections[i].va = c.sections[i].va /\ d.sections[i].ptr = c.sections[i].ptr
    /\ d.headerSize = c.headerSize /\ d.imageSize = c.imageSize /\ d.entry = c.entry

LEMMA PatchedKeeps ==
    ASSUME NEW p, NEW n \in Nat, NEW c, Shape(c, p, n), LaidOut(c), NEW d, Patched(c, d)
    PROVE  /\ Shape(d, p, n) /\ LaidOut(d)
           /\ \A name : FindSection(d, name) = FindSection(c, name)
  <1>1. IsCtx(c) /\ IsCtx(d) /\ SizesSame(c, d)
    BY DEF Patched, SizesSame, Shape
  <1>2. Shape(d, p, n) /\ \A name : FindSection(d, name) = FindSection(c, name)
    <2>1. SameKinds(c, d)
      BY DEF Patched, SameKinds
    <2>. QED
      BY <2>1, ShapeKept
  <1>3. LaidOut(d)
    <2>1. PageSizes(d) = PageSizes(c) /\ SectorSizes(d) = SectorSizes(c) /\ HeaderSize(d) = HeaderSize(c)
      BY <1>1, SameSizesSameLayout
    <2>. QED
      BY <2>1 DEF Patched, LaidOut
  <1>. QED
    BY <1>2, <1>3

LEMMA WordsPatched ==
    ASSUME NEW c, IsCtx(c), NEW i \in 1 .. Len(c.sections), NEW words
    PROVE  LET d == WithWords(c, i, words) IN
           /\ Patched(c, d) /\ d.imports = c.imports /\ d.unwind = c.unwind /\ d.dir = c.dir
           /\ d.sections[i].words = words
           /\ \A k \in 1 .. Len(c.sections) : k # i => d.sections[k] = c.sections[k]
  <1>. DEFINE d == WithWords(c, i, words)
              e == [c.sections[i] EXCEPT !.words = words]
  <1>1. /\ IsCtx(d) /\ SameElsewhere(c, d) /\ Len(d.sections) = Len(c.sections)
        /\ \A k \in 1 .. Len(c.sections) : d.sections[k] = IF k = i THEN e ELSE c.sections[k]
    BY WordsReplaced
  <1>2. /\ e.words = words /\ e.name = c.sections[i].name /\ e.size = c.sections[i].size
        /\ e.isCode = c.sections[i].isCode /\ e.va = c.sections[i].va /\ e.ptr = c.sections[i].ptr
    BY DEF IsCtx, IsSection, SectionFields
  <1>. HIDE DEF e, d
  <1>3. Patched(c, d)
    BY <1>1, <1>2 DEF Patched, SameElsewhere
  <1>. QED
    BY <1>1, <1>2, <1>3 DEF d, SameElsewhere

DirectoriesAre(c, d) ==
    /\ d.dir.exception = VaOf(c, ".pdata")
    /\ d.dir.exceptionSize = Len(c.unwind) * RECORD_SIZE

LEMMA DirectoriesPatched ==
    ASSUME NEW c, IsCtx(c), c.imports \in Seq(LibRecords),
           c.imports # <<>> => VaOf(c, ".idata") \in Nat
    PROVE  LET d == PatchDirectories(c) IN
           /\ Patched(c, d) /\ d.sections = c.sections /\ d.unwind = c.unwind
           /\ Renumbered(c.imports, d.imports)
           /\ DirectoriesAre(c, d)
  <1>. DEFINE x == c.imports
              v == VaOf(c, ".idata")
              dir == [exception |-> VaOf(c, ".pdata"),
                      exceptionSize |-> Len(c.unwind) * RECORD_SIZE,
                      relocation |-> VaOf(c, ".reloc"),
                      import |-> IF c.imports = <<>> THEN 0 ELSE v,
                      importSize |-> IF c.imports = <<>> THEN 0
                                     ELSE (Len(c.imports) + 1) * DESCRIPTOR_SIZE,
                      iat |-> IF c.imports = <<>> THEN 0 ELSE v + IatOffset(c, 1),
                      iatSize |-> SumOver(ThunkSizes(c), Len(c.imports))]
              e == [c EXCEPT !.dir = dir]
              d == PatchDirectories(c)
              g == [i \in 1 .. Len(x) |-> [j \in DOMAIN x[i].functions |->
                       [x[i].functions[j] EXCEPT !.iat = @ + v]]]
              y == [i \in DOMAIN x |-> [x[i] EXCEPT !.functions = g[i]]]
  <1>0. dir.exception = VaOf(c, ".pdata") /\ dir.exceptionSize = Len(c.unwind) * RECORD_SIZE
    OBVIOUS
  <1>1. d = IF x = <<>> THEN e
            ELSE [e EXCEPT !.imports = [i \in DOMAIN e.imports |->
                 [e.imports[i] EXCEPT !.functions = [j \in DOMAIN e.imports[i].functions |->
                     [e.imports[i].functions[j] EXCEPT !.iat = @ + v]]]]]
    <2>1. e.imports = x
      BY DEF IsCtx, CtxFields
    <2>. HIDE DEF e
    <2>. QED
      BY <2>1 DEF PatchDirectories, e
  <1>. HIDE DEF dir, d
  <1>2. /\ DOMAIN e = CtxFields /\ e.imports = x /\ e.sections = c.sections /\ e.unwind = c.unwind
        /\ e.entry = c.entry /\ e.headerSize = c.headerSize /\ e.imageSize = c.imageSize
        /\ e.dir = dir
    BY DEF IsCtx, CtxFields
  <1>. HIDE DEF e
  <1>3. DOMAIN x = 1 .. Len(x) /\ \A i \in 1 .. Len(x) : x[i] \in LibRecords
    OBVIOUS
  <1>4. x # <<>> => d = [e EXCEPT !.imports = y]
    <2>. DEFINE z == [i \in DOMAIN x |-> [x[i] EXCEPT !.functions =
                        [j \in DOMAIN x[i].functions |-> [x[i].functions[j] EXCEPT !.iat = @ + v]]]]
    <2>1. y = z
      BY <1>3
    <2>2. x # <<>> => d = [e EXCEPT !.imports = z]
      BY <1>1, <1>2
    <2>. HIDE DEF y, z
    <2>. QED
      BY <2>1, <2>2
  <1>5. ASSUME x # <<>> PROVE Renumbered(x, y)
    <2>0. v \in Nat
      BY <1>5
    <2>1. ASSUME NEW i \in 1 .. Len(x)
          PROVE  /\ g[i] \in Seq(FnRecords) /\ Len(g[i]) = Len(x[i].functions)
                 /\ \A j \in 1 .. Len(x[i].functions) : g[i][j].name = x[i].functions[j].name
      <3>. DEFINE fs == x[i].functions
                  f(j) == [fs[j] EXCEPT !.iat = @ + v]
      <3>1. fs \in Seq(FnRecords)
        BY <1>3 DEF LibRecords
      <3>2. DOMAIN fs = 1 .. Len(fs) /\ Len(fs) \in Nat /\ \A j \in 1 .. Len(fs) : fs[j] \in FnRecords
        BY <3>1
      <3>3. g[i] = [j \in 1 .. Len(fs) |-> f(j)]
        BY <3>2
      <3>4. ASSUME NEW j \in 1 .. Len(fs) PROVE f(j) \in FnRecords /\ f(j).name = fs[j].name
        BY <2>0, <3>2 DEF FnRecords
      <3>. HIDE DEF f, g
      <3>5. g[i] \in Seq(FnRecords) /\ Len(g[i]) = Len(fs) /\ \A j \in 1 .. Len(fs) : g[i][j] = f(j)
        BY <3>2, <3>3, <3>4
      <3>. QED
        BY <3>4, <3>5
    <2>. HIDE DEF g
    <2>. QED
      BY <2>1, FunctionsReplaced
  <1>. HIDE DEF y
  <1>6. /\ DOMAIN d = CtxFields /\ d.sections = c.sections /\ d.unwind = c.unwind
        /\ d.entry = c.entry /\ d.headerSize = c.headerSize /\ d.imageSize = c.imageSize
        /\ d.dir = dir /\ Renumbered(x, d.imports)
    <2>1. CASE x = <<>>
      BY <2>1, <1>1, <1>2, RenumberedSelf
    <2>2. CASE x # <<>>
      BY <2>2, <1>2, <1>4, <1>5 DEF CtxFields
    <2>. QED
      BY <2>1, <2>2
  <1>7. Patched(c, d)
    BY <1>6 DEF Patched, IsCtx
  <1>. QED
    BY <1>0, <1>6, <1>7 DEF d, DirectoriesAre

\* What a context is once it is finalized.
Final(d, p, n) ==
    /\ Shape(d, p, n) /\ LaidOut(d) /\ PdataIs(d, p, n)
    /\ d.sections[FindSection(d, ".pdata")].words = ExceptionWords(OneRecord(p), VaOf(d, ".pdata"))
    /\ d.dir.exception = VaOf(d, ".pdata") /\ d.dir.exceptionSize = RECORD_SIZE

Finalizable(c, p, n) ==
    /\ Shape(c, p, n) /\ c.imports \in Seq(LibRecords) /\ c.unwind \in {<<>>, OneRecord(p)}

Blobs(c) == BuildRelocations(BuildExceptions(BuildImports(c)))

LEMMA BlobsBuilt ==
    ASSUME NEW p, NEW n \in Nat \ {0}, NEW c, Finalizable(c, p, n)
    PROVE  /\ Stage(c, Blobs(c), p, n) /\ PdataIs(Blobs(c), p, n)
           /\ Blobs(c).imports \in Seq(LibRecords) /\ FindSection(Blobs(c), ".reloc") # 0
           /\ FindSection(Blobs(c), ".idata") = 0 => c.imports = <<>>
           /\ c.imports = <<>> => FindSection(Blobs(c), ".idata") = FindSection(c, ".idata")
  <1>. DEFINE b1 == BuildImports(c)
              b2 == BuildExceptions(b1)
              b3 == BuildRelocations(b2)
  <1>1. /\ Stage(c, b1, p, n) /\ b1.unwind = c.unwind
        /\ FindSection(b1, ".idata") = 0 => c.imports = <<>>
        /\ c.imports = <<>> => FindSection(b1, ".idata") = FindSection(c, ".idata")
    BY ImportsBuilt DEF Finalizable
  <1>2. Shape(b1, p, n) /\ b1.imports \in Seq(LibRecords) /\ b1.unwind \in {<<>>, OneRecord(p)}
    BY <1>1 DEF Stage, Renumbered, Finalizable
  <1>. HIDE DEF b1
  <1>3. /\ Stage(b1, b2, p, n) /\ b2.imports = b1.imports /\ PdataIs(b2, p, n)
        /\ FindSection(b2, ".idata") = FindSection(b1, ".idata")
    BY <1>2, ExceptionsBuilt
  <1>4. Shape(b2, p, n) /\ b2.imports \in Seq(LibRecords)
    BY <1>2, <1>3 DEF Stage
  <1>. HIDE DEF b2
  <1>5. /\ Stage(b2, b3, p, n) /\ b3.imports = b2.imports /\ PdataIs(b3, p, n)
        /\ FindSection(b3, ".reloc") # 0
        /\ FindSection(b3, ".idata") = FindSection(b2, ".idata")
    BY <1>3, <1>4, RelocationsBuilt
  <1>. HIDE DEF b3
  <1>6. Stage(c, b3, p, n)
    BY <1>1, <1>3, <1>5, StageTwice
  <1>. QED
    BY <1>1, <1>3, <1>4, <1>5, <1>6 DEF Blobs, b1, b2, b3

RecordFields == {"start", "end", "info"}
IsRecord(r) == r = [f \in RecordFields |-> r[f]]

Rewritten(r, a, b) == [r EXCEPT !.start = a, !.end = b]

LEMMA SameRewritten ==
    ASSUME NEW r, IsRecord(r), NEW a, NEW b, r.start = a, r.end = b
    PROVE  Rewritten(r, a, b) = r
  <1>. DEFINE F == RecordFields
              x == [r EXCEPT !.start = a, !.end = b]
  <1>0. r = [f \in F |-> r[f]]
    BY DEF IsRecord
  <1>1. x = [f \in F |-> x[f]]
    BY <1>0
  <1>2. \A f \in F : x[f] = r[f]
    BY <1>0 DEF RecordFields
  <1>. HIDE DEF x, F
  <1>3. x = r
    BY <1>0, <1>1, <1>2
  <1>. QED
    BY <1>3 DEF x, Rewritten

LEMMA RecordRewritten ==
    ASSUME NEW r, IsRecord(r), NEW text,
           r.start = SECTION_ALIGNMENT, r.start = text.va, r.end = text.va + text.size
    PROVE  OverText(r, text) = r
  <1>1. OverText(r, text) = Rewritten(r, text.va, text.va + text.size)
    BY DEF OverText, Rewritten
  <1>. DEFINE a == text.va
              b == text.va + text.size
  <1>2. r.start = a /\ r.end = b
    OBVIOUS
  <1>. HIDE DEF a, b
  <1>3. Rewritten(r, a, b) = r
    BY <1>2, SameRewritten
  <1>. QED
    BY <1>1, <1>3 DEF a, b

LEMMA PdataRecordKept ==
    ASSUME NEW p, NEW u, u = OneRecord(p), NEW text,
           text.va = SECTION_ALIGNMENT, text.size = p.codeSize
    PROVE  [k \in DOMAIN u |-> OverText(u[k], text)] = OneRecord(p)
  <1>. DEFINE r == u[1]
  <1>1. /\ DOMAIN u = 1 .. 1 /\ OneRecord(p) = [k \in 1 .. 1 |-> r]
        /\ IsRecord(r)
        /\ r.start = SECTION_ALIGNMENT /\ r.start = text.va /\ r.end = text.va + text.size
    BY DEF OneRecord, IsRecord, RecordFields
  <1>. HIDE DEF r
  <1>2. OverText(r, text) = r
    BY <1>1, RecordRewritten
  <1>3. \A k \in 1 .. 1 : OverText(u[k], text) = r
    BY <1>2 DEF r
  <1>. QED
    BY <1>1, <1>3

\* The tail of a context is found behind its front.
LEMMA FoundInTail ==
    ASSUME NEW p, NEW n \in Nat \ {0}, NEW c, Shape(c, p, n), NEW name \in TailNames
    PROVE  FindSection(c, name) \in {0} \cup (n + 1 .. Len(c.sections))
  <1>1. /\ FindSection(c, name) \in 0 .. Len(c.sections) /\ Len(c.sections) \in Nat
        /\ FindSection(c, name) # 0 => c.sections[FindSection(c, name)].name = name
    BY FindSectionIs DEF Shape, IsCtx
  <1>2. FindSection(c, name) \notin 1 .. n
    BY <1>1, FrontNames DEF Shape, HasFront
  <1>. QED
    BY <1>1, <1>2

LEMMA IdataPatched ==
    ASSUME NEW p, NEW n \in Nat \ {0}, NEW c, Shape(c, p, n), LaidOut(c)
    PROVE  LET d == PatchIdata(c) IN
           /\ Patched(c, d) /\ d.imports = c.imports /\ d.unwind = c.unwind /\ d.dir = c.dir
           /\ \A i \in 1 .. n : d.sections[i].words = c.sections[i].words
  <1>. DEFINE d == PatchIdata(c)
              k == FindSection(c, ".idata")
  <1>0. IsCtx(c)
    BY DEF Shape
  <1>1. k \in {0} \cup (n + 1 .. Len(c.sections)) /\ n <= Len(c.sections) /\ Len(c.sections) \in Nat
    <2>1. k \in {0} \cup (n + 1 .. Len(c.sections))
      BY FoundInTail DEF TailNames
    <2>2. n <= Len(c.sections) /\ Len(c.sections) \in Nat
      BY DEF Shape, HasFront, IsCtx
    <2>. HIDE DEF k
    <2>. QED
      BY <2>1, <2>2
  <1>2. CASE k = 0
    <2>1. d = c
      BY <1>2 DEF PatchIdata
    <2>. QED
      BY <1>0, <2>1 DEF Patched
  <1>3. CASE k # 0
    <2>. DEFINE words == ImportWords(c, c.sections[k].va)
    <2>1. d = WithWords(c, k, words) /\ k \in 1 .. Len(c.sections) /\ k \notin 1 .. n
      BY <1>1, <1>3 DEF PatchIdata
    <2>. HIDE DEF d, k, words
    <2>2. /\ Patched(c, d) /\ d.imports = c.imports /\ d.unwind = c.unwind /\ d.dir = c.dir
          /\ \A i \in 1 .. Len(c.sections) : i # k => d.sections[i] = c.sections[i]
      BY <1>0, <2>1, WordsPatched
    <2>3. \A i \in 1 .. n : d.sections[i] = c.sections[i]
      BY <1>1, <2>1, <2>2
    <2>. QED
      BY <2>2, <2>3 DEF d
  <1>. QED
    BY <1>2, <1>3

LEMMA PdataPatched ==
    ASSUME NEW p, NEW n \in Nat \ {0}, NEW c, Shape(c, p, n), LaidOut(c), PdataIs(c, p, n)
    PROVE  LET d == PatchPdata(c) IN
           /\ Patched(c, d) /\ d.imports = c.imports /\ d.dir = c.dir
           /\ d.unwind = OneRecord(p)
           /\ d.sections[FindSection(c, ".pdata")].words
                = ExceptionWords(OneRecord(p), VaOf(c, ".pdata"))
           /\ \A i \in 1 .. n : d.sections[i].words = c.sections[i].words
  <1>. DEFINE d == PatchPdata(c)
              k == FindSection(c, ".pdata")
              text == c.sections[1]
              e == [c EXCEPT !.unwind = OneRecord(p)]
              words == ExceptionWords(OneRecord(p), VaOf(c, ".pdata"))
  <1>0. IsCtx(c) /\ c.unwind = OneRecord(p)
    BY DEF Shape, PdataIs
  <1>1. FindSection(c, ".text") = 1 /\ text.size = p.codeSize /\ text.va = SECTION_ALIGNMENT
    <2>1. Len(c.sections) >= 1
      BY DEF Shape, HasFront, IsCtx
    <2>. QED
      BY <1>0, <2>1, ShapeHasText, LayoutChain
  <1>2. [k_ \in DOMAIN c.unwind |-> OverText(c.unwind[k_], text)] = OneRecord(p)
    <2>. HIDE DEF text
    <2>. QED
      BY <1>0, <1>1, PdataRecordKept
  <1>3. d = WithWords(e, k, words)
    <2>. DEFINE u == [k_ \in DOMAIN c.unwind |-> OverText(c.unwind[k_], text)]
    <2>1. d = WithWords([c EXCEPT !.unwind = u], k, ExceptionWords(u, VaOf(c, ".pdata")))
      BY <1>1 DEF PatchPdata
    <2>. HIDE DEF u, d
    <2>2. u = OneRecord(p)
      BY <1>2 DEF u
    <2>. QED
      BY <2>1, <2>2
  <1>4. k \in n + 1 .. Len(c.sections) /\ Len(c.sections) \in Nat
    BY <1>0 DEF PdataIs, IsCtx
  <1>5. /\ IsCtx(e) /\ e.sections = c.sections /\ e.imports = c.imports /\ e.dir = c.dir
        /\ e.unwind = OneRecord(p) /\ e.headerSize = c.headerSize /\ e.imageSize = c.imageSize
        /\ e.entry = c.entry
    <2>1. /\ DOMAIN e = CtxFields /\ e.sections = c.sections /\ e.imports = c.imports
          /\ e.dir = c.dir /\ e.unwind = OneRecord(p) /\ e.headerSize = c.headerSize
          /\ e.imageSize = c.imageSize /\ e.entry = c.entry
      BY <1>0 DEF IsCtx, CtxFields
    <2>. HIDE DEF e
    <2>. QED
      BY <1>0, <2>1 DEF IsCtx
  <1>. HIDE DEF d, k, e, words
  <1>6. /\ Patched(e, d) /\ d.imports = e.imports /\ d.unwind = e.unwind /\ d.dir = e.dir
        /\ d.sections[k].words = words
        /\ \A i \in 1 .. Len(e.sections) : i # k => d.sections[i] = e.sections[i]
    <2>1. k \in 1 .. Len(e.sections)
      BY <1>4, <1>5
    <2>. QED
      BY <1>3, <1>5, <2>1, WordsPatched
  <1>7. Patched(c, d)
    BY <1>5, <1>6 DEF Patched
  <1>8. \A i \in 1 .. n : d.sections[i] = c.sections[i]
    BY <1>4, <1>5, <1>6
  <1>. QED
    BY <1>5, <1>6, <1>7, <1>8 DEF d, k, words

LEMMA Finalized ==
    ASSUME NEW p, NEW n \in Nat \ {0}, NEW c, Finalizable(c, p, n)
    PROVE  LET d == Finalize(c) IN
           /\ Final(d, p, n) /\ Stage(c, d, p, n)
           /\ c.imports = <<>> => FindSection(d, ".idata") = FindSection(c, ".idata")
  <1>. DEFINE b == Blobs(c)
              a == AssignLayout(b)
              q1 == PatchDirectories(a)
              q2 == PatchIdata(q1)
              q3 == PatchPdata(q2)
  <1>0. Finalize(c) = q3
    BY DEF Finalize, Blobs
  <1>1. /\ Stage(c, b, p, n) /\ PdataIs(b, p, n) /\ b.imports \in Seq(LibRecords)
        /\ FindSection(b, ".idata") = 0 => c.imports = <<>>
        /\ c.imports = <<>> => FindSection(b, ".idata") = FindSection(c, ".idata")
    BY BlobsBuilt
  <1>2. Shape(b, p, n) /\ IsCtx(b)
    BY <1>1 DEF Stage, Shape
  <1>. HIDE DEF b
  <1>3. /\ IsCtx(a) /\ LaidOut(a)
        /\ a.imports = b.imports /\ a.unwind = b.unwind /\ a.entry = b.entry
        /\ Len(a.sections) = Len(b.sections)
        /\ \A i \in 1 .. Len(b.sections) : Payload(a, i, b.sections[i])
    BY <1>2, LayoutAssigned
  <1>. HIDE DEF a
  <1>4. SameKinds(b, a)
    BY <1>3 DEF SameKinds, Payload
  <1>5. Shape(a, p, n) /\ \A name : FindSection(a, name) = FindSection(b, name)
    BY <1>2, <1>4, ShapeKept
  <1>6. n <= Len(b.sections) /\ Len(b.sections) \in Nat
    BY <1>2 DEF Shape, HasFront, IsCtx
  <1>7. PdataIs(a, p, n)
    <2>1. FindSection(b, ".pdata") \in 1 .. Len(b.sections)
      BY <1>1, <1>6 DEF PdataIs
    <2>. QED
      BY <1>1, <1>3, <1>5, <2>1 DEF PdataIs, Payload
  <1>8. \A i \in 1 .. n : a.sections[i].words = b.sections[i].words
    BY <1>3, <1>6 DEF Payload
  <1>9. a.imports # <<>> => VaOf(a, ".idata") \in Nat
    <2>. SUFFICES ASSUME a.imports # <<>> PROVE VaOf(a, ".idata") \in Nat
      OBVIOUS
    <2>1. c.imports # <<>>
      <3>1. b.imports \in Seq(LibRecords) /\ Len(b.imports) = Len(c.imports) /\ c.imports \in Seq(LibRecords)
        BY <1>1 DEF Stage, Renumbered, Finalizable
      <3>. QED
        BY <1>3, <3>1
    <2>2. FindSection(a, ".idata") # 0
      BY <2>1, <1>1, <1>5
    <2>3. FindSection(a, ".idata") \in 1 .. Len(a.sections)
      BY <2>2, <1>3, FindSectionIs DEF IsCtx
    <2>4. \A i \in 1 .. Len(a.sections) : a.sections[i].va \in Nat
      BY <1>3, LayoutChain
    <2>. QED
      BY <2>3, <2>4 DEF VaOf
  <1>10. /\ Patched(a, q1) /\ q1.sections = a.sections /\ q1.unwind = a.unwind
         /\ Renumbered(a.imports, q1.imports) /\ DirectoriesAre(a, q1)
    BY <1>1, <1>3, <1>9, DirectoriesPatched
  <1>. HIDE DEF q1
  <1>11. /\ Shape(q1, p, n) /\ LaidOut(q1)
         /\ \A name : FindSection(q1, name) = FindSection(a, name)
    <2>1. Shape(a, p, n) /\ LaidOut(a) /\ Patched(a, q1)
      BY <1>3, <1>5, <1>10
    <2>. QED
      BY <2>1, PatchedKeeps
  <1>12. /\ Patched(q1, q2) /\ q2.imports = q1.imports /\ q2.unwind = q1.unwind /\ q2.dir = q1.dir
         /\ \A i \in 1 .. n : q2.sections[i].words = q1.sections[i].words
    BY <1>11, IdataPatched
  <1>. HIDE DEF q2
  <1>13. /\ Shape(q2, p, n) /\ LaidOut(q2)
         /\ \A name : FindSection(q2, name) = FindSection(q1, name)
    BY <1>11, <1>12, PatchedKeeps
  <1>. DEFINE k == FindSection(a, ".pdata")
  <1>14. /\ k \in n + 1 .. Len(a.sections) /\ k \in 1 .. Len(a.sections)
         /\ a.sections[k].name = ".pdata"
         /\ a.sections[k].size = RECORD_SIZE + UNWIND_INFO_SIZE /\ a.unwind = OneRecord(p)
    BY <1>3, <1>7 DEF PdataIs, IsCtx
  <1>15. /\ FindSection(q2, ".pdata") = k /\ Len(q2.sections) = Len(a.sections)
         /\ q2.sections[k].name = ".pdata" /\ q2.sections[k].size = RECORD_SIZE + UNWIND_INFO_SIZE
         /\ q2.sections[k].va = a.sections[k].va
         /\ q2.unwind = OneRecord(p)
    <2>. HIDE DEF k
    <2>1. FindSection(q2, ".pdata") = k
      BY <1>11, <1>13 DEF k
    <2>. QED
      BY <2>1, <1>10, <1>12, <1>14 DEF Patched
  <1>16. PdataIs(q2, p, n)
    BY <1>14, <1>15 DEF PdataIs
  <1>17. /\ Patched(q2, q3) /\ q3.imports = q2.imports /\ q3.dir = q2.dir
         /\ q3.unwind = OneRecord(p)
         /\ q3.sections[k].words = ExceptionWords(OneRecord(p), VaOf(q2, ".pdata"))
         /\ \A i \in 1 .. n : q3.sections[i].words = q2.sections[i].words
    <2>1. LET d == PatchPdata(q2) IN
           /\ Patched(q2, d) /\ d.imports = q2.imports /\ d.dir = q2.dir
           /\ d.unwind = OneRecord(p)
           /\ d.sections[FindSection(q2, ".pdata")].words
                = ExceptionWords(OneRecord(p), VaOf(q2, ".pdata"))
           /\ \A i \in 1 .. n : d.sections[i].words = q2.sections[i].words
      BY <1>13, <1>16, PdataPatched
    <2>. QED
      BY <2>1, <1>15
  <1>. HIDE DEF q3, k
  <1>18. /\ Shape(q3, p, n) /\ LaidOut(q3)
         /\ \A name : FindSection(q3, name) = FindSection(q2, name)
    BY <1>13, <1>17, PatchedKeeps
  <1>19. /\ FindSection(q3, ".pdata") = k /\ Len(q3.sections) = Len(a.sections)
         /\ q3.sections[k].name = ".pdata" /\ q3.sections[k].size = RECORD_SIZE + UNWIND_INFO_SIZE
         /\ q3.sections[k].va = a.sections[k].va
    BY <1>14, <1>15, <1>17, <1>18 DEF Patched
  <1>20. /\ VaOf(q3, ".pdata") = a.sections[k].va /\ VaOf(q2, ".pdata") = a.sections[k].va
         /\ VaOf(a, ".pdata") = a.sections[k].va
    BY <1>15, <1>19 DEF VaOf, k
  <1>21. q3.dir.exception = VaOf(q3, ".pdata") /\ q3.dir.exceptionSize = RECORD_SIZE
    <2>1. Len(OneRecord(p)) = 1
      BY DEF OneRecord
    <2>2. q3.dir = q1.dir
      BY <1>12, <1>17
    <2>3. q1.dir.exception = VaOf(a, ".pdata") /\ q1.dir.exceptionSize = Len(a.unwind) * RECORD_SIZE
      BY <1>10 DEF DirectoriesAre
    <2>4. q1.dir.exceptionSize = RECORD_SIZE
      <3>1. Len(a.unwind) = 1
        BY <2>1, <1>14
      <3>2. 1 * RECORD_SIZE = RECORD_SIZE
        BY DEF RECORD_SIZE
      <3>. QED
        BY <2>3, <3>1, <3>2
    <2>. QED
      BY <2>2, <2>3, <2>4, <1>20
  <1>22. PdataIs(q3, p, n)
    BY <1>14, <1>17, <1>19 DEF PdataIs
  <1>23. Final(q3, p, n)
    BY <1>17, <1>18, <1>19, <1>20, <1>21, <1>22 DEF Final
  <1>24. Stage(c, q3, p, n)
    <2>1. Renumbered(c.imports, q3.imports)
      <3>1. Renumbered(c.imports, b.imports)
        BY <1>1 DEF Stage
      <3>. QED
        BY <3>1, <1>3, <1>10, <1>12, <1>17, RenumberedTwice
    <2>2. q3.entry = c.entry
      BY <1>1, <1>3, <1>10, <1>12, <1>17 DEF Stage, Patched
    <2>3. \A i \in 1 .. n : q3.sections[i].words = c.sections[i].words
      BY <1>1, <1>8, <1>10, <1>12, <1>17 DEF Stage
    <2>. QED
      BY <2>1, <2>2, <2>3, <1>18 DEF Stage
  <1>25. FindSection(q3, ".idata") = FindSection(b, ".idata")
    BY <1>5, <1>11, <1>13, <1>18
  <1>. QED
    BY <1>0, <1>1, <1>23, <1>24, <1>25

-----------------------------------------------------------------------------
(* Registering imports. *)

LEMMA LibraryOfIs ==
    ASSUME NEW c, c.imports \in Seq(LibRecords), NEW dll
    PROVE  /\ LibraryOf(c, dll) \in 0 .. Len(c.imports)
           /\ LibraryOf(c, dll) # 0 => c.imports[LibraryOf(c, dll)].dll = dll
           /\ LibraryOf(c, dll) = 0 => \A i \in 1 .. Len(c.imports) : c.imports[i].dll # dll
  <1>. DEFINE found == {i \in 1 .. Len(c.imports) : c.imports[i].dll = dll}
  <1>0. DOMAIN c.imports = 1 .. Len(c.imports) /\ Len(c.imports) \in Nat
    OBVIOUS
  <1>1. LibraryOf(c, dll) = IF found = {} THEN 0 ELSE CHOOSE i \in found : TRUE
    BY <1>0 DEF LibraryOf
  <1>2. found # {} => LibraryOf(c, dll) \in found
    <2>. HIDE DEF found
    <2>. QED
      BY <1>1
  <1>3. CASE found = {}
    <2>1. LibraryOf(c, dll) = 0
      BY <1>1, <1>3
    <2>2. \A i \in 1 .. Len(c.imports) : c.imports[i].dll # dll
      BY <1>3
    <2>. HIDE DEF found
    <2>. QED
      BY <2>1, <2>2, <1>0
  <1>4. CASE found # {}
    <2>1. LibraryOf(c, dll) \in found
      BY <1>2, <1>4
    <2>2. LibraryOf(c, dll) \in 1 .. Len(c.imports) /\ c.imports[LibraryOf(c, dll)].dll = dll
      BY <2>1
    <2>. HIDE DEF found
    <2>. QED
      BY <2>2, <1>0
  <1>. QED
    BY <1>3, <1>4

LEMMA FunctionOfIs ==
    ASSUME NEW library \in LibRecords, NEW name
    PROVE  /\ FunctionOf(library, name) \in 0 .. Len(library.functions)
           /\ library.functions = <<>> => FunctionOf(library, name) = 0
  <1>. DEFINE found == {j \in 1 .. Len(library.functions) : library.functions[j].name = name}
  <1>0. DOMAIN library.functions = 1 .. Len(library.functions) /\ Len(library.functions) \in Nat
        /\ library.functions \in Seq(FnRecords)
    BY DEF LibRecords
  <1>1. FunctionOf(library, name) = IF found = {} THEN 0 ELSE CHOOSE j \in found : TRUE
    BY <1>0 DEF FunctionOf
  <1>2. found # {} => FunctionOf(library, name) \in found
    <2>. HIDE DEF found
    <2>. QED
      BY <1>1
  <1>3. library.functions = <<>> => found = {}
    BY <1>0
  <1>. QED
    BY <1>0, <1>1, <1>2, <1>3

\* A context with other imports.
LEMMA ImportsChanged ==
    ASSUME NEW c, DOMAIN c = CtxFields, NEW x
    PROVE  LET d == [c EXCEPT !.imports = x] IN
           /\ DOMAIN d = CtxFields /\ d.imports = x
           /\ d.sections = c.sections /\ d.unwind = c.unwind
  BY DEF CtxFields

LEMMA ImportAdded ==
    ASSUME NEW c, DOMAIN c = CtxFields, ImportsOK(c.imports),
           NEW dll \in DOMAIN StrLen, NEW name \in DOMAIN StrLen, ImportFits(c, dll, name)
    PROVE  LET d == AddImport(c, dll, name) IN
           /\ DOMAIN d = CtxFields /\ d.sections = c.sections /\ d.unwind = c.unwind
           /\ ImportsOK(d.imports)
  <1>. DEFINE x == c.imports
              w == WithLibrary(c, dll)
              i == LibraryOf(w, dll)
              m == w.imports[i]
              new == [dll |-> dll, functions |-> <<>>]
  <1>1. /\ x \in Seq(LibRecords) /\ Len(x) \in Nat /\ Len(x) <= MaxLibraries
        /\ \A k \in 1 .. Len(x) : Len(x[k].functions) \in 1 .. MaxImports
    BY DEF ImportsOK
  <1>2. new \in LibRecords /\ new.dll = dll /\ new.functions = <<>>
    BY DEF LibRecords
  <1>. HIDE DEF new
  <1>3. /\ DOMAIN w = CtxFields /\ w.sections = c.sections /\ w.unwind = c.unwind
        /\ w.imports \in Seq(LibRecords) /\ Len(w.imports) <= MaxLibraries
        /\ i \in 1 .. Len(w.imports) /\ w.imports[i].dll = dll
        /\ \A k \in 1 .. Len(w.imports) : k # i => Len(w.imports[k].functions) \in 1 .. MaxImports
        /\ (w.imports[i].functions = <<>> \/ Len(w.imports[i].functions) \in 1 .. MaxImports)
    <2>1. CASE LibraryOf(c, dll) # 0
      <3>1. w = c
        BY <2>1 DEF WithLibrary
      <3>2. i \in 1 .. Len(x) /\ x[i].dll = dll
        BY <2>1, <3>1, <1>1, LibraryOfIs
      <3>. QED
        BY <3>1, <3>2, <1>1
    <2>2. CASE LibraryOf(c, dll) = 0
      <3>1. Len(x) < MaxLibraries
        BY <2>2 DEF ImportFits, LibraryFits
      <3>2. /\ DOMAIN w = CtxFields /\ w.imports = Append(x, new)
            /\ w.sections = c.sections /\ w.unwind = c.unwind
        <4>1. w = [c EXCEPT !.imports = Append(x, new)]
          BY <2>2 DEF WithLibrary, new, CtxFields
        <4>. HIDE DEF w
        <4>. QED
          BY <4>1, ImportsChanged
      <3>3. /\ w.imports \in Seq(LibRecords) /\ Len(w.imports) = Len(x) + 1
            /\ w.imports[Len(x) + 1] = new
            /\ \A k \in 1 .. Len(x) : w.imports[k] = x[k]
        <4>. HIDE DEF w
        <4>. QED
          BY <3>2, <1>1, <1>2
      <3>4. \A k \in 1 .. Len(x) : x[k].dll # dll
        BY <2>2, <1>1, LibraryOfIs
      <3>5. /\ i \in 0 .. Len(w.imports) /\ (i # 0 => w.imports[i].dll = dll)
            /\ (i = 0 => \A k \in 1 .. Len(w.imports) : w.imports[k].dll # dll)
        BY <3>3, LibraryOfIs
      <3>. HIDE DEF w, i
      <3>6. Len(x) + 1 \in 1 .. Len(w.imports) /\ w.imports[Len(x) + 1].dll = dll
        BY <3>3, <1>1, <1>2
      <3>7. i = Len(x) + 1
        <4>1. i # 0
          BY <3>5, <3>6
        <4>2. i \in 1 .. Len(x) + 1 /\ w.imports[i].dll = dll
          BY <3>3, <3>5, <4>1, <1>1
        <4>3. i \notin 1 .. Len(x)
          BY <3>3, <3>4, <4>2
        <4>. QED
          BY <4>2, <4>3, <1>1
      <3>. QED
        BY <3>1, <3>2, <3>3, <3>6, <3>7, <1>1, <1>2, LimitsAssumption
    <2>. QED
      BY <2>1, <2>2
  <1>4. FunctionOf(m, name) # 0 \/ Len(m.functions) < MaxImports
    BY DEF ImportFits, FunctionFits
  <1>5. AddImport(c, dll, name) =
          IF FunctionOf(m, name) # 0 THEN w
          ELSE [w EXCEPT !.imports[i].functions = Append(@, NewFunction(name))]
    BY DEF AddImport
  <1>. HIDE DEF w, i
  <1>6. m \in LibRecords
    BY <1>3
  <1>7. CASE FunctionOf(m, name) # 0
    <2>1. m.functions # <<>>
      BY <1>6, <1>7, FunctionOfIs
    <2>2. \A k \in 1 .. Len(w.imports) : Len(w.imports[k].functions) \in 1 .. MaxImports
      BY <2>1, <1>3
    <2>. QED
      BY <2>2, <1>3, <1>5, <1>7 DEF ImportsOK
  <1>8. CASE FunctionOf(m, name) = 0
    <2>. DEFINE fns == Append(m.functions, NewFunction(name))
                m2 == [m EXCEPT !.functions = fns]
                y == [w.imports EXCEPT ![i] = m2]
    <2>1. /\ m2 \in LibRecords /\ Len(m2.functions) = Len(m.functions) + 1
          /\ Len(m.functions) \in Nat
      <3>1. NewFunction(name) \in FnRecords
        BY DEF NewFunction, FnRecords
      <3>2. fns \in Seq(FnRecords) /\ Len(fns) = Len(m.functions) + 1 /\ Len(m.functions) \in Nat
        BY <1>6, <3>1 DEF LibRecords
      <3>. HIDE DEF fns, m
      <3>. QED
        BY <1>6, <3>2 DEF LibRecords
    <2>2. AddImport(c, dll, name) = [w EXCEPT !.imports = y]
      <3>1. AddImport(c, dll, name) = [w EXCEPT !.imports[i].functions = Append(@, NewFunction(name))]
        BY <1>5, <1>8
      <3>. QED
        BY <3>1, <1>3 DEF CtxFields
    <2>. HIDE DEF m2, m
    <2>3. /\ y \in Seq(LibRecords) /\ Len(y) = Len(w.imports) /\ y[i] = m2
          /\ \A k \in 1 .. Len(w.imports) : k # i => y[k] = w.imports[k]
      BY <1>3, <2>1
    <2>. HIDE DEF y
    <2>4. \A k \in 1 .. Len(y) : Len(y[k].functions) \in 1 .. MaxImports
      BY <1>3, <1>4, <1>8, <2>1, <2>3, LimitsAssumption
    <2>5. ImportsOK(y)
      BY <1>3, <2>3, <2>4 DEF ImportsOK
    <2>6. LET d == [w EXCEPT !.imports = y] IN
          DOMAIN d = CtxFields /\ d.imports = y /\ d.sections = w.sections /\ d.unwind = w.unwind
      BY <1>3, ImportsChanged
    <2>. QED
      BY <1>3, <2>2, <2>5, <2>6
  <1>. QED
    BY <1>7, <1>8

-----------------------------------------------------------------------------
(* The inductive invariant: what the context is at each step of the        *)
(* branch, and what an image that was written is.                          *)

DataLen(p) == 1 + (IF p.mirrorSize = 0 THEN 0 ELSE 1)

RefsFilled(words, p) ==
    \A h \in DOMAIN p.refs :
        h \in DOMAIN words /\ words[h] = TruthTarget(p, p.refs[h]) - (h + 4)

Loaded(c, p, n) ==
    /\ Shape(c, p, n) /\ Len(c.sections) = n /\ c.unwind = <<>>
    /\ c.sections[1].words = CodeWords(p)
Placed(c, p) ==
    /\ Shape(c, p, FrontLen(p)) /\ c.unwind = OneRecord(p) /\ c.entry = p.entry
    /\ RefsFilled(c.sections[1].words, p)

\* The context an image was written from, as far as the image tells.
AsCtx(im, p) ==
    [sections |-> im.sections, imports |-> <<>>, unwind |-> OneRecord(p), dir |-> im.dir,
     headerSize |-> im.headerSize, imageSize |-> im.imageSize,
     entry |-> im.entry - SECTION_ALIGNMENT]

ImageOK(im, p) ==
    /\ Final(AsCtx(im, p), p, FrontLen(p))
    /\ im.entry = p.entry + SECTION_ALIGNMENT
    /\ RefsFilled(im.sections[1].words, p)

ContextOK ==
    /\ IsCtx(ctx) /\ ImportsOK(ctx.imports) /\ Len(ctx.sections) <= MaxSections
    /\ pc = "imports" => ctx.sections = <<>> /\ ctx.unwind = <<>>
    /\ pc = "data" => Loaded(ctx, program, 1)
    /\ pc = "rdata" => Loaded(ctx, program, DataLen(program))
    /\ pc = "probe" => Loaded(ctx, program, FrontLen(program)) /\ ctx.entry = program.entry
    /\ pc \in {"patch", "write"} => Placed(ctx, program)
    /\ pc \in {"done", "failed"} => ctx = Fresh

FileOK ==
    /\ file.state \in {"none", "partial", "complete"}
    /\ IF file.state = "complete" THEN ImageOK(file.image, program) ELSE file.image = NoImage

IInv ==
    /\ pc \in {"imports", "data", "rdata", "probe", "patch", "write", "done", "failed"}
    /\ program \in Programs /\ next \in 1 .. Len(Specs) + 1
    /\ ContextOK /\ FileOK

\* The section of the program that goes behind the ones before it.
IsNext(c, p, s) ==
    LET n == Len(c.sections) IN
    /\ IsSection(s) /\ s.name = FrontName(p, n + 1) /\ s.size = FrontSize(p, n + 1)
    /\ s.isCode = (n = 0)
    /\ \A i \in 1 .. n : FrontName(p, i) # FrontName(p, n + 1)
WithNext(c, d, p, s) ==
    LET n == Len(c.sections) IN
    /\ Shape(d, p, n + 1) /\ Len(d.sections) = n + 1 /\ SameElsewhere(c, d)
    /\ \A i \in 1 .. n : d.sections[i] = c.sections[i]
    /\ d.sections[n + 1].words = s.words
LEMMA FrontAdded ==
    ASSUME NEW p, NEW c, Shape(c, p, Len(c.sections)), NEW s, IsNext(c, p, s)
    PROVE  WithNext(c, AddSection(c, s), p, s)
  <1>. DEFINE d == AddSection(c, s)
              n == Len(c.sections)
  <1>0. /\ n \in Nat /\ Shape(c, p, n)
        /\ IsSection(s) /\ s.name = FrontName(p, n + 1) /\ s.size = FrontSize(p, n + 1)
        /\ s.isCode = (n + 1 = 1)
        /\ \A i \in 1 .. n : FrontName(p, i) # FrontName(p, n + 1)
    BY DEF IsNext, Shape, IsCtx
  <1>1. Put(c, d, n + 1, s)
    BY <1>0, SectionAdded DEF Shape
  <1>. HIDE DEF d, n
  <1>2. /\ IsCtx(d) /\ Len(d.sections) = n + 1 /\ SameElsewhere(c, d)
        /\ \A i \in 1 .. n : d.sections[i] = c.sections[i]
        /\ d.sections[n + 1].name = s.name /\ d.sections[n + 1].size = s.size
        /\ d.sections[n + 1].words = s.words /\ d.sections[n + 1].isCode = s.isCode
    BY <1>0, <1>1 DEF Put, Payload, n
  <1>3. \A i \in 1 .. n + 1 : /\ d.sections[i].name = FrontName(p, i)
                              /\ d.sections[i].size = FrontSize(p, i)
                              /\ d.sections[i].isCode = (i = 1)
    <2>1. \A i \in 1 .. n : /\ d.sections[i].name = FrontName(p, i)
                            /\ d.sections[i].size = FrontSize(p, i)
                            /\ d.sections[i].isCode = (i = 1)
      BY <1>0, <1>2 DEF Shape, HasFront
    <2>2. \A i \in 1 .. n + 1 : i = n + 1 \/ i \in 1 .. n
      BY <1>0
    <2>. QED
      BY <1>0, <1>2, <2>1, <2>2
  <1>4. HasFront(d, p, n + 1)
    BY <1>2, <1>3 DEF HasFront
  <1>5. \A i, j \in 1 .. n : FrontName(p, i) = FrontName(p, j) => i = j
    <2>1. \A i \in 1 .. n : c.sections[i].name = FrontName(p, i)
      BY <1>0 DEF Shape, HasFront
    <2>. QED
      BY <1>0, <2>1 DEF Shape, Distinct, n
  <1>6. \A i, j \in 1 .. n + 1 : FrontName(p, i) = FrontName(p, j) => i = j
    <2>1. \A i \in 1 .. n + 1 : i = n + 1 \/ i \in 1 .. n
      BY <1>0
    <2>. QED
      BY <2>1, <1>0, <1>5
  <1>7. Distinct(d)
    BY <1>2, <1>3, <1>6 DEF Distinct
  <1>8. \A name \in TailNames : FindSection(d, name) = 0
    <2>1. SUFFICES ASSUME NEW name \in TailNames, FindSection(d, name) # 0 PROVE FALSE
      OBVIOUS
    <2>2. /\ FindSection(d, name) \in 0 .. Len(d.sections)
          /\ d.sections[FindSection(d, name)].name = name
      BY <1>2, <2>1, FindSectionIs
    <2>3. FindSection(d, name) \in 1 .. n + 1
      BY <1>2, <2>1, <2>2
    <2>. QED
      BY <1>3, <2>2, <2>3, FrontNames
  <1>9. Have(d, ".idata") = 0 /\ Have(d, ".pdata") = 0 /\ Have(d, ".reloc") = 0
    BY <1>8 DEF Have, TailNames
  <1>10. Shape(d, p, n + 1)
    BY <1>0, <1>2, <1>4, <1>7, <1>9 DEF Shape
  <1>11. WithNext(c, d, p, s)
    BY <1>2, <1>10 DEF WithNext, n
  <1>. QED
    BY <1>11 DEF d

\* The context the branch starts with, and goes back to when it ends.
LEMMA FreshIs ==
    /\ IsCtx(Fresh) /\ Fresh.sections = <<>> /\ Fresh.imports = <<>> /\ Fresh.unwind = <<>>
    /\ ImportsOK(Fresh.imports)
  <1>1. /\ DOMAIN Fresh = CtxFields /\ Fresh.sections = <<>> /\ Fresh.imports = <<>>
        /\ Fresh.unwind = <<>>
    BY DEF Fresh, CtxFields
  <1>. HIDE DEF Fresh
  <1>2. Fresh.sections = [i \in 1 .. 0 |-> Fresh.sections[i]] /\ Len(Fresh.sections) = 0
    BY <1>1
  <1>3. IsCtx(Fresh)
    BY <1>1, <1>2 DEF IsCtx
  <1>4. ImportsOK(Fresh.imports)
    BY <1>1, LimitsAssumption DEF ImportsOK
  <1>. QED
    BY <1>1, <1>3, <1>4

LEMMA ProgramFacts ==
    ASSUME NEW p \in Programs
    PROVE  /\ p.codeSize \in Nat /\ p.codeSize >= 4 /\ p.mirrorSize \in Nat /\ p.truthSize \in Nat
           /\ p.codeSize + p.mirrorSize + p.truthSize + 2 * SECTION_ALIGNMENT < MARKER_BASE
           /\ p.entry \in 0 .. p.codeSize - 1
           /\ DOMAIN p.sites \cap DOMAIN p.refs = {}
           /\ \A h \in DOMAIN p.refs : h \in Nat /\ h + 4 <= p.codeSize
           /\ \A h \in DOMAIN p.refs : p.refs[h] \in 0 .. p.truthSize - 1
           /\ \A h \in DOMAIN p.sites : p.sites[h] \in DOMAIN Specs
           /\ FrontLen(p) \in {1, 2, 3} /\ DataLen(p) \in {1, 2}
  BY ProgramsAssumption DEF ProgramOK, FrontLen, DataLen

\* The words of the code as the generator hands it over.
LEMMA CodeWordsFilled ==
    ASSUME NEW p \in Programs
    PROVE  RefsFilled(CodeWords(p), p)
  BY ProgramFacts DEF RefsFilled, CodeWords

\* No reference reads as a marker: it is less than the size of the program.
LEMMA ReferencesAreNoMarkers ==
    ASSUME NEW p \in Programs, NEW words, RefsFilled(words, p), NEW h \in DOMAIN p.refs,
           NEW s \in Nat
    PROVE  words[h] # Marker(s)
  <1>0. p.codeSize \in Nat /\ p.mirrorSize \in Nat
    BY ProgramFacts
  <1>1. /\ EXE_AlignUp(p.codeSize, 4096) \in Nat /\ EXE_AlignUp(p.codeSize, 4096) < p.codeSize + 4096
        /\ EXE_AlignUp(p.mirrorSize, 4096) \in Nat
        /\ EXE_AlignUp(p.mirrorSize, 4096) < p.mirrorSize + 4096
    BY <1>0 DEF EXE_AlignUp
  <1>2. words[h] = (EXE_AlignUp(p.codeSize, 4096) + EXE_AlignUp(p.mirrorSize, 4096) + p.refs[h]) - (h + 4)
    <2>1. words[h] = TruthTarget(p, p.refs[h]) - (h + 4)
      BY DEF RefsFilled
    <2>2. TruthTarget(p, p.refs[h])
            = EXE_AlignUp(p.codeSize, 4096) + EXE_AlignUp(p.mirrorSize, 4096) + p.refs[h]
      BY DEF TruthTarget
    <2>. QED
      BY <2>1, <2>2
  <1>3. /\ p.refs[h] \in Nat /\ p.refs[h] < p.truthSize /\ h \in Nat
        /\ p.codeSize \in Nat /\ p.mirrorSize \in Nat /\ p.truthSize \in Nat
        /\ p.codeSize + p.mirrorSize + p.truthSize + 8192 < MARKER_BASE
    BY ProgramFacts
  <1>4. words[h] < MARKER_BASE
    <2>. DEFINE a == EXE_AlignUp(p.codeSize, 4096)
                b == EXE_AlignUp(p.mirrorSize, 4096)
    <2>1. a \in Nat /\ a < p.codeSize + 4096 /\ b \in Nat /\ b < p.mirrorSize + 4096
          /\ words[h] = (a + b + p.refs[h]) - (h + 4) /\ MARKER_BASE \in Nat
      BY <1>1, <1>2 DEF MARKER_BASE
    <2>. HIDE DEF a, b
    <2>. QED
      BY <2>1, <1>3
  <1>. QED
    BY <1>4 DEF Marker, MARKER_BASE

LEMMA InitOK == Init => IInv
  <1>. SUFFICES ASSUME Init PROVE IInv
    OBVIOUS
  <1>1. Len(Specs) \in Nat
    BY SpecsAssumption
  <1>2. ContextOK
    BY FreshIs, LimitsAssumption DEF Init, ContextOK
  <1>3. FileOK
    BY DEF Init, FileOK
  <1>. QED
    BY <1>1, <1>2, <1>3 DEF Init, IInv

\* A step that ends the branch without an image.
LEMMA BranchEnds ==
    ASSUME IInv, pc' \in {"done", "failed"}, ctx' = Fresh, UNCHANGED <<program, next>>,
           FileOK'
    PROVE  IInv'
  <1>1. ContextOK'
    BY FreshIs, LimitsAssumption DEF ContextOK
  <1>. QED
    BY <1>1 DEF IInv

LEMMA FileStays ==
    ASSUME IInv, UNCHANGED <<program, file>>
    PROVE  FileOK'
  BY DEF IInv, FileOK

LEMMA Members ==
    ASSUME NEW S, NEW x \in Seq(S)
    PROVE  DOMAIN x = 1 .. Len(x) /\ Len(x) \in Nat /\ \A i \in 1 .. Len(x) : x[i] \in S
  OBVIOUS

LEMMA SpecsAre ==
    /\ DOMAIN Specs = 1 .. Len(Specs) /\ Len(Specs) \in Nat
    /\ \A s \in 1 .. Len(Specs) : /\ Specs[s].dll \in DOMAIN StrLen
                                  /\ Specs[s].function \in DOMAIN StrLen
  <1>1. Specs \in Seq([dll : DOMAIN StrLen, function : DOMAIN StrLen])
    BY SpecsAssumption
  <1>2. \A s \in 1 .. Len(Specs) : Specs[s] \in [dll : DOMAIN StrLen, function : DOMAIN StrLen]
    BY <1>1, Members
  <1>3. \A r \in [dll : DOMAIN StrLen, function : DOMAIN StrLen] :
            r.dll \in DOMAIN StrLen /\ r.function \in DOMAIN StrLen
    OBVIOUS
  <1>. QED
    BY <1>1, <1>2, <1>3, Members

LEMMA RegisterImportOK ==
    ASSUME IInv, RegisterImport
    PROVE  IInv'
  <1>1. FileOK'
    BY FileStays DEF RegisterImport
  <1>2. /\ next \in DOMAIN Specs /\ DOMAIN Specs = 1 .. Len(Specs) /\ Len(Specs) \in Nat
        /\ Specs[next].dll \in DOMAIN StrLen /\ Specs[next].function \in DOMAIN StrLen
        /\ next \in Nat /\ next + 1 \in 1 .. Len(Specs) + 1
    <2>1. next \in DOMAIN Specs
      BY DEF RegisterImport
    <2>. QED
      BY <2>1, SpecsAre
  <1>3. /\ IsCtx(ctx) /\ ImportsOK(ctx.imports) /\ ctx.sections = <<>> /\ ctx.unwind = <<>>
        /\ pc = "imports"
    BY DEF IInv, ContextOK, RegisterImport
  <1>4. CASE ~Marked(next)
    <2>1. pc' = pc /\ ctx' = ctx /\ next' = next + 1 /\ program' = program
      BY <1>4 DEF RegisterImport
    <2>2. ContextOK'
      BY <2>1, <1>3 DEF IInv, ContextOK
    <2>. QED
      BY <2>1, <2>2, <1>1, <1>2 DEF IInv
  <1>5. CASE Marked(next) /\ ImportFits(ctx, Specs[next].dll, Specs[next].function)
    <2>1. /\ ctx' = AddImport(ctx, Specs[next].dll, Specs[next].function)
          /\ pc' = pc /\ next' = next + 1 /\ program' = program
      BY <1>5 DEF RegisterImport
    <2>2. /\ DOMAIN ctx' = CtxFields /\ ctx'.sections = <<>> /\ ctx'.unwind = <<>>
          /\ ImportsOK(ctx'.imports)
      <3>1. DOMAIN ctx = CtxFields
        BY <1>3 DEF IsCtx
      <3>. QED
        BY <3>1, <2>1, <1>2, <1>3, <1>5, ImportAdded
    <2>3. IsCtx(ctx')
      <3>1. ctx'.sections = [i \in 1 .. 0 |-> ctx'.sections[i]] /\ Len(ctx'.sections) = 0
        BY <2>2
      <3>. QED
        BY <3>1, <2>2 DEF IsCtx
    <2>4. ContextOK'
      BY <2>1, <2>2, <2>3, <1>3, LimitsAssumption DEF ContextOK
    <2>. QED
      BY <2>1, <2>4, <1>1, <1>2, <1>3 DEF IInv
  <1>6. CASE Marked(next) /\ ~ImportFits(ctx, Specs[next].dll, Specs[next].function)
    BY <1>1, <1>6, BranchEnds DEF RegisterImport
  <1>. QED
    BY <1>4, <1>5, <1>6

\* A context whose part in the invariant is known, after a step that
\* leaves the program and the file alone.
LEMMA ContextStep ==
    ASSUME IInv, UNCHANGED <<program, next, file>>, ContextOK',
           pc' \in {"imports", "data", "rdata", "probe", "patch", "write", "done", "failed"}
    PROVE  IInv'
  <1>1. FileOK'
    BY FileStays
  <1>. QED
    BY <1>1 DEF IInv

LEMMA AddTextOK ==
    ASSUME IInv, AddText
    PROVE  IInv'
  <1>. DEFINE s == Section(".text", program.codeSize, CodeWords(program), Empty, TRUE)
  <1>0. /\ pc = "imports" /\ pc' = "data" /\ UNCHANGED <<program, next, file>>
        /\ ctx' = AddSection(ctx, s) /\ Len(ctx.sections) < MaxSections
    BY DEF AddText, HasRoom
  <1>1. /\ IsCtx(ctx) /\ ImportsOK(ctx.imports) /\ ctx.sections = <<>> /\ ctx.unwind = <<>>
        /\ program \in Programs /\ Len(ctx.sections) = 0
    BY <1>0 DEF IInv, ContextOK
  <1>2. IsNext(ctx, program, s) /\ s.words = CodeWords(program)
    <2>1. program.codeSize \in Nat
      BY <1>1, ProgramFacts
    <2>2. /\ IsSection(s) /\ s.name = ".text" /\ s.size = program.codeSize
          /\ s.words = CodeWords(program) /\ s.isCode
      BY <2>1 DEF Section, IsSection, SectionFields
    <2>. HIDE DEF s
    <2>3. FrontName(program, Len(ctx.sections) + 1) = ".text"
          /\ FrontSize(program, Len(ctx.sections) + 1) = program.codeSize
      BY <1>1 DEF FrontName, FrontSize
    <2>4. \A i \in 1 .. Len(ctx.sections) : FALSE
      BY <1>1
    <2>. QED
      BY <1>1, <2>2, <2>3, <2>4 DEF IsNext
  <1>. HIDE DEF s
  <1>3. Shape(ctx, program, 0)
    <2>1. FindSection(ctx, ".idata") = 0 /\ FindSection(ctx, ".pdata") = 0 /\ FindSection(ctx, ".reloc") = 0
      <3>1. \A name : FindSection(ctx, name) \in 0 .. 0
        BY <1>1, FindSectionIs
      <3>. QED
        BY <3>1
    <2>2. HasFront(ctx, program, 0) /\ Distinct(ctx)
      BY <1>1 DEF HasFront, Distinct
    <2>. QED
      BY <1>1, <2>1, <2>2 DEF Shape, Have
  <1>5. /\ Shape(ctx', program, 1) /\ Len(ctx'.sections) = 1 /\ SameElsewhere(ctx, ctx')
        /\ ctx'.sections[1].words = CodeWords(program)
    <2>1. WithNext(ctx, ctx', program, s)
      BY <1>0, <1>1, <1>2, <1>3, FrontAdded
    <2>2. Len(ctx.sections) + 1 = 1
      BY <1>1
    <2>. QED
      BY <1>2, <2>1, <2>2 DEF WithNext
  <1>6. ContextOK'
    BY <1>0, <1>1, <1>5, LimitsAssumption DEF ContextOK, SameElsewhere, Loaded, Shape
  <1>. QED
    BY <1>0, <1>6, ContextStep

LEMMA AddDataOK ==
    ASSUME IInv, AddData
    PROVE  IInv'
  <1>. DEFINE s == Section(".data", program.mirrorSize, Empty, Empty, FALSE)
  <1>0. /\ pc = "data" /\ pc' = "rdata" /\ UNCHANGED <<program, next, file>>
    BY DEF AddData
  <1>1. /\ IsCtx(ctx) /\ ImportsOK(ctx.imports) /\ Loaded(ctx, program, 1)
        /\ program \in Programs /\ Len(ctx.sections) <= MaxSections
    BY <1>0 DEF IInv, ContextOK
  <1>2. CASE program.mirrorSize = 0
    <2>1. ctx' = ctx /\ DataLen(program) = 1
      BY <1>2 DEF AddData, DataLen
    <2>2. ContextOK'
      BY <1>0, <1>1, <2>1 DEF ContextOK
    <2>. QED
      BY <1>0, <2>2, ContextStep
  <1>3. CASE program.mirrorSize # 0
    <2>1. /\ ctx' = AddSection(ctx, s) /\ Len(ctx.sections) < MaxSections /\ DataLen(program) = 2
      BY <1>3 DEF AddData, DataLen, HasRoom
    <2>4. Shape(ctx, program, Len(ctx.sections)) /\ Len(ctx.sections) = 1
      BY <1>1 DEF Loaded
    <2>5. IsNext(ctx, program, s)
      <3>1. program.mirrorSize \in Nat
        BY <1>1, ProgramFacts
      <3>2. IsSection(s) /\ s.name = ".data" /\ s.size = program.mirrorSize /\ s.isCode = FALSE
        BY <3>1 DEF Section, IsSection, SectionFields
      <3>. HIDE DEF s
      <3>3. FrontName(program, Len(ctx.sections) + 1) = ".data"
            /\ FrontSize(program, Len(ctx.sections) + 1) = program.mirrorSize
        BY <1>3, <2>4 DEF FrontName, FrontSize
      <3>4. \A i \in 1 .. Len(ctx.sections) : FrontName(program, i) = ".text"
        BY <2>4 DEF FrontName
      <3>5. \A i \in 1 .. Len(ctx.sections) :
                FrontName(program, i) # FrontName(program, Len(ctx.sections) + 1)
        BY <3>3, <3>4
      <3>6. s.isCode = (Len(ctx.sections) = 0)
        <4>1. (Len(ctx.sections) = 0) = FALSE
          BY <2>4
        <4>. QED
          BY <4>1, <3>2, Zenon
      <3>. QED
        BY <3>2, <3>3, <3>5, <3>6 DEF IsNext
    <2>. HIDE DEF s
    <2>6. /\ Shape(ctx', program, 2) /\ Len(ctx'.sections) = 2 /\ SameElsewhere(ctx, ctx')
          /\ ctx'.sections[1] = ctx.sections[1]
      <3>1. WithNext(ctx, ctx', program, s)
        BY <2>1, <2>4, <2>5, FrontAdded
      <3>2. Len(ctx.sections) + 1 = 2 /\ 1 \in 1 .. Len(ctx.sections)
        BY <2>4
      <3>. QED
        BY <3>1, <3>2 DEF WithNext
    <2>7. ContextOK'
      <3>1. /\ IsCtx(ctx') /\ ImportsOK(ctx'.imports) /\ ctx'.unwind = <<>>
            /\ Len(ctx'.sections) <= MaxSections /\ program' = program
        BY <1>0, <1>1, <2>1, <2>4, <2>6, LimitsAssumption DEF SameElsewhere, Loaded, Shape
      <3>2. Loaded(ctx', program', DataLen(program'))
        BY <1>1, <2>1, <2>6, <3>1 DEF Loaded
      <3>. QED
        BY <1>0, <3>1, <3>2 DEF ContextOK
    <2>. QED
      BY <1>0, <2>7, ContextStep
  <1>. QED
    BY <1>2, <1>3

LEMMA AddRdataOK ==
    ASSUME IInv, AddRdata
    PROVE  IInv'
  <1>. DEFINE s == Section(".rdata", program.truthSize, Empty, Empty, FALSE)
              c == IF program.truthSize = 0 THEN ctx ELSE AddSection(ctx, s)
  <1>0. /\ pc = "rdata" /\ pc' = "probe" /\ UNCHANGED <<program, next, file>>
        /\ ctx' = [c EXCEPT !.entry = program.entry]
        /\ program.truthSize # 0 => Len(ctx.sections) < MaxSections
    BY DEF AddRdata, HasRoom
  <1>1. /\ IsCtx(ctx) /\ ImportsOK(ctx.imports) /\ Loaded(ctx, program, DataLen(program))
        /\ program \in Programs /\ Len(ctx.sections) <= MaxSections
    BY <1>0 DEF IInv, ContextOK
  <1>2. /\ Shape(ctx, program, Len(ctx.sections)) /\ Len(ctx.sections) = DataLen(program)
        /\ Len(ctx.sections) \in {1, 2} /\ ctx.unwind = <<>>
        /\ ctx.sections[1].words = CodeWords(program)
    BY <1>1, ProgramFacts DEF Loaded
  <1>3. /\ Shape(c, program, FrontLen(program)) /\ Len(c.sections) = FrontLen(program)
        /\ c.unwind = <<>> /\ c.imports = ctx.imports /\ Len(c.sections) <= MaxSections
        /\ c.sections[1].words = CodeWords(program)
    <2>1. CASE program.truthSize = 0
      <3>1. c = ctx /\ FrontLen(program) = Len(ctx.sections)
        BY <2>1, <1>2 DEF FrontLen, DataLen
      <3>. QED
        BY <3>1, <1>1, <1>2
    <2>2. CASE program.truthSize # 0
      <3>0. c = AddSection(ctx, s) /\ Len(ctx.sections) < MaxSections
        BY <2>2, <1>0
      <3>1. FrontLen(program) = Len(ctx.sections) + 1
        BY <2>2, <1>2 DEF FrontLen, DataLen
      <3>2. IsNext(ctx, program, s)
        <4>1. program.truthSize \in Nat
          BY <1>1, ProgramFacts
        <4>2. IsSection(s) /\ s.name = ".rdata" /\ s.size = program.truthSize /\ s.isCode = FALSE
          BY <4>1 DEF Section, IsSection, SectionFields
        <4>. HIDE DEF s
        <4>3. Len(ctx.sections) = IF program.mirrorSize = 0 THEN 1 ELSE 2
          BY <1>2 DEF DataLen
        <4>4. FrontName(program, Len(ctx.sections) + 1) = ".rdata"
              /\ FrontSize(program, Len(ctx.sections) + 1) = program.truthSize
          BY <4>3 DEF FrontName, FrontSize
        <4>5. \A i \in 1 .. Len(ctx.sections) :
                  FrontName(program, i) = IF i = 1 THEN ".text" ELSE ".data"
          BY <4>3 DEF FrontName
        <4>6. \A i \in 1 .. Len(ctx.sections) :
                  FrontName(program, i) # FrontName(program, Len(ctx.sections) + 1)
          BY <4>4, <4>5
        <4>7. s.isCode = (Len(ctx.sections) = 0)
          <5>1. (Len(ctx.sections) = 0) = FALSE
            BY <1>2
          <5>. QED
            BY <5>1, <4>2, Zenon
        <4>. QED
          BY <4>2, <4>4, <4>6, <4>7 DEF IsNext
      <3>. HIDE DEF s, c
      <3>3. WithNext(ctx, c, program, s)
        BY <3>0, <3>2, <1>2, FrontAdded
      <3>4. 1 \in 1 .. Len(ctx.sections) /\ Len(ctx.sections) + 1 <= MaxSections
        BY <1>2, <3>0, LimitsAssumption
      <3>. QED
        BY <1>2, <3>1, <3>3, <3>4 DEF WithNext, SameElsewhere
    <2>. QED
      BY <2>1, <2>2
  <1>. HIDE DEF c
  <1>4. /\ IsCtx(ctx') /\ ctx'.sections = c.sections /\ ctx'.unwind = c.unwind
        /\ ctx'.imports = c.imports /\ ctx'.entry = program.entry
    <2>1. DOMAIN c = CtxFields
      BY <1>3 DEF Shape, IsCtx
    <2>2. /\ DOMAIN ctx' = CtxFields /\ ctx'.sections = c.sections /\ ctx'.unwind = c.unwind
          /\ ctx'.imports = c.imports /\ ctx'.entry = program.entry
      BY <1>0, <2>1 DEF CtxFields
    <2>. QED
      BY <2>2, <1>3 DEF Shape, IsCtx
  <1>5. Loaded(ctx', program, FrontLen(program))
    <2>1. SameKinds(c, ctx')
      BY <1>4 DEF SameKinds
    <2>2. FrontLen(program) \in Nat
      BY <1>1, ProgramFacts
    <2>3. Shape(ctx', program, FrontLen(program))
      BY <1>3, <2>1, <2>2, ShapeKept
    <2>. QED
      BY <1>3, <1>4, <2>3 DEF Loaded
  <1>6. ContextOK'
    BY <1>0, <1>1, <1>3, <1>4, <1>5 DEF ContextOK
  <1>. QED
    BY <1>0, <1>6, ContextStep

LEMMA AddSectionFailsOK ==
    ASSUME IInv, AddSectionFails
    PROVE  IInv'
  BY FileStays, BranchEnds DEF AddSectionFails

LEMMA FinalizeFailsOK ==
    ASSUME IInv, FinalizeFails
    PROVE  IInv'
  BY FileStays, BranchEnds DEF FinalizeFails

LEMMA TwoNames ==
    IsFiniteSet({".pdata", ".reloc"}) /\ Cardinality({".pdata", ".reloc"}) = 2
  <1>1. IsFiniteSet({".pdata"}) /\ Cardinality({".pdata"}) = 1
    BY FS_Singleton
  <1>2. ".reloc" \notin {".pdata"} /\ {".pdata", ".reloc"} = {".pdata"} \cup {".reloc"}
    OBVIOUS
  <1>. QED
    BY <1>1, <1>2, FS_AddElement

\* The room SectionsFit asks for is what the blobs take.
LEMMA SectionsStayFew ==
    ASSUME NEW p, NEW n \in Nat, NEW c, Shape(c, p, n), Len(c.sections) = n, SectionsFit(c),
           NEW d, Shape(d, p, n),
           c.imports = <<>> => FindSection(d, ".idata") = FindSection(c, ".idata")
    PROVE  Len(d.sections) <= MaxSections
  <1>. DEFINE added == {".pdata", ".reloc"} \cup (IF c.imports = <<>> THEN {} ELSE {".idata"})
              missing == {name \in added : FindSection(c, name) = 0}
  <1>1. FindSection(c, ".idata") = 0 /\ FindSection(c, ".pdata") = 0 /\ FindSection(c, ".reloc") = 0
    BY DEF Shape, Have
  <1>2. missing = added
    BY <1>1
  <1>3. /\ Len(d.sections) <= n + Have(d, ".idata") + 2
        /\ Have(d, ".idata") \in {0, 1} /\ (c.imports = <<>> => Have(d, ".idata") = 0)
    BY <1>1 DEF Shape, Have
  <1>4. MaxSections \in Nat
    BY LimitsAssumption
  <1>5. Len(c.sections) + Cardinality(missing) <= MaxSections
    BY DEF SectionsFit
  <1>6. CASE c.imports = <<>>
    <2>1. missing = {".pdata", ".reloc"}
      BY <1>2, <1>6
    <2>2. Cardinality(missing) = 2
      <3>1. Cardinality({".pdata", ".reloc"}) = 2
        BY TwoNames
      <3>. QED
        BY <2>1, <3>1
    <2>. HIDE DEF missing
    <2>. QED
      BY <1>3, <1>4, <1>5, <1>6, <2>2
  <1>7. CASE c.imports # <<>>
    <2>1. missing = {".pdata", ".reloc"} \cup {".idata"}
      BY <1>2, <1>7
    <2>2. Cardinality(missing) = 3
      <3>1. Cardinality({".pdata", ".reloc"}) = 2 /\ IsFiniteSet({".pdata", ".reloc"})
        BY TwoNames
      <3>2. Cardinality({".pdata", ".reloc"} \cup {".idata"}) = 2 + 1
        BY <3>1, FS_AddElement
      <3>. QED
        BY <2>1, <3>2
    <2>. HIDE DEF missing
    <2>. QED
      BY <1>3, <1>4, <1>5, <2>2
  <1>. QED
    BY <1>6, <1>7

LEMMA ProbeLayoutOK ==
    ASSUME IInv, ProbeLayout
    PROVE  IInv'
  <1>. DEFINE n == FrontLen(program)
  <1>0. /\ pc = "probe" /\ pc' = "patch" /\ UNCHANGED <<program, next, file>>
        /\ ctx' = Finalize(ctx) /\ SectionsFit(ctx)
    BY DEF ProbeLayout
  <1>1. /\ IsCtx(ctx) /\ ImportsOK(ctx.imports) /\ Loaded(ctx, program, n)
        /\ program \in Programs /\ ctx.entry = program.entry
    BY <1>0 DEF IInv, ContextOK
  <1>2. n \in Nat \ {0} /\ 1 \in 1 .. n
    BY <1>1, ProgramFacts
  <1>. HIDE DEF n
  <1>3. Finalizable(ctx, program, n)
    BY <1>1 DEF Finalizable, Loaded, ImportsOK
  <1>4. /\ Final(ctx', program, n) /\ Stage(ctx, ctx', program, n)
        /\ ctx.imports = <<>> => FindSection(ctx', ".idata") = FindSection(ctx, ".idata")
    BY <1>0, <1>2, <1>3, Finalized
  <1>5. Shape(ctx', program, n) /\ ctx'.unwind = OneRecord(program)
    BY <1>4 DEF Final, PdataIs
  <1>6. Len(ctx'.sections) <= MaxSections
    BY <1>0, <1>1, <1>2, <1>4, <1>5, SectionsStayFew DEF Loaded
  <1>7. ImportsOK(ctx'.imports)
    BY <1>1, <1>4, RenumberedOK DEF Stage
  <1>8. ctx'.entry = program.entry /\ RefsFilled(ctx'.sections[1].words, program)
    <2>1. ctx'.sections[1].words = CodeWords(program) /\ ctx'.entry = ctx.entry
      BY <1>1, <1>2, <1>4 DEF Stage, Loaded
    <2>. QED
      BY <2>1, <1>1, CodeWordsFilled
  <1>9. Placed(ctx', program)
    BY <1>5, <1>8 DEF Placed, n
  <1>10. ContextOK'
    BY <1>0, <1>5, <1>6, <1>7, <1>9 DEF ContextOK, Shape
  <1>. QED
    BY <1>0, <1>10, ContextStep

LEMMA PatchTextOK ==
    ASSUME IInv, PatchText
    PROVE  IInv'
  <1>. DEFINE n == FrontLen(program)
              i == FindSection(ctx, ".text")
              text == ctx.sections[i]
              markers == {h \in DOMAIN text.words : \E s \in DOMAIN Specs : text.words[h] = Marker(s)}
              target == [h \in markers |-> IatOf(ctx, Specs[text.words[h] - Marker(0)])]
              words == [h \in DOMAIN text.words |->
                           IF h \in markers THEN Displacement(target[h], text.va, h)
                                             ELSE text.words[h]]
  <1>0. /\ pc = "patch" /\ UNCHANGED <<program, next, file>>
        /\ \/ ctx' = WithWords(ctx, i, words) /\ pc' = "write"
           \/ ctx' = Fresh /\ pc' = "failed"
    BY DEF PatchText
  <1>1. /\ IsCtx(ctx) /\ ImportsOK(ctx.imports) /\ Len(ctx.sections) <= MaxSections
        /\ Placed(ctx, program) /\ program \in Programs
    BY <1>0 DEF IInv, ContextOK
  <1>2. CASE ctx' = Fresh /\ pc' = "failed"
    BY <1>0, <1>2, FileStays, BranchEnds
  <1>3. CASE ctx' = WithWords(ctx, i, words) /\ pc' = "write"
    <2>1. n \in Nat \ {0} /\ Shape(ctx, program, n)
      BY <1>1, ProgramFacts DEF Placed
    <2>2. i = 1 /\ 1 \in 1 .. Len(ctx.sections)
      BY <2>1, ShapeHasText
    <2>3. \A h \in DOMAIN program.refs :
            /\ h \in DOMAIN text.words /\ h \notin markers
            /\ text.words[h] = TruthTarget(program, program.refs[h]) - (h + 4)
      <3>1. RefsFilled(text.words, program)
        BY <1>1, <2>2 DEF Placed
      <3>2. \A h \in DOMAIN program.refs : \A s \in DOMAIN Specs : text.words[h] # Marker(s)
        <4>. HIDE DEF text
        <4>1. DOMAIN Specs \subseteq Nat
          BY SpecsAre
        <4>. QED
          BY <1>1, <3>1, <4>1, ReferencesAreNoMarkers
      <3>. HIDE DEF text
      <3>. QED
        BY <3>1, <3>2 DEF RefsFilled
    <2>4. RefsFilled(words, program)
      <3>1. \A h \in DOMAIN program.refs : h \in DOMAIN words /\ words[h] = text.words[h]
        <4>. HIDE DEF text, markers, target
        <4>. QED
          BY <2>3
      <3>. HIDE DEF words, text, markers
      <3>. QED
        BY <2>3, <3>1 DEF RefsFilled
    <2>. HIDE DEF words, text, markers, target, i
    <2>5. /\ SameElsewhere(ctx, ctx') /\ Patched(ctx, ctx') /\ ctx'.sections[1].words = words
      <3>1. /\ ctx' = WithWords(ctx, 1, words)
        BY <1>3, <2>2
      <3>2. Patched(ctx, ctx') /\ ctx'.sections[i].words = words
        BY <1>1, <1>3, <2>2, WordsPatched
      <3>3. SameElsewhere(ctx, ctx')
        BY <1>1, <1>3, <2>2, WordsReplaced
      <3>. QED
        BY <2>2, <3>2, <3>3
    <2>6. Shape(ctx', program, n)
      <3>1. SameKinds(ctx, ctx')
        BY <2>5 DEF Patched, SameKinds
      <3>. QED
        BY <2>1, <3>1, ShapeKept
    <2>7. Placed(ctx', program)
      BY <1>1, <2>4, <2>5, <2>6 DEF Placed, SameElsewhere
    <2>8. ContextOK'
      BY <1>0, <1>1, <1>3, <2>5, <2>7 DEF ContextOK, SameElsewhere, Patched
    <2>. QED
      BY <1>0, <1>3, <2>8, ContextStep
  <1>. QED
    BY <1>0, <1>2, <1>3

\* The image that is written: finalized, with the references still filled.
LEMMA ImageWritten ==
    ASSUME NEW p \in Programs, NEW c, Placed(c, p), ImportsOK(c.imports)
    PROVE  ImageOK(Image(Finalize(c)), p)
  <1>. DEFINE n == FrontLen(p)
              d == Finalize(c)
              im == Image(d)
              e == AsCtx(im, p)
  <1>1. n \in Nat \ {0} /\ 1 \in 1 .. n /\ p.entry \in Nat
    BY ProgramFacts
  <1>2. Finalizable(c, p, n)
    BY DEF Finalizable, Placed, ImportsOK
  <1>. HIDE DEF n
  <1>3. Final(d, p, n) /\ Stage(c, d, p, n)
    BY <1>1, <1>2, Finalized
  <1>4. d.entry = p.entry /\ RefsFilled(d.sections[1].words, p)
    <2>1. d.entry = c.entry /\ d.sections[1].words = c.sections[1].words
      BY <1>1, <1>3 DEF Stage
    <2>. QED
      BY <2>1 DEF Placed
  <1>. HIDE DEF d
  <1>5. /\ im.sections = d.sections /\ im.dir = d.dir /\ im.headerSize = d.headerSize
        /\ im.imageSize = d.imageSize /\ im.entry = p.entry + SECTION_ALIGNMENT
    BY <1>4 DEF Image
  <1>. HIDE DEF im
  <1>6. /\ DOMAIN e = CtxFields /\ e.sections = d.sections /\ e.dir = d.dir
        /\ e.headerSize = d.headerSize /\ e.imageSize = d.imageSize /\ e.entry = d.entry
        /\ e.unwind = OneRecord(p)
    <2>1. im.entry - SECTION_ALIGNMENT = d.entry
      BY <1>1, <1>4, <1>5
    <2>. QED
      BY <2>1, <1>5 DEF AsCtx, CtxFields
  <1>. HIDE DEF e
  <1>7. Shape(d, p, n) /\ LaidOut(d) /\ PdataIs(d, p, n) /\ IsCtx(d)
    BY <1>3 DEF Final, Shape
  <1>8. Patched(d, e)
    BY <1>6, <1>7 DEF Patched, IsCtx
  <1>9. Shape(e, p, n) /\ LaidOut(e) /\ FindSection(e, ".pdata") = FindSection(d, ".pdata")
    BY <1>1, <1>7, <1>8, PatchedKeeps
  <1>10. PdataIs(e, p, n)
    BY <1>6, <1>7, <1>9 DEF PdataIs
  <1>11. Final(e, p, n)
    <2>1. VaOf(e, ".pdata") = VaOf(d, ".pdata")
      BY <1>6, <1>9 DEF VaOf
    <2>. QED
      BY <1>3, <1>6, <1>9, <1>10, <2>1 DEF Final
  <1>12. ImageOK(im, p)
    BY <1>4, <1>5, <1>11 DEF ImageOK, e, n
  <1>. QED
    BY <1>12 DEF im, d

LEMMA WriteToFileOK ==
    ASSUME IInv, WriteToFile
    PROVE  IInv'
  <1>0. /\ pc = "write" /\ pc' = "done" /\ ctx' = Fresh /\ UNCHANGED <<program, next>>
    BY DEF WriteToFile
  <1>1. program \in Programs /\ Placed(ctx, program) /\ ImportsOK(ctx.imports)
    BY <1>0 DEF IInv, ContextOK
  <1>2. CASE file' = [state |-> "complete", image |-> Image(Finalize(ctx))]
    <2>1. ImageOK(file'.image, program')
      BY <1>0, <1>1, <1>2, ImageWritten
    <2>2. FileOK'
      BY <1>2, <2>1 DEF FileOK
    <2>. QED
      BY <1>0, <2>2, BranchEnds
  <1>3. CASE file' = [state |-> "partial", image |-> NoImage]
    <2>1. FileOK'
      BY <1>3 DEF FileOK
    <2>. QED
      BY <1>0, <2>1, BranchEnds
  <1>. QED
    BY <1>2, <1>3 DEF WriteToFile

LEMMA WriteFailsOK ==
    ASSUME IInv, WriteFails
    PROVE  IInv'
  <1>1. FileOK'
    BY DEF WriteFails, FileOK
  <1>. QED
    BY <1>1, BranchEnds DEF WriteFails

LEMMA StepOK == IInv /\ [Next]_vars => IInv'
  <1>. SUFFICES ASSUME IInv, [Next]_vars PROVE IInv'
    OBVIOUS
  <1>1. CASE UNCHANGED vars
    BY <1>1 DEF vars, IInv, ContextOK, FileOK
  <1>. QED
    BY <1>1, RegisterImportOK, AddTextOK, AddDataOK, AddRdataOK, AddSectionFailsOK, ProbeLayoutOK,
       FinalizeFailsOK, PatchTextOK, WriteToFileOK, WriteFailsOK DEF Next

THEOREM Invariant == Spec => []IInv
  BY InitOK, StepOK, PTL DEF Spec

LEMMA IInvTypeOK == IInv => TypeOK
  <1>. SUFFICES ASSUME IInv PROVE TypeOK
    OBVIOUS
  <1>1. Len(ctx.sections) <= MaxSections
    BY DEF IInv, ContextOK
  <1>2. /\ Len(ctx.imports) <= MaxLibraries
        /\ \A i \in DOMAIN ctx.imports : Len(ctx.imports[i].functions) \in 1 .. MaxImports
    <2>1. ImportsOK(ctx.imports)
      BY DEF IInv, ContextOK
    <2>2. DOMAIN ctx.imports = 1 .. Len(ctx.imports)
      BY <2>1, Members DEF ImportsOK
    <2>. QED
      BY <2>1, <2>2 DEF ImportsOK
  <1>3. Len(ctx.unwind) <= MaxUnwind
    <2>1. ctx.unwind \in {<<>>, OneRecord(program)}
      BY FreshIs DEF IInv, ContextOK, Loaded, Placed
    <2>2. Len(<<>>) = 0 /\ Len(OneRecord(program)) = 1
      BY DEF OneRecord
    <2>3. Len(ctx.unwind) = 0 \/ Len(ctx.unwind) = 1
      BY <2>1, <2>2
    <2>4. 0 <= MaxUnwind /\ 1 <= MaxUnwind
      BY LimitsAssumption
    <2>. QED
      BY <2>3, <2>4
  <1>4. image.imageSize \in Nat
    <2>1. CASE file.state = "complete"
      <3>1. Final(AsCtx(image, program), program, FrontLen(program))
        BY <2>1 DEF IInv, FileOK, ImageOK, image
      <3>2. AsCtx(image, program).imageSize \in Nat
        BY <3>1, LayoutChain DEF Final, Shape
      <3>. QED
        BY <3>2 DEF AsCtx
    <2>2. CASE file.state # "complete"
      BY <2>2 DEF IInv, FileOK, image, NoImage, Image, Fresh
    <2>. QED
      BY <2>1, <2>2
  <1>. QED
    BY <1>1, <1>2, <1>3, <1>4 DEF IInv, FileOK, TypeOK

\* The weaver's tables never hold more than their arrays have room for:
\* sections, libraries, functions of a library and exception records,
\* although the exception data and the sections are built twice.
THEOREM ExeTypeCorrect == Spec => []TypeOK
  BY Invariant, IInvTypeOK, PTL

-----------------------------------------------------------------------------
(* The written image, as the loader sees it.                               *)

\* What the invariant says of an image that was written.
LEMMA WrittenImage ==
    ASSUME IInv, Written
    PROVE  LET c == AsCtx(image, program)
               n == FrontLen(program)
           IN  /\ program \in Programs /\ n \in {1, 2, 3}
               /\ Final(c, program, n) /\ Shape(c, program, n) /\ IsCtx(c) /\ LaidOut(c)
               /\ c.sections = image.sections /\ c.headerSize = image.headerSize
               /\ c.imageSize = image.imageSize /\ c.dir = image.dir
               /\ image.entry = program.entry + SECTION_ALIGNMENT
               /\ RefsFilled(image.sections[1].words, program)
  <1>1. program \in Programs /\ ImageOK(image, program)
    BY DEF IInv, FileOK, Written, image
  <1>2. FrontLen(program) \in {1, 2, 3}
    BY <1>1, ProgramFacts
  <1>. QED
    BY <1>1, <1>2 DEF ImageOK, Final, Shape, AsCtx

LEMMA ImageIsLoadableOK == IInv => ImageIsLoadable
  <1>. SUFFICES ASSUME IInv, Written PROVE ImageIsLoadable
    BY DEF ImageIsLoadable
  <1>. DEFINE c == AsCtx(image, program)
              s == image.sections
              n == Len(s)
  <1>1. /\ program \in Programs /\ Shape(c, program, FrontLen(program)) /\ IsCtx(c) /\ LaidOut(c)
        /\ c.sections = s /\ c.headerSize = image.headerSize /\ c.imageSize = image.imageSize
        /\ FrontLen(program) \in {1, 2, 3} /\ image.entry = program.entry + SECTION_ALIGNMENT
    BY WrittenImage
  <1>. HIDE DEF c, s
  <1>2. /\ n \in Nat /\ n >= 1 /\ n <= 6 /\ 1 \in 1 .. n
        /\ s[1].size = program.codeSize /\ s[1].isCode
    <2>1. FrontLen(program) \in Nat \ {0} /\ FrontLen(program) <= 3
      BY <1>1
    <2>2. /\ 1 \in 1 .. Len(c.sections) /\ c.sections[1].size = program.codeSize
          /\ c.sections[1].isCode /\ Len(c.sections) <= FrontLen(program) + 3
      BY <1>1, <2>1, ShapeHasText
    <2>3. n \in Nat
      BY <1>1 DEF IsCtx
    <2>. QED
      BY <1>1, <2>1, <2>2, <2>3
  <1>3. /\ image.headerSize \in Nat /\ image.headerSize % FILE_ALIGNMENT = 0
        /\ HEADERS_SIZE + n * SECTION_HEADER_SIZE <= image.headerSize
        /\ image.headerSize < HEADERS_SIZE + n * SECTION_HEADER_SIZE + FILE_ALIGNMENT
        /\ \A i \in 1 .. n : /\ s[i].va \in Nat /\ s[i].va >= SECTION_ALIGNMENT
                             /\ s[i].va % SECTION_ALIGNMENT = 0
                             /\ s[i].ptr \in Nat /\ s[i].ptr >= image.headerSize
                             /\ s[i].ptr % FILE_ALIGNMENT = 0
        /\ \A i \in 1 .. n - 1 : /\ s[i + 1].va = s[i].va + PagesOf(s[i])
                                 /\ s[i + 1].ptr = s[i].ptr + SectorsOf(s[i])
        /\ s[1].va = SECTION_ALIGNMENT
        /\ image.imageSize = s[n].va + PagesOf(s[n])
    BY SMTT(30), <1>1, <1>2, LayoutChain
  <1>4. image.headerSize <= SECTION_ALIGNMENT
    BY <1>2, <1>3 DEF HEADERS_SIZE, SECTION_HEADER_SIZE
  <1>5. \A i \in 1 .. n - 1 : s[i].ptr + s[i].size <= s[i + 1].ptr
    <2>1. \A i \in 1 .. n : s[i].size \in Nat
      BY <1>1 DEF IsCtx, IsSection
    <2>. SUFFICES ASSUME NEW i \in 1 .. n - 1 PROVE s[i].ptr + s[i].size <= s[i + 1].ptr
      OBVIOUS
    <2>2. i \in 1 .. n
      BY <1>2
    <2>3. s[i].size <= SectorsOf(s[i]) /\ SectorsOf(s[i]) \in Nat /\ s[i].ptr \in Nat
      BY <1>3, <2>1, <2>2, SizesAligned
    <2>. QED
      BY <1>3, <2>1, <2>2, <2>3
  <1>6. image.entry \in TextBase .. TextBase + s[1].size - 1
    <2>1. TextBase = SECTION_ALIGNMENT
      BY <1>3 DEF TextBase, s
    <2>2. program.entry \in 0 .. program.codeSize - 1 /\ program.codeSize \in Nat
      BY <1>1, ProgramFacts
    <2>. QED
      BY <1>1, <1>2, <2>1, <2>2
  <1>7. \A i \in 1 .. n - 1 : s[i + 1].va = s[i].va + EXE_AlignUp(s[i].size, SECTION_ALIGNMENT)
    BY <1>3 DEF PagesOf
  <1>8. image.imageSize = s[n].va + EXE_AlignUp(s[n].size, SECTION_ALIGNMENT)
    BY <1>3 DEF PagesOf
  <1>. QED
    BY <1>2, <1>3, <1>4, <1>5, <1>6, <1>7, <1>8 DEF ImageIsLoadable, s

\* Every image that reaches the file is one the Windows loader accepts: the
\* sections page after page without a gap, the payloads apart, the headers
\* below both, the entry point in the code, whatever the program's sizes.
THEOREM WrittenImagesAreLoadable == Spec => []ImageIsLoadable
  BY Invariant, ImageIsLoadableOK, PTL

\* Ranges that each end before the next starts are apart.
LEMMA Apart ==
    ASSUME NEW n \in Nat, NEW a, NEW z,
           \A i \in 1 .. n : a[i] \in Nat /\ z[i] \in Nat,
           \A i \in 1 .. n - 1 : a[i] + z[i] <= a[i + 1]
    PROVE  \A i, j \in 1 .. n : i < j => a[i] + z[i] <= a[j]
  <1>. SUFFICES ASSUME NEW i \in 1 .. n PROVE \A j \in 1 .. n : i < j => a[i] + z[i] <= a[j]
    OBVIOUS
  <1>. DEFINE T == {j \in Nat : j \in 1 .. n /\ i < j => a[i] + z[i] <= a[j]}
  <1>1. 0 \in T
    OBVIOUS
  <1>2. ASSUME NEW j \in Nat, j \in T PROVE j + 1 \in T
    <2>. SUFFICES ASSUME j + 1 \in 1 .. n, i < j + 1 PROVE a[i] + z[i] <= a[j + 1]
      OBVIOUS
    <2>1. j \in 1 .. n /\ j \in 1 .. n - 1
      OBVIOUS
    <2>2. a[j] + z[j] <= a[j + 1] /\ a[j] \in Nat /\ z[j] \in Nat /\ a[j + 1] \in Nat
      BY <2>1
    <2>3. CASE i = j
      BY <2>2, <2>3
    <2>4. CASE i < j
      <3>1. a[i] + z[i] <= a[j] /\ a[i] \in Nat /\ z[i] \in Nat
        BY <1>2, <2>1, <2>4
      <3>. QED
        BY <2>2, <3>1
    <2>. QED
      BY <2>3, <2>4
  <1>3. \A j \in Nat : j \in T
    <2>. HIDE DEF T
    <2>. QED
      BY <1>1, <1>2, SetInduction
  <1>. QED
    BY <1>3

\* The sections of a written image share neither addresses nor bytes.
LEMMA SectionsApart ==
    ASSUME IInv, Written
    PROVE  LET s == image.sections
               n == Len(s)
           IN  /\ n \in Nat /\ DOMAIN s = 1 .. n
               /\ \A i \in 1 .. n : s[i].va \in Nat /\ s[i].ptr \in Nat /\ s[i].size \in Nat
               /\ \A i, j \in 1 .. n : i < j => /\ s[i].va + s[i].size <= s[j].va
                                                /\ s[i].ptr + s[i].size <= s[j].ptr
  <1>. DEFINE c == AsCtx(image, program)
              s == image.sections
              n == Len(s)
              va == [i \in 1 .. n |-> s[i].va]
              ptr == [i \in 1 .. n |-> s[i].ptr]
              size == [i \in 1 .. n |-> s[i].size]
  <1>1. IsCtx(c) /\ LaidOut(c) /\ c.sections = s /\ Written
    BY WrittenImage
  <1>. HIDE DEF c, s
  <1>2. n \in Nat /\ DOMAIN s = 1 .. n /\ \A i \in 1 .. n : s[i].size \in Nat
    BY <1>1 DEF IsCtx, IsSection
  <1>3. /\ \A i \in 1 .. n : s[i].va \in Nat /\ s[i].ptr \in Nat
        /\ \A i \in 1 .. n - 1 : /\ s[i + 1].va = s[i].va + PagesOf(s[i])
                                 /\ s[i + 1].ptr = s[i].ptr + SectorsOf(s[i])
    BY <1>1, LayoutChain
  <1>4. ASSUME NEW i \in 1 .. n - 1
        PROVE  s[i].va + s[i].size <= s[i + 1].va /\ s[i].ptr + s[i].size <= s[i + 1].ptr
    <2>1. i \in 1 .. n
      BY <1>2
    <2>2. /\ s[i].size <= PagesOf(s[i]) /\ PagesOf(s[i]) \in Nat
          /\ s[i].size <= SectorsOf(s[i]) /\ SectorsOf(s[i]) \in Nat
          /\ s[i].va \in Nat /\ s[i].ptr \in Nat /\ s[i].size \in Nat
      BY <1>2, <1>3, <2>1, SizesAligned
    <2>. QED
      BY <1>3, <2>2
  <1>. HIDE DEF n
  <1>5. \A i, j \in 1 .. n : i < j => va[i] + size[i] <= va[j]
    <2>1. \A i \in 1 .. n : va[i] \in Nat /\ size[i] \in Nat
      BY <1>2, <1>3
    <2>2. \A i \in 1 .. n - 1 : i \in 1 .. n /\ i + 1 \in 1 .. n
      BY <1>2
    <2>3. \A i \in 1 .. n - 1 : va[i] + size[i] <= va[i + 1]
      BY <1>4, <2>2
    <2>. HIDE DEF va, size
    <2>. QED
      BY <1>2, <2>1, <2>3, Apart
  <1>6. \A i, j \in 1 .. n : i < j => ptr[i] + size[i] <= ptr[j]
    <2>1. \A i \in 1 .. n : ptr[i] \in Nat /\ size[i] \in Nat
      BY <1>2, <1>3
    <2>2. \A i \in 1 .. n - 1 : i \in 1 .. n /\ i + 1 \in 1 .. n
      BY <1>2
    <2>3. \A i \in 1 .. n - 1 : ptr[i] + size[i] <= ptr[i + 1]
      BY <1>4, <2>2
    <2>. HIDE DEF ptr, size
    <2>. QED
      BY <1>2, <2>1, <2>3, Apart
  <1>7. \A i, j \in 1 .. n : i < j => /\ s[i].va + s[i].size <= s[j].va
                                      /\ s[i].ptr + s[i].size <= s[j].ptr
    BY <1>5, <1>6
  <1>. QED
    BY <1>2, <1>3, <1>7 DEF s, n

\* The loader puts the word of a payload at the address it belongs to.
LEMMA PayloadLoaded ==
    ASSUME IInv, Written, NEW i \in 1 .. Len(image.sections), NEW o \in Nat,
           o < image.sections[i].size
    PROVE  /\ SectionAt(image.sections[i].va + o) = i
           /\ LoadedWord(image.sections[i].va + o) = Word(image.sections[i], o)
  <1>. DEFINE s == image.sections
              n == Len(s)
              rva == s[i].va + o
              offset == s[i].ptr + o
  <1>1. /\ n \in Nat /\ DOMAIN s = 1 .. n
        /\ \A k \in 1 .. n : s[k].va \in Nat /\ s[k].ptr \in Nat /\ s[k].size \in Nat
        /\ \A k, j \in 1 .. n : k < j => /\ s[k].va + s[k].size <= s[j].va
                                         /\ s[k].ptr + s[k].size <= s[j].ptr
    BY SectionsApart
  <1>2. i \in 1 .. n /\ o \in Nat /\ o < s[i].size
    OBVIOUS
  <1>. HIDE DEF s
  <1>3. {k \in DOMAIN s : s[k].va <= rva /\ rva < s[k].va + s[k].size} = {i}
    <2>1. ASSUME NEW k \in 1 .. n
          PROVE  (s[k].va <= rva /\ rva < s[k].va + s[k].size) <=> k = i
      <3>1. s[k].va \in Nat /\ s[k].size \in Nat /\ s[i].va \in Nat /\ s[i].size \in Nat
        BY <1>1, <1>2
      <3>2. k < i => s[k].va + s[k].size <= s[i].va
        BY <1>1, <1>2
      <3>3. i < k => s[i].va + s[i].size <= s[k].va
        BY <1>1, <1>2
      <3>4. i < k \/ k < i \/ k = i
        BY <1>1, <1>2
      <3>5. rva \in Nat /\ s[i].va <= rva /\ rva < s[i].va + s[i].size
        BY <1>2, <3>1
      <3>. HIDE DEF rva
      <3>6. k < i => ~(rva < s[k].va + s[k].size)
        BY <3>1, <3>2, <3>5
      <3>7. i < k => ~(s[k].va <= rva)
        BY <3>1, <3>3, <3>5
      <3>. QED
        BY <3>4, <3>5, <3>6, <3>7, Zenon
    <2>. QED
      BY <1>1, <1>2, <2>1
  <1>4. {k \in DOMAIN s : s[k].ptr <= offset /\ offset < s[k].ptr + s[k].size} = {i}
    <2>1. ASSUME NEW k \in 1 .. n
          PROVE  (s[k].ptr <= offset /\ offset < s[k].ptr + s[k].size) <=> k = i
      <3>1. s[k].ptr \in Nat /\ s[k].size \in Nat /\ s[i].ptr \in Nat /\ s[i].size \in Nat
        BY <1>1, <1>2
      <3>2. k < i => s[k].ptr + s[k].size <= s[i].ptr
        BY <1>1, <1>2
      <3>3. i < k => s[i].ptr + s[i].size <= s[k].ptr
        BY <1>1, <1>2
      <3>4. i < k \/ k < i \/ k = i
        BY <1>1, <1>2
      <3>5. offset \in Nat /\ s[i].ptr <= offset /\ offset < s[i].ptr + s[i].size
        BY <1>2, <3>1
      <3>. HIDE DEF offset
      <3>6. k < i => ~(offset < s[k].ptr + s[k].size)
        BY <3>1, <3>2, <3>5
      <3>7. i < k => ~(s[k].ptr <= offset)
        BY <3>1, <3>3, <3>5
      <3>. QED
        BY <3>4, <3>5, <3>6, <3>7, Zenon
    <2>. QED
      BY <1>1, <1>2, <2>1
  <1>5. /\ (CHOOSE k \in {i} : \A j \in {i} : k <= j) = i
        /\ (CHOOSE k \in {i} : \A j \in {i} : j <= k) = i
    <2>1. i <= i
      BY <1>1
    <2>. QED
      BY <2>1
  <1>6. SectionAt(rva) = i
    BY <1>3, <1>5 DEF SectionAt, s
  <1>7. RawWord(offset) = Word(s[i], o)
    <2>1. offset - s[i].ptr = o
      BY <1>1, <1>2
    <2>2. RawWord(offset) = Word(s[i], offset - s[i].ptr)
      BY <1>4, <1>5 DEF RawWord, s
    <2>. QED
      BY <2>1, <2>2
  <1>8. LoadedWord(rva) = Word(s[i], o)
    <2>1. i # 0 /\ s[i].ptr + rva - s[i].va = offset
      BY <1>1, <1>2
    <2>2. LoadedWord(rva) = RawWord(s[i].ptr + rva - s[i].va)
      BY <1>6, <2>1 DEF LoadedWord, s
    <2>. QED
      BY <1>7, <2>1, <2>2
  <1>. QED
    BY <1>6, <1>8 DEF s

\* The three words of the only exception record.
LEMMA RecordWords ==
    ASSUME NEW p, NEW base
    PROVE  LET w == ExceptionWords(OneRecord(p), base) IN
           /\ 0 \in DOMAIN w /\ w[0] = SECTION_ALIGNMENT
           /\ 4 \in DOMAIN w /\ w[4] = SECTION_ALIGNMENT + p.codeSize
           /\ 8 \in DOMAIN w /\ w[8] = base + RECORD_SIZE
  <1>. DEFINE r == OneRecord(p)
              w == ExceptionWords(r, base)
  <1>1. /\ DOMAIN r = {1} /\ r[1].start = SECTION_ALIGNMENT
        /\ r[1].end = SECTION_ALIGNMENT + p.codeSize /\ r[1].info = RECORD_SIZE
    BY DEF OneRecord
  <1>. HIDE DEF r
  <1>2. DOMAIN w = {(i - 1) * RECORD_SIZE + f : i \in {1}, f \in {0, 4, 8}}
    BY <1>1 DEF ExceptionWords
  <1>3. (1 - 1) * RECORD_SIZE + 0 = 0 /\ (1 - 1) * RECORD_SIZE + 4 = 4 /\ (1 - 1) * RECORD_SIZE + 8 = 8
    BY DEF RECORD_SIZE
  <1>4. 0 \in DOMAIN w /\ 4 \in DOMAIN w /\ 8 \in DOMAIN w
    BY <1>2, <1>3
  <1>5. \A o \in DOMAIN w : w[o] = LET x == r[o \div RECORD_SIZE + 1]
                                   IN  CASE o % RECORD_SIZE = 0 -> x.start
                                         [] o % RECORD_SIZE = 4 -> x.end
                                         [] OTHER -> base + x.info
    BY DEF ExceptionWords
  <1>6. /\ 0 \div RECORD_SIZE + 1 = 1 /\ 4 \div RECORD_SIZE + 1 = 1 /\ 8 \div RECORD_SIZE + 1 = 1
        /\ 0 % RECORD_SIZE = 0 /\ 4 % RECORD_SIZE = 4 /\ 8 % RECORD_SIZE = 8
    BY DEF RECORD_SIZE
  <1>. HIDE DEF w
  <1>7. w[0] = r[1].start
    BY <1>4, <1>5, <1>6
  <1>8. w[4] = r[1].end
    BY <1>4, <1>5, <1>6
  <1>9. w[8] = base + r[1].info
    BY <1>4, <1>5, <1>6
  <1>. QED
    BY <1>1, <1>4, <1>7, <1>8, <1>9 DEF w, r

LEMMA ExceptionTableOK == IInv => ExceptionTableCoversText
  <1>. SUFFICES ASSUME IInv, Written PROVE ExceptionTableCoversText
    BY DEF ExceptionTableCoversText
  <1>. DEFINE c == AsCtx(image, program)
              s == image.sections
              k == FindSection(c, ".pdata")
              d == image.dir
              base == d.exception
  <1>1. /\ program \in Programs /\ FrontLen(program) \in {1, 2, 3} /\ IsCtx(c)
        /\ Final(c, program, FrontLen(program)) /\ LaidOut(c) /\ Shape(c, program, FrontLen(program))
        /\ c.sections = s /\ c.dir = d
    BY WrittenImage
  <1>. HIDE DEF c, s, d
  <1>2. /\ k \in FrontLen(program) + 1 .. Len(s) /\ s[k].size = RECORD_SIZE + UNWIND_INFO_SIZE
        /\ s[k].words = ExceptionWords(OneRecord(program), VaOf(c, ".pdata"))
        /\ d.exception = VaOf(c, ".pdata") /\ d.exceptionSize = RECORD_SIZE
    BY <1>1 DEF Final, PdataIs
  <1>. HIDE DEF k
  <1>3. /\ k \in 1 .. Len(s) /\ s[k].size = 16 /\ base = s[k].va
        /\ s[k].words = ExceptionWords(OneRecord(program), base)
    <2>1. VaOf(c, ".pdata") = s[k].va
      BY <1>1 DEF VaOf, k
    <2>2. Len(s) \in Nat
      BY <1>1 DEF IsCtx
    <2>3. RECORD_SIZE + UNWIND_INFO_SIZE = 16
      BY DEF RECORD_SIZE, UNWIND_INFO_SIZE
    <2>. QED
      BY <1>1, <1>2, <2>1, <2>2, <2>3
  <1>4. base \in Nat
    BY <1>3, SectionsApart DEF s
  <1>5. /\ SectionAt(base + 0) = k
        /\ LoadedWord(base + 0) = Word(s[k], 0) /\ LoadedWord(base + 4) = Word(s[k], 4)
        /\ LoadedWord(base + 8) = Word(s[k], 8)
    BY <1>3, PayloadLoaded DEF s
  <1>6. /\ Word(s[k], 0) = SECTION_ALIGNMENT
        /\ Word(s[k], 4) = SECTION_ALIGNMENT + program.codeSize
        /\ Word(s[k], 8) = base + RECORD_SIZE
    BY <1>3, RecordWords DEF Word
  <1>7. TextBase = SECTION_ALIGNMENT
    <2>1. ImageIsLoadable
      BY ImageIsLoadableOK
    <2>. QED
      BY <2>1 DEF ImageIsLoadable, TextBase
  <1>8. program.codeSize \in Nat /\ program.codeSize >= 4
    BY <1>1, ProgramFacts
  <1>9. /\ LoadedWord(base) = SECTION_ALIGNMENT
        /\ LoadedWord(base + 4) = SECTION_ALIGNMENT + program.codeSize
        /\ LoadedWord(base + 8) = base + 12 /\ SectionAt(base) = k
    <2>1. base + 0 = base /\ RECORD_SIZE = 12
      BY <1>4 DEF RECORD_SIZE
    <2>. QED
      BY <1>5, <1>6, <2>1
  <1>10. d.exceptionSize \div RECORD_SIZE = 1 /\ d.exceptionSize = 12
    BY <1>2 DEF RECORD_SIZE
  <1>. DEFINE Record(j) == base + (j - 1) * RECORD_SIZE
  <1>11. Record(1) = base
    BY <1>4 DEF RECORD_SIZE
  <1>. QED
    <2>. DEFINE n == d.exceptionSize \div RECORD_SIZE
                Start(j) == LoadedWord(Record(j))
                End(j) == LoadedWord(Record(j) + 4)
                Info(j) == LoadedWord(Record(j) + 8)
                pdata == s[SectionAt(base)]
    <2>1. n = 1
      BY <1>10
    <2>2. /\ Start(1) = TextBase /\ End(1) = TextBase + program.codeSize
      BY <1>7, <1>9, <1>11
    <2>3. Start(1) < End(1)
      BY <1>8, <1>9, <1>11
    <2>4. Info(1) >= base + d.exceptionSize
      BY <1>4, <1>9, <1>10, <1>11
    <2>5. Info(1) + UNWIND_INFO_SIZE <= pdata.va + pdata.size
      BY <1>3, <1>4, <1>9, <1>11 DEF UNWIND_INFO_SIZE
    <2>. HIDE DEF n, Start, End, Info, pdata
    <2>6. /\ n >= 1
          /\ Start(1) = TextBase /\ End(n) = TextBase + program.codeSize
          /\ \A j \in 1 .. n - 1 : End(j) = Start(j + 1)
          /\ \A j \in 1 .. n :
                /\ Start(j) < End(j)
                /\ Info(j) >= base + d.exceptionSize
                /\ Info(j) + UNWIND_INFO_SIZE <= pdata.va + pdata.size
      <3>1. \A j \in 1 .. n : j = 1
        BY <2>1
      <3>2. \A j \in 1 .. n - 1 : FALSE
        BY <2>1
      <3>. QED
        BY <2>1, <2>2, <2>3, <2>4, <2>5, <3>1, <3>2
    <2>. QED
      BY <2>6 DEF ExceptionTableCoversText, n, Start, End, Info, pdata, d, s

\* Every image that reaches the file describes its code by an exception
\* table that covers it once and points inside .pdata.
THEOREM CodeIsAlwaysCovered == Spec => []ExceptionTableCoversText
  BY Invariant, ExceptionTableOK, PTL

\* Where .rdata is in the image: where the code generator took it to be.
LEMMA RdataIs ==
    ASSUME IInv, Written, program.truthSize > 0
    PROVE  LET s == image.sections
               k == FrontLen(program)
           IN  /\ k \in 1 .. Len(s) /\ s[k].name = ".rdata" /\ s[k].size = program.truthSize
               /\ s[k].va = SECTION_ALIGNMENT + EXE_AlignUp(program.codeSize, 4096)
                                + EXE_AlignUp(program.mirrorSize, 4096)
  <1>. DEFINE c == AsCtx(image, program)
              s == image.sections
              k == FrontLen(program)
  <1>1. /\ program \in Programs /\ k \in {1, 2, 3} /\ IsCtx(c)
        /\ LaidOut(c) /\ Shape(c, program, k) /\ c.sections = s
    BY WrittenImage
  <1>2. program.codeSize \in Nat /\ program.mirrorSize \in Nat /\ program.truthSize \in Nat
    BY <1>1, ProgramFacts
  <1>3. k = IF program.mirrorSize = 0 THEN 2 ELSE 3
    BY <1>2 DEF FrontLen
  <1>. HIDE DEF c, s
  <1>4. /\ k <= Len(s) /\ Len(s) \in Nat
        /\ \A i \in 1 .. k : s[i].name = FrontName(program, i) /\ s[i].size = FrontSize(program, i)
    BY <1>1 DEF Shape, HasFront, IsCtx
  <1>5. /\ s[1].va = SECTION_ALIGNMENT
        /\ \A i \in 1 .. Len(s) - 1 : s[i + 1].va = s[i].va + PagesOf(s[i])
    <2>1. Len(s) >= 1
      BY <1>3, <1>4
    <2>. QED
      BY <1>1, <2>1, LayoutChain
  <1>6. s[k].name = ".rdata" /\ s[k].size = program.truthSize
    <2>1. k \in 1 .. k
      BY <1>3
    <2>. QED
      BY <1>3, <1>4, <2>1 DEF FrontName, FrontSize
  <1>7. s[2].va = SECTION_ALIGNMENT + EXE_AlignUp(program.codeSize, 4096)
    <2>1. 1 \in 1 .. Len(s) - 1 /\ 1 \in 1 .. k
      BY <1>3, <1>4
    <2>2. s[1 + 1].va = s[1].va + PagesOf(s[1])
      BY <1>5, <2>1
    <2>3. s[1].size = program.codeSize
      BY <1>4, <2>1 DEF FrontSize
    <2>. QED
      BY <1>5, <2>2, <2>3 DEF PagesOf
  <1>8. EXE_AlignUp(program.codeSize, 4096) \in Nat
    BY <1>2 DEF EXE_AlignUp
  <1>9. s[k].va = SECTION_ALIGNMENT + EXE_AlignUp(program.codeSize, 4096)
                        + EXE_AlignUp(program.mirrorSize, 4096)
    <2>1. CASE program.mirrorSize = 0
      <3>1. EXE_AlignUp(program.mirrorSize, 4096) = 0 /\ k = 2
        BY <1>3, <2>1 DEF EXE_AlignUp
      <3>. QED
        BY <1>7, <1>8, <3>1
    <2>2. CASE program.mirrorSize # 0
      <3>1. 2 \in 1 .. Len(s) - 1 /\ 2 \in 1 .. k /\ k = 3
        BY <1>3, <1>4, <2>2
      <3>2. s[2 + 1].va = s[2].va + PagesOf(s[2])
        BY <1>5, <3>1
      <3>3. s[2].size = program.mirrorSize
        BY <1>4, <2>2, <3>1 DEF FrontSize
      <3>. QED
        BY <1>7, <3>1, <3>2, <3>3 DEF PagesOf
    <2>. QED
      BY <2>1, <2>2
  <1>10. k \in 1 .. Len(s)
    BY <1>3, <1>4
  <1>. QED
    BY <1>6, <1>9, <1>10 DEF s

LEMMA ReferencesOK == IInv => ReferencesReachTheirConstants
  <1>. SUFFICES ASSUME IInv, Written, NEW h \in DOMAIN program.refs
       PROVE  LET i == SectionAt(PointedTo(h))
              IN  /\ i # 0
                  /\ image.sections[i].name = ".rdata"
                  /\ PointedTo(h) - image.sections[i].va = program.refs[h]
    BY DEF ReferencesReachTheirConstants
  <1>. DEFINE s == image.sections
              k == FrontLen(program)
              offset == program.refs[h]
              a == EXE_AlignUp(program.codeSize, 4096)
              b == EXE_AlignUp(program.mirrorSize, 4096)
  <1>1. /\ program \in Programs /\ RefsFilled(s[1].words, program)
    BY WrittenImage
  <1>2. /\ program.codeSize \in Nat /\ program.mirrorSize \in Nat /\ program.truthSize \in Nat
        /\ offset \in 0 .. program.truthSize - 1 /\ h \in Nat /\ h + 4 <= program.codeSize
    BY <1>1, ProgramFacts
  <1>3. a \in Nat /\ b \in Nat
    BY <1>2 DEF EXE_AlignUp
  <1>4. /\ k \in 1 .. Len(s) /\ s[k].name = ".rdata" /\ s[k].size = program.truthSize
        /\ s[k].va = SECTION_ALIGNMENT + a + b
    <2>1. program.truthSize > 0
      BY <1>2
    <2>. QED
      BY <2>1, RdataIs
  <1>5. s[1].words[h] = (a + b + offset) - (h + 4) /\ h \in DOMAIN s[1].words
    <2>1. h \in DOMAIN s[1].words /\ s[1].words[h] = TruthTarget(program, offset) - (h + 4)
      BY <1>1 DEF RefsFilled
    <2>2. TruthTarget(program, offset) = a + b + offset
      BY DEF TruthTarget
    <2>. QED
      BY <2>1, <2>2
  <1>6. TextBase = SECTION_ALIGNMENT /\ s[1].va = SECTION_ALIGNMENT
    <2>1. ImageIsLoadable
      BY ImageIsLoadableOK
    <2>. QED
      BY <2>1 DEF ImageIsLoadable, TextBase
  <1>7. 1 \in 1 .. Len(s) /\ s[1].size = program.codeSize
    <2>1. Shape(AsCtx(image, program), program, k) /\ AsCtx(image, program).sections = s
          /\ k \in Nat \ {0}
      BY WrittenImage
    <2>. HIDE DEF k, s
    <2>. QED
      BY <2>1, ShapeHasText
  <1>. HIDE DEF s, k, a, b
  <1>8. LoadedWord(TextBase + h) = (a + b + offset) - (h + 4)
    <2>1. h < s[1].size
      BY <1>2, <1>7
    <2>2. LoadedWord(s[1].va + h) = Word(s[1], h)
      BY <1>2, <1>7, <2>1, PayloadLoaded DEF s
    <2>. QED
      BY <1>5, <1>6, <2>2 DEF Word
  <1>9. PointedTo(h) = s[k].va + offset
    <2>1. PointedTo(h) = TextBase + h + 4 + LoadedWord(TextBase + h)
      BY DEF PointedTo
    <2>2. offset \in Nat
      BY <1>2
    <2>. HIDE DEF offset
    <2>3. SECTION_ALIGNMENT + h + 4 + ((a + b + offset) - (h + 4)) = SECTION_ALIGNMENT + a + b + offset
      BY <1>2, <1>3, <2>2
    <2>. QED
      BY <1>4, <1>6, <1>8, <2>1, <2>3
  <1>10. SectionAt(s[k].va + offset) = k
    <2>1. offset \in Nat /\ offset < s[k].size
      BY <1>2, <1>4
    <2>. QED
      BY <1>4, <2>1, PayloadLoaded DEF s
  <1>11. k # 0 /\ (s[k].va + offset) - s[k].va = offset
    BY <1>2, <1>3, <1>4
  <1>. QED
    BY <1>4, <1>9, <1>10, <1>11 DEF s

\* Every reference to a constant in a written image lands on the constant,
\* whatever the sizes of the code, the data and the constants.
THEOREM ReferencesAlwaysReach == Spec => []ReferencesReachTheirConstants
  BY Invariant, ReferencesOK, PTL

-----------------------------------------------------------------------------
(* The import data, and that Finalize links the context to it: what the    *)
(* directories point at, what the tables hold, and which slot is whose.    *)

HIDE DEF SECTION_ALIGNMENT, FILE_ALIGNMENT

\* The part of the import data that one library has.
WordsOf(c, base, i) ==
    { <<(i - 1) * DESCRIPTOR_SIZE, base + IltOffset(c, i)>>,
      <<(i - 1) * DESCRIPTOR_SIZE + 12, base + NameOffset(c, i)>>,
      <<(i - 1) * DESCRIPTOR_SIZE + 16, base + IatOffset(c, i)>> }
    \cup { <<IltOffset(c, i) + (j - 1) * THUNK_SIZE, base + HintOffset(c, i, j)>> :
             j \in DOMAIN c.imports[i].functions }
    \cup { <<IatOffset(c, i) + (j - 1) * THUNK_SIZE, base + HintOffset(c, i, j)>> :
             j \in DOMAIN c.imports[i].functions }
NamesOf(c, i) ==
    {<<NameOffset(c, i), c.imports[i].dll>>}
    \cup {<<HintOffset(c, i, j), c.imports[i].functions[j].name>> :
            j \in DOMAIN c.imports[i].functions}

\* Pairs as a function, the way the import data is defined from them.
OfPairs(pairs) == [o \in {p[1] : p \in pairs} |-> (CHOOSE p \in pairs : p[1] = o)[2]]

LEMMA ImportDataIs ==
    ASSUME NEW c, NEW base
    PROVE  /\ ImportWords(c, base) = OfPairs(UNION {WordsOf(c, base, i) : i \in DOMAIN c.imports})
           /\ ImportNames(c) = OfPairs(UNION {NamesOf(c, i) : i \in DOMAIN c.imports})
  BY DEF ImportWords, ImportNames, OfPairs, WordsOf, NamesOf

\* Slots and hints do not matter to where things are in the import data.
SameOffsets(c, d) ==
    /\ ImportSize(d) = ImportSize(c) /\ ImportNames(d) = ImportNames(c)
    /\ \A base : ImportWords(d, base) = ImportWords(c, base)
    /\ \A i \in 1 .. Len(c.imports) : IatOffset(d, i) = IatOffset(c, i)

LEMMA RenumberedOffsets ==
    ASSUME NEW c, c.imports \in Seq(LibRecords), NEW d, Renumbered(c.imports, d.imports)
    PROVE  SameOffsets(c, d)
  <1>. DEFINE x == c.imports
              y == d.imports
              n == Len(x)
  <1>1. /\ DOMAIN x = 1 .. n /\ DOMAIN y = 1 .. n /\ Len(y) = n
        /\ \A i \in 1 .. n : x[i] \in LibRecords /\ y[i] \in LibRecords
    BY Members DEF Renumbered
  <1>2. ASSUME NEW i \in 1 .. n
        PROVE  /\ y[i].dll = x[i].dll /\ Len(y[i].functions) = Len(x[i].functions)
               /\ DOMAIN x[i].functions = 1 .. Len(x[i].functions)
               /\ DOMAIN y[i].functions = 1 .. Len(x[i].functions)
               /\ \A j \in 1 .. Len(x[i].functions) : y[i].functions[j].name = x[i].functions[j].name
    <2>1. x[i].functions \in Seq(FnRecords) /\ y[i].functions \in Seq(FnRecords)
      BY <1>1 DEF LibRecords
    <2>. QED
      BY <2>1, Members DEF Renumbered
  <1>. HIDE DEF x, y, n
  <1>3. ASSUME NEW i \in 1 .. n
        PROVE  /\ HintSizes(y[i]) = HintSizes(x[i]) /\ ThunksSize(y[i]) = ThunksSize(x[i])
               /\ LibrarySize(y[i]) = LibrarySize(x[i])
    <2>1. HintSizes(y[i]) = HintSizes(x[i])
      BY <1>2 DEF HintSizes, HintSize
    <2>2. ThunksSize(y[i]) = ThunksSize(x[i])
      BY <1>2 DEF ThunksSize
    <2>. QED
      BY <1>2, <2>1, <2>2 DEF LibrarySize
  <1>4. LibrarySizes(d) = LibrarySizes(c)
    BY <1>1, <1>3 DEF LibrarySizes, x, y
  <1>5. ImportSize(d) = ImportSize(c)
    BY <1>1, <1>4 DEF ImportSize, x, y
  <1>6. ASSUME NEW i \in 1 .. n
        PROVE  /\ IltOffset(d, i) = IltOffset(c, i) /\ IatOffset(d, i) = IatOffset(c, i)
               /\ \A j : HintOffset(d, i, j) = HintOffset(c, i, j)
               /\ NameOffset(d, i) = NameOffset(c, i)
    <2>1. IltOffset(d, i) = IltOffset(c, i)
      BY <1>1, <1>4 DEF IltOffset, x, y
    <2>2. IatOffset(d, i) = IatOffset(c, i)
      BY <1>3, <2>1 DEF IatOffset, x, y
    <2>3. \A j : HintOffset(d, i, j) = HintOffset(c, i, j)
      BY <1>3, <2>2 DEF HintOffset, x, y
    <2>. QED
      BY <1>2, <2>1, <2>2, <2>3 DEF NameOffset, x, y
  <1>7. ASSUME NEW i \in 1 .. n
        PROVE  /\ \A base : WordsOf(d, base, i) = WordsOf(c, base, i)
               /\ NamesOf(d, i) = NamesOf(c, i)
    <2>1. DOMAIN d.imports[i].functions = DOMAIN c.imports[i].functions
      BY <1>2 DEF x, y
    <2>2. \A base : WordsOf(d, base, i) = WordsOf(c, base, i)
      BY <1>6, <2>1 DEF WordsOf
    <2>3. \A j \in DOMAIN c.imports[i].functions :
             d.imports[i].functions[j].name = c.imports[i].functions[j].name
      BY <1>2 DEF x, y
    <2>4. d.imports[i].dll = c.imports[i].dll
      BY <1>2 DEF x, y
    <2>5. NamesOf(d, i) = NamesOf(c, i)
      BY <1>6, <2>1, <2>3, <2>4 DEF NamesOf
    <2>. QED
      BY <2>2, <2>5
  <1>8. DOMAIN d.imports = 1 .. n /\ DOMAIN c.imports = 1 .. n
    BY <1>1 DEF x, y
  <1>9. ASSUME NEW base PROVE ImportWords(d, base) = ImportWords(c, base)
    <2>1. UNION {WordsOf(d, base, i) : i \in DOMAIN d.imports}
            = UNION {WordsOf(c, base, i) : i \in DOMAIN c.imports}
      BY <1>7, <1>8
    <2>. QED
      BY <2>1, ImportDataIs
  <1>10. ImportNames(d) = ImportNames(c)
    <2>1. UNION {NamesOf(d, i) : i \in DOMAIN d.imports} = UNION {NamesOf(c, i) : i \in DOMAIN c.imports}
      BY <1>7, <1>8
    <2>. QED
      BY <2>1, ImportDataIs
  <1>. QED
    BY <1>5, <1>6, <1>9, <1>10 DEF SameOffsets, n, x

-----------------------------------------------------------------------------
(* The import data through Finalize. *)

LEMMA SyntheticKeeps ==
    ASSUME NEW c, IsCtx(c), NEW s, NEW m \in 1 .. Len(c.sections), c.sections[m].name # s.name
    PROVE  SyntheticSection(c, s).sections[m] = c.sections[m]
  <1>. DEFINE f == FindSection(c, s.name)
              d == SyntheticSection(c, s)
  <1>0. /\ DOMAIN c = CtxFields /\ Len(c.sections) \in Nat /\ DOMAIN c.sections = 1 .. Len(c.sections)
        /\ c.sections = [i \in 1 .. Len(c.sections) |-> c.sections[i]]
    BY DEF IsCtx
  <1>1. CASE f = 0
    <2>1. d = [c EXCEPT !.sections = Append(c.sections, s)]
      BY <1>1 DEF SyntheticSection, AddSection
    <2>2. d.sections = Append(c.sections, s)
      BY <2>1, <1>0 DEF CtxFields
    <2>. QED
      BY <2>2, <1>0, AppendIs
  <1>2. CASE f # 0
    <2>1. c.sections[f].name = s.name
      BY <1>2, FindSectionIs
    <2>2. m # f
      BY <2>1
    <2>. DEFINE e == [s EXCEPT !.va = c.sections[f].va, !.ptr = c.sections[f].ptr]
    <2>3. d = [c EXCEPT !.sections[f] = e]
      BY <1>2 DEF SyntheticSection
    <2>. HIDE DEF d, e, f
    <2>4. d.sections[m] = c.sections[m]
      BY <2>2, <2>3, <1>0 DEF CtxFields
    <2>. QED
      BY <2>4 DEF d
  <1>. QED
    BY <1>1, <1>2

\* A blob or a patch leaves the section of another name as it is.
LEMMA ExceptionsKeep ==
    ASSUME NEW c, IsCtx(c), NEW m \in 1 .. Len(c.sections), c.sections[m].name # ".pdata"
    PROVE  BuildExceptions(c).sections[m] = c.sections[m]
  <1>. DEFINE d == DefaultRecord(c)
              n == Len(d.unwind)
              records == [i \in 1 .. n |->
                  [d.unwind[i] EXCEPT !.info = n * RECORD_SIZE + (i - 1) * UNWIND_INFO_SIZE]]
              e == [d EXCEPT !.unwind = records]
              s == Section(".pdata", n * (RECORD_SIZE + UNWIND_INFO_SIZE),
                           ExceptionWords(records, 0), Empty, FALSE)
  <1>1. DOMAIN d = CtxFields /\ d.sections = c.sections
    BY DEF DefaultRecord, AddExceptionInfo, IsCtx, CtxFields
  <1>2. BuildExceptions(c) = SyntheticSection(e, s)
    BY DEF BuildExceptions
  <1>3. s.name = ".pdata"
    BY DEF Section
  <1>. HIDE DEF s, records, d
  <1>4. DOMAIN e = CtxFields /\ e.sections = c.sections
    BY <1>1 DEF CtxFields
  <1>. HIDE DEF e
  <1>5. IsCtx(e)
    BY <1>4 DEF IsCtx
  <1>. QED
    BY <1>2, <1>3, <1>4, <1>5, SyntheticKeeps

LEMMA RelocationsKeep ==
    ASSUME NEW c, IsCtx(c), NEW m \in 1 .. Len(c.sections), c.sections[m].name # ".reloc"
    PROVE  BuildRelocations(c).sections[m] = c.sections[m]
  <1>. DEFINE s == Section(".reloc", RELOC_SIZE,
                    [o \in {0, 4} |-> IF o = 0 THEN SECTION_ALIGNMENT ELSE RELOC_SIZE], Empty, FALSE)
  <1>1. BuildRelocations(c) = SyntheticSection(c, s) /\ s.name = ".reloc"
    BY DEF BuildRelocations, Section
  <1>. HIDE DEF s
  <1>. QED
    BY <1>1, SyntheticKeeps

LEMMA PdataPatchKeeps ==
    ASSUME NEW c, IsCtx(c), NEW m \in 1 .. Len(c.sections), c.sections[m].name # ".pdata"
    PROVE  PatchPdata(c).sections[m] = c.sections[m]
  <1>. DEFINE f == FindSection(c, ".pdata")
              records == [k \in DOMAIN c.unwind |->
                             OverText(c.unwind[k], c.sections[FindSection(c, ".text")])]
              words == ExceptionWords(records, VaOf(c, ".pdata"))
              d == PatchPdata(c)
  <1>1. f # 0 => c.sections[f].name = ".pdata"
    BY FindSectionIs
  <1>2. m # f /\ m \in DOMAIN c.sections
    BY <1>1 DEF IsCtx
  <1>3. d = [[c EXCEPT !.unwind = records] EXCEPT !.sections[f].words = words]
    BY DEF PatchPdata, WithWords
  <1>. HIDE DEF f, records, words, d
  <1>4. d.sections[m] = c.sections[m]
    BY <1>2, <1>3 DEF IsCtx, CtxFields
  <1>. QED
    BY <1>4 DEF d

\* The slots of the functions, counted from base.
Numbered(x, c, base) ==
    \A i \in 1 .. Len(x) : \A j \in 1 .. Len(x[i].functions) :
        x[i].functions[j].iat = base + (IatOffset(c, i) + (j - 1) * THUNK_SIZE)

HoldsTables(d, c, k) ==
    /\ FindSection(d, ".idata") = k /\ k \in 1 .. Len(d.sections)
    /\ d.sections[k].name = ".idata" /\ d.sections[k].size = ImportSize(c)
    /\ d.sections[k].names = ImportNames(c)

\* The imports of a library, replaced: what the new ones are.
LEMMA ReplacedAt ==
    ASSUME NEW x \in Seq(LibRecords), NEW g
    PROVE  LET y == [i \in DOMAIN x |-> [x[i] EXCEPT !.functions = g[i]]]
           IN  Len(y) = Len(x) /\ \A i \in 1 .. Len(x) : y[i].functions = g[i]
  <1>1. DOMAIN x = 1 .. Len(x) /\ Len(x) \in Nat /\ \A i \in 1 .. Len(x) : x[i] \in LibRecords
    BY Members
  <1>. DEFINE e(i) == [x[i] EXCEPT !.functions = g[i]]
              y == [i \in DOMAIN x |-> e(i)]
  <1>2. \A i \in 1 .. Len(x) : e(i).functions = g[i]
    BY <1>1 DEF LibRecords
  <1>. HIDE DEF e
  <1>3. Len(y) = Len(x) /\ \A i \in 1 .. Len(x) : y[i] = e(i)
    BY <1>1
  <1>. HIDE DEF y
  <1>4. Len(y) = Len(x) /\ \A i \in 1 .. Len(x) : y[i].functions = g[i]
    BY <1>2, <1>3
  <1>. QED
    BY <1>4 DEF y, e

IsPut(c, d, s, p, n) ==
    /\ Shape(c, p, n) /\ IsSection(s) /\ s.name \in TailNames
    /\ Put(c, d, PlaceOf(c, s.name), s)

LEMMA PutPlace ==
    ASSUME NEW p, NEW n \in Nat, NEW c, NEW s, NEW d, IsPut(c, d, s, p, n)
    PROVE  FindSection(d, s.name) = PlaceOf(c, s.name)
  <1>1. /\ Shape(c, p, n) /\ IsSection(s) /\ s.name \in TailNames
        /\ Put(c, d, PlaceOf(c, s.name), s)
    BY DEF IsPut
  <1>. QED
    BY <1>1, PutShape

LEMMA ImportsPlaced ==
    ASSUME NEW p, NEW n \in Nat, NEW c, Shape(c, p, n), c.imports \in Seq(LibRecords),
           c.imports # <<>>
    PROVE  LET d == BuildImports(c) IN
           HoldsTables(d, c, PlaceOf(c, ".idata")) /\ Numbered(d.imports, c, 0)
  <1>. DEFINE x == c.imports
              d == BuildImports(c)
              g == [i \in 1 .. Len(x) |->
                      [j \in DOMAIN x[i].functions |->
                         [name |-> x[i].functions[j].name,
                          iat  |-> IatOffset(c, i) + (j - 1) * THUNK_SIZE,
                          hint |-> HintOffset(c, i, j)]]]
              y == [i \in DOMAIN x |-> [x[i] EXCEPT !.functions = g[i]]]
              e == [c EXCEPT !.imports = y]
              s == Section(".idata", ImportSize(c), ImportWords(c, 0), ImportNames(c), FALSE)
  <1>0. DOMAIN x = 1 .. Len(x) /\ Len(x) \in Nat /\ \A i \in 1 .. Len(x) : x[i] \in LibRecords
    BY Members
  <1>1. d = SyntheticSection(e, s)
    <2>. DEFINE z == [i \in DOMAIN x |-> [x[i] EXCEPT !.functions =
                      [j \in DOMAIN x[i].functions |->
                         [name |-> x[i].functions[j].name,
                          iat  |-> IatOffset(c, i) + (j - 1) * THUNK_SIZE,
                          hint |-> HintOffset(c, i, j)]]]]
    <2>1. y = z
      BY <1>0
    <2>2. d = SyntheticSection([c EXCEPT !.imports = z], s)
      BY DEF BuildImports
    <2>. HIDE DEF y, z, s, d
    <2>. QED
      BY <2>1, <2>2
  <1>2. Numbered(y, c, 0)
    <2>1. ASSUME NEW i \in 1 .. Len(x), NEW j \in 1 .. Len(g[i])
          PROVE  g[i][j].iat = 0 + (IatOffset(c, i) + (j - 1) * THUNK_SIZE)
      <3>1. x[i].functions \in Seq(FnRecords)
        BY <1>0 DEF LibRecords
      <3>2. DOMAIN x[i].functions = 1 .. Len(x[i].functions) /\ Len(x[i].functions) \in Nat
        BY <3>1, Members
      <3>. DEFINE e_(k) == [name |-> x[i].functions[k].name,
                            iat  |-> IatOffset(c, i) + (k - 1) * THUNK_SIZE,
                            hint |-> HintOffset(c, i, k)]
      <3>3. g[i] = [k \in 1 .. Len(x[i].functions) |-> e_(k)]
        BY <3>2
      <3>4. e_(j).iat = IatOffset(c, i) + (j - 1) * THUNK_SIZE
        OBVIOUS
      <3>. HIDE DEF e_, g
      <3>5. Len(g[i]) = Len(x[i].functions) /\ g[i][j] = e_(j)
        BY <3>2, <3>3
      <3>6. IatOffset(c, i) + (j - 1) * THUNK_SIZE \in Nat
        <4>1. IatOffset(c, i) \in Nat
          BY ImportOffsets
        <4>2. (j - 1) * THUNK_SIZE \in Nat
          BY <3>2, <3>5 DEF THUNK_SIZE
        <4>. QED
          BY <4>1, <4>2
      <3>. QED
        BY <3>4, <3>5, <3>6
    <2>. HIDE DEF g
    <2>2. Len(y) = Len(x) /\ \A i \in 1 .. Len(x) : y[i].functions = g[i]
      BY ReplacedAt
    <2>. HIDE DEF y, x
    <2>. QED
      BY <2>1, <2>2 DEF Numbered
  <1>. HIDE DEF y, g
  <1>3. Shape(e, p, n) /\ IsCtx(e) /\ e.imports = y /\ PlaceOf(e, ".idata") = PlaceOf(c, ".idata")
    <2>1. DOMAIN e = CtxFields /\ e.sections = c.sections /\ e.imports = y
      BY DEF Shape, IsCtx, CtxFields
    <2>. HIDE DEF e
    <2>2. IsCtx(e)
      BY <2>1 DEF Shape, IsCtx
    <2>3. SameKinds(c, e)
      BY <2>1, <2>2 DEF SameKinds
    <2>4. Shape(e, p, n) /\ \A name : FindSection(e, name) = FindSection(c, name)
      BY <2>3, ShapeKept
    <2>. QED
      BY <2>1, <2>2, <2>4 DEF PlaceOf
  <1>4. /\ IsSection(s) /\ s.name = ".idata" /\ s.name \in TailNames
        /\ s.size = ImportSize(c) /\ s.names = ImportNames(c)
    BY ImportOffsets DEF Section, IsSection, SectionFields, TailNames
  <1>. HIDE DEF d, e, s
  <1>5. Put(e, d, PlaceOf(e, s.name), s)
    BY <1>1, <1>3, <1>4, SyntheticSectionPut
  <1>6. FindSection(d, s.name) = PlaceOf(e, s.name)
    <2>1. IsPut(e, d, s, p, n)
      BY <1>3, <1>4, <1>5 DEF IsPut
    <2>. QED
      BY <2>1, PutPlace
  <1>7. HoldsTables(d, c, PlaceOf(c, ".idata"))
    BY <1>3, <1>4, <1>5, <1>6 DEF Put, Payload, HoldsTables
  <1>8. d.imports = y
    BY <1>3, <1>5 DEF Put, SameElsewhere
  <1>. QED
    BY <1>2, <1>7, <1>8 DEF d

\* The tables stay where they are when their section is left alone.
LEMMA TablesKept ==
    ASSUME NEW c, NEW d, NEW e, IsCtx(e), NEW k \in Nat, HoldsTables(d, c, k),
           FindSection(e, ".idata") = FindSection(d, ".idata"), e.sections[k] = d.sections[k]
    PROVE  HoldsTables(e, c, k)
  <1>1. k # 0 /\ FindSection(e, ".idata") = k
    BY DEF HoldsTables
  <1>2. FindSection(e, ".idata") \in 0 .. Len(e.sections) /\ Len(e.sections) \in Nat
    BY FindSectionIs DEF IsCtx
  <1>. QED
    BY <1>1, <1>2 DEF HoldsTables

LEMMA BlobsHoldTables ==
    ASSUME NEW p, NEW n \in Nat \ {0}, NEW c, Finalizable(c, p, n), c.imports # <<>>
    PROVE  /\ HoldsTables(Blobs(c), c, PlaceOf(c, ".idata"))
           /\ Numbered(Blobs(c).imports, c, 0)
  <1>. DEFINE b1 == BuildImports(c)
              b2 == BuildExceptions(b1)
              b3 == BuildRelocations(b2)
              k == PlaceOf(c, ".idata")
  <1>1. Stage(c, b1, p, n) /\ b1.unwind = c.unwind
    BY ImportsBuilt DEF Finalizable
  <1>2. Shape(b1, p, n) /\ b1.imports \in Seq(LibRecords) /\ b1.unwind \in {<<>>, OneRecord(p)}
    BY <1>1 DEF Stage, Renumbered, Finalizable
  <1>3. HoldsTables(b1, c, k) /\ Numbered(b1.imports, c, 0)
    BY ImportsPlaced DEF Finalizable
  <1>0. k \in Nat
    BY FindSectionIs DEF PlaceOf, Finalizable, Shape, IsCtx
  <1>. HIDE DEF b1, k
  <1>4. /\ Stage(b1, b2, p, n) /\ b2.imports = b1.imports /\ PdataIs(b2, p, n)
        /\ FindSection(b2, ".idata") = FindSection(b1, ".idata")
    BY <1>2, ExceptionsBuilt
  <1>5. b2.sections[k] = b1.sections[k]
    <2>1. IsCtx(b1) /\ k \in 1 .. Len(b1.sections) /\ b1.sections[k].name # ".pdata"
      BY <1>2, <1>3 DEF HoldsTables, Shape
    <2>. QED
      BY <2>1, ExceptionsKeep
  <1>6. HoldsTables(b2, c, k) /\ IsCtx(b2) /\ Shape(b2, p, n)
    <2>1. IsCtx(b2) /\ Shape(b2, p, n)
      BY <1>4 DEF Stage, Shape
    <2>. QED
      BY <1>0, <1>3, <1>4, <1>5, <2>1, TablesKept
  <1>7. b2.imports \in Seq(LibRecords)
    BY <1>2, <1>4
  <1>. HIDE DEF b2
  <1>8. /\ Stage(b2, b3, p, n) /\ b3.imports = b2.imports
        /\ FindSection(b3, ".idata") = FindSection(b2, ".idata")
    BY <1>4, <1>6, <1>7, RelocationsBuilt
  <1>9. b3.sections[k] = b2.sections[k]
    <2>1. k \in 1 .. Len(b2.sections) /\ b2.sections[k].name # ".reloc"
      BY <1>6 DEF HoldsTables
    <2>. QED
      BY <1>6, <2>1, RelocationsKeep
  <1>10. IsCtx(b3)
    BY <1>8 DEF Stage, Shape
  <1>. HIDE DEF b3
  <1>11. HoldsTables(b3, c, k)
    BY <1>0, <1>6, <1>8, <1>9, <1>10, TablesKept
  <1>. QED
    BY <1>3, <1>4, <1>8, <1>11 DEF Blobs, b1, b2, b3, k

\* The directory of the imports, and the slots once the address of the
\* import data is added to them.
LEMMA DirectoriesLink ==
    ASSUME NEW c, IsCtx(c), c.imports \in Seq(LibRecords), NEW b,
           c.imports # <<>> => VaOf(c, ".idata") \in Nat, Numbered(c.imports, b, 0),
           \A i \in 1 .. Len(c.imports) : IatOffset(b, i) \in Nat
    PROVE  LET d == PatchDirectories(c) IN
           /\ d.dir.import = IF c.imports = <<>> THEN 0 ELSE VaOf(c, ".idata")
           /\ Numbered(d.imports, b, VaOf(c, ".idata"))
  <1>. DEFINE x == c.imports
              v == VaOf(c, ".idata")
              dir == [exception |-> VaOf(c, ".pdata"),
                      exceptionSize |-> Len(c.unwind) * RECORD_SIZE,
                      relocation |-> VaOf(c, ".reloc"),
                      import |-> IF c.imports = <<>> THEN 0 ELSE v,
                      importSize |-> IF c.imports = <<>> THEN 0
                                     ELSE (Len(c.imports) + 1) * DESCRIPTOR_SIZE,
                      iat |-> IF c.imports = <<>> THEN 0 ELSE v + IatOffset(c, 1),
                      iatSize |-> SumOver(ThunkSizes(c), Len(c.imports))]
              e == [c EXCEPT !.dir = dir]
              d == PatchDirectories(c)
              g == [i \in 1 .. Len(x) |-> [j \in DOMAIN x[i].functions |->
                       [x[i].functions[j] EXCEPT !.iat = @ + v]]]
              y == [i \in DOMAIN x |-> [x[i] EXCEPT !.functions = g[i]]]
  <1>0. dir.import = IF x = <<>> THEN 0 ELSE v
    OBVIOUS
  <1>1. d = IF x = <<>> THEN e
            ELSE [e EXCEPT !.imports = [i \in DOMAIN e.imports |->
                 [e.imports[i] EXCEPT !.functions = [j \in DOMAIN e.imports[i].functions |->
                     [e.imports[i].functions[j] EXCEPT !.iat = @ + v]]]]]
    <2>1. e.imports = x
      BY DEF IsCtx, CtxFields
    <2>. HIDE DEF e
    <2>. QED
      BY <2>1 DEF PatchDirectories, e
  <1>. HIDE DEF dir, d
  <1>2. DOMAIN e = CtxFields /\ e.imports = x /\ e.dir = dir
    BY DEF IsCtx, CtxFields
  <1>. HIDE DEF e
  <1>3. DOMAIN x = 1 .. Len(x) /\ \A i \in 1 .. Len(x) : x[i] \in LibRecords
    BY Members
  <1>4. x # <<>> => d = [e EXCEPT !.imports = y]
    <2>. DEFINE z == [i \in DOMAIN x |-> [x[i] EXCEPT !.functions =
                        [j \in DOMAIN x[i].functions |-> [x[i].functions[j] EXCEPT !.iat = @ + v]]]]
    <2>1. y = z
      BY <1>3
    <2>2. x # <<>> => d = [e EXCEPT !.imports = z]
      BY <1>1, <1>2
    <2>. HIDE DEF y, z
    <2>. QED
      BY <2>1, <2>2
  <1>5. ASSUME x # <<>> PROVE Numbered(y, b, v)
    <2>0. v \in Nat
      BY <1>5
    <2>1. ASSUME NEW i \in 1 .. Len(x), NEW j \in 1 .. Len(g[i])
          PROVE  g[i][j].iat = v + (IatOffset(b, i) + (j - 1) * THUNK_SIZE)
      <3>. DEFINE fs == x[i].functions
                  f(k) == [fs[k] EXCEPT !.iat = @ + v]
      <3>1. fs \in Seq(FnRecords)
        BY <1>3 DEF LibRecords
      <3>2. DOMAIN fs = 1 .. Len(fs) /\ Len(fs) \in Nat /\ \A k \in 1 .. Len(fs) : fs[k] \in FnRecords
        BY <3>1
      <3>3. g[i] = [k \in 1 .. Len(fs) |-> f(k)]
        BY <3>2
      <3>4. \A k \in 1 .. Len(fs) : f(k).iat = fs[k].iat + v
        BY <3>2 DEF FnRecords
      <3>. HIDE DEF f, g
      <3>5. Len(g[i]) = Len(fs) /\ g[i][j] = f(j)
        BY <3>2, <3>3
      <3>6. fs[j].iat = 0 + (IatOffset(b, i) + (j - 1) * THUNK_SIZE)
        BY <3>5 DEF Numbered
      <3>7. IatOffset(b, i) \in Nat /\ (j - 1) * THUNK_SIZE \in Nat
        BY <3>2, <3>5 DEF THUNK_SIZE
      <3>. HIDE DEF fs, v
      <3>8. f(j).iat = fs[j].iat + v
        BY <3>4, <3>5
      <3>. QED
        BY <2>0, <3>5, <3>6, <3>7, <3>8
    <2>. HIDE DEF g
    <2>2. Len(y) = Len(x) /\ \A i \in 1 .. Len(x) : y[i].functions = g[i]
      BY ReplacedAt
    <2>. HIDE DEF y, x
    <2>. QED
      BY <2>1, <2>2 DEF Numbered
  <1>. HIDE DEF y
  <1>6. CASE x = <<>>
    <2>1. d.imports = <<>> /\ d.dir = dir
      BY <1>1, <1>2, <1>6
    <2>2. Numbered(<<>>, b, v)
      BY DEF Numbered
    <2>. QED
      BY <1>0, <2>1, <2>2 DEF d
  <1>7. CASE x # <<>>
    <2>1. d.imports = y /\ d.dir = dir
      BY <1>2, <1>4, <1>7 DEF CtxFields
    <2>. QED
      BY <1>0, <1>5, <1>7, <2>1 DEF d
  <1>. QED
    BY <1>6, <1>7

\* Where the import data is in memory: behind the sections of the program.
FrontPages(p) == [i \in 1 .. FrontLen(p) |-> EXE_AlignUp(FrontSize(p, i), SECTION_ALIGNMENT)]
IdataVa(p) == SECTION_ALIGNMENT + SumOver(FrontPages(p), FrontLen(p))

LEMMA IdataVaIs ==
    ASSUME NEW p, FrontLen(p) \in Nat, NEW c, Shape(c, p, FrontLen(p)), LaidOut(c),
           FrontLen(p) + 1 \in 1 .. Len(c.sections)
    PROVE  c.sections[FrontLen(p) + 1].va = IdataVa(p)
  <1>. DEFINE n == FrontLen(p)
  <1>1. /\ DOMAIN c.sections = 1 .. Len(c.sections) /\ Len(c.sections) \in Nat
        /\ n <= Len(c.sections) /\ \A i \in 1 .. n : c.sections[i].size = FrontSize(p, i)
    BY DEF Shape, HasFront, IsCtx
  <1>2. \A i \in 1 .. n : PageSizes(c)[i] = FrontPages(p)[i]
    BY <1>1 DEF PageSizes, PagesOf, FrontPages
  <1>3. SumOver(PageSizes(c), n) = SumOver(FrontPages(p), n)
    <2>1. IsFiniteSet(1 .. n)
      BY FS_Interval
    <2>. QED
      BY <1>2, <2>1, SumCongruence DEF SumOver
  <1>4. c.sections[n + 1].va = SECTION_ALIGNMENT + SumOver(PageSizes(c), (n + 1) - 1)
    BY DEF LaidOut
  <1>5. (n + 1) - 1 = n
    OBVIOUS
  <1>. QED
    BY <1>3, <1>4, <1>5 DEF IdataVa

\* What the import data of a finalized context is, and where its slots are.
Linked(c, p) ==
    IF c.imports = <<>> THEN c.dir.import = 0
    ELSE LET k == FrontLen(p) + 1 IN
         /\ HoldsTables(c, c, k)
         /\ c.sections[k].words = ImportWords(c, IdataVa(p)) /\ c.sections[k].va = IdataVa(p)
         /\ c.dir.import = IdataVa(p) /\ IdataVa(p) \in Nat /\ IdataVa(p) >= SECTION_ALIGNMENT
         /\ Numbered(c.imports, c, IdataVa(p))

LEMMA FinalizedLinked ==
    ASSUME NEW p, FrontLen(p) \in Nat \ {0}, NEW c, Finalizable(c, p, FrontLen(p)),
           c.imports # <<>> => PlaceOf(c, ".idata") = FrontLen(p) + 1
    PROVE  Linked(Finalize(c), p)
  <1>. DEFINE n == FrontLen(p)
              k == n + 1
              v == IdataVa(p)
              b == Blobs(c)
              a == AssignLayout(b)
              q1 == PatchDirectories(a)
              q2 == PatchIdata(q1)
              q3 == PatchPdata(q2)
  <1>0. Finalize(c) = q3 /\ c.imports \in Seq(LibRecords) /\ k \in Nat /\ n \in Nat \ {0}
    BY DEF Finalize, Blobs, Finalizable
  <1>1. /\ Stage(c, b, p, n) /\ PdataIs(b, p, n) /\ b.imports \in Seq(LibRecords)
        /\ c.imports # <<>> => HoldsTables(b, c, k) /\ Numbered(b.imports, c, 0)
    BY BlobsBuilt, BlobsHoldTables
  <1>2. Shape(b, p, n) /\ IsCtx(b) /\ Renumbered(c.imports, b.imports)
    BY <1>1 DEF Stage, Shape
  <1>. HIDE DEF b, n, v
  <1>3. /\ IsCtx(a) /\ LaidOut(a) /\ a.imports = b.imports /\ a.unwind = b.unwind
        /\ Len(a.sections) = Len(b.sections)
        /\ \A i \in 1 .. Len(b.sections) : Payload(a, i, b.sections[i])
    BY <1>2, LayoutAssigned
  <1>. HIDE DEF a
  <1>4. Shape(a, p, n) /\ \A name : FindSection(a, name) = FindSection(b, name)
    <2>1. SameKinds(b, a)
      BY <1>3 DEF SameKinds, Payload
    <2>. QED
      BY <1>0, <1>2, <2>1, ShapeKept
  <1>5. c.imports # <<>> =>
           /\ HoldsTables(a, c, k) /\ a.sections[k].va = v /\ v \in Nat /\ v >= SECTION_ALIGNMENT
           /\ VaOf(a, ".idata") = v
    <2>. SUFFICES ASSUME c.imports # <<>>
         PROVE  /\ HoldsTables(a, c, k) /\ a.sections[k].va = v /\ v \in Nat
                /\ v >= SECTION_ALIGNMENT /\ VaOf(a, ".idata") = v
      OBVIOUS
    <2>1. HoldsTables(a, c, k)
      BY <1>1, <1>3, <1>4 DEF HoldsTables, Payload
    <2>2. k \in 1 .. Len(a.sections) /\ FindSection(a, ".idata") = k
      BY <2>1 DEF HoldsTables
    <2>3. a.sections[k].va = v
      BY <1>0, <1>3, <1>4, <2>2, IdataVaIs DEF n, v
    <2>4. a.sections[k].va \in Nat /\ a.sections[k].va >= SECTION_ALIGNMENT
      BY <1>3, <2>2, LayoutChain
    <2>. QED
      BY <2>1, <2>2, <2>3, <2>4 DEF VaOf
  <1>6. SameOffsets(c, b) /\ \A i \in 1 .. Len(c.imports) : IatOffset(c, i) \in Nat
    BY <1>0, <1>2, RenumberedOffsets, ImportOffsets
  <1>7. Len(b.imports) = Len(c.imports) /\ (b.imports = <<>> <=> c.imports = <<>>)
    BY <1>0, <1>1, <1>2 DEF Renumbered
  <1>8. Numbered(b.imports, c, 0)
    <2>1. CASE c.imports = <<>>
      BY <1>7, <2>1 DEF Numbered
    <2>. QED
      BY <1>1, <2>1
  <1>9. /\ q1.dir.import = IF c.imports = <<>> THEN 0 ELSE VaOf(a, ".idata")
        /\ Numbered(q1.imports, c, VaOf(a, ".idata"))
    <2>1. IsCtx(a) /\ a.imports \in Seq(LibRecords)
      BY <1>1, <1>3
    <2>2. a.imports # <<>> => VaOf(a, ".idata") \in Nat
      BY <1>3, <1>5, <1>7
    <2>3. /\ Numbered(a.imports, c, 0)
          /\ \A i \in 1 .. Len(a.imports) : IatOffset(c, i) \in Nat
      BY <1>3, <1>6, <1>7, <1>8
    <2>4. LET d == PatchDirectories(a) IN
           /\ d.dir.import = IF a.imports = <<>> THEN 0 ELSE VaOf(a, ".idata")
           /\ Numbered(d.imports, c, VaOf(a, ".idata"))
      BY <2>1, <2>2, <2>3, DirectoriesLink
    <2>. QED
      BY <1>3, <1>7, <2>4
  <1>10. /\ Patched(a, q1) /\ q1.sections = a.sections /\ q1.unwind = a.unwind
         /\ Renumbered(a.imports, q1.imports)
    <2>1. a.imports \in Seq(LibRecords) /\ (a.imports # <<>> => VaOf(a, ".idata") \in Nat)
      BY <1>1, <1>3, <1>5, <1>7
    <2>. QED
      BY <1>3, <2>1, DirectoriesPatched
  <1>. HIDE DEF q1
  <1>11. /\ Shape(q1, p, n) /\ LaidOut(q1) /\ IsCtx(q1)
         /\ \A name : FindSection(q1, name) = FindSection(a, name)
    <2>1. Shape(a, p, n) /\ LaidOut(a) /\ Patched(a, q1)
      BY <1>3, <1>4, <1>10
    <2>2. IsCtx(q1)
      BY <1>10 DEF Patched
    <2>. QED
      BY <1>0, <2>1, <2>2, PatchedKeeps
  <1>12. Renumbered(c.imports, q1.imports)
    BY <1>2, <1>3, <1>10, RenumberedTwice
  <1>13. /\ Patched(q1, q2) /\ q2.imports = q1.imports /\ q2.dir = q1.dir
         /\ q2.unwind = q1.unwind
    <2>1. /\ Patched(q1, PatchIdata(q1)) /\ PatchIdata(q1).imports = q1.imports
          /\ PatchIdata(q1).dir = q1.dir /\ PatchIdata(q1).unwind = q1.unwind
      <3>. HIDE DEF k, q2, q3
      <3>1. Shape(q1, p, n) /\ LaidOut(q1) /\ n \in Nat \ {0}
        BY <1>0, <1>11
      <3>. QED
        BY <3>1, IdataPatched
    <2>. QED
      BY <2>1
  <1>14. c.imports # <<>> => q2.sections[k] = [q1.sections[k] EXCEPT !.words = ImportWords(q1, v)]
    <2>. SUFFICES ASSUME c.imports # <<>>
         PROVE  q2.sections[k] = [q1.sections[k] EXCEPT !.words = ImportWords(q1, v)]
      OBVIOUS
    <2>1. /\ FindSection(q1, ".idata") = k /\ q1.sections[k].va = v
          /\ k \in 1 .. Len(q1.sections) /\ k # 0
      BY <1>5, <1>10, <1>11 DEF HoldsTables
    <2>. DEFINE words == ImportWords(q1, v)
    <2>2. q2 = WithWords(q1, k, words)
      BY <2>1 DEF PatchIdata
    <2>. HIDE DEF words, q2
    <2>3. q2.sections[k] = [q1.sections[k] EXCEPT !.words = words]
      BY <1>11, <2>1, <2>2, WordsReplaced
    <2>. QED
      BY <2>3 DEF words
  <1>. HIDE DEF q2
  <1>15. /\ Shape(q2, p, n) /\ LaidOut(q2) /\ IsCtx(q2)
         /\ \A name : FindSection(q2, name) = FindSection(q1, name)
    <2>1. IsCtx(q2)
      BY <1>13 DEF Patched
    <2>. QED
      BY <1>0, <1>11, <1>13, <2>1, PatchedKeeps
  <1>16. c.imports # <<>> =>
            /\ HoldsTables(q2, c, k) /\ q2.sections[k].words = ImportWords(q1, v)
            /\ q2.sections[k].va = v
    <2>. SUFFICES ASSUME c.imports # <<>>
         PROVE  /\ HoldsTables(q2, c, k) /\ q2.sections[k].words = ImportWords(q1, v)
                /\ q2.sections[k].va = v
      OBVIOUS
    <2>. DEFINE s == q1.sections[k]
                words == ImportWords(q1, v)
                t == [s EXCEPT !.words = words]
    <2>1. /\ k \in 1 .. Len(q1.sections) /\ s.va = v /\ s.name = ".idata"
          /\ s.size = ImportSize(c) /\ s.names = ImportNames(c)
      BY <1>5, <1>10 DEF HoldsTables
    <2>2. DOMAIN s = SectionFields
      BY <1>11, <2>1 DEF IsCtx, IsSection
    <2>. HIDE DEF s, words
    <2>3. /\ t.words = words /\ t.va = v /\ t.name = ".idata" /\ t.size = ImportSize(c)
          /\ t.names = ImportNames(c)
      BY <2>1, <2>2 DEF SectionFields
    <2>4. q2.sections[k] = t /\ Len(q2.sections) = Len(q1.sections)
      BY <1>13, <1>14 DEF Patched, s, words
    <2>5. FindSection(q2, ".idata") = k
      BY <1>5, <1>11, <1>15 DEF HoldsTables
    <2>. HIDE DEF t
    <2>. QED
      BY <2>1, <2>3, <2>4, <2>5 DEF HoldsTables, words
  <1>17. PdataIs(q2, p, n)
    <2>. DEFINE j == FindSection(b, ".pdata")
    <2>1. /\ b.unwind = OneRecord(p) /\ j \in n + 1 .. Len(b.sections)
          /\ b.sections[j].name = ".pdata" /\ b.sections[j].size = RECORD_SIZE + UNWIND_INFO_SIZE
      BY <1>1 DEF PdataIs
    <2>2. FindSection(q2, ".pdata") = j
      BY <1>4, <1>11, <1>15
    <2>. HIDE DEF j
    <2>3. j \in 1 .. Len(b.sections)
      BY <1>0, <1>2, <2>1 DEF IsCtx
    <2>4. /\ q2.sections[j].name = ".pdata" /\ q2.sections[j].size = RECORD_SIZE + UNWIND_INFO_SIZE
          /\ Len(q2.sections) = Len(b.sections)
      BY <1>3, <1>10, <1>13, <2>1, <2>3 DEF Patched, Payload
    <2>5. q2.unwind = OneRecord(p)
      BY <1>3, <1>10, <1>13, <2>1
    <2>. QED
      BY <2>1, <2>2, <2>4, <2>5 DEF PdataIs
  <1>18. /\ Patched(q2, q3) /\ q3.imports = q2.imports /\ q3.dir = q2.dir /\ IsCtx(q3)
    <2>1. LET d == PatchPdata(q2) IN
           /\ Patched(q2, d) /\ d.imports = q2.imports /\ d.dir = q2.dir
           /\ d.unwind = OneRecord(p)
           /\ d.sections[FindSection(q2, ".pdata")].words
                = ExceptionWords(OneRecord(p), VaOf(q2, ".pdata"))
           /\ \A i \in 1 .. n : d.sections[i].words = q2.sections[i].words
      <3>1. n \in Nat \ {0} /\ Shape(q2, p, n) /\ LaidOut(q2) /\ PdataIs(q2, p, n)
        BY <1>0, <1>15, <1>17
      <3>. QED
        BY <3>1, PdataPatched
    <2>. QED
      BY <2>1 DEF Patched
  <1>19. \A m \in 1 .. Len(q2.sections) :
            q2.sections[m].name # ".pdata" => q3.sections[m] = q2.sections[m]
    BY <1>15, PdataPatchKeeps
  <1>. HIDE DEF q3
  <1>20. \A name : FindSection(q3, name) = FindSection(q2, name)
    <2>1. n \in Nat /\ Shape(q2, p, n) /\ LaidOut(q2) /\ Patched(q2, q3)
      BY <1>0, <1>15, <1>18
    <2>. QED
      BY <2>1, PatchedKeeps
  <1>21. Renumbered(c.imports, q3.imports) /\ q3.dir = q1.dir /\ q3.imports = q1.imports
    BY <1>12, <1>13, <1>18
  <1>22. SameOffsets(c, q3) /\ SameOffsets(c, q1) /\ Len(q3.imports) = Len(c.imports)
    BY <1>0, <1>12, <1>21, RenumberedOffsets DEF Renumbered
  <1>23. CASE c.imports = <<>>
    <2>1. q3.imports = <<>>
      BY <1>21, <1>22, <1>23 DEF Renumbered
    <2>2. q3.dir.import = 0
      BY <1>9, <1>21, <1>23
    <2>. QED
      BY <1>0, <2>1, <2>2 DEF Linked
  <1>24. CASE c.imports # <<>>
    <2>1. q3.imports # <<>>
      BY <1>0, <1>22, <1>24
    <2>2. q3.sections[k] = q2.sections[k] /\ HoldsTables(q3, c, k)
      <3>1. k \in 1 .. Len(q2.sections) /\ q2.sections[k].name # ".pdata" /\ HoldsTables(q2, c, k)
        BY <1>16, <1>24 DEF HoldsTables
      <3>2. q3.sections[k] = q2.sections[k]
        BY <1>19, <3>1
      <3>. QED
        BY <1>0, <1>18, <1>20, <3>1, <3>2, TablesKept
    <2>3. HoldsTables(q3, q3, k)
      BY <1>22, <2>2 DEF HoldsTables, SameOffsets
    <2>4. q3.sections[k].words = ImportWords(q3, v) /\ q3.sections[k].va = v
      BY <1>16, <1>22, <1>24, <2>2 DEF SameOffsets
    <2>5. Numbered(q3.imports, q3, v)
      <3>1. Numbered(q3.imports, c, v)
        BY <1>5, <1>9, <1>21, <1>24
      <3>2. \A i \in 1 .. Len(q3.imports) : IatOffset(q3, i) = IatOffset(c, i)
        BY <1>22 DEF SameOffsets
      <3>. QED
        BY <3>1, <3>2 DEF Numbered
    <2>6. q3.dir.import = v /\ v \in Nat /\ v >= SECTION_ALIGNMENT
      BY <1>5, <1>9, <1>21, <1>24
    <2>. QED
      BY <1>0, <2>1, <2>3, <2>4, <2>5, <2>6 DEF Linked, n, v
  <1>. QED
    BY <1>23, <1>24

-----------------------------------------------------------------------------
(* The calls, from the table of specifications to the slots. *)

IsEntry(x, i, j) == i \in 1 .. Len(x) /\ j \in 1 .. Len(x[i].functions)
\* The entry of an import specification.
EntryOf(x, i, j, s) ==
    IsEntry(x, i, j) /\ x[i].dll = Specs[s].dll /\ x[i].functions[j].name = Specs[s].function
IsCalled(p, s) == \E h \in DOMAIN p.sites : p.sites[h] = s

\* What the loop over the first m specifications has registered: each one
\* that is called, nothing else, and nothing twice.
Registered(x, p, m) ==
    /\ \A i, k \in 1 .. Len(x) : x[i].dll = x[k].dll => i = k
    /\ \A i \in 1 .. Len(x) : \A j, l \in 1 .. Len(x[i].functions) :
          x[i].functions[j].name = x[i].functions[l].name => j = l
    /\ \A s \in 1 .. m : IsCalled(p, s) => \E i, j \in Nat : EntryOf(x, i, j, s)
    /\ \A i, j \in Nat : IsEntry(x, i, j) => \E s \in 1 .. m : IsCalled(p, s) /\ EntryOf(x, i, j, s)
    /\ Len(x) <= m /\ \A i \in 1 .. Len(x) : Len(x[i].functions) <= m

SlotOf(c, p, i, j) == IdataVa(p) + (IatOffset(c, i) + (j - 1) * THUNK_SIZE)

\* Every call site holds the distance to the slot of its function.
SitesPatched(words, p, c) ==
    \A h \in DOMAIN p.sites :
        /\ h \in DOMAIN words
        /\ \E i, j \in Nat : /\ EntryOf(c.imports, i, j, p.sites[h])
                             /\ words[h] = Displacement(SlotOf(c, p, i, j), SECTION_ALIGNMENT, h)

WrittenFrom(im, p, c) ==
    /\ Linked(c, p) /\ ImportsOK(c.imports) /\ Registered(c.imports, p, Len(Specs))
    /\ SitesPatched(im.sections[1].words, p, c)
    /\ c.sections = im.sections /\ c.dir = im.dir

CallsLinked ==
    /\ pc = "imports" => Registered(ctx.imports, program, next - 1)
    /\ pc \in {"data", "rdata", "probe", "patch", "write"} =>
          Registered(ctx.imports, program, Len(Specs))
    /\ pc = "patch" => /\ Linked(ctx, program) /\ ctx.sections[1].words = CodeWords(program)
                       /\ ctx.sections[1].va = SECTION_ALIGNMENT
    /\ pc = "write" => Linked(ctx, program) /\ SitesPatched(ctx.sections[1].words, program, ctx)
CallsWritten == Written => \E c : WrittenFrom(image, program, c)
CallsOK == CallsLinked /\ CallsWritten

LEMMA FunctionFound ==
    ASSUME NEW library \in LibRecords, NEW name
    PROVE  LET j == FunctionOf(library, name) IN
           /\ j \in 0 .. Len(library.functions)
           /\ j # 0 => library.functions[j].name = name
           /\ j = 0 => \A k \in 1 .. Len(library.functions) : library.functions[k].name # name
  <1>. DEFINE found == {j \in 1 .. Len(library.functions) : library.functions[j].name = name}
              f == FunctionOf(library, name)
  <1>0. library.functions \in Seq(FnRecords)
    BY DEF LibRecords
  <1>1. DOMAIN library.functions = 1 .. Len(library.functions) /\ Len(library.functions) \in Nat
    BY <1>0, Members
  <1>2. f = IF found = {} THEN 0 ELSE CHOOSE j \in found : TRUE
    BY <1>1 DEF FunctionOf
  <1>3. CASE found = {}
    <2>1. f = 0
      BY <1>2, <1>3
    <2>2. \A k \in 1 .. Len(library.functions) : library.functions[k].name # name
      BY <1>3
    <2>. HIDE DEF found, f
    <2>3. f \in 0 .. Len(library.functions)
      BY <1>1, <2>1
    <2>. QED
      BY <2>1, <2>2, <2>3 DEF f
  <1>4. CASE found # {}
    <2>1. f \in found
      <3>. HIDE DEF found, f
      <3>. QED
        BY <1>2, <1>4
    <2>2. f \in 1 .. Len(library.functions) /\ library.functions[f].name = name
      BY <2>1
    <2>. HIDE DEF found, f
    <2>3. f \in 0 .. Len(library.functions) /\ f # 0
      BY <1>1, <2>2
    <2>. QED
      BY <2>2, <2>3 DEF f
  <1>. QED
    BY <1>3, <1>4

\* One more entry, (i, j), unless it was there.
Added(x, y, dll, name, i, j) ==
    /\ IsEntry(y, i, j) /\ y[i].dll = dll /\ y[i].functions[j].name = name
    /\ Len(y) \in Nat /\ Len(x) <= Len(y) /\ Len(y) <= Len(x) + 1
    /\ \A k \in 1 .. Len(y) : k \in 1 .. Len(x) \/ k = i
    /\ \A k \in 1 .. Len(y) : Len(y[k].functions) <= 1
          \/ (k \in 1 .. Len(x) /\ Len(y[k].functions) <= Len(x[k].functions) + 1)
    /\ \A k \in 1 .. Len(x) : y[k].dll = x[k].dll
    /\ \A k, l \in Nat : IsEntry(x, k, l) => /\ IsEntry(y, k, l)
                                             /\ y[k].functions[l].name = x[k].functions[l].name
    /\ \A k, l \in Nat : IsEntry(y, k, l) => IsEntry(x, k, l) \/ (k = i /\ l = j)
    /\ ~IsEntry(x, i, j) => \A l \in Nat : IsEntry(x, i, l) => x[i].functions[l].name # name
    /\ i \notin 1 .. Len(x) => \A k \in 1 .. Len(x) : x[k].dll # dll

LEMMA AddedRegisters ==
    ASSUME NEW p, NEW m \in Nat, NEW x, Len(x) \in Nat, \A k \in 1 .. Len(x) : Len(x[k].functions) \in Nat,
           Registered(x, p, m), IsCalled(p, m + 1),
           NEW y, \A k \in 1 .. Len(y) : Len(y[k].functions) \in Nat,
           NEW i \in Nat, NEW j \in Nat,
           Added(x, y, Specs[m + 1].dll, Specs[m + 1].function, i, j)
    PROVE  Registered(y, p, m + 1)
  <1>. DEFINE dll == Specs[m + 1].dll
              name == Specs[m + 1].function
  <1>1. /\ IsEntry(y, i, j) /\ y[i].dll = dll /\ y[i].functions[j].name = name
        /\ Len(y) \in Nat /\ Len(x) <= Len(y) /\ Len(y) <= Len(x) + 1
        /\ \A k \in 1 .. Len(y) : k \in 1 .. Len(x) \/ k = i
        /\ \A k \in 1 .. Len(y) : Len(y[k].functions) <= 1
              \/ (k \in 1 .. Len(x) /\ Len(y[k].functions) <= Len(x[k].functions) + 1)
        /\ \A k \in 1 .. Len(x) : y[k].dll = x[k].dll
        /\ \A k, l \in Nat : IsEntry(x, k, l) => /\ IsEntry(y, k, l)
                                                 /\ y[k].functions[l].name = x[k].functions[l].name
        /\ \A k, l \in Nat : IsEntry(y, k, l) => IsEntry(x, k, l) \/ (k = i /\ l = j)
        /\ ~IsEntry(x, i, j) => \A l \in Nat : IsEntry(x, i, l) => x[i].functions[l].name # name
        /\ i \notin 1 .. Len(x) => \A k \in 1 .. Len(x) : x[k].dll # dll
    BY DEF Added
  <1>2. /\ \A k, l \in 1 .. Len(x) : x[k].dll = x[l].dll => k = l
        /\ \A k \in 1 .. Len(x) : \A j_, l \in 1 .. Len(x[k].functions) :
              x[k].functions[j_].name = x[k].functions[l].name => j_ = l
        /\ \A s \in 1 .. m : IsCalled(p, s) => \E k, l \in Nat : EntryOf(x, k, l, s)
        /\ \A k, l \in Nat : IsEntry(x, k, l) => \E s \in 1 .. m : IsCalled(p, s) /\ EntryOf(x, k, l, s)
        /\ Len(x) <= m /\ \A k \in 1 .. Len(x) : Len(x[k].functions) <= m
    BY DEF Registered
  <1>3. ASSUME NEW k \in 1 .. Len(y), NEW l \in 1 .. Len(y), y[k].dll = y[l].dll
        PROVE  k = l
    <2>1. CASE k \in 1 .. Len(x) /\ l \in 1 .. Len(x)
      BY <1>1, <1>2, <1>3, <2>1
    <2>2. CASE k \notin 1 .. Len(x)
      <3>1. k = i /\ y[k].dll = dll /\ \A k_ \in 1 .. Len(x) : x[k_].dll # dll
        BY <1>1, <2>2
      <3>2. l \notin 1 .. Len(x)
        BY <1>1, <1>3, <3>1
      <3>. QED
        BY <1>1, <3>1, <3>2
    <2>3. CASE l \notin 1 .. Len(x)
      <3>1. l = i /\ y[l].dll = dll /\ \A k_ \in 1 .. Len(x) : x[k_].dll # dll
        BY <1>1, <2>3
      <3>2. k \notin 1 .. Len(x)
        BY <1>1, <1>3, <3>1
      <3>. QED
        BY <1>1, <3>1, <3>2
    <2>. QED
      BY <2>1, <2>2, <2>3
  <1>4. ASSUME NEW k \in 1 .. Len(y), NEW a \in 1 .. Len(y[k].functions),
               NEW b \in 1 .. Len(y[k].functions), y[k].functions[a].name = y[k].functions[b].name
        PROVE  a = b
    <2>0. IsEntry(y, k, a) /\ IsEntry(y, k, b) /\ k \in Nat /\ a \in Nat /\ b \in Nat
      BY <1>1 DEF IsEntry
    <2>1. CASE IsEntry(x, k, a) /\ IsEntry(x, k, b)
      <3>1. x[k].functions[a].name = x[k].functions[b].name
        BY <1>1, <1>4, <2>0, <2>1
      <3>. QED
        BY <1>2, <2>1, <3>1 DEF IsEntry
    <2>2. ASSUME NEW u \in Nat, NEW w \in Nat, IsEntry(x, k, u), ~IsEntry(x, k, w), k = i, w = j
          PROVE  y[k].functions[u].name # y[k].functions[w].name
      <3>1. y[k].functions[w].name = name /\ ~IsEntry(x, i, j)
        BY <1>1, <2>2
      <3>2. x[k].functions[u].name # name /\ y[k].functions[u].name = x[k].functions[u].name
        BY <1>1, <2>2, <3>1
      <3>. QED
        BY <3>1, <3>2
    <2>3. CASE IsEntry(x, k, a) /\ ~IsEntry(x, k, b)
      <3>1. k = i /\ b = j
        BY <1>1, <2>0, <2>3
      <3>. QED
        BY <1>4, <2>0, <2>2, <2>3, <3>1
    <2>4. CASE ~IsEntry(x, k, a) /\ IsEntry(x, k, b)
      <3>1. k = i /\ a = j
        BY <1>1, <2>0, <2>4
      <3>. QED
        BY <1>4, <2>0, <2>2, <2>4, <3>1
    <2>5. CASE ~IsEntry(x, k, a) /\ ~IsEntry(x, k, b)
      BY <1>1, <2>0, <2>5
    <2>. QED
      BY <2>1, <2>3, <2>4, <2>5
  <1>5. ASSUME NEW s, NEW k \in Nat, NEW l \in Nat, EntryOf(x, k, l, s)
        PROVE  EntryOf(y, k, l, s)
    <2>1. IsEntry(x, k, l) /\ x[k].dll = Specs[s].dll /\ x[k].functions[l].name = Specs[s].function
      BY <1>5 DEF EntryOf
    <2>2. IsEntry(y, k, l) /\ y[k].functions[l].name = x[k].functions[l].name
      BY <1>1, <2>1
    <2>3. y[k].dll = x[k].dll
      BY <1>1, <2>1 DEF IsEntry
    <2>. QED
      BY <2>1, <2>2, <2>3 DEF EntryOf
  <1>6. ASSUME NEW s \in 1 .. m + 1, IsCalled(p, s)
        PROVE  \E k, l \in Nat : EntryOf(y, k, l, s)
    <2>1. CASE s = m + 1
      BY <1>1, <2>1 DEF EntryOf
    <2>2. CASE s \in 1 .. m
      BY <1>2, <1>5, <1>6, <2>2
    <2>. QED
      BY <2>1, <2>2
  <1>7. ASSUME NEW k \in Nat, NEW l \in Nat, IsEntry(y, k, l)
        PROVE  \E s \in 1 .. m + 1 : IsCalled(p, s) /\ EntryOf(y, k, l, s)
    <2>1. CASE IsEntry(x, k, l)
      <3>1. PICK s \in 1 .. m : IsCalled(p, s) /\ EntryOf(x, k, l, s)
        BY <1>2, <2>1
      <3>2. s \in 1 .. m + 1 /\ EntryOf(y, k, l, s)
        BY <1>5, <3>1
      <3>. QED
        BY <3>1, <3>2
    <2>2. CASE k = i /\ l = j
      <3>1. m + 1 \in 1 .. m + 1 /\ EntryOf(y, k, l, m + 1)
        BY <1>1, <2>2 DEF EntryOf
      <3>. QED
        BY <3>1
    <2>. QED
      BY <1>1, <1>7, <2>1, <2>2
  <1>8. Len(y) <= m + 1
    BY <1>1, <1>2
  <1>9. ASSUME NEW k \in 1 .. Len(y) PROVE Len(y[k].functions) <= m + 1
    <2>1. CASE Len(y[k].functions) <= 1
      BY <2>1
    <2>2. CASE k \in 1 .. Len(x) /\ Len(y[k].functions) <= Len(x[k].functions) + 1
      <3>1. Len(x[k].functions) <= m /\ Len(x[k].functions) \in Nat /\ Len(y[k].functions) \in Nat
        BY <1>2, <2>2
      <3>. QED
        BY <2>2, <3>1
    <2>. QED
      BY <1>1, <2>1, <2>2
  <1>. QED
    BY <1>3, <1>4, <1>6, <1>7, <1>8, <1>9 DEF Registered

LEMMA ImportEntered ==
    ASSUME NEW c, DOMAIN c = CtxFields, ImportsOK(c.imports),
           NEW dll \in DOMAIN StrLen, NEW name \in DOMAIN StrLen
    PROVE  \E i, j \in Nat : Added(c.imports, AddImport(c, dll, name).imports, dll, name, i, j)
  <1>. DEFINE x == c.imports
              w == WithLibrary(c, dll)
              z == w.imports
              i == LibraryOf(w, dll)
              m == z[i]
              j == FunctionOf(m, name)
              new == [dll |-> dll, functions |-> <<>>]
              y == AddImport(c, dll, name).imports
  <1>1. /\ x \in Seq(LibRecords) /\ Len(x) \in Nat
        /\ \A k \in 1 .. Len(x) : Len(x[k].functions) \in Nat \ {0} /\ x[k] \in LibRecords
    <2>1. x \in Seq(LibRecords) /\ \A k \in 1 .. Len(x) : Len(x[k].functions) \in 1 .. MaxImports
      BY DEF ImportsOK
    <2>. QED
      BY <2>1, Members
  <1>2. new \in LibRecords /\ new.dll = dll /\ new.functions = <<>> /\ Len(new.functions) = 0
    BY DEF LibRecords
  <1>. HIDE DEF new
  <1>3. /\ DOMAIN w = CtxFields /\ z \in Seq(LibRecords) /\ i \in 1 .. Len(z) /\ z[i].dll = dll
        /\ \A k \in 1 .. Len(x) : z[k] = x[k]
        /\ Len(z) = Len(x) \/ (Len(z) = Len(x) + 1 /\ i = Len(x) + 1 /\ z[i] = new
                                 /\ \A k \in 1 .. Len(x) : x[k].dll # dll)
    <2>1. CASE LibraryOf(c, dll) # 0
      <3>1. w = c
        BY <2>1 DEF WithLibrary
      <3>2. i \in 1 .. Len(x) /\ x[i].dll = dll
        BY <2>1, <3>1, <1>1, LibraryOfIs
      <3>. QED
        BY <3>1, <3>2, <1>1
    <2>2. CASE LibraryOf(c, dll) = 0
      <3>2. DOMAIN w = CtxFields /\ z = Append(x, new)
        <4>1. w = [c EXCEPT !.imports = Append(x, new)]
          BY <2>2 DEF WithLibrary, new, CtxFields
        <4>. HIDE DEF w
        <4>. QED
          BY <4>1, ImportsChanged
      <3>3. /\ z \in Seq(LibRecords) /\ Len(z) = Len(x) + 1 /\ z[Len(x) + 1] = new
            /\ \A k \in 1 .. Len(x) : z[k] = x[k]
        <4>. HIDE DEF w
        <4>. QED
          BY <3>2, <1>1, <1>2
      <3>4. \A k \in 1 .. Len(x) : x[k].dll # dll
        BY <2>2, <1>1, LibraryOfIs
      <3>5. /\ i \in 0 .. Len(z) /\ (i # 0 => z[i].dll = dll)
            /\ (i = 0 => \A k \in 1 .. Len(z) : z[k].dll # dll)
        BY <3>3, LibraryOfIs
      <3>. HIDE DEF w, i
      <3>6. Len(x) + 1 \in 1 .. Len(z) /\ z[Len(x) + 1].dll = dll
        BY <3>3, <1>1, <1>2
      <3>7. i = Len(x) + 1
        <4>1. i # 0
          BY <3>5, <3>6
        <4>2. i \in 1 .. Len(x) + 1 /\ z[i].dll = dll
          BY <3>3, <3>5, <4>1, <1>1
        <4>3. i \notin 1 .. Len(x)
          BY <3>3, <3>4, <4>2
        <4>. QED
          BY <4>2, <4>3, <1>1
      <3>. QED
        BY <3>2, <3>3, <3>4, <3>6, <3>7, <1>1, <1>2
    <2>. QED
      BY <2>1, <2>2
  <1>4. AddImport(c, dll, name) =
          IF j # 0 THEN w
          ELSE [w EXCEPT !.imports[i].functions = Append(@, NewFunction(name))]
    BY DEF AddImport
  <1>. HIDE DEF w, i
  <1>5. m \in LibRecords
    BY <1>3
  <1>6. /\ j \in 0 .. Len(m.functions) /\ (j # 0 => m.functions[j].name = name)
        /\ (j = 0 => \A k \in 1 .. Len(m.functions) : m.functions[k].name # name)
    BY <1>5, FunctionFound
  <1>7. m.functions \in Seq(FnRecords) /\ Len(m.functions) \in Nat
    BY <1>5 DEF LibRecords
  <1>8. Len(z) \in Nat /\ i \in Nat
    BY <1>3
  <1>. HIDE DEF j, y
  <1>9. CASE j # 0
    <2>1. y = z
      BY <1>4, <1>9 DEF y
    <2>2. IsEntry(z, i, j)
      BY <1>3, <1>6, <1>7, <1>9 DEF IsEntry
    <2>3. Len(z) = Len(x) /\ \A k \in 1 .. Len(z) : z[k] = x[k]
      <3>1. z[i] # new
        BY <1>2, <1>6, <1>9
      <3>. QED
        BY <1>3, <3>1
    <2>4. IsEntry(x, i, j)
      BY <2>2, <2>3 DEF IsEntry
    <2>5. \A k \in 1 .. Len(z) : Len(z[k].functions) <= Len(x[k].functions) + 1
      BY <1>1, <2>3
    <2>6. \A k, l \in Nat : IsEntry(x, k, l) <=> IsEntry(z, k, l)
      BY <2>3 DEF IsEntry
    <2>7. \A k \in 1 .. Len(x) : z[k].dll = x[k].dll /\ z[k].functions = x[k].functions
      BY <2>3
    <2>. HIDE DEF z, m, x
    <2>8. z[i].dll = dll /\ z[i].functions[j].name = name /\ i \in 1 .. Len(x)
      BY <1>3, <1>6, <1>9, <2>3 DEF m
    <2>9. Len(x) <= Len(z) /\ Len(z) <= Len(x) + 1
      BY <1>8, <2>3
    <2>10. \A k, l \in Nat : IsEntry(x, k, l) => z[k].functions[l].name = x[k].functions[l].name
      BY <2>7 DEF IsEntry
    <2>11. Added(x, z, dll, name, i, j)
      BY <1>8, <2>2, <2>3, <2>4, <2>5, <2>6, <2>7, <2>8, <2>9, <2>10 DEF Added
    <2>12. i \in Nat /\ j \in Nat
      BY <1>6, <1>7, <1>8
    <2>13. \E k, l \in Nat : Added(x, y, dll, name, k, l)
      <3>. HIDE DEF y
      <3>1. Added(x, y, dll, name, i, j)
        BY <2>1, <2>11
      <3>. QED
        BY <2>12, <3>1
    <2>. QED
      BY <2>13 DEF x, y
  <1>10. CASE j = 0
    <2>. DEFINE one == NewFunction(name)
                fns == Append(m.functions, one)
                m2 == [m EXCEPT !.functions = fns]
                v == [z EXCEPT ![i] = m2]
                J == Len(m.functions) + 1
    <2>1. y = v
      <3>1. AddImport(c, dll, name) = [w EXCEPT !.imports[i].functions = Append(@, NewFunction(name))]
        BY <1>4, <1>10
      <3>. QED
        BY <3>1, <1>3 DEF CtxFields, y
    <2>2. one \in FnRecords /\ one.name = name
      BY DEF NewFunction, FnRecords
    <2>. HIDE DEF one
    <2>3. /\ fns \in Seq(FnRecords) /\ Len(fns) = J /\ fns[J] = one
          /\ \A l \in 1 .. Len(m.functions) : fns[l] = m.functions[l]
      BY <1>7, <2>2
    <2>. HIDE DEF fns, m
    <2>4. m2.functions = fns /\ m2.dll = dll
      BY <1>3, <1>5 DEF LibRecords, m
    <2>. HIDE DEF m2
    <2>5. /\ Len(v) = Len(z) /\ v[i] = m2 /\ \A k \in 1 .. Len(z) : k # i => v[k] = z[k]
      BY <1>3
    <2>. HIDE DEF v, z, x
    <2>6. J \in Nat /\ J \notin 1 .. Len(m.functions) /\ J \in 1 .. J
      BY <1>7
    <2>7. \A k \in 1 .. Len(v) : k # i => k \in 1 .. Len(x) /\ v[k] = x[k]
      BY <1>1, <1>3, <1>8, <2>5
    <2>8. v[i].dll = dll /\ v[i].functions = fns
      BY <2>4, <2>5
    <2>9. i \in 1 .. Len(v) /\ Len(v) \in Nat /\ Len(x) <= Len(v) /\ Len(v) <= Len(x) + 1
      BY <1>1, <1>3, <1>8, <2>5
    <2>10. i \in 1 .. Len(x) => x[i].dll = dll /\ x[i].functions = m.functions
      BY <1>3 DEF m
    <2>11. i \notin 1 .. Len(x) => Len(m.functions) = 0 /\ \A k \in 1 .. Len(x) : x[k].dll # dll
      BY <1>2, <1>3, <2>9 DEF m
    <2>12. IsEntry(v, i, J) /\ v[i].functions[J].name = name
      BY <2>2, <2>3, <2>6, <2>8, <2>9 DEF IsEntry
    <2>13. ASSUME NEW k \in 1 .. Len(v)
           PROVE  Len(v[k].functions) <= 1
                  \/ (k \in 1 .. Len(x) /\ Len(v[k].functions) <= Len(x[k].functions) + 1)
      <3>1. CASE k # i
        <4>1. k \in 1 .. Len(x) /\ v[k].functions = x[k].functions /\ Len(x[k].functions) \in Nat
          BY <1>1, <2>7, <3>1
        <4>. QED
          BY <4>1
      <3>2. CASE k = i /\ i \in 1 .. Len(x)
        BY <1>7, <2>3, <2>8, <2>10, <3>2
      <3>3. CASE k = i /\ i \notin 1 .. Len(x)
        BY <2>3, <2>8, <2>11, <3>3
      <3>. QED
        BY <3>1, <3>2, <3>3
    <2>14. \A k \in 1 .. Len(x) : v[k].dll = x[k].dll
      <3>1. \A k \in 1 .. Len(x) : k \in 1 .. Len(v)
        BY <1>1, <2>9
      <3>. QED
        BY <2>7, <2>8, <2>10, <3>1
    <2>15. ASSUME NEW k \in Nat, NEW l \in Nat, IsEntry(x, k, l)
           PROVE  IsEntry(v, k, l) /\ v[k].functions[l].name = x[k].functions[l].name
      <3>1. k \in 1 .. Len(x) /\ l \in 1 .. Len(x[k].functions) /\ k \in 1 .. Len(v)
        BY <1>1, <2>9, <2>15 DEF IsEntry
      <3>2. CASE k # i
        BY <2>7, <3>1, <3>2 DEF IsEntry
      <3>3. CASE k = i
        <4>1. l \in 1 .. Len(m.functions) /\ x[k].functions = m.functions /\ v[k].functions = fns
          BY <2>8, <2>10, <3>1, <3>3
        <4>2. l \in 1 .. Len(fns) /\ fns[l] = m.functions[l]
          BY <1>7, <2>3, <4>1
        <4>. QED
          BY <3>1, <4>1, <4>2 DEF IsEntry
      <3>. QED
        BY <3>2, <3>3
    <2>16. ASSUME NEW k \in Nat, NEW l \in Nat, IsEntry(v, k, l)
           PROVE  IsEntry(x, k, l) \/ (k = i /\ l = J)
      <3>1. k \in 1 .. Len(v) /\ l \in 1 .. Len(v[k].functions)
        BY <2>16 DEF IsEntry
      <3>2. CASE k # i
        BY <2>7, <3>1, <3>2 DEF IsEntry
      <3>3. CASE k = i /\ l # J
        <4>1. l \in 1 .. Len(m.functions)
          BY <1>7, <2>3, <2>8, <3>1, <3>3
        <4>2. i \in 1 .. Len(x)
          BY <2>11, <4>1
        <4>. QED
          BY <2>10, <3>3, <4>1, <4>2 DEF IsEntry
      <3>. QED
        BY <3>2, <3>3
    <2>17. \A l \in Nat : IsEntry(x, i, l) => x[i].functions[l].name # name
      BY <1>6, <1>10, <2>10 DEF IsEntry
    <2>18. \A k \in 1 .. Len(v) : k \in 1 .. Len(x) \/ k = i
      BY <2>7
    <2>19. Added(x, v, dll, name, i, J)
      BY <2>8, <2>9, <2>11, <2>12, <2>13, <2>14, <2>15, <2>16, <2>17, <2>18 DEF Added
    <2>20. \E k, l \in Nat : Added(x, y, dll, name, k, l)
      <3>. HIDE DEF y
      <3>1. Added(x, y, dll, name, i, J)
        BY <2>1, <2>19
      <3>. QED
        BY <1>8, <2>6, <3>1
    <2>. QED
      BY <2>20 DEF x, y
  <1>. QED
    BY <1>9, <1>10

LEMMA RenumberedRegisters ==
    ASSUME NEW p, NEW m, NEW x, NEW y, Registered(x, p, m), Renumbered(x, y)
    PROVE  Registered(y, p, m)
  <1>1. /\ Len(y) = Len(x)
        /\ \A k \in 1 .. Len(x) : y[k].dll = x[k].dll /\ Len(y[k].functions) = Len(x[k].functions)
        /\ \A k \in 1 .. Len(x) : \A j \in 1 .. Len(x[k].functions) :
              y[k].functions[j].name = x[k].functions[j].name
    BY DEF Renumbered
  <1>2. \A k, l \in Nat : IsEntry(y, k, l) <=> IsEntry(x, k, l)
    BY <1>1 DEF IsEntry
  <1>3. \A s : \A k, l \in Nat : EntryOf(y, k, l, s) <=> EntryOf(x, k, l, s)
    BY <1>1, <1>2 DEF EntryOf, IsEntry
  <1>4. \A k, l \in 1 .. Len(y) : y[k].dll = y[l].dll => k = l
    BY <1>1 DEF Registered
  <1>5. \A i \in 1 .. Len(y) : \A j, l \in 1 .. Len(y[i].functions) :
          y[i].functions[j].name = y[i].functions[l].name => j = l
    BY <1>1 DEF Registered
  <1>6. \A s \in 1 .. m : IsCalled(p, s) => \E i, j \in Nat : EntryOf(y, i, j, s)
    BY <1>3 DEF Registered
  <1>7. \A i, j \in Nat : IsEntry(y, i, j) => \E s \in 1 .. m : IsCalled(p, s) /\ EntryOf(y, i, j, s)
    BY <1>2, <1>3 DEF Registered
  <1>8. Len(y) <= m /\ \A i \in 1 .. Len(y) : Len(y[i].functions) <= m
    BY <1>1 DEF Registered
  <1>. QED
    BY <1>4, <1>5, <1>6, <1>7, <1>8 DEF Registered

\* The slot the patch looks up is the one of the function called.
LEMMA SlotFound ==
    ASSUME NEW p, NEW c, c.imports \in Seq(LibRecords), Registered(c.imports, p, Len(Specs)),
           Linked(c, p), NEW s \in 1 .. Len(Specs), IsCalled(p, s)
    PROVE  \E i, j \in Nat : EntryOf(c.imports, i, j, s) /\ IatOf(c, Specs[s]) = SlotOf(c, p, i, j)
  <1>. DEFINE x == c.imports
              dll == Specs[s].dll
              name == Specs[s].function
              i == LibraryOf(c, dll)
              j == FunctionOf(x[i], name)
  <1>1. PICK k, l \in Nat : EntryOf(x, k, l, s)
    BY DEF Registered
  <1>2. k \in 1 .. Len(x) /\ l \in 1 .. Len(x[k].functions) /\ x[k].dll = dll /\ x[k].functions[l].name = name
    BY <1>1 DEF EntryOf, IsEntry
  <1>3. i # 0 /\ i \in 1 .. Len(x) /\ x[i].dll = dll
    <2>1. i \in 0 .. Len(x) /\ (i # 0 => x[i].dll = dll)
          /\ (i = 0 => \A k_ \in 1 .. Len(x) : x[k_].dll # dll)
      BY LibraryOfIs
    <2>. HIDE DEF i, x
    <2>. QED
      BY <1>2, <2>1
  <1>4. i = k
    BY <1>2, <1>3 DEF Registered
  <1>5. x[i] \in LibRecords
    BY <1>3, Members
  <1>6. j # 0 /\ j \in 1 .. Len(x[i].functions) /\ x[i].functions[j].name = name
    <2>1. j \in 0 .. Len(x[i].functions) /\ (j # 0 => x[i].functions[j].name = name)
          /\ (j = 0 => \A k_ \in 1 .. Len(x[i].functions) : x[i].functions[k_].name # name)
      BY <1>5, FunctionFound
    <2>. HIDE DEF i, x, j
    <2>. QED
      BY <1>2, <1>4, <2>1
  <1>7. IatOf(c, Specs[s]) = x[i].functions[j].iat
    BY <1>3, <1>6 DEF IatOf
  <1>8. x # <<>>
    BY <1>3
  <1>9. Numbered(x, c, IdataVa(p))
    BY <1>8 DEF Linked
  <1>10. x[i].functions[j].iat = SlotOf(c, p, i, j)
    BY <1>3, <1>6, <1>9 DEF Numbered, SlotOf
  <1>11. EntryOf(x, i, j, s) /\ i \in Nat /\ j \in Nat
    <2>1. EntryOf(x, i, j, s)
      BY <1>3, <1>6 DEF EntryOf, IsEntry
    <2>2. i \in Nat
      BY <1>3
    <2>. HIDE DEF j
    <2>3. j \in Nat
      BY <1>6
    <2>. QED
      BY <2>1, <2>2, <2>3
  <1>. QED
    BY <1>7, <1>10, <1>11

LEMMA SiteWords ==
    ASSUME NEW p \in Programs, NEW h \in DOMAIN p.sites
    PROVE  /\ p.sites[h] \in 1 .. Len(Specs) /\ p.sites[h] \in DOMAIN Specs /\ IsCalled(p, p.sites[h])
           /\ h \in DOMAIN CodeWords(p) /\ CodeWords(p)[h] = Marker(p.sites[h])
           /\ CodeWords(p)[h] - Marker(0) = p.sites[h]
           /\ h \in Nat /\ h + 4 <= p.codeSize
  <1>1. p.sites[h] \in DOMAIN Specs /\ p.sites[h] \in 1 .. Len(Specs) /\ p.sites[h] \in Nat
    BY ProgramFacts, SpecsAre
  <1>2. h \in DOMAIN CodeWords(p) /\ CodeWords(p)[h] = Marker(p.sites[h])
    BY DEF CodeWords
  <1>3. Marker(p.sites[h]) - Marker(0) = p.sites[h]
    BY <1>1 DEF Marker, MARKER_BASE
  <1>4. h \in Nat /\ h + 4 <= p.codeSize
    BY ProgramsAssumption DEF ProgramOK
  <1>. QED
    BY <1>1, <1>2, <1>3, <1>4 DEF IsCalled

\* Other words for the code leave the import data linked.
LEMMA LinkedKept ==
    ASSUME NEW p, FrontLen(p) \in Nat \ {0}, NEW c, Shape(c, p, FrontLen(p)),
           c.imports \in Seq(LibRecords), Linked(c, p), 1 \in 1 .. Len(c.sections), NEW words
    PROVE  LET d == WithWords(c, 1, words) IN
           /\ Linked(d, p) /\ d.imports = c.imports /\ SameOffsets(c, d)
           /\ d.sections[1].words = words
  <1>. DEFINE d == WithWords(c, 1, words)
              k == FrontLen(p) + 1
              v == IdataVa(p)
  <1>0. IsCtx(c) /\ FrontLen(p) \in Nat
    BY DEF Shape
  <1>1. /\ Patched(c, d) /\ d.sections[1].words = words /\ d.imports = c.imports /\ d.dir = c.dir
        /\ \A i \in 1 .. Len(c.sections) : i # 1 => d.sections[i] = c.sections[i]
    BY <1>0, WordsPatched
  <1>. HIDE DEF d
  <1>2. d.imports = c.imports /\ d.dir = c.dir /\ IsCtx(d)
    BY <1>1 DEF Patched
  <1>3. SameOffsets(c, d)
    BY <1>2, RenumberedSelf, RenumberedOffsets
  <1>4. CASE c.imports = <<>>
    BY <1>1, <1>2, <1>3, <1>4 DEF Linked, d
  <1>5. CASE c.imports # <<>>
    <2>1. /\ HoldsTables(c, c, k) /\ c.sections[k].words = ImportWords(c, v)
          /\ c.sections[k].va = v /\ c.dir.import = v /\ v \in Nat /\ v >= SECTION_ALIGNMENT
          /\ Numbered(c.imports, c, v)
      BY <1>5 DEF Linked
    <2>2. k \in 1 .. Len(c.sections) /\ k # 1 /\ k \in Nat /\ FindSection(c, ".idata") = k
      BY <2>1 DEF HoldsTables
    <2>3. d.sections[k] = c.sections[k] /\ Len(d.sections) = Len(c.sections)
      BY <1>1, <2>2 DEF Patched
    <2>4. FindSection(d, ".idata") = FindSection(c, ".idata")
      <3>1. SameKinds(c, d)
        BY <1>1 DEF Patched, SameKinds
      <3>. QED
        BY <1>0, <3>1, ShapeKept
    <2>5. HoldsTables(d, c, k)
      BY <1>2, <2>1, <2>2, <2>3, <2>4, TablesKept
    <2>6. HoldsTables(d, d, k)
      BY <1>3, <2>5 DEF HoldsTables, SameOffsets
    <2>7. Numbered(d.imports, d, v)
      BY <1>2, <1>3, <2>1 DEF Numbered, SameOffsets
    <2>8. d.sections[k].words = ImportWords(d, v)
      BY <1>3, <2>1, <2>3 DEF SameOffsets
    <2>9. Linked(d, p)
      BY <1>2, <1>5, <2>1, <2>3, <2>6, <2>7, <2>8 DEF Linked
    <2>. QED
      BY <1>1, <1>2, <1>3, <2>9 DEF d
  <1>. QED
    BY <1>4, <1>5

-----------------------------------------------------------------------------
(* Every step keeps the calls in order. *)

LEMMA CallsInit == Init => CallsOK
  <1>. SUFFICES ASSUME Init PROVE CallsOK
    OBVIOUS
  <1>1. pc = "imports" /\ next = 1 /\ ctx.imports = <<>> /\ ~Written
    BY FreshIs DEF Init, Written
  <1>2. Registered(<<>>, program, 0)
    BY DEF Registered, IsEntry
  <1>3. CallsLinked
    <2>1. next - 1 = 0
      BY <1>1
    <2>. QED
      BY <1>1, <1>2, <2>1 DEF CallsLinked
  <1>. QED
    BY <1>1, <1>3 DEF CallsOK, CallsWritten

LEMMA WrittenStays ==
    ASSUME CallsOK, UNCHANGED <<program, file>>
    PROVE  CallsWritten'
  BY DEF CallsOK, CallsWritten, Written, image

LEMMA CallsEnd ==
    ASSUME CallsWritten', pc' \in {"done", "failed"}
    PROVE  CallsOK'
  BY DEF CallsOK, CallsLinked

LEMMA NotCalled ==
    ASSUME NEW p, NEW m \in Nat, NEW x, Len(x) \in Nat,
           \A k \in 1 .. Len(x) : Len(x[k].functions) \in Nat,
           Registered(x, p, m), ~IsCalled(p, m + 1)
    PROVE  Registered(x, p, m + 1)
  <1>1. \A s \in 1 .. m + 1 : IsCalled(p, s) => s \in 1 .. m
    OBVIOUS
  <1>2. \A s \in 1 .. m : s \in 1 .. m + 1
    OBVIOUS
  <1>3. \A s \in 1 .. m + 1 : IsCalled(p, s) => \E i, j \in Nat : EntryOf(x, i, j, s)
    BY <1>1 DEF Registered
  <1>4. \A i, j \in Nat : IsEntry(x, i, j) =>
            \E s \in 1 .. m + 1 : IsCalled(p, s) /\ EntryOf(x, i, j, s)
    BY <1>2 DEF Registered
  <1>5. Len(x) <= m + 1 /\ \A i \in 1 .. Len(x) : Len(x[i].functions) <= m + 1
    BY DEF Registered
  <1>. QED
    BY <1>3, <1>4, <1>5 DEF Registered

LEMMA ImportLengths ==
    ASSUME NEW x, ImportsOK(x)
    PROVE  /\ x \in Seq(LibRecords) /\ Len(x) \in Nat
           /\ \A k \in 1 .. Len(x) : Len(x[k].functions) \in Nat
  BY DEF ImportsOK

LEMMA RegisterImportCalls ==
    ASSUME IInv, CallsOK, RegisterImport
    PROVE  CallsOK'
  <1>. DEFINE dll == Specs[next].dll
              name == Specs[next].function
  <1>0. /\ pc = "imports" /\ program' = program /\ file' = file /\ CallsWritten'
    BY WrittenStays DEF RegisterImport
  <1>1. /\ next - 1 \in Nat /\ (next - 1) + 1 = next /\ next \in Nat /\ (next + 1) - 1 = next
        /\ next \in 1 .. Len(Specs)
    BY SpecsAre DEF IInv, RegisterImport
  <1>2. Registered(ctx.imports, program, next - 1) /\ ImportsOK(ctx.imports) /\ DOMAIN ctx = CtxFields
    BY <1>0 DEF CallsOK, CallsLinked, IInv, ContextOK, IsCtx
  <1>3. Marked(next) <=> IsCalled(program, next)
    BY DEF Marked, IsCalled
  <1>4. CASE ~Marked(next)
    <2>1. pc' = pc /\ ctx' = ctx /\ next' = next + 1
      BY <1>4 DEF RegisterImport
    <2>2. Registered(ctx.imports, program, (next - 1) + 1)
      BY <1>1, <1>2, <1>3, <1>4, ImportLengths, NotCalled
    <2>3. Registered(ctx'.imports, program', next' - 1)
      BY <1>0, <1>1, <2>1, <2>2
    <2>. QED
      BY <1>0, <2>1, <2>3 DEF CallsOK, CallsLinked
  <1>5. CASE Marked(next) /\ ImportFits(ctx, dll, name)
    <2>1. pc' = pc /\ ctx' = AddImport(ctx, dll, name) /\ next' = next + 1
      BY <1>5 DEF RegisterImport
    <2>2. dll \in DOMAIN StrLen /\ name \in DOMAIN StrLen
      BY <1>1, SpecsAre
    <2>3. PICK i, j \in Nat : Added(ctx.imports, ctx'.imports, dll, name, i, j)
      BY <1>2, <2>1, <2>2, ImportEntered
    <2>4. ImportsOK(ctx'.imports)
      BY <1>2, <1>5, <2>1, <2>2, ImportAdded
    <2>5. Added(ctx.imports, ctx'.imports, Specs[(next - 1) + 1].dll, Specs[(next - 1) + 1].function, i, j)
      BY <1>1, <2>3
    <2>6. IsCalled(program, (next - 1) + 1)
      BY <1>1, <1>3, <1>5
    <2>7. Registered(ctx'.imports, program, (next - 1) + 1)
      <3>1. /\ Len(ctx.imports) \in Nat /\ \A k \in 1 .. Len(ctx.imports) : Len(ctx.imports[k].functions) \in Nat
            /\ \A k \in 1 .. Len(ctx'.imports) : Len(ctx'.imports[k].functions) \in Nat
        BY <1>2, <2>4, ImportLengths
      <3>. QED
        BY <1>1, <1>2, <2>5, <2>6, <3>1, AddedRegisters
    <2>8. Registered(ctx'.imports, program', next' - 1)
      BY <1>0, <1>1, <2>1, <2>7
    <2>. QED
      BY <1>0, <2>1, <2>8 DEF CallsOK, CallsLinked
  <1>6. CASE Marked(next) /\ ~ImportFits(ctx, dll, name)
    BY <1>0, <1>6, CallsEnd DEF RegisterImport
  <1>. QED
    BY <1>4, <1>5, <1>6

\* The sections of the program are added without a look at the imports.
LEMMA AddedSectionImports ==
    ASSUME NEW c, IsCtx(c), NEW s
    PROVE  LET d == AddSection(c, s) IN
           /\ d.imports = c.imports /\ DOMAIN d = CtxFields
  BY DEF AddSection, IsCtx, CtxFields

LEMMA LoadingCalls ==
    ASSUME IInv, CallsOK, AddText \/ AddData \/ AddRdata
    PROVE  CallsOK'
  <1>0. /\ program' = program /\ file' = file /\ CallsWritten' /\ pc' \in {"data", "rdata", "probe"}
    BY WrittenStays DEF AddText, AddData, AddRdata
  <1>1. IsCtx(ctx)
    BY DEF IInv, ContextOK
  <1>2. Registered(ctx.imports, program, Len(Specs))
    <2>1. CASE AddText
      <3>1. next - 1 = Len(Specs)
        BY <2>1, SpecsAre DEF AddText, IInv
      <3>. QED
        BY <2>1, <3>1 DEF AddText, CallsOK, CallsLinked
    <2>2. CASE AddData
      BY <2>2 DEF AddData, CallsOK, CallsLinked
    <2>3. CASE AddRdata
      BY <2>3 DEF AddRdata, CallsOK, CallsLinked
    <2>. QED
      BY <2>1, <2>2, <2>3
  <1>3. ctx'.imports = ctx.imports
    <2>1. CASE AddText
      BY <1>1, <2>1, AddedSectionImports DEF AddText
    <2>2. CASE AddData
      BY <1>1, <2>2, AddedSectionImports DEF AddData
    <2>3. CASE AddRdata
      <3>. DEFINE s == Section(".rdata", program.truthSize, Empty, Empty, FALSE)
                  c == IF program.truthSize = 0 THEN ctx ELSE AddSection(ctx, s)
      <3>1. ctx' = [c EXCEPT !.entry = program.entry]
        BY <2>3 DEF AddRdata
      <3>2. c.imports = ctx.imports /\ DOMAIN c = CtxFields
        <4>1. ctx.imports = ctx.imports /\ DOMAIN ctx = CtxFields
          BY <1>1 DEF IsCtx
        <4>2. AddSection(ctx, s).imports = ctx.imports /\ DOMAIN AddSection(ctx, s) = CtxFields
          BY <1>1, AddedSectionImports
        <4>. HIDE DEF s
        <4>. QED
          BY <4>1, <4>2
      <3>. HIDE DEF c
      <3>. QED
        BY <3>1, <3>2 DEF CtxFields
    <2>. QED
      BY <2>1, <2>2, <2>3
  <1>. QED
    BY <1>0, <1>2, <1>3 DEF CallsOK, CallsLinked

LEMMA EndingCalls ==
    ASSUME IInv, CallsOK, AddSectionFails \/ FinalizeFails \/ WriteFails
    PROVE  CallsOK'
  <1>1. CASE AddSectionFails \/ FinalizeFails
    <2>1. pc' = "failed" /\ UNCHANGED <<program, file>>
      BY <1>1 DEF AddSectionFails, FinalizeFails
    <2>. QED
      BY <2>1, WrittenStays, CallsEnd
  <1>2. CASE WriteFails
    <2>1. pc' = "failed" /\ ~Written'
      BY <1>2 DEF WriteFails, Written
    <2>. QED
      BY <2>1, CallsEnd DEF CallsWritten
  <1>. QED
    BY <1>1, <1>2

\* Before anything is finalized the import data goes behind the program.
LEMMA IdataGoesBehind ==
    ASSUME NEW p, NEW n \in Nat, NEW c, Shape(c, p, n), Len(c.sections) = n
    PROVE  PlaceOf(c, ".idata") = n + 1
  <1>1. /\ Have(c, ".idata") \in {0, 1} /\ Have(c, ".pdata") \in {0, 1} /\ Have(c, ".reloc") \in {0, 1}
        /\ Have(c, ".idata") = 0 => FindSection(c, ".idata") = 0
    BY DEF Have
  <1>2. n = n + Have(c, ".idata") + Have(c, ".pdata") + Have(c, ".reloc")
    BY DEF Shape
  <1>3. Have(c, ".idata") = 0
    BY <1>1, <1>2
  <1>. QED
    BY <1>1, <1>3 DEF PlaceOf

LEMMA ProbeCalls ==
    ASSUME IInv, CallsOK, ProbeLayout
    PROVE  CallsOK'
  <1>. DEFINE n == FrontLen(program)
  <1>0. /\ pc = "probe" /\ pc' = "patch" /\ ctx' = Finalize(ctx) /\ program' = program
        /\ UNCHANGED <<program, file>> /\ CallsWritten'
    BY WrittenStays DEF ProbeLayout
  <1>1. /\ IsCtx(ctx) /\ ImportsOK(ctx.imports) /\ Loaded(ctx, program, n) /\ program \in Programs
        /\ Registered(ctx.imports, program, Len(Specs))
    BY <1>0 DEF IInv, ContextOK, CallsOK, CallsLinked
  <1>2. n \in Nat \ {0} /\ 1 \in 1 .. n
    BY <1>1, ProgramFacts
  <1>3. Finalizable(ctx, program, n)
    BY <1>1 DEF Finalizable, Loaded, ImportsOK
  <1>4. PlaceOf(ctx, ".idata") = n + 1
    BY <1>1, <1>2, IdataGoesBehind DEF Loaded
  <1>5. Linked(ctx', program)
    BY <1>0, <1>2, <1>3, <1>4, FinalizedLinked
  <1>. HIDE DEF n
  <1>6. Final(ctx', program, n) /\ Stage(ctx, ctx', program, n)
    BY <1>0, <1>2, <1>3, Finalized
  <1>7. Registered(ctx'.imports, program, Len(Specs))
    BY <1>1, <1>6, RenumberedRegisters DEF Stage
  <1>8. ctx'.sections[1].words = CodeWords(program)
    BY <1>1, <1>2, <1>6 DEF Stage, Loaded
  <1>9. ctx'.sections[1].va = SECTION_ALIGNMENT
    <2>1. IsCtx(ctx') /\ LaidOut(ctx') /\ Len(ctx'.sections) >= 1
      BY <1>2, <1>6 DEF Final, Shape, HasFront, IsCtx
    <2>. QED
      BY <2>1, LayoutChain
  <1>. QED
    BY <1>0, <1>5, <1>7, <1>8, <1>9 DEF CallsOK, CallsLinked

LEMMA PatchCalls ==
    ASSUME IInv, CallsOK, PatchText
    PROVE  CallsOK'
  <1>. DEFINE n == FrontLen(program)
              i == FindSection(ctx, ".text")
              text == ctx.sections[i]
              markers == {h \in DOMAIN text.words : \E s \in DOMAIN Specs : text.words[h] = Marker(s)}
              target == [h \in markers |-> IatOf(ctx, Specs[text.words[h] - Marker(0)])]
              words == [h \in DOMAIN text.words |->
                           IF h \in markers THEN Displacement(target[h], text.va, h)
                                             ELSE text.words[h]]
  <1>0. /\ pc = "patch" /\ UNCHANGED <<program, file>> /\ CallsWritten' /\ program' = program
        /\ \/ ctx' = WithWords(ctx, i, words) /\ pc' = "write"
           \/ ctx' = Fresh /\ pc' = "failed"
    BY WrittenStays DEF PatchText
  <1>1. /\ IsCtx(ctx) /\ ImportsOK(ctx.imports) /\ Placed(ctx, program) /\ program \in Programs
        /\ Registered(ctx.imports, program, Len(Specs)) /\ Linked(ctx, program)
        /\ ctx.sections[1].words = CodeWords(program) /\ ctx.sections[1].va = SECTION_ALIGNMENT
    BY <1>0 DEF IInv, ContextOK, CallsOK, CallsLinked
  <1>2. CASE ctx' = Fresh /\ pc' = "failed"
    BY <1>0, <1>2, CallsEnd
  <1>3. CASE ctx' = WithWords(ctx, i, words) /\ pc' = "write"
    <2>1. n \in Nat \ {0} /\ Shape(ctx, program, n) /\ ctx.imports \in Seq(LibRecords)
      BY <1>1, ProgramFacts DEF Placed, ImportsOK
    <2>2. i = 1 /\ 1 \in 1 .. Len(ctx.sections)
      BY <2>1, ShapeHasText
    <2>3. text.words = CodeWords(program) /\ text.va = SECTION_ALIGNMENT
      BY <1>1, <2>2
    <2>4. ASSUME NEW h \in DOMAIN program.sites
          PROVE  h \in DOMAIN words /\ words[h] = Displacement(IatOf(ctx, Specs[program.sites[h]]), SECTION_ALIGNMENT, h)
      <3>1. /\ program.sites[h] \in DOMAIN Specs /\ h \in DOMAIN CodeWords(program)
            /\ CodeWords(program)[h] = Marker(program.sites[h])
            /\ CodeWords(program)[h] - Marker(0) = program.sites[h]
        BY <1>1, SiteWords
      <3>. HIDE DEF text
      <3>2. h \in markers
        BY <2>3, <3>1
      <3>. HIDE DEF markers
      <3>3. target[h] = IatOf(ctx, Specs[program.sites[h]])
        BY <2>3, <3>1, <3>2
      <3>. HIDE DEF target
      <3>. QED
        BY <2>3, <3>1, <3>2, <3>3
    <2>. HIDE DEF words, text, markers, target, i
    <2>5. /\ Linked(ctx', program) /\ ctx'.imports = ctx.imports /\ SameOffsets(ctx, ctx')
          /\ ctx'.sections[1].words = words
      BY <1>1, <1>3, <2>1, <2>2, LinkedKept
    <2>6. SitesPatched(ctx'.sections[1].words, program, ctx')
      <3>. SUFFICES ASSUME NEW h \in DOMAIN program.sites
           PROVE  /\ h \in DOMAIN words
                  /\ \E k, j \in Nat :
                        /\ EntryOf(ctx'.imports, k, j, program.sites[h])
                        /\ words[h] = Displacement(SlotOf(ctx', program, k, j), SECTION_ALIGNMENT, h)
        BY <2>5 DEF SitesPatched
      <3>1. program.sites[h] \in 1 .. Len(Specs) /\ IsCalled(program, program.sites[h])
        BY <1>1, SiteWords
      <3>2. PICK k, j \in Nat : /\ EntryOf(ctx.imports, k, j, program.sites[h])
                                /\ IatOf(ctx, Specs[program.sites[h]]) = SlotOf(ctx, program, k, j)
        BY <1>1, <2>1, <3>1, SlotFound
      <3>3. SlotOf(ctx', program, k, j) = SlotOf(ctx, program, k, j)
        BY <2>5, <3>2 DEF SlotOf, SameOffsets, EntryOf, IsEntry
      <3>. QED
        BY <2>4, <2>5, <3>2, <3>3
    <2>. QED
      BY <1>0, <1>1, <1>3, <2>5, <2>6 DEF CallsOK, CallsLinked
  <1>. QED
    BY <1>0, <1>2, <1>3

\* Finalizing again leaves every slot where the patch found it.
LEMMA WrittenLinked ==
    ASSUME NEW p \in Programs, NEW c, Placed(c, p), ImportsOK(c.imports),
           Registered(c.imports, p, Len(Specs)), Linked(c, p),
           SitesPatched(c.sections[1].words, p, c)
    PROVE  WrittenFrom(Image(Finalize(c)), p, Finalize(c))
  <1>. DEFINE n == FrontLen(p)
              d == Finalize(c)
              im == Image(d)
  <1>1. n \in Nat \ {0} /\ 1 \in 1 .. n /\ Finalizable(c, p, n) /\ c.imports \in Seq(LibRecords)
    BY ProgramFacts DEF Finalizable, Placed, ImportsOK
  <1>2. c.imports # <<>> => PlaceOf(c, ".idata") = n + 1
    BY <1>1 DEF Linked, HoldsTables, PlaceOf
  <1>3. Linked(d, p)
    BY <1>1, <1>2, FinalizedLinked
  <1>. HIDE DEF n
  <1>4. Stage(c, d, p, n)
    BY <1>1, Finalized
  <1>. HIDE DEF d
  <1>5. Renumbered(c.imports, d.imports) /\ d.sections[1].words = c.sections[1].words
    BY <1>1, <1>4 DEF Stage
  <1>6. ImportsOK(d.imports) /\ Registered(d.imports, p, Len(Specs)) /\ SameOffsets(c, d)
    BY <1>1, <1>5, RenumberedOK, RenumberedRegisters, RenumberedOffsets
  <1>7. SitesPatched(d.sections[1].words, p, d)
    <2>1. ASSUME NEW i \in Nat, NEW j \in Nat, NEW s, EntryOf(c.imports, i, j, s)
          PROVE  EntryOf(d.imports, i, j, s) /\ SlotOf(d, p, i, j) = SlotOf(c, p, i, j)
      BY <1>5, <1>6, <2>1 DEF EntryOf, IsEntry, SlotOf, SameOffsets, Renumbered
    <2>. QED
      BY <1>5, <2>1 DEF SitesPatched
  <1>8. im.sections = d.sections /\ im.dir = d.dir
    BY DEF Image
  <1>. HIDE DEF im
  <1>9. WrittenFrom(im, p, d)
    BY <1>3, <1>6, <1>7, <1>8 DEF WrittenFrom
  <1>. QED
    BY <1>9 DEF im, d

LEMMA WriteCalls ==
    ASSUME IInv, CallsOK, WriteToFile
    PROVE  CallsOK'
  <1>0. /\ pc = "write" /\ pc' = "done" /\ program' = program
        /\ program \in Programs /\ Placed(ctx, program) /\ ImportsOK(ctx.imports)
        /\ Registered(ctx.imports, program, Len(Specs)) /\ Linked(ctx, program)
        /\ SitesPatched(ctx.sections[1].words, program, ctx)
    BY DEF WriteToFile, IInv, ContextOK, CallsOK, CallsLinked
  <1>1. CASE file' = [state |-> "complete", image |-> Image(Finalize(ctx))]
    <2>1. WrittenFrom(Image(Finalize(ctx)), program, Finalize(ctx))
      BY <1>0, WrittenLinked
    <2>2. image' = Image(Finalize(ctx))
      BY <1>1 DEF image
    <2>3. \E c : WrittenFrom(image', program', c)
      BY <1>0, <2>1, <2>2
    <2>4. CallsWritten'
      BY <2>3 DEF CallsWritten
    <2>. QED
      BY <1>0, <2>4, CallsEnd
  <1>2. CASE file' = [state |-> "partial", image |-> NoImage]
    <2>1. CallsWritten'
      BY <1>2 DEF CallsWritten, Written
    <2>. QED
      BY <1>0, <2>1, CallsEnd
  <1>. QED
    BY <1>1, <1>2 DEF WriteToFile

LEMMA CallsStep == IInv /\ CallsOK /\ [Next]_vars => CallsOK'
  <1>. SUFFICES ASSUME IInv, CallsOK, [Next]_vars PROVE CallsOK'
    OBVIOUS
  <1>1. CASE UNCHANGED vars
    <2>1. UNCHANGED <<pc, program, next, ctx, file>>
      BY <1>1 DEF vars
    <2>. QED
      BY <2>1, WrittenStays DEF CallsOK, CallsLinked
  <1>. QED
    BY <1>1, RegisterImportCalls, LoadingCalls, EndingCalls, ProbeCalls, PatchCalls, WriteCalls DEF Next

\* What the calls rest on, in every state: the functions called and no
\* others are registered, each once; the context is linked to its import
\* data once it is finalized; every call site is patched before the write.
THEOREM CallsInvariant == Spec => []CallsOK
  BY Invariant, CallsInit, CallsStep, PTL DEF Spec

-----------------------------------------------------------------------------
(* Where the parts of the import data are: each library behind the one     *)
(* before, and in it the lookup table, the address table, the hints and    *)
(* the name.                                                               *)

FnCount(c, i) == Len(c.imports[i].functions)
LibEnd(c, i) == IltOffset(c, i) + LibrarySize(c.imports[i])

LibraryIs(c, i) ==
    LET F == FnCount(c, i) IN
    /\ F \in Nat /\ IltOffset(c, i) \in Nat /\ IatOffset(c, i) \in Nat
    /\ IltOffset(c, i) >= (Len(c.imports) + 1) * DESCRIPTOR_SIZE
    /\ IatOffset(c, i) = IltOffset(c, i) + (F + 1) * THUNK_SIZE
    /\ HintOffset(c, i, 1) = IatOffset(c, i) + (F + 1) * THUNK_SIZE
    /\ \A j \in 1 .. F + 1 : HintOffset(c, i, j) \in Nat
    /\ \A j \in 1 .. F : HintOffset(c, i, j + 1) >= HintOffset(c, i, j) + 1
    /\ NameOffset(c, i) = HintOffset(c, i, F + 1)
    /\ LibEnd(c, i) \in Nat /\ LibEnd(c, i) >= NameOffset(c, i) + 1

LEMMA LibraryGeometry ==
    ASSUME NEW c, c.imports \in Seq(LibRecords), NEW i \in 1 .. Len(c.imports)
    PROVE  LibraryIs(c, i)
  <1>. DEFINE lib == c.imports[i]
              F == FnCount(c, i)
              sizes == HintSizes(lib)
              T == ThunksSize(lib)
  <1>1. lib \in LibRecords /\ Len(c.imports) \in Nat /\ i \in Nat
    BY Members
  <1>2. /\ lib.functions \in Seq(FnRecords) /\ F \in Nat /\ lib.dll \in DOMAIN StrLen
        /\ DOMAIN lib.functions = 1 .. F /\ F = Len(lib.functions)
    BY <1>1, Members DEF LibRecords, FnCount
  <1>3. \A j \in 1 .. F : lib.functions[j] \in FnRecords
    BY <1>2, Members DEF FnCount
  <1>4. \A j \in 1 .. F : sizes[j] \in Nat /\ sizes[j] >= 3
    <2>1. \A fn \in FnRecords : HintSize(fn) \in Nat /\ HintSize(fn) >= 3
      <3>. SUFFICES ASSUME NEW fn \in FnRecords PROVE HintSize(fn) \in Nat /\ HintSize(fn) >= 3
        OBVIOUS
      <3>1. fn.name \in DOMAIN StrLen
        BY DEF FnRecords
      <3>2. StrLen[fn.name] \in Nat
        BY <3>1, SpecsAssumption
      <3>. QED
        BY <3>2 DEF HintSize
    <2>. QED
      BY <1>2, <1>3, <2>1 DEF HintSizes
  <1>5. T = (F + 1) * THUNK_SIZE /\ T \in Nat
    BY <1>2 DEF ThunksSize, THUNK_SIZE
  <1>6. /\ SumOver(sizes, 0) = 0 /\ \A j \in 0 .. F : SumOver(sizes, j) \in Nat
        /\ \A j \in 1 .. F : SumOver(sizes, j) = SumOver(sizes, j - 1) + sizes[j]
    <2>. HIDE DEF sizes, F
    <2>. QED
      BY <1>2, <1>4, SumsOfSizes
  <1>7. IltOffset(c, i) \in Nat /\ IatOffset(c, i) \in Nat
    BY ImportOffsets
  <1>8. IatOffset(c, i) = IltOffset(c, i) + T
    BY DEF IatOffset
  <1>9. IltOffset(c, i) >= (Len(c.imports) + 1) * DESCRIPTOR_SIZE
    <2>1. SumOver(LibrarySizes(c), i - 1) \in Nat
      <3>1. \A k \in 1 .. Len(c.imports) : LibrarySizes(c)[k] \in Nat
        BY LibrarySizeIsSize, Members DEF LibrarySizes
      <3>2. i - 1 \in 0 .. Len(c.imports)
        BY <1>1
      <3>. QED
        BY <1>1, <3>1, <3>2, SumsOfSizes
    <2>. QED
      BY <1>1, <2>1 DEF IltOffset, DESCRIPTOR_SIZE
  <1>10. \A j : HintOffset(c, i, j) = IatOffset(c, i) + T + SumOver(sizes, j - 1)
    BY DEF HintOffset
  <1>11. NameOffset(c, i) = HintOffset(c, i, F + 1)
    BY DEF NameOffset, FnCount
  <1>12. LibrarySize(lib) = 2 * T + SumOver(sizes, F) + StrLen[lib.dll] + 1
    BY <1>2 DEF LibrarySize
  <1>13. StrLen[lib.dll] \in Nat
    BY <1>2, SpecsAssumption
  <1>. HIDE DEF T, sizes, F, lib
  <1>14. HintOffset(c, i, 1) = IatOffset(c, i) + (F + 1) * THUNK_SIZE
    <2>1. 1 - 1 = 0
      OBVIOUS
    <2>2. HintOffset(c, i, 1) = IatOffset(c, i) + T + 0
      BY <1>6, <1>10, <2>1
    <2>. QED
      BY <1>5, <1>7, <2>2
  <1>15. ASSUME NEW j \in 1 .. F + 1
         PROVE  HintOffset(c, i, j) = IatOffset(c, i) + T + SumOver(sizes, j - 1)
                /\ SumOver(sizes, j - 1) \in Nat /\ HintOffset(c, i, j) \in Nat
    <2>1. j - 1 \in 0 .. F
      BY <1>2
    <2>2. SumOver(sizes, j - 1) \in Nat
      BY <1>6, <2>1
    <2>3. HintOffset(c, i, j) = IatOffset(c, i) + T + SumOver(sizes, j - 1)
      BY <1>10
    <2>. QED
      BY <1>5, <1>7, <2>2, <2>3
  <1>16. ASSUME NEW j \in 1 .. F
         PROVE  HintOffset(c, i, j + 1) >= HintOffset(c, i, j) + 1
    <2>1. j \in 1 .. F + 1 /\ j + 1 \in 1 .. F + 1 /\ (j + 1) - 1 = j
      BY <1>2
    <2>2. HintOffset(c, i, j + 1) = IatOffset(c, i) + T + SumOver(sizes, (j + 1) - 1)
      BY <1>15, <2>1
    <2>3. SumOver(sizes, (j + 1) - 1) = SumOver(sizes, j - 1) + sizes[j]
      BY <1>6, <2>1
    <2>4. /\ HintOffset(c, i, j) = IatOffset(c, i) + T + SumOver(sizes, j - 1)
          /\ SumOver(sizes, j - 1) \in Nat /\ sizes[j] \in Nat /\ sizes[j] >= 3
      BY <1>4, <1>15, <2>1
    <2>5. HintOffset(c, i, j + 1) = IatOffset(c, i) + T + (SumOver(sizes, j - 1) + sizes[j])
      BY <2>2, <2>3
    <2>6. \A u, t, v, z \in Nat : z >= 3 => u + t + (v + z) >= u + t + v + 1
      OBVIOUS
    <2>. QED
      BY <1>5, <1>7, <2>4, <2>5, <2>6
  <1>17. LibEnd(c, i) \in Nat /\ LibEnd(c, i) >= NameOffset(c, i) + 1
    <2>1. F + 1 \in 1 .. F + 1 /\ (F + 1) - 1 = F
      BY <1>2
    <2>2. HintOffset(c, i, F + 1) = IatOffset(c, i) + T + SumOver(sizes, (F + 1) - 1)
          /\ SumOver(sizes, (F + 1) - 1) \in Nat
      BY <1>15, <2>1
    <2>3. LibEnd(c, i) = IltOffset(c, i) + (2 * T + SumOver(sizes, F) + StrLen[lib.dll] + 1)
      BY <1>12 DEF LibEnd, lib
    <2>. DEFINE s == SumOver(sizes, F)
                b == StrLen[lib.dll]
    <2>4. NameOffset(c, i) = IatOffset(c, i) + T + s /\ s \in Nat
      BY <1>11, <2>1, <2>2
    <2>5. b \in Nat /\ LibEnd(c, i) = IltOffset(c, i) + (2 * T + s + b + 1)
      BY <1>13, <2>3
    <2>. HIDE DEF s, b
    <2>6. T \in Nat /\ IltOffset(c, i) \in Nat /\ IatOffset(c, i) = IltOffset(c, i) + T
      BY <1>5, <1>7, <1>8
    <2>. QED
      BY <2>4, <2>5, <2>6
  <1>. QED
    BY <1>2, <1>5, <1>7, <1>8, <1>9, <1>11, <1>14, <1>15, <1>16, <1>17 DEF LibraryIs, F

\* The names of a library are in order, between its tables and its end.
LEMMA HintsInOrder ==
    ASSUME NEW c, NEW i, LibraryIs(c, i)
    PROVE  LET F == FnCount(c, i) IN
           /\ \A j, l \in 1 .. F + 1 : j < l => HintOffset(c, i, j) < HintOffset(c, i, l)
           /\ \A j \in 1 .. F + 1 : /\ IatOffset(c, i) + (F + 1) * THUNK_SIZE <= HintOffset(c, i, j)
                                    /\ HintOffset(c, i, j) < LibEnd(c, i)
  <1>. DEFINE F == FnCount(c, i)
              a == [j \in 1 .. F + 1 |-> HintOffset(c, i, j)]
              z == [j \in 1 .. F + 1 |-> 1]
  <1>1. /\ F \in Nat /\ \A j \in 1 .. F + 1 : HintOffset(c, i, j) \in Nat
        /\ \A j \in 1 .. F : HintOffset(c, i, j + 1) >= HintOffset(c, i, j) + 1
        /\ HintOffset(c, i, 1) = IatOffset(c, i) + (F + 1) * THUNK_SIZE
        /\ LibEnd(c, i) \in Nat /\ LibEnd(c, i) >= HintOffset(c, i, F + 1) + 1
    BY DEF LibraryIs
  <1>. HIDE DEF F
  <1>2. ASSUME NEW j \in 1 .. F + 1, NEW l \in 1 .. F + 1, j < l
        PROVE  HintOffset(c, i, j) + 1 <= HintOffset(c, i, l)
    <2>1. F + 1 \in Nat /\ (F + 1) - 1 = F
      BY <1>1
    <2>2. \A k \in 1 .. F + 1 : a[k] \in Nat /\ z[k] \in Nat /\ a[k] = HintOffset(c, i, k) /\ z[k] = 1
      BY <1>1
    <2>3. \A k \in 1 .. F : k \in 1 .. F + 1 /\ k + 1 \in 1 .. F + 1
      BY <1>1
    <2>4. \A k \in 1 .. F : a[k] + z[k] <= a[k + 1]
      BY <1>1, <2>3
    <2>. HIDE DEF a, z
    <2>5. \A k \in 1 .. (F + 1) - 1 : a[k] + z[k] <= a[k + 1]
      BY <2>1, <2>4
    <2>6. \A k, m \in 1 .. F + 1 : k < m => a[k] + z[k] <= a[m]
      BY <2>1, <2>2, <2>5, Apart
    <2>. QED
      BY <1>2, <2>2, <2>6
  <1>3. ASSUME NEW j \in 1 .. F + 1
        PROVE  IatOffset(c, i) + (F + 1) * THUNK_SIZE <= HintOffset(c, i, j) /\ HintOffset(c, i, j) < LibEnd(c, i)
    <2>1. 1 \in 1 .. F + 1 /\ F + 1 \in 1 .. F + 1
      BY <1>1
    <2>2. HintOffset(c, i, 1) <= HintOffset(c, i, j)
      BY <1>1, <1>2, <2>1
    <2>3. HintOffset(c, i, j) <= HintOffset(c, i, F + 1)
      BY <1>1, <1>2, <2>1
    <2>4. HintOffset(c, i, j) \in Nat /\ HintOffset(c, i, F + 1) \in Nat
      BY <1>1, <2>1
    <2>. QED
      BY <1>1, <2>2, <2>3, <2>4
  <1>4. ASSUME NEW j \in 1 .. F + 1, NEW l \in 1 .. F + 1, j < l
        PROVE  HintOffset(c, i, j) < HintOffset(c, i, l)
    BY <1>1, <1>2, <1>4
  <1>. QED
    BY <1>3, <1>4 DEF F

LEMMA LibrariesInOrder ==
    ASSUME NEW c, c.imports \in Seq(LibRecords)
    PROVE  /\ \A i, k \in 1 .. Len(c.imports) : i < k => LibEnd(c, i) <= IltOffset(c, k)
           /\ \A i \in 1 .. Len(c.imports) :
                 LibEnd(c, i) + (Len(c.imports) + 1) * THUNK_SIZE <= ImportSize(c)
  <1>. DEFINE L == Len(c.imports)
              sizes == LibrarySizes(c)
              a == [i \in 1 .. L |-> IltOffset(c, i)]
              z == [i \in 1 .. L |-> LibrarySize(c.imports[i])]
  <1>1. L \in Nat /\ DOMAIN c.imports = 1 .. L /\ \A i \in 1 .. L : c.imports[i] \in LibRecords
    BY Members
  <1>. HIDE DEF L
  <1>2. \A i \in 1 .. L : /\ sizes[i] \in Nat /\ sizes[i] = LibrarySize(c.imports[i])
    BY <1>1, LibrarySizeIsSize DEF LibrarySizes
  <1>. HIDE DEF sizes
  <1>3. /\ SumOver(sizes, 0) = 0 /\ \A i \in 0 .. L : SumOver(sizes, i) \in Nat
        /\ \A i \in 1 .. L : SumOver(sizes, i) = SumOver(sizes, i - 1) + sizes[i]
    BY <1>1, <1>2, SumsOfSizes
  <1>4. \A i : IltOffset(c, i) = (L + 1) * 20 + SumOver(sizes, i - 1)
    BY DEF IltOffset, L, sizes, DESCRIPTOR_SIZE
  <1>5. ASSUME NEW i \in 1 .. L
        PROVE  /\ IltOffset(c, i) \in Nat /\ LibEnd(c, i) = (L + 1) * 20 + SumOver(sizes, i)
               /\ LibEnd(c, i) = IltOffset(c, i) + sizes[i]
    <2>1. i - 1 \in 0 .. L
      BY <1>1
    <2>2. SumOver(sizes, i - 1) \in Nat /\ SumOver(sizes, i) = SumOver(sizes, i - 1) + sizes[i]
          /\ sizes[i] \in Nat /\ IltOffset(c, i) = (L + 1) * 20 + SumOver(sizes, i - 1)
      BY <1>2, <1>3, <1>4, <2>1
    <2>3. LibEnd(c, i) = IltOffset(c, i) + sizes[i]
      BY <1>2 DEF LibEnd
    <2>. QED
      BY <1>1, <2>2, <2>3
  <1>6. ASSUME NEW i \in 1 .. L - 1 PROVE IltOffset(c, i + 1) = LibEnd(c, i)
    <2>1. i \in 1 .. L /\ (i + 1) - 1 = i
      BY <1>1
    <2>2. IltOffset(c, i + 1) = (L + 1) * 20 + SumOver(sizes, (i + 1) - 1)
      BY <1>4
    <2>. QED
      BY <1>5, <2>1, <2>2
  <1>7. \A i, k \in 1 .. L : i < k => LibEnd(c, i) <= IltOffset(c, k)
    <2>1. \A i \in 1 .. L : a[i] \in Nat /\ z[i] \in Nat /\ a[i] = IltOffset(c, i) /\ z[i] = sizes[i]
      BY <1>2, <1>5
    <2>2. \A i \in 1 .. L - 1 : i \in 1 .. L /\ i + 1 \in 1 .. L
      BY <1>1
    <2>. HIDE DEF a, z
    <2>3. ASSUME NEW i \in 1 .. L - 1 PROVE a[i] + z[i] <= a[i + 1]
      <3>1. a[i + 1] = LibEnd(c, i) /\ a[i] + z[i] = LibEnd(c, i)
        BY <1>5, <1>6, <2>1, <2>2
      <3>2. a[i + 1] \in Nat
        BY <2>1, <2>2
      <3>. QED
        BY <3>1, <3>2
    <2>4. \A i, k \in 1 .. L : i < k => a[i] + z[i] <= a[k]
      BY <1>1, <2>1, <2>3, Apart
    <2>. QED
      BY <1>5, <2>1, <2>4
  <1>8. ASSUME NEW i \in 1 .. L PROVE LibEnd(c, i) + (L + 1) * 8 <= ImportSize(c)
    <2>1. ImportSize(c) = (L + 1) * (20 + 8) + SumOver(sizes, L)
      BY DEF ImportSize, L, sizes, DESCRIPTOR_SIZE, THUNK_SIZE
    <2>2. L \in 1 .. L /\ L \in 0 .. L
      BY <1>1
    <2>3. LibEnd(c, L) = (L + 1) * 20 + SumOver(sizes, L) /\ SumOver(sizes, L) \in Nat
      BY <1>3, <1>5, <2>2
    <2>4. LibEnd(c, i) <= LibEnd(c, L)
      <3>1. CASE i = L
        BY <2>3, <3>1, <1>1
      <3>2. CASE i < L
        <4>1. LibEnd(c, i) <= IltOffset(c, L)
          BY <1>7, <2>2, <3>2
        <4>2. LibEnd(c, L) = IltOffset(c, L) + sizes[L] /\ sizes[L] \in Nat /\ IltOffset(c, L) \in Nat
          BY <1>2, <1>5, <2>2
        <4>3. LibEnd(c, i) = IltOffset(c, i) + sizes[i] /\ sizes[i] \in Nat /\ IltOffset(c, i) \in Nat
          BY <1>2, <1>5
        <4>. QED
          BY <4>1, <4>2, <4>3
      <3>. QED
        BY <1>1, <3>1, <3>2
    <2>5. LibEnd(c, i) \in Nat
      BY <1>2, <1>5
    <2>. QED
      BY <1>1, <2>1, <2>3, <2>4, <2>5
  <1>. QED
    BY <1>7, <1>8 DEF L, THUNK_SIZE

\* The numbers of a library, with the sizes of the entries filled in.
TablesFit(c, i) ==
    LET F == FnCount(c, i)
        L == Len(c.imports)
    IN  /\ F \in Nat /\ L \in Nat /\ IltOffset(c, i) \in Nat /\ IatOffset(c, i) \in Nat
        /\ LibEnd(c, i) \in Nat /\ ImportSize(c) \in Nat
        /\ IltOffset(c, i) >= (L + 1) * 20
        /\ IatOffset(c, i) = IltOffset(c, i) + (F + 1) * 8
        /\ IatOffset(c, i) + (F + 1) * 8 < LibEnd(c, i)
        /\ LibEnd(c, i) + (L + 1) * 8 <= ImportSize(c)

LEMMA TablesFitAll ==
    ASSUME NEW c, c.imports \in Seq(LibRecords), NEW i \in 1 .. Len(c.imports)
    PROVE  TablesFit(c, i)
  <1>. DEFINE F == FnCount(c, i)
              L == Len(c.imports)
  <1>1. L \in Nat /\ ImportSize(c) \in Nat
    BY Members, ImportOffsets
  <1>2. LibraryIs(c, i)
    BY LibraryGeometry
  <1>3. /\ F \in Nat /\ IltOffset(c, i) \in Nat /\ IatOffset(c, i) \in Nat
        /\ IltOffset(c, i) >= (L + 1) * 20
        /\ IatOffset(c, i) = IltOffset(c, i) + (F + 1) * 8
        /\ LibEnd(c, i) \in Nat
    BY <1>2 DEF LibraryIs, DESCRIPTOR_SIZE, THUNK_SIZE
  <1>4. IatOffset(c, i) + (F + 1) * 8 < LibEnd(c, i)
    <2>1. 1 \in 1 .. F + 1
      BY <1>3
    <2>2. IatOffset(c, i) + (F + 1) * THUNK_SIZE <= HintOffset(c, i, 1) /\ HintOffset(c, i, 1) < LibEnd(c, i)
      BY <1>2, <2>1, HintsInOrder
    <2>3. HintOffset(c, i, 1) \in Nat
      BY <1>2, <2>1 DEF LibraryIs
    <2>. QED
      BY <1>3, <2>2, <2>3 DEF THUNK_SIZE
  <1>5. LibEnd(c, i) + (L + 1) * 8 <= ImportSize(c)
    BY LibrariesInOrder DEF THUNK_SIZE
  <1>. QED
    BY <1>1, <1>3, <1>4, <1>5 DEF TablesFit

\* The pairs the import data is made of, by where they are.
Descriptors(c, base, i) ==
    { <<(i - 1) * 20, base + IltOffset(c, i)>>,
      <<(i - 1) * 20 + 12, base + NameOffset(c, i)>>,
      <<(i - 1) * 20 + 16, base + IatOffset(c, i)>> }
IsTablePair(c, base, i, q) ==
    \E j \in 1 .. FnCount(c, i) :
        \/ q = <<IltOffset(c, i) + (j - 1) * 8, base + HintOffset(c, i, j)>>
        \/ q = <<IatOffset(c, i) + (j - 1) * 8, base + HintOffset(c, i, j)>>
AllWords(c, base) == UNION {WordsOf(c, base, i) : i \in DOMAIN c.imports}

LEMMA ImportWordsAre ==
    ASSUME NEW c, NEW base
    PROVE  ImportWords(c, base) = OfPairs(AllWords(c, base))
  BY ImportDataIs DEF AllWords

LEMMA PairKinds ==
    ASSUME NEW c, c.imports \in Seq(LibRecords), NEW base, NEW q
    PROVE  q \in AllWords(c, base) <=>
             \E i \in 1 .. Len(c.imports) : q \in Descriptors(c, base, i) \/ IsTablePair(c, base, i, q)
  <1>1. DOMAIN c.imports = 1 .. Len(c.imports)
    BY Members
  <1>2. ASSUME NEW i \in 1 .. Len(c.imports)
        PROVE  q \in WordsOf(c, base, i) <=> q \in Descriptors(c, base, i) \/ IsTablePair(c, base, i, q)
    <2>1. DOMAIN c.imports[i].functions = 1 .. FnCount(c, i)
      <3>1. c.imports[i] \in LibRecords
        BY Members
      <3>2. c.imports[i].functions \in Seq(FnRecords)
        BY <3>1 DEF LibRecords
      <3>. QED
        BY <3>2, Members DEF FnCount
    <2>. QED
      BY <2>1 DEF WordsOf, Descriptors, IsTablePair, DESCRIPTOR_SIZE, THUNK_SIZE
  <1>. QED
    BY <1>1, <1>2 DEF AllWords

LEMMA OfPairsAt ==
    ASSUME NEW pairs, NEW o, NEW v, <<o, v>> \in pairs, \A q \in pairs : q[1] = o => q = <<o, v>>
    PROVE  o \in DOMAIN OfPairs(pairs) /\ OfPairs(pairs)[o] = v
  <1>1. o \in {q[1] : q \in pairs}
    <2>1. <<o, v>>[1] = o
      OBVIOUS
    <2>. QED
      BY <2>1
  <1>2. (CHOOSE q \in pairs : q[1] = o) = <<o, v>>
    <2>1. \E q \in pairs : q[1] = o
      BY <1>1
    <2>. QED
      BY <2>1
  <1>3. <<o, v>>[2] = v
    OBVIOUS
  <1>. QED
    BY <1>1, <1>2, <1>3 DEF OfPairs

LEMMA OfPairsNot ==
    ASSUME NEW pairs, NEW o, \A q \in pairs : q[1] # o
    PROVE  o \notin DOMAIN OfPairs(pairs)
  BY DEF OfPairs

\* Two pairs of the import data are apart.
LEMMA DescriptorAlone ==
    ASSUME NEW c, c.imports \in Seq(LibRecords), NEW base,
           NEW i \in 1 .. Len(c.imports) + 1, NEW f \in {0, 12, 16},
           NEW q \in AllWords(c, base), q[1] = (i - 1) * 20 + f
    PROVE  i \in 1 .. Len(c.imports) /\ q \in Descriptors(c, base, i)
  <1>. DEFINE L == Len(c.imports)
  <1>0. L \in Nat
    BY Members
  <1>1. PICK k \in 1 .. L : q \in Descriptors(c, base, k) \/ IsTablePair(c, base, k, q)
    BY PairKinds
  <1>2. TablesFit(c, k)
    BY TablesFitAll
  <1>3. ~IsTablePair(c, base, k, q)
    <2>. SUFFICES ASSUME IsTablePair(c, base, k, q) PROVE FALSE
      OBVIOUS
    <2>1. PICK j \in 1 .. FnCount(c, k) :
             q[1] = IltOffset(c, k) + (j - 1) * 8 \/ q[1] = IatOffset(c, k) + (j - 1) * 8
      BY DEF IsTablePair
    <2>2. q[1] >= (L + 1) * 20
      <3>. DEFINE a == IltOffset(c, k)
                  b == IatOffset(c, k)
                  F == FnCount(c, k)
      <3>1. a \in Nat /\ b \in Nat /\ F \in Nat /\ a >= (L + 1) * 20 /\ b = a + (F + 1) * 8
        BY <1>2 DEF TablesFit
      <3>2. j \in Nat /\ j >= 1
        BY <3>1
      <3>. HIDE DEF a, b, F, L
      <3>. QED
        BY <1>0, <2>1, <3>1, <3>2 DEF a, b
    <2>. HIDE DEF L
    <2>3. q[1] < (L + 1) * 20
      BY <1>0 DEF L
    <2>4. q[1] \in Nat
      BY <1>0
    <2>. QED
      BY <1>0, <2>2, <2>3, <2>4
  <1>4. q \in Descriptors(c, base, k)
    BY <1>1, <1>3
  <1>5. PICK g \in {0, 12, 16} : q[1] = (k - 1) * 20 + g
    BY <1>4 DEF Descriptors
  <1>6. i = k
    <2>1. (i - 1) * 20 + f = (k - 1) * 20 + g /\ i \in Nat /\ k \in Nat
      BY <1>0, <1>5
    <2>. HIDE DEF L
    <2>. QED
      BY <2>1
  <1>. QED
    BY <1>4, <1>6

LEMMA LookupAlone ==
    ASSUME NEW c, c.imports \in Seq(LibRecords), NEW base,
           NEW i \in 1 .. Len(c.imports), NEW j \in 1 .. FnCount(c, i) + 1,
           NEW q \in AllWords(c, base), q[1] = IltOffset(c, i) + (j - 1) * 8
    PROVE  j <= FnCount(c, i) /\ q = <<q[1], base + HintOffset(c, i, j)>>
  <1>. DEFINE L == Len(c.imports)
              o == IltOffset(c, i) + (j - 1) * 8
              F == FnCount(c, i)
  <1>0. L \in Nat /\ i \in 1 .. L
    BY Members
  <1>1. PICK k \in 1 .. L : q \in Descriptors(c, base, k) \/ IsTablePair(c, base, k, q)
    BY PairKinds
  <1>. HIDE DEF L
  <1>2. /\ F \in Nat /\ IltOffset(c, i) \in Nat /\ IatOffset(c, i) \in Nat /\ LibEnd(c, i) \in Nat
        /\ IltOffset(c, i) >= (L + 1) * 20 /\ IatOffset(c, i) = IltOffset(c, i) + (F + 1) * 8
        /\ IatOffset(c, i) + (F + 1) * 8 < LibEnd(c, i)
    BY <1>0, TablesFitAll DEF TablesFit, L
  <1>3. o \in Nat /\ j \in Nat /\ j >= 1 /\ j <= F + 1 /\ IltOffset(c, i) <= o /\ o < IatOffset(c, i)
    <2>1. j \in 1 .. F + 1
      OBVIOUS
    <2>. HIDE DEF F
    <2>. QED
      BY <1>2, <2>1
  <1>4. q \notin Descriptors(c, base, k)
    <2>. SUFFICES ASSUME q \in Descriptors(c, base, k) PROVE FALSE
      OBVIOUS
    <2>1. PICK g \in {0, 12, 16} : q[1] = (k - 1) * 20 + g
      BY DEF Descriptors
    <2>2. q[1] < L * 20
      BY <1>0, <2>1
    <2>. HIDE DEF o
    <2>3. q[1] = o
      BY DEF o
    <2>. QED
      BY <1>0, <1>2, <1>3, <2>2, <2>3
  <1>5. PICK l \in 1 .. FnCount(c, k) :
             \/ q = <<IltOffset(c, k) + (l - 1) * 8, base + HintOffset(c, k, l)>>
             \/ q = <<IatOffset(c, k) + (l - 1) * 8, base + HintOffset(c, k, l)>>
    BY <1>1, <1>4 DEF IsTablePair
  <1>. DEFINE a == IltOffset(c, k)
              b == IatOffset(c, k)
              G == FnCount(c, k)
              e == LibEnd(c, k)
  <1>6. /\ G \in Nat /\ a \in Nat /\ b \in Nat /\ e \in Nat /\ b = a + (G + 1) * 8 /\ b + (G + 1) * 8 < e
    <2>1. k \in 1 .. Len(c.imports)
      BY DEF L
    <2>. QED
      BY <2>1, TablesFitAll DEF TablesFit
  <1>7. o = a + (l - 1) * 8 \/ o = b + (l - 1) * 8
    BY <1>5
  <1>8. l \in Nat /\ l >= 1 /\ l <= G
    BY <1>6
  <1>. HIDE DEF o, F
  <1>9. a <= o /\ o < e
    <2>. HIDE DEF a, b, G, e
    <2>. QED
      BY <1>3, <1>6, <1>7, <1>8
  <1>10. k = i
    <2>1. \A m, n \in 1 .. L : m < n => LibEnd(c, m) <= IltOffset(c, n)
      BY LibrariesInOrder DEF L
    <2>2. k < i => e <= IltOffset(c, i)
      BY <1>0, <2>1
    <2>3. i < k => LibEnd(c, i) <= a
      BY <1>0, <2>1
    <2>4. k < i \/ i < k \/ k = i
      BY <1>0
    <2>5. o < LibEnd(c, i)
      <3>1. IatOffset(c, i) < LibEnd(c, i)
        BY <1>2
      <3>. QED
        BY <1>2, <1>3, <3>1
    <2>6. IltOffset(c, i) \in Nat /\ LibEnd(c, i) \in Nat /\ o \in Nat /\ IltOffset(c, i) <= o
      BY <1>2, <1>3
    <2>7. a \in Nat /\ e \in Nat
      BY <1>6
    <2>. HIDE DEF a, b, G, e
    <2>8. ~(k < i)
      BY <1>9, <2>2, <2>6, <2>7
    <2>9. ~(i < k)
      BY <1>9, <2>3, <2>5, <2>6, <2>7
    <2>. QED
      BY <2>4, <2>8, <2>9
  <1>11. G = F /\ a = IltOffset(c, i) /\ b = IatOffset(c, i)
    BY <1>10 DEF F
  <1>12. j = l
    <2>1. o = a + (j - 1) * 8 /\ o < b /\ a \in Nat /\ b \in Nat
      BY <1>3, <1>6, <1>11 DEF o
    <2>2. j \in Nat /\ l \in Nat /\ l >= 1
      BY <1>3, <1>8
    <2>. HIDE DEF a, b, G
    <2>3. CASE o = a + (l - 1) * 8
      BY <2>1, <2>2, <2>3
    <2>4. CASE o = b + (l - 1) * 8
      <3>1. o >= b
        BY <2>1, <2>2, <2>4
      <3>2. o \in Nat
        BY <1>3
      <3>. QED
        BY <2>1, <3>1, <3>2
    <2>. QED
      BY <1>7, <2>3, <2>4
  <1>13. j <= F
    BY <1>8, <1>11, <1>12
  <1>14. q = <<q[1], base + HintOffset(c, i, j)>>
    BY <1>5, <1>10, <1>12
  <1>. QED
    BY <1>13, <1>14 DEF F

\* The words the loader reads, and the two that close a list.
LEMMA DescriptorWords ==
    ASSUME NEW c, c.imports \in Seq(LibRecords), NEW base, NEW i \in 1 .. Len(c.imports)
    PROVE  LET w == ImportWords(c, base)
               o == (i - 1) * 20
           IN  /\ o + 0 \in DOMAIN w /\ w[o + 0] = base + IltOffset(c, i)
               /\ o + 12 \in DOMAIN w /\ w[o + 12] = base + NameOffset(c, i)
               /\ o + 16 \in DOMAIN w /\ w[o + 16] = base + IatOffset(c, i)
  <1>. DEFINE o == (i - 1) * 20
              pairs == AllWords(c, base)
  <1>1. ImportWords(c, base) = OfPairs(pairs)
    BY ImportWordsAre
  <1>2. o \in Nat /\ o + 0 = o /\ i \in 1 .. Len(c.imports) + 1 /\ Len(c.imports) \in Nat
    <2>1. Len(c.imports) \in Nat
      BY Members
    <2>. QED
      BY <2>1
  <1>3. <<o, base + IltOffset(c, i)>> \in pairs /\ <<o + 12, base + NameOffset(c, i)>> \in pairs
        /\ <<o + 16, base + IatOffset(c, i)>> \in pairs
    <2>. HIDE DEF pairs
    <2>. QED
      BY PairKinds DEF Descriptors, pairs
  <1>. HIDE DEF pairs
  <1>4. ASSUME NEW f \in {0, 12, 16}, NEW q \in pairs, q[1] = o + f
        PROVE  q \in Descriptors(c, base, i)
    BY <1>2, <1>4, DescriptorAlone DEF pairs
  <1>5. Descriptors(c, base, i) = {<<o, base + IltOffset(c, i)>>, <<o + 12, base + NameOffset(c, i)>>,
                                   <<o + 16, base + IatOffset(c, i)>>}
    BY DEF Descriptors
  <1>6. o # o + 12 /\ o # o + 16 /\ o + 12 # o + 16
    BY <1>2
  <1>. HIDE DEF o
  <1>7. o \in DOMAIN OfPairs(pairs) /\ OfPairs(pairs)[o] = base + IltOffset(c, i)
    <2>1. ASSUME NEW q \in pairs, q[1] = o PROVE q = <<o, base + IltOffset(c, i)>>
      <3>1. q \in Descriptors(c, base, i)
        BY <1>2, <1>4, <2>1
      <3>. QED
        BY <1>5, <1>6, <2>1, <3>1
    <2>. QED
      BY <1>3, <2>1, OfPairsAt
  <1>8. o + 12 \in DOMAIN OfPairs(pairs) /\ OfPairs(pairs)[o + 12] = base + NameOffset(c, i)
    <2>1. ASSUME NEW q \in pairs, q[1] = o + 12 PROVE q = <<o + 12, base + NameOffset(c, i)>>
      <3>1. q \in Descriptors(c, base, i)
        BY <1>4, <2>1
      <3>. QED
        BY <1>5, <1>6, <2>1, <3>1
    <2>. QED
      BY <1>3, <2>1, OfPairsAt
  <1>9. o + 16 \in DOMAIN OfPairs(pairs) /\ OfPairs(pairs)[o + 16] = base + IatOffset(c, i)
    <2>1. ASSUME NEW q \in pairs, q[1] = o + 16 PROVE q = <<o + 16, base + IatOffset(c, i)>>
      <3>1. q \in Descriptors(c, base, i)
        BY <1>4, <2>1
      <3>. QED
        BY <1>5, <1>6, <2>1, <3>1
    <2>. QED
      BY <1>3, <2>1, OfPairsAt
  <1>. QED
    BY <1>1, <1>2, <1>7, <1>8, <1>9 DEF o

LEMMA LookupWords ==
    ASSUME NEW c, c.imports \in Seq(LibRecords), NEW base, NEW i \in 1 .. Len(c.imports)
    PROVE  LET w == ImportWords(c, base)
               Entry(j) == IltOffset(c, i) + (j - 1) * 8
           IN  /\ \A j \in 1 .. FnCount(c, i) : Entry(j) \in DOMAIN w /\ w[Entry(j)] = base + HintOffset(c, i, j)
               /\ Entry(FnCount(c, i) + 1) \notin DOMAIN w
               /\ Len(c.imports) * 20 + 12 \notin DOMAIN w
  <1>. DEFINE pairs == AllWords(c, base)
              F == FnCount(c, i)
              Entry(j) == IltOffset(c, i) + (j - 1) * 8
              L == Len(c.imports)
  <1>1. ImportWords(c, base) = OfPairs(pairs)
    BY ImportWordsAre
  <1>2. F \in Nat /\ L \in Nat
    BY TablesFitAll DEF TablesFit
  <1>3. ASSUME NEW j \in 1 .. F
        PROVE  Entry(j) \in DOMAIN OfPairs(pairs) /\ OfPairs(pairs)[Entry(j)] = base + HintOffset(c, i, j)
    <2>1. <<Entry(j), base + HintOffset(c, i, j)>> \in pairs
      <3>1. IsTablePair(c, base, i, <<Entry(j), base + HintOffset(c, i, j)>>)
        BY DEF IsTablePair
      <3>. HIDE DEF Entry
      <3>. QED
        BY <3>1, PairKinds
    <2>2. j \in 1 .. FnCount(c, i) + 1
      BY <1>2
    <2>3. ASSUME NEW q \in pairs, q[1] = Entry(j) PROVE q = <<Entry(j), base + HintOffset(c, i, j)>>
      BY <2>2, <2>3, LookupAlone
    <2>. HIDE DEF pairs, Entry
    <2>. QED
      BY <2>1, <2>3, OfPairsAt
  <1>4. Entry(F + 1) \notin DOMAIN OfPairs(pairs)
    <2>1. ASSUME NEW q \in pairs, q[1] = Entry(F + 1) PROVE FALSE
      <3>1. F + 1 \in 1 .. FnCount(c, i) + 1
        BY <1>2
      <3>2. F + 1 <= FnCount(c, i)
        BY <2>1, <3>1, LookupAlone
      <3>. QED
        BY <1>2, <3>2
    <2>. HIDE DEF pairs, Entry
    <2>. QED
      BY <2>1, OfPairsNot
  <1>5. L * 20 + 12 \notin DOMAIN OfPairs(pairs)
    <2>1. ASSUME NEW q \in pairs, q[1] = L * 20 + 12 PROVE FALSE
      <3>1. L + 1 \in 1 .. Len(c.imports) + 1 /\ ((L + 1) - 1) * 20 + 12 = L * 20 + 12
        BY <1>2
      <3>2. L + 1 \in 1 .. Len(c.imports)
        BY <2>1, <3>1, DescriptorAlone
      <3>. QED
        BY <1>2, <3>2
    <2>. HIDE DEF pairs, L
    <2>. QED
      BY <2>1, OfPairsNot
  <1>. QED
    BY <1>1, <1>3, <1>4, <1>5

\* The names of a library, its own behind those of its functions.
NameAt(c, i, j) ==
    IF j = FnCount(c, i) + 1 THEN c.imports[i].dll ELSE c.imports[i].functions[j].name
IsName(c, i, q) ==
    \E j \in 1 .. FnCount(c, i) + 1 : q = <<HintOffset(c, i, j), NameAt(c, i, j)>>
AllNames(c) == UNION {NamesOf(c, i) : i \in DOMAIN c.imports}

LEMMA NameKinds ==
    ASSUME NEW c, c.imports \in Seq(LibRecords), NEW q
    PROVE  q \in AllNames(c) <=> \E i \in 1 .. Len(c.imports) : IsName(c, i, q)
  <1>1. DOMAIN c.imports = 1 .. Len(c.imports)
    BY Members
  <1>2. ASSUME NEW i \in 1 .. Len(c.imports)
        PROVE  q \in NamesOf(c, i) <=> IsName(c, i, q)
    <2>. DEFINE F == FnCount(c, i)
    <2>1. DOMAIN c.imports[i].functions = 1 .. F /\ F \in Nat
      <3>1. c.imports[i] \in LibRecords
        BY Members
      <3>2. c.imports[i].functions \in Seq(FnRecords)
        BY <3>1 DEF LibRecords
      <3>. QED
        BY <3>2, Members DEF FnCount
    <2>2. NameOffset(c, i) = HintOffset(c, i, F + 1)
      BY DEF NameOffset, FnCount
    <2>3. NameAt(c, i, F + 1) = c.imports[i].dll
      BY DEF NameAt
    <2>4. \A j \in 1 .. F : NameAt(c, i, j) = c.imports[i].functions[j].name
      BY <2>1 DEF NameAt
    <2>5. q \in NamesOf(c, i) <=> \/ q = <<HintOffset(c, i, F + 1), NameAt(c, i, F + 1)>>
                                  \/ \E j \in 1 .. F : q = <<HintOffset(c, i, j), NameAt(c, i, j)>>
      BY <2>1, <2>2, <2>3, <2>4 DEF NamesOf
    <2>. HIDE DEF F
    <2>6. \A j : j \in 1 .. F + 1 <=> j \in 1 .. F \/ j = F + 1
      BY <2>1
    <2>. QED
      BY <2>5, <2>6 DEF IsName, F
  <1>. QED
    BY <1>1, <1>2 DEF AllNames

LEMMA HintWithin ==
    ASSUME NEW c, c.imports \in Seq(LibRecords), NEW i \in 1 .. Len(c.imports),
           NEW j \in 1 .. FnCount(c, i) + 1
    PROVE  /\ HintOffset(c, i, j) \in Nat /\ IltOffset(c, i) \in Nat /\ LibEnd(c, i) \in Nat
           /\ IltOffset(c, i) <= HintOffset(c, i, j) /\ HintOffset(c, i, j) < LibEnd(c, i)
           /\ HintOffset(c, i, j) < ImportSize(c) /\ ImportSize(c) \in Nat
  <1>. DEFINE F == FnCount(c, i)
  <1>1. LibraryIs(c, i)
    BY LibraryGeometry
  <1>2. /\ IatOffset(c, i) + (F + 1) * THUNK_SIZE <= HintOffset(c, i, j)
        /\ HintOffset(c, i, j) < LibEnd(c, i)
    BY <1>1, HintsInOrder
  <1>3. HintOffset(c, i, j) \in Nat
    BY <1>1 DEF LibraryIs
  <1>4. /\ F \in Nat /\ IltOffset(c, i) \in Nat /\ IatOffset(c, i) \in Nat /\ LibEnd(c, i) \in Nat
        /\ IatOffset(c, i) = IltOffset(c, i) + (F + 1) * 8 /\ ImportSize(c) \in Nat
        /\ LibEnd(c, i) + (Len(c.imports) + 1) * 8 <= ImportSize(c) /\ Len(c.imports) \in Nat
    BY TablesFitAll DEF TablesFit
  <1>. HIDE DEF F
  <1>5. IltOffset(c, i) <= HintOffset(c, i, j)
    BY <1>2, <1>3, <1>4 DEF THUNK_SIZE
  <1>6. HintOffset(c, i, j) < ImportSize(c)
    BY <1>2, <1>3, <1>4
  <1>. QED
    BY <1>2, <1>3, <1>4, <1>5, <1>6

LEMMA NameAlone ==
    ASSUME NEW c, c.imports \in Seq(LibRecords), NEW i \in 1 .. Len(c.imports),
           NEW j \in 1 .. FnCount(c, i) + 1, NEW q \in AllNames(c), q[1] = HintOffset(c, i, j)
    PROVE  q = <<HintOffset(c, i, j), NameAt(c, i, j)>>
  <1>1. PICK k \in 1 .. Len(c.imports) : IsName(c, k, q)
    BY NameKinds
  <1>2. PICK l \in 1 .. FnCount(c, k) + 1 : q = <<HintOffset(c, k, l), NameAt(c, k, l)>>
    BY <1>1 DEF IsName
  <1>3. HintOffset(c, i, j) = HintOffset(c, k, l)
    BY <1>2
  <1>4. /\ HintOffset(c, i, j) \in Nat /\ IltOffset(c, i) \in Nat /\ LibEnd(c, i) \in Nat
        /\ IltOffset(c, i) <= HintOffset(c, i, j) /\ HintOffset(c, i, j) < LibEnd(c, i)
    BY HintWithin
  <1>5. /\ HintOffset(c, k, l) \in Nat /\ IltOffset(c, k) \in Nat /\ LibEnd(c, k) \in Nat
        /\ IltOffset(c, k) <= HintOffset(c, k, l) /\ HintOffset(c, k, l) < LibEnd(c, k)
    BY HintWithin
  <1>6. k = i
    <2>1. k < i => LibEnd(c, k) <= IltOffset(c, i)
      BY LibrariesInOrder
    <2>2. i < k => LibEnd(c, i) <= IltOffset(c, k)
      BY LibrariesInOrder
    <2>3. i < k \/ k < i \/ i = k
      OBVIOUS
    <2>. QED
      BY <1>3, <1>4, <1>5, <2>1, <2>2, <2>3
  <1>7. j = l
    <2>1. LibraryIs(c, i)
      BY LibraryGeometry
    <2>2. l \in 1 .. FnCount(c, i) + 1 /\ HintOffset(c, i, l) = HintOffset(c, i, j)
      BY <1>3, <1>6
    <2>3. /\ j < l => HintOffset(c, i, j) < HintOffset(c, i, l)
          /\ l < j => HintOffset(c, i, l) < HintOffset(c, i, j)
      BY <2>1, <2>2, HintsInOrder
    <2>4. j < l \/ l < j \/ j = l
      OBVIOUS
    <2>. QED
      BY <1>4, <2>2, <2>3, <2>4
  <1>. QED
    BY <1>2, <1>6, <1>7

LEMMA NamesAt ==
    ASSUME NEW c, c.imports \in Seq(LibRecords), NEW i \in 1 .. Len(c.imports),
           NEW j \in 1 .. FnCount(c, i) + 1
    PROVE  /\ HintOffset(c, i, j) \in DOMAIN ImportNames(c)
           /\ ImportNames(c)[HintOffset(c, i, j)] = NameAt(c, i, j)
  <1>. DEFINE o == HintOffset(c, i, j)
              v == NameAt(c, i, j)
              pairs == AllNames(c)
  <1>1. ImportNames(c) = OfPairs(pairs)
    BY ImportDataIs DEF AllNames
  <1>2. <<o, v>> \in pairs
    <2>1. IsName(c, i, <<o, v>>)
      BY DEF IsName
    <2>. HIDE DEF o, v, pairs
    <2>. QED
      BY <2>1, NameKinds DEF pairs
  <1>3. \A q \in pairs : q[1] = o => q = <<o, v>>
    BY NameAlone
  <1>. HIDE DEF o, v, pairs
  <1>4. o \in DOMAIN OfPairs(pairs) /\ OfPairs(pairs)[o] = v
    BY <1>2, <1>3, OfPairsAt
  <1>. QED
    BY <1>1, <1>4 DEF o, v

-----------------------------------------------------------------------------
(* What the loader finds in the tables of a written image.                 *)

LEMMA EntriesFound ==
    ASSUME NEW table, NEW size, NEW N \in Nat, N <= Len(Specs) + 1,
           LoadedWord(table + N * size) = 0,
           \A n \in Nat : n < N => LoadedWord(table + n * size) # 0
    PROVE  EntriesBefore(table, size) = N
  <1>. DEFINE ends == {n \in 0 .. Len(Specs) + 1 : LoadedWord(table + n * size) = 0}
  <1>1. Len(Specs) \in Nat
    BY SpecsAre
  <1>2. N \in ends
    BY <1>1
  <1>3. \A n \in ends : n \in Nat /\ N <= n
    BY <1>1
  <1>4. EntriesBefore(table, size) =
           IF ends = {} THEN Len(Specs) + 1 ELSE CHOOSE n \in ends : \A m \in ends : n <= m
    BY DEF EntriesBefore
  <1>. HIDE DEF ends
  <1>5. \A n \in ends : (\A m \in ends : n <= m) => n = N
    BY <1>2, <1>3
  <1>6. \E n \in ends : \A m \in ends : n <= m
    BY <1>2, <1>3
  <1>7. (CHOOSE n \in ends : \A m \in ends : n <= m) = N
    BY <1>5, <1>6
  <1>. QED
    BY <1>2, <1>4, <1>7

\* The image data, in memory.
InMemory(c) ==
    LET v == IdataVa(program) IN
    /\ v \in Nat /\ v >= SECTION_ALIGNMENT /\ image.dir.import = v
    /\ \A o \in Nat : o < ImportSize(c) =>
          /\ LoadedWord(v + o) = IF o \in DOMAIN ImportWords(c, v) THEN ImportWords(c, v)[o] ELSE 0
          /\ LoadedName(v + o) = IF o \in DOMAIN ImportNames(c) THEN ImportNames(c)[o] ELSE ""

LEMMA TablesInMemory ==
    ASSUME IInv, Written, NEW c, WrittenFrom(image, program, c), c.imports # <<>>
    PROVE  InMemory(c)
  <1>. DEFINE v == IdataVa(program)
              k == FrontLen(program) + 1
              s == image.sections
  <1>1. /\ k \in 1 .. Len(s) /\ s[k].size = ImportSize(c) /\ s[k].names = ImportNames(c)
        /\ s[k].words = ImportWords(c, v) /\ s[k].va = v
        /\ image.dir.import = v /\ v \in Nat /\ v >= SECTION_ALIGNMENT
    BY DEF WrittenFrom, Linked, HoldsTables
  <1>2. k # 0
    <2>1. FrontLen(program) \in {1, 2, 3}
      BY ProgramFacts DEF IInv
    <2>. QED
      BY <2>1
  <1>. HIDE DEF v, k, s
  <1>3. ASSUME NEW o \in Nat, o < ImportSize(c)
        PROVE  /\ LoadedWord(v + o) = IF o \in DOMAIN ImportWords(c, v) THEN ImportWords(c, v)[o] ELSE 0
               /\ LoadedName(v + o) = IF o \in DOMAIN ImportNames(c) THEN ImportNames(c)[o] ELSE ""
    <2>1. SectionAt(v + o) = k /\ LoadedWord(v + o) = Word(s[k], o)
      BY <1>1, <1>3, PayloadLoaded DEF s
    <2>2. (v + o) - s[k].va = o
      BY <1>1
    <2>3. LoadedName(v + o) = IF o \in DOMAIN s[k].names THEN s[k].names[o] ELSE ""
      BY <1>2, <2>1, <2>2 DEF LoadedName, s
    <2>. QED
      BY <1>1, <2>1, <2>3 DEF Word
  <1>. QED
    BY <1>1, <1>3 DEF InMemory, v

\* The entries of one library as the loader reads them.
ReadsLibrary(c, i) ==
    LET v == IdataVa(program)
        F == FnCount(c, i)
    IN  /\ LoadedWord(v + ((i - 1) * 20 + 0)) = v + IltOffset(c, i)
        /\ LoadedWord(v + ((i - 1) * 20 + 12)) = v + NameOffset(c, i)
        /\ LoadedWord(v + ((i - 1) * 20 + 16)) = v + IatOffset(c, i)
        /\ \A j \in 1 .. F : LoadedWord(v + (IltOffset(c, i) + (j - 1) * 8)) = v + HintOffset(c, i, j)
        /\ LoadedWord(v + (IltOffset(c, i) + F * 8)) = 0
        /\ \A j \in 1 .. F + 1 : LoadedName(v + HintOffset(c, i, j)) = NameAt(c, i, j)
        /\ LoadedWord(v + (Len(c.imports) * 20 + 12)) = 0

LEMMA LibraryRead ==
    ASSUME NEW c, c.imports \in Seq(LibRecords), InMemory(c), NEW i \in 1 .. Len(c.imports)
    PROVE  ReadsLibrary(c, i)
  <1>. DEFINE v == IdataVa(program)
              F == FnCount(c, i)
              L == Len(c.imports)
              w == ImportWords(c, v)
              a == IltOffset(c, i)
  <1>1. /\ F \in Nat /\ L \in Nat /\ a \in Nat /\ IatOffset(c, i) \in Nat
        /\ LibEnd(c, i) \in Nat /\ ImportSize(c) \in Nat
        /\ a >= (L + 1) * 20
        /\ IatOffset(c, i) = a + (F + 1) * 8
        /\ IatOffset(c, i) + (F + 1) * 8 < LibEnd(c, i)
        /\ LibEnd(c, i) + (L + 1) * 8 <= ImportSize(c)
    BY TablesFitAll DEF TablesFit
  <1>2. \A o \in Nat : o < ImportSize(c) =>
          /\ LoadedWord(v + o) = IF o \in DOMAIN w THEN w[o] ELSE 0
          /\ LoadedName(v + o) = IF o \in DOMAIN ImportNames(c) THEN ImportNames(c)[o] ELSE ""
    BY DEF InMemory
  <1>3. /\ (i - 1) * 20 + 0 \in DOMAIN w /\ w[(i - 1) * 20 + 0] = v + a
        /\ (i - 1) * 20 + 12 \in DOMAIN w /\ w[(i - 1) * 20 + 12] = v + NameOffset(c, i)
        /\ (i - 1) * 20 + 16 \in DOMAIN w /\ w[(i - 1) * 20 + 16] = v + IatOffset(c, i)
    BY DescriptorWords
  <1>4. /\ \A j \in 1 .. F : a + (j - 1) * 8 \in DOMAIN w /\ w[a + (j - 1) * 8] = v + HintOffset(c, i, j)
        /\ a + ((F + 1) - 1) * 8 \notin DOMAIN w
        /\ L * 20 + 12 \notin DOMAIN w
    BY LookupWords
  <1>5. i \in Nat /\ i >= 1 /\ i <= L
    BY <1>1
  <1>. HIDE DEF v, F, L, w, a
  <1>6. (L + 1) * 20 < ImportSize(c)
    BY <1>1
  <1>7. ASSUME NEW f \in {0, 12, 16}
        PROVE  (i - 1) * 20 + f \in Nat /\ (i - 1) * 20 + f < ImportSize(c)
    BY <1>1, <1>5, <1>6
  <1>8. /\ LoadedWord(v + ((i - 1) * 20 + 0)) = v + a
        /\ LoadedWord(v + ((i - 1) * 20 + 12)) = v + NameOffset(c, i)
        /\ LoadedWord(v + ((i - 1) * 20 + 16)) = v + IatOffset(c, i)
    <2>. DEFINE o == (i - 1) * 20
    <2>1. /\ o + 0 \in Nat /\ o + 0 < ImportSize(c) /\ o + 12 \in Nat /\ o + 12 < ImportSize(c)
          /\ o + 16 \in Nat /\ o + 16 < ImportSize(c)
      BY <1>7
    <2>. HIDE DEF o
    <2>. QED
      BY <1>2, <1>3, <2>1 DEF o
  <1>9. ASSUME NEW j \in 1 .. F + 1
        PROVE  a + (j - 1) * 8 \in Nat /\ a + (j - 1) * 8 < ImportSize(c)
    <2>1. j \in Nat /\ j >= 1 /\ j <= F + 1
      BY <1>1
    <2>2. (j - 1) * 8 \in Nat /\ (j - 1) * 8 <= F * 8
      BY <1>1, <2>1
    <2>3. a + F * 8 < ImportSize(c)
      BY <1>1
    <2>. QED
      BY <1>1, <2>2, <2>3
  <1>10. ASSUME NEW j \in 1 .. F
         PROVE  LoadedWord(v + (a + (j - 1) * 8)) = v + HintOffset(c, i, j)
    <2>1. j \in 1 .. F + 1
      BY <1>1
    <2>. DEFINE o == a + (j - 1) * 8
    <2>2. o \in Nat /\ o < ImportSize(c) /\ o \in DOMAIN w /\ w[o] = v + HintOffset(c, i, j)
      BY <1>4, <1>9, <2>1
    <2>. HIDE DEF o
    <2>. QED
      BY <1>2, <2>2 DEF o
  <1>11. LoadedWord(v + (a + F * 8)) = 0
    <2>1. (F + 1) - 1 = F /\ F + 1 \in 1 .. F + 1
      BY <1>1
    <2>. DEFINE o == a + F * 8
    <2>2. o \in Nat /\ o < ImportSize(c) /\ o \notin DOMAIN w
      BY <1>4, <1>9, <2>1
    <2>. HIDE DEF o
    <2>. QED
      BY <1>2, <2>2 DEF o
  <1>12. LoadedWord(v + (L * 20 + 12)) = 0
    <2>. DEFINE o == L * 20 + 12
    <2>1. o \in Nat /\ o < ImportSize(c) /\ o \notin DOMAIN w
      BY <1>1, <1>4, <1>6
    <2>. HIDE DEF o
    <2>. QED
      BY <1>2, <2>1 DEF o
  <1>13. ASSUME NEW j \in 1 .. F + 1
         PROVE  LoadedName(v + HintOffset(c, i, j)) = NameAt(c, i, j)
    <2>1. j \in 1 .. FnCount(c, i) + 1
      BY DEF F
    <2>2. /\ HintOffset(c, i, j) \in Nat /\ HintOffset(c, i, j) < ImportSize(c)
          /\ HintOffset(c, i, j) \in DOMAIN ImportNames(c)
          /\ ImportNames(c)[HintOffset(c, i, j)] = NameAt(c, i, j)
      BY <2>1, HintWithin, NamesAt
    <2>. QED
      BY <1>2, <2>2
  <1>. QED
    BY <1>8, <1>10, <1>11, <1>12, <1>13 DEF ReadsLibrary, v, F, L, a

\* What the loader does with an entry: the slot and the names it finds.
Binding(c, i, j) ==
    [slot |-> SlotOf(c, program, i, j), dll |-> c.imports[i].dll,
     function |-> c.imports[i].functions[j].name]

\* The lists are as long as the tables they come from.
CountsRead(c) ==
    /\ EntriesBefore(image.dir.import + 0 * DESCRIPTOR_SIZE + 12, DESCRIPTOR_SIZE) = Len(c.imports)
    /\ \A i \in 1 .. Len(c.imports) :
          EntriesBefore(IdataVa(program) + IltOffset(c, i), THUNK_SIZE) = FnCount(c, i)

LEMMA ListsCounted ==
    ASSUME NEW c, c.imports \in Seq(LibRecords), c.imports # <<>>, InMemory(c),
           Registered(c.imports, program, Len(Specs))
    PROVE  CountsRead(c)
  <1>. DEFINE v == IdataVa(program)
              L == Len(c.imports)
  <1>1. /\ L \in Nat /\ L <= Len(Specs) /\ \A i \in 1 .. L : FnCount(c, i) <= Len(Specs)
        /\ Len(Specs) \in Nat /\ L >= 1
    BY SpecsAre, Members DEF Registered, FnCount
  <1>2. v \in Nat /\ v >= SECTION_ALIGNMENT /\ image.dir.import = v
    BY DEF InMemory
  <1>3. \A i \in 1 .. L : ReadsLibrary(c, i)
    BY LibraryRead
  <1>4. \A i \in 1 .. L : LibraryIs(c, i)
    BY LibraryGeometry
  <1>. HIDE DEF v, L
  <1>5. EntriesBefore(v + 12, 20) = L
    <2>1. LoadedWord(v + 12 + L * 20) = 0
      <3>1. LoadedWord(v + (L * 20 + 12)) = 0
        <4>1. ReadsLibrary(c, 1)
          BY <1>1, <1>3
        <4>. QED
          BY <4>1 DEF ReadsLibrary, v, L
      <3>2. v + (L * 20 + 12) = v + 12 + L * 20
        BY <1>1, <1>2
      <3>. QED
        BY <3>1, <3>2
    <2>2. ASSUME NEW m \in Nat, m < L PROVE LoadedWord(v + 12 + m * 20) # 0
      <3>1. m + 1 \in 1 .. L /\ (m + 1) - 1 = m
        BY <1>1, <2>2
      <3>2. LoadedWord(v + (((m + 1) - 1) * 20 + 12)) = v + NameOffset(c, m + 1)
        BY <1>3, <3>1 DEF ReadsLibrary, v
      <3>3. NameOffset(c, m + 1) \in Nat
        <4>1. LibraryIs(c, m + 1)
          BY <1>4, <3>1
        <4>2. FnCount(c, m + 1) + 1 \in 1 .. FnCount(c, m + 1) + 1
          BY <4>1 DEF LibraryIs
        <4>. QED
          BY <4>1, <4>2 DEF LibraryIs
      <3>4. v + (m * 20 + 12) = v + 12 + m * 20
        BY <1>2
      <3>5. LoadedWord(v + 12 + m * 20) = v + NameOffset(c, m + 1)
        BY <3>1, <3>2, <3>4
      <3>. QED
        BY <1>2, <3>3, <3>5 DEF SECTION_ALIGNMENT
    <2>3. L <= Len(Specs) + 1
      BY <1>1
    <2>. QED
      BY <1>1, <2>1, <2>2, <2>3, EntriesFound
  <1>6. ASSUME NEW i \in 1 .. L
        PROVE  EntriesBefore(v + IltOffset(c, i), 8) = FnCount(c, i)
    <2>. DEFINE F == FnCount(c, i)
                a == IltOffset(c, i)
    <2>1. /\ F \in Nat /\ a \in Nat /\ F <= Len(Specs)
          /\ \A j \in 1 .. F + 1 : HintOffset(c, i, j) \in Nat
      BY <1>1, <1>4 DEF LibraryIs
    <2>2. /\ \A j \in 1 .. F : LoadedWord(v + (a + (j - 1) * 8)) = v + HintOffset(c, i, j)
          /\ LoadedWord(v + (a + F * 8)) = 0
      BY <1>3 DEF ReadsLibrary, v
    <2>. HIDE DEF F, a
    <2>3. LoadedWord(v + a + F * 8) = 0
      <3>1. v + (a + F * 8) = v + a + F * 8
        BY <1>2, <2>1
      <3>. QED
        BY <2>2, <3>1
    <2>4. ASSUME NEW m \in Nat, m < F PROVE LoadedWord(v + a + m * 8) # 0
      <3>1. m + 1 \in 1 .. F /\ m + 1 \in 1 .. F + 1 /\ (m + 1) - 1 = m
        BY <2>1, <2>4
      <3>2. LoadedWord(v + (a + ((m + 1) - 1) * 8)) = v + HintOffset(c, i, m + 1)
        BY <2>2, <3>1
      <3>3. v + (a + m * 8) = v + a + m * 8
        BY <1>2, <2>1
      <3>4. HintOffset(c, i, m + 1) \in Nat
        BY <2>1, <3>1
      <3>5. LoadedWord(v + a + m * 8) = v + HintOffset(c, i, m + 1)
        BY <3>1, <3>2, <3>3
      <3>. QED
        BY <1>2, <3>4, <3>5 DEF SECTION_ALIGNMENT
    <2>5. F <= Len(Specs) + 1
      BY <1>1, <2>1
    <2>6. EntriesBefore(v + a, 8) = F
      BY <2>1, <2>3, <2>4, <2>5, EntriesFound
    <2>. QED
      BY <2>6 DEF F, a
  <1>7. image.dir.import + 0 * DESCRIPTOR_SIZE + 12 = v + 12
    BY <1>2 DEF DESCRIPTOR_SIZE
  <1>. QED
    BY <1>5, <1>6, <1>7 DEF CountsRead, DESCRIPTOR_SIZE, THUNK_SIZE, v, L

\* The slots the loader fills: one for each entry, with its names.
LEMMA BindingsAre ==
    ASSUME NEW c, c.imports \in Seq(LibRecords), c.imports # <<>>, InMemory(c),
           Registered(c.imports, program, Len(Specs))
    PROVE  \A b : b \in Bindings <=>
             \E i \in 1 .. Len(c.imports) : \E j \in 1 .. FnCount(c, i) : b = Binding(c, i, j)
  <1>. DEFINE v == IdataVa(program)
              L == Len(c.imports)
              Descriptor(m) == image.dir.import + m * DESCRIPTOR_SIZE
              Bound(m, k) == [slot |-> LoadedWord(Descriptor(m) + 16) + k * THUNK_SIZE,
                              dll |-> LoadedName(LoadedWord(Descriptor(m) + 12)),
                              function |-> LoadedName(LoadedWord(LoadedWord(Descriptor(m)) + k * THUNK_SIZE))]
  <1>1. /\ CountsRead(c) /\ \A i \in 1 .. L : ReadsLibrary(c, i) /\ LibraryIs(c, i)
        /\ L \in Nat /\ v \in Nat /\ v >= SECTION_ALIGNMENT /\ image.dir.import = v
    BY ListsCounted, LibraryRead, LibraryGeometry, Members DEF InMemory
  <1>2. image.dir.import # 0
    BY <1>1 DEF SECTION_ALIGNMENT
  <1>3. Bindings = UNION { { Bound(m, k) : k \in 0 .. EntriesBefore(LoadedWord(Descriptor(m)), THUNK_SIZE) - 1 } :
                           m \in 0 .. EntriesBefore(Descriptor(0) + 12, DESCRIPTOR_SIZE) - 1 }
    BY <1>2 DEF Bindings
  <1>4. EntriesBefore(Descriptor(0) + 12, DESCRIPTOR_SIZE) = L
    BY <1>1 DEF CountsRead
  <1>5. ASSUME NEW i \in 1 .. L
        PROVE  /\ LoadedWord(Descriptor(i - 1)) = v + IltOffset(c, i)
               /\ LoadedWord(Descriptor(i - 1) + 12) = v + NameOffset(c, i)
               /\ LoadedWord(Descriptor(i - 1) + 16) = v + IatOffset(c, i)
    <2>1. i \in Nat /\ i >= 1
      OBVIOUS
    <2>2. /\ Descriptor(i - 1) = v + ((i - 1) * 20 + 0)
          /\ Descriptor(i - 1) + 12 = v + ((i - 1) * 20 + 12)
          /\ Descriptor(i - 1) + 16 = v + ((i - 1) * 20 + 16)
      <3>. HIDE DEF v
      <3>. QED
        BY <1>1, <2>1 DEF DESCRIPTOR_SIZE
    <2>3. ReadsLibrary(c, i)
      BY <1>1
    <2>. HIDE DEF Descriptor
    <2>. QED
      BY <2>2, <2>3 DEF ReadsLibrary
  <1>6. ASSUME NEW i \in 1 .. L, NEW j \in 1 .. FnCount(c, i)
        PROVE  Bound(i - 1, j - 1) = Binding(c, i, j)
    <2>. DEFINE F == FnCount(c, i)
                a == IltOffset(c, i)
    <2>1. /\ F \in Nat /\ a \in Nat /\ IatOffset(c, i) \in Nat /\ NameOffset(c, i) = HintOffset(c, i, F + 1)
      BY <1>1 DEF LibraryIs
    <2>2. /\ LoadedWord(v + (a + (j - 1) * 8)) = v + HintOffset(c, i, j)
          /\ \A l \in 1 .. F + 1 : LoadedName(v + HintOffset(c, i, l)) = NameAt(c, i, l)
      BY <1>1 DEF ReadsLibrary
    <2>3. j \in 1 .. F + 1 /\ F + 1 \in 1 .. F + 1 /\ j # F + 1 /\ j \in Nat /\ j >= 1
      <3>1. j \in 1 .. F
        OBVIOUS
      <3>. HIDE DEF F
      <3>. QED
        BY <2>1, <3>1
    <2>4. NameAt(c, i, F + 1) = c.imports[i].dll /\ NameAt(c, i, j) = c.imports[i].functions[j].name
      BY <2>3 DEF NameAt
    <2>5. LoadedName(LoadedWord(Descriptor(i - 1) + 12)) = c.imports[i].dll
      <3>. HIDE DEF Descriptor, v, F
      <3>. QED
        BY <1>5, <2>1, <2>2, <2>3, <2>4
    <2>6. LoadedName(LoadedWord(LoadedWord(Descriptor(i - 1)) + (j - 1) * THUNK_SIZE))
             = c.imports[i].functions[j].name
      <3>1. v + (a + (j - 1) * 8) = v + a + (j - 1) * 8
        <4>. HIDE DEF a, v
        <4>. QED
          BY <1>1, <2>1, <2>3
      <3>2. LoadedWord(Descriptor(i - 1)) = v + a
        BY <1>5
      <3>. HIDE DEF Descriptor, v, F, a
      <3>3. LoadedWord(v + a + (j - 1) * 8) = v + HintOffset(c, i, j)
        BY <2>2, <3>1
      <3>. QED
        BY <2>2, <2>3, <2>4, <3>2, <3>3 DEF THUNK_SIZE
    <2>7. LoadedWord(Descriptor(i - 1) + 16) + (j - 1) * THUNK_SIZE = SlotOf(c, program, i, j)
      <3>1. LoadedWord(Descriptor(i - 1) + 16) = v + IatOffset(c, i)
        BY <1>5
      <3>2. (v + IatOffset(c, i)) + (j - 1) * 8 = v + (IatOffset(c, i) + (j - 1) * 8)
        <4>. HIDE DEF v
        <4>. QED
          BY <1>1, <2>1, <2>3
      <3>. HIDE DEF Descriptor
      <3>. QED
        BY <3>1, <3>2 DEF SlotOf, THUNK_SIZE
    <2>. QED
      BY <2>5, <2>6, <2>7 DEF Binding
  <1>7. ASSUME NEW i \in 1 .. L
        PROVE  EntriesBefore(LoadedWord(Descriptor(i - 1)), THUNK_SIZE) = FnCount(c, i)
    BY <1>1, <1>5 DEF CountsRead
  <1>. HIDE DEF Bound, Descriptor, v
  <1>8. \A b : b \in Bindings <=>
          \E m \in 0 .. L - 1 :
            \E k \in 0 .. EntriesBefore(LoadedWord(Descriptor(m)), THUNK_SIZE) - 1 : b = Bound(m, k)
    BY <1>3, <1>4
  <1>9. ASSUME NEW m \in 0 .. L - 1
        PROVE  m + 1 \in 1 .. L /\ (m + 1) - 1 = m /\ FnCount(c, m + 1) \in Nat
               /\ EntriesBefore(LoadedWord(Descriptor(m)), THUNK_SIZE) = FnCount(c, m + 1)
    <2>1. m + 1 \in 1 .. L /\ (m + 1) - 1 = m
      BY <1>1
    <2>2. LibraryIs(c, m + 1)
      BY <1>1, <2>1
    <2>. QED
      BY <1>7, <2>1, <2>2 DEF LibraryIs
  <1>10. ASSUME NEW b, NEW m \in 0 .. L - 1,
                NEW k \in 0 .. EntriesBefore(LoadedWord(Descriptor(m)), THUNK_SIZE) - 1, b = Bound(m, k)
         PROVE  \E i \in 1 .. L : \E j \in 1 .. FnCount(c, i) : b = Binding(c, i, j)
    <2>1. /\ m + 1 \in 1 .. L /\ (m + 1) - 1 = m /\ FnCount(c, m + 1) \in Nat
          /\ k \in 0 .. FnCount(c, m + 1) - 1
      BY <1>9
    <2>2. k + 1 \in 1 .. FnCount(c, m + 1) /\ (k + 1) - 1 = k
      BY <2>1
    <2>3. Bound((m + 1) - 1, (k + 1) - 1) = Binding(c, m + 1, k + 1)
      BY <1>6, <2>1, <2>2
    <2>. QED
      BY <1>10, <2>1, <2>2, <2>3
  <1>11. ASSUME NEW b, NEW i \in 1 .. L, NEW j \in 1 .. FnCount(c, i), b = Binding(c, i, j)
         PROVE  b \in Bindings
    <2>1. i - 1 \in 0 .. L - 1
      BY <1>1
    <2>2. FnCount(c, i) \in Nat
      BY <1>1 DEF LibraryIs
    <2>3. j - 1 \in 0 .. EntriesBefore(LoadedWord(Descriptor(i - 1)), THUNK_SIZE) - 1
      BY <1>7, <2>2
    <2>. QED
      BY <1>6, <1>8, <1>11, <2>1, <2>3
  <1>. QED
    BY <1>8, <1>10, <1>11

-----------------------------------------------------------------------------
(* The calls, through the slots.                                           *)

LEMMA SlotInLibrary ==
    ASSUME NEW s \in Nat, NEW a \in Nat, NEW e \in Nat, NEW F \in Nat, NEW j \in 1 .. F,
           a = s + (F + 1) * 8, a + (F + 1) * 8 < e
    PROVE  LET x == a + (j - 1) * 8 IN x \in Nat /\ s <= x /\ x < e
  <1>1. j \in Nat /\ j >= 1 /\ j <= F
    OBVIOUS
  <1>2. (j - 1) * 8 \in Nat /\ (j - 1) * 8 <= (F + 1) * 8
    BY <1>1
  <1>. QED
    BY <1>2

LEMMA SlotsApart ==
    ASSUME NEW c, c.imports \in Seq(LibRecords), NEW p, IdataVa(p) \in Nat,
           NEW i \in 1 .. Len(c.imports), NEW j \in 1 .. FnCount(c, i),
           NEW k \in 1 .. Len(c.imports), NEW l \in 1 .. FnCount(c, k),
           SlotOf(c, p, i, j) = SlotOf(c, p, k, l)
    PROVE  i = k /\ j = l
  <1>. DEFINE v == IdataVa(p)
              x == IatOffset(c, i) + (j - 1) * 8
              y == IatOffset(c, k) + (l - 1) * 8
  <1>1. /\ x \in Nat /\ IltOffset(c, i) <= x /\ x < LibEnd(c, i)
        /\ IltOffset(c, i) \in Nat /\ LibEnd(c, i) \in Nat /\ IatOffset(c, i) \in Nat
        /\ FnCount(c, i) \in Nat
    <2>1. TablesFit(c, i)
      BY TablesFitAll
    <2>. QED
      BY <2>1, SlotInLibrary DEF TablesFit
  <1>2. /\ y \in Nat /\ IltOffset(c, k) <= y /\ y < LibEnd(c, k)
        /\ IltOffset(c, k) \in Nat /\ LibEnd(c, k) \in Nat
        /\ FnCount(c, k) \in Nat
    <2>1. TablesFit(c, k)
      BY TablesFitAll
    <2>. QED
      BY <2>1, SlotInLibrary DEF TablesFit
  <1>3. v + x = v + y /\ v \in Nat
    BY DEF SlotOf, THUNK_SIZE
  <1>4. x = y
    <2>. HIDE DEF x, y, v
    <2>. QED
      BY <1>1, <1>2, <1>3
  <1>5. i = k
    <2>1. k < i => LibEnd(c, k) <= IltOffset(c, i)
      BY LibrariesInOrder
    <2>2. i < k => LibEnd(c, i) <= IltOffset(c, k)
      BY LibrariesInOrder
    <2>3. i < k \/ k < i \/ i = k
      OBVIOUS
    <2>. HIDE DEF x, y
    <2>. QED
      BY <1>1, <1>2, <1>4, <2>1, <2>2, <2>3
  <1>6. j \in Nat /\ l \in Nat
    BY <1>1, <1>2
  <1>7. j = l
    <2>. DEFINE a == IatOffset(c, i)
    <2>1. a + (j - 1) * 8 = a + (l - 1) * 8 /\ a \in Nat
      BY <1>1, <1>4, <1>5
    <2>. HIDE DEF a
    <2>. QED
      BY <1>6, <2>1
  <1>. QED
    BY <1>5, <1>7

\* A call goes to the slot of its function.
LEMMA CallPointsToSlot ==
    ASSUME IInv, Written, NEW c, WrittenFrom(image, program, c), NEW h \in DOMAIN program.sites,
           IdataVa(program) \in Nat
    PROVE  \E i, j \in Nat : EntryOf(c.imports, i, j, program.sites[h])
                             /\ PointedTo(h) = SlotOf(c, program, i, j)
  <1>. DEFINE s == image.sections
              v == IdataVa(program)
  <1>1. program \in Programs /\ h \in Nat /\ h + 4 <= program.codeSize /\ program.codeSize \in Nat
    BY SiteWords, ProgramFacts DEF IInv
  <1>2. PICK i, j \in Nat :
            /\ EntryOf(c.imports, i, j, program.sites[h])
            /\ s[1].words[h] = Displacement(SlotOf(c, program, i, j), SECTION_ALIGNMENT, h)
    BY DEF WrittenFrom, SitesPatched
  <1>3. h \in DOMAIN s[1].words
    BY DEF WrittenFrom, SitesPatched
  <1>4. TextBase = SECTION_ALIGNMENT /\ s[1].va = SECTION_ALIGNMENT
    <2>1. ImageIsLoadable
      BY ImageIsLoadableOK
    <2>. QED
      BY <2>1 DEF ImageIsLoadable, TextBase
  <1>5. 1 \in 1 .. Len(s) /\ s[1].size = program.codeSize
    <2>. DEFINE k == FrontLen(program)
    <2>1. Shape(AsCtx(image, program), program, k) /\ AsCtx(image, program).sections = s
          /\ k \in Nat \ {0}
      BY WrittenImage
    <2>. HIDE DEF k, s
    <2>. QED
      BY <2>1, ShapeHasText
  <1>. HIDE DEF s, v
  <1>6. LoadedWord(TextBase + h) = Displacement(SlotOf(c, program, i, j), SECTION_ALIGNMENT, h)
    <2>1. h < s[1].size
      BY <1>1, <1>5
    <2>2. LoadedWord(s[1].va + h) = Word(s[1], h)
      BY <1>1, <1>5, <2>1, PayloadLoaded DEF s
    <2>. QED
      BY <1>2, <1>3, <1>4, <2>2 DEF Word
  <1>7. SlotOf(c, program, i, j) \in Nat
    <2>1. c.imports \in Seq(LibRecords) /\ i \in 1 .. Len(c.imports) /\ j \in 1 .. FnCount(c, i)
      BY <1>2 DEF WrittenFrom, ImportsOK, EntryOf, IsEntry, FnCount
    <2>2. IatOffset(c, i) \in Nat /\ FnCount(c, i) \in Nat
      BY <2>1, TablesFitAll DEF TablesFit
    <2>3. (j - 1) * THUNK_SIZE \in Nat
      BY <2>1, <2>2 DEF THUNK_SIZE
    <2>. QED
      BY <2>2, <2>3 DEF SlotOf
  <1>8. PointedTo(h) = SlotOf(c, program, i, j)
    <2>. DEFINE t == SlotOf(c, program, i, j)
    <2>1. PointedTo(h) = SECTION_ALIGNMENT + h + 4 + (t - (SECTION_ALIGNMENT + h + 4))
      BY <1>4, <1>6 DEF PointedTo, Displacement
    <2>. HIDE DEF t
    <2>2. t \in Nat
      BY <1>7 DEF t
    <2>3. SECTION_ALIGNMENT + h + 4 \in Nat
      BY <1>1 DEF SECTION_ALIGNMENT
    <2>4. \A x, y \in Nat : x + (y - x) = y
      OBVIOUS
    <2>5. (SECTION_ALIGNMENT + h + 4) + (t - (SECTION_ALIGNMENT + h + 4)) = t
      BY <2>2, <2>3, <2>4
    <2>. QED
      BY <2>1, <2>5 DEF t
  <1>. QED
    BY <1>2, <1>8

\* As many slots as functions called: the functions and the slots are in
\* correspondence.
LEMMA AsManySlots ==
    ASSUME NEW c, c.imports \in Seq(LibRecords), Registered(c.imports, program, Len(Specs)),
           program \in Programs,
           \A b : b \in Bindings <=>
             \E i \in 1 .. Len(c.imports) : \E j \in 1 .. FnCount(c, i) : b = Binding(c, i, j)
    PROVE  Cardinality(Bindings) = Cardinality({program.sites[h] : h \in DOMAIN program.sites})
  <1>. DEFINE S == {program.sites[h] : h \in DOMAIN program.sites}
              Names(b, s) == b.dll = Specs[s].dll /\ b.function = Specs[s].function
              f == [s \in S |-> CHOOSE b \in Bindings : Names(b, s)]
  <1>1. \A s \in S : s \in 1 .. Len(Specs) /\ IsCalled(program, s)
    BY SiteWords
  <1>2. \A s \in 1 .. Len(Specs) : IsCalled(program, s) => s \in S
    BY DEF IsCalled
  <1>3. IsFiniteSet(S)
    <2>1. S \subseteq 1 .. Len(Specs)
      BY <1>1
    <2>2. IsFiniteSet(1 .. Len(Specs))
      BY SpecsAre, FS_Interval
    <2>. HIDE DEF S
    <2>. QED
      BY <2>1, <2>2, FS_Subset
  <1>. HIDE DEF S
  <1>4. \A i, j : Binding(c, i, j).dll = c.imports[i].dll
                  /\ Binding(c, i, j).function = c.imports[i].functions[j].name
    BY DEF Binding
  <1>5. ASSUME NEW s \in S PROVE \E b \in Bindings : Names(b, s)
    <2>1. PICK i, j \in Nat : EntryOf(c.imports, i, j, s)
      BY <1>1 DEF Registered
    <2>2. /\ i \in 1 .. Len(c.imports) /\ j \in 1 .. FnCount(c, i)
          /\ c.imports[i].dll = Specs[s].dll /\ c.imports[i].functions[j].name = Specs[s].function
      BY <2>1 DEF EntryOf, IsEntry, FnCount
    <2>3. Binding(c, i, j) \in Bindings
      BY <2>2
    <2>. QED
      BY <1>4, <2>2, <2>3
  <1>6. \A s \in S : f[s] \in Bindings /\ Names(f[s], s)
    BY <1>5
  <1>. HIDE DEF f
  <1>7. ASSUME NEW s \in S, NEW t \in S, f[s] = f[t] PROVE s = t
    <2>1. Specs[s].dll = Specs[t].dll /\ Specs[s].function = Specs[t].function
      BY <1>6, <1>7
    <2>2. Specs \in Seq([dll : DOMAIN StrLen, function : DOMAIN StrLen])
      BY SpecsAssumption
    <2>3. /\ Specs[s] \in [dll : DOMAIN StrLen, function : DOMAIN StrLen]
          /\ Specs[t] \in [dll : DOMAIN StrLen, function : DOMAIN StrLen]
          /\ s \in DOMAIN Specs /\ t \in DOMAIN Specs
      BY <1>1, <2>2, Members
    <2>4. Specs[s] = Specs[t]
      BY <2>1, <2>3
    <2>. QED
      BY <2>3, <2>4, SpecsAssumption
  <1>8. ASSUME NEW b \in Bindings PROVE \E s \in S : f[s] = b
    <2>1. PICK i \in 1 .. Len(c.imports) : \E j \in 1 .. FnCount(c, i) : b = Binding(c, i, j)
      OBVIOUS
    <2>2. PICK j \in 1 .. FnCount(c, i) : b = Binding(c, i, j)
      BY <2>1
    <2>3. IsEntry(c.imports, i, j) /\ i \in Nat /\ j \in Nat
      <3>1. FnCount(c, i) \in Nat
        BY TablesFitAll DEF TablesFit
      <3>. QED
        BY <3>1 DEF IsEntry, FnCount
    <2>4. PICK s \in 1 .. Len(Specs) : IsCalled(program, s) /\ EntryOf(c.imports, i, j, s)
      BY <2>3 DEF Registered
    <2>5. s \in S
      BY <1>2, <2>4
    <2>6. f[s] \in Bindings /\ Names(f[s], s)
      BY <1>6, <2>5
    <2>7. PICK k \in 1 .. Len(c.imports) : \E l \in 1 .. FnCount(c, k) : f[s] = Binding(c, k, l)
      BY <2>6
    <2>8. PICK l \in 1 .. FnCount(c, k) : f[s] = Binding(c, k, l)
      BY <2>7
    <2>9. /\ c.imports[i].dll = Specs[s].dll /\ c.imports[i].functions[j].name = Specs[s].function
          /\ c.imports[k].dll = Specs[s].dll /\ c.imports[k].functions[l].name = Specs[s].function
      BY <1>4, <2>4, <2>6, <2>8 DEF EntryOf
    <2>10. i = k
      BY <2>9 DEF Registered
    <2>11. j = l
      BY <2>9, <2>10 DEF Registered, FnCount
    <2>. QED
      BY <2>2, <2>5, <2>8, <2>10, <2>11
  <1>9. ExistsBijection(S, Bindings)
    <2>1. f \in [S -> Bindings]
      BY <1>6 DEF f
    <2>2. f \in Bijection(S, Bindings)
      BY <1>7, <1>8, <2>1 DEF Bijection, Injection, Surjection, IsInjective
    <2>. QED
      BY <2>2 DEF ExistsBijection
  <1>10. Cardinality(Bindings) = Cardinality(S)
    BY <1>3, <1>9, FS_Bijection
  <1>. QED
    BY <1>10 DEF S

LEMMA CallsReach == IInv /\ CallsOK => CallsReachTheirImports
  <1>. SUFFICES ASSUME IInv, CallsOK, Written PROVE CallsReachTheirImports
    BY DEF CallsReachTheirImports
  <1>1. PICK c : WrittenFrom(image, program, c)
    BY DEF CallsOK, CallsWritten
  <1>2. /\ program \in Programs /\ c.imports \in Seq(LibRecords)
        /\ Registered(c.imports, program, Len(Specs)) /\ image.dir = c.dir
    BY <1>1 DEF IInv, WrittenFrom, ImportsOK
  <1>3. \A h \in DOMAIN program.sites :
           program.sites[h] \in 1 .. Len(Specs) /\ IsCalled(program, program.sites[h])
    BY <1>2, SiteWords
  <1>4. CASE c.imports = <<>>
    <2>1. Bindings = {}
      BY <1>1, <1>2, <1>4 DEF WrittenFrom, Linked, Bindings
    <2>2. ASSUME NEW h \in DOMAIN program.sites PROVE FALSE
      <3>1. PICK i, j \in Nat : EntryOf(c.imports, i, j, program.sites[h])
        BY <1>2, <1>3 DEF Registered
      <3>2. i \in 1 .. 0
        BY <1>4, <3>1 DEF EntryOf, IsEntry
      <3>. QED
        BY <3>2
    <2>3. {program.sites[h] : h \in DOMAIN program.sites} = {}
      BY <2>2
    <2>. QED
      BY <2>1, <2>2, <2>3 DEF CallsReachTheirImports
  <1>5. CASE c.imports # <<>>
    <2>1. InMemory(c) /\ IdataVa(program) \in Nat
      BY <1>1, <1>5, TablesInMemory DEF InMemory
    <2>2. \A b : b \in Bindings <=>
             \E i \in 1 .. Len(c.imports) : \E j \in 1 .. FnCount(c, i) : b = Binding(c, i, j)
      BY <1>2, <1>5, <2>1, BindingsAre
    <2>3. Cardinality(Bindings) = Cardinality({program.sites[h] : h \in DOMAIN program.sites})
      BY <1>2, <2>2, AsManySlots
    <2>4. ASSUME NEW h \in DOMAIN program.sites
          PROVE  LET spec == Specs[program.sites[h]]
                     bound == {b \in Bindings : b.slot = PointedTo(h)}
                 IN  bound # {} /\ \A b \in bound : b.dll = spec.dll /\ b.function = spec.function
      <3>1. PICK i, j \in Nat : EntryOf(c.imports, i, j, program.sites[h])
                                /\ PointedTo(h) = SlotOf(c, program, i, j)
        BY <1>1, <2>1, CallPointsToSlot
      <3>2. /\ i \in 1 .. Len(c.imports) /\ j \in 1 .. FnCount(c, i)
            /\ c.imports[i].dll = Specs[program.sites[h]].dll
            /\ c.imports[i].functions[j].name = Specs[program.sites[h]].function
        BY <3>1 DEF EntryOf, IsEntry, FnCount
      <3>3. /\ Binding(c, i, j).slot = SlotOf(c, program, i, j)
            /\ Binding(c, i, j).dll = c.imports[i].dll
            /\ Binding(c, i, j).function = c.imports[i].functions[j].name
        BY DEF Binding
      <3>4. Binding(c, i, j) \in Bindings
        BY <2>2, <3>2
      <3>5. ASSUME NEW b \in Bindings, b.slot = PointedTo(h) PROVE b = Binding(c, i, j)
        <4>1. PICK k \in 1 .. Len(c.imports) : \E l \in 1 .. FnCount(c, k) : b = Binding(c, k, l)
          BY <2>2
        <4>2. PICK l \in 1 .. FnCount(c, k) : b = Binding(c, k, l)
          BY <4>1
        <4>3. SlotOf(c, program, k, l) = SlotOf(c, program, i, j)
          BY <3>1, <3>5, <4>2 DEF Binding
        <4>4. i = k /\ j = l
          BY <1>2, <2>1, <3>2, <4>3, SlotsApart
        <4>. QED
          BY <4>2, <4>4
      <3>. QED
        BY <3>1, <3>2, <3>3, <3>4, <3>5
    <2>. QED
      BY <2>3, <2>4 DEF CallsReachTheirImports
  <1>. QED
    BY <1>4, <1>5

\* Every call of an operating system function in a written image goes
\* through the slot the loader fills with that function, and the loader
\* fills no other: the displacements come from the first Finalize, which
\* laid the sections out as the second one does.
THEOREM CallsAlwaysReach == Spec => []CallsReachTheirImports
  BY Invariant, CallsInvariant, CallsReach, PTL
=============================================================================

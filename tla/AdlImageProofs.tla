---------------------------- MODULE AdlImageProofs ----------------------------
(***************************************************************************)
(* Proofs about AdlImage, for every layout LayoutAssumption allows.        *)
(***************************************************************************)
EXTENDS AdlImage, TLAPS

USE LayoutAssumption, InputAssumption

(***************************************************************************)
(* Where things are.                                                       *)
(***************************************************************************)
LEMMA ProductNat == ASSUME NEW a \in Nat, NEW b \in Nat PROVE a * b \in Nat
BY SMT

LEMMA ProductMonotone ==
  ASSUME NEW a \in Nat, NEW b \in Nat, NEW k \in Nat, a <= b
  PROVE  a * k <= b * k
<1>1. PICK d \in Nat : b = a + d
  BY b - a \in Nat, b = a + (b - a)
<1>2. d * k \in Nat
  BY ProductNat
<1>3. (a + d) * k = a * k + d * k
  BY SMT
<1>. QED  BY <1>1, <1>2, <1>3, ProductNat

(* Entries of the FAT and clusters lie in the ESP or after it.             *)
LEMMA FatInEsp ==
  /\ FatEnd \in Nat /\ FatEnd > EspStart
  /\ FatStart(1) \in Nat /\ FatStart(1) > EspStart
  /\ FatStart(2) \in Nat /\ FatStart(2) > EspStart
  /\ FatEnd < Sectors
<1>1. 1 * FatSectors = FatSectors /\ 0 * FatSectors = 0 /\ 2 * FatSectors \in Nat
  OBVIOUS
<1>. QED  BY <1>1 DEF FatEnd, FatStart

LEMMA EntryAfterEsp ==
  ASSUME NEW copy \in Both, NEW c \in Nat
  PROVE  EntryLba(copy, c) \in Nat /\ EntryLba(copy, c) > EspStart
<1>1. c \div SectorWords \in Nat
  BY SMT
<1>. QED  BY <1>1, FatInEsp DEF EntryLba, Both

LEMMA ClusterAfterEsp ==
  ASSUME NEW c \in Nat, c >= 2
  PROVE  ClusterLba(c) \in Nat /\ ClusterLba(c) > EspStart
<1>1. (c - 2) * ClusterSectors \in Nat
  BY ProductNat, c - 2 \in Nat
<1>. QED  BY <1>1, FatInEsp DEF ClusterLba

(* The clusters of the boot file end within the bound of the model.        *)
LEMMA ClustersInModel ==
  ASSUME NEW n \in BootClusters, NEW i \in Nat, i <= n
  PROVE  ClusterLba(ClusterOf(i + 1)) \in 0..Sectors
<1>1. (i + 1) * ClusterSectors <= (n + 1) * ClusterSectors
  BY ProductMonotone, i + 1 \in Nat, n + 1 \in Nat, n \in Nat
<1>2. /\ (i + 1) * ClusterSectors \in Nat /\ (n + 1) * ClusterSectors \in Nat
      /\ 2 * FatSectors \in Nat
  BY ProductNat, i + 1 \in Nat, n + 1 \in Nat, n \in Nat
<1>3. ClusterOf(i + 1) - 2 = i + 1
  BY DEF ClusterOf, FirstCluster
<1>4. EspStart + Reserved + 2 * FatSectors + (n + 1) * ClusterSectors <= Sectors
  OBVIOUS
<1>. QED  BY <1>1, <1>2, <1>3, <1>4 DEF ClusterLba, FatEnd

(* Every entry the writer numbers lies within the bound of the model.      *)
LEMMA EntryInModel ==
  ASSUME NEW copy \in Both, NEW n \in BootClusters, NEW c \in Nat, c <= n + 2
  PROVE  EntryLba(copy, c) \in Lba /\ EntryLba(copy, c) > EspStart
<1> DEFINE q == c \div SectorWords
<1>1. q \in Nat /\ SectorWords * q <= c
  <2>1. c % SectorWords = c - SectorWords * q
    BY SMTT(60)
  <2>2. c % SectorWords >= 0 /\ q \in Nat
    BY SMTT(60)
  <2>3. SectorWords * q \in Nat
    BY <2>2, ProductNat
  <2>. QED  BY <2>1, <2>2, <2>3
<1>2. q <= c
  <2>1. 1 * q <= SectorWords * q
    BY <1>1, ProductMonotone
  <2>. QED  BY <1>1, <2>1, ProductNat
<1>3. n + 1 <= (n + 1) * ClusterSectors
  <2>1. 1 * (n + 1) <= ClusterSectors * (n + 1)
    BY ProductMonotone, n + 1 \in Nat
  <2>2. ClusterSectors * (n + 1) = (n + 1) * ClusterSectors
    BY n + 1 \in Nat
  <2>. QED  BY <2>1, <2>2, n + 1 \in Nat
<1>4. EspStart + Reserved + 2 * FatSectors + (n + 1) * ClusterSectors <= Sectors
  OBVIOUS
<1>5. FatSectors >= 2 /\ (n + 1) * ClusterSectors \in Nat /\ n \in Nat
  BY ProductNat, n + 1 \in Nat
<1>6. /\ EntryLba(copy, c) = FatStart(copy) + q
      /\ FatStart(copy) <= EspStart + Reserved + FatSectors
      /\ FatStart(copy) \in Nat /\ FatStart(copy) > EspStart
  <2>1. 1 * FatSectors = FatSectors /\ 0 * FatSectors = 0
    OBVIOUS
  <2>. QED  BY <2>1 DEF EntryLba, FatStart, Both
<1> HIDE DEF q
<1>. QED  BY <1>1, <1>2, <1>3, <1>4, <1>5, <1>6 DEF Lba

(***************************************************************************)
(* What writing leaves alone.                                              *)
(***************************************************************************)
Disk == [Lba -> Content]
Writes == [kind : Kinds \cup {"none", "word"}, lba : Lba, word : Words, value : Nat]

LEMMA PlainIsContent ==
  ASSUME NEW kind \in Kinds PROVE Plain(kind) \in Content
BY DEF Plain, Content, Blank, Words

LEMMA DataIsContent ==
  ASSUME NEW i \in Nat PROVE Data(i) \in Content
BY DEF Data, Content, Kinds, Blank, Words

LEMMA BootSectorIsContent ==
  BootSector \in Content /\ BootSector # Plain("zero")
<1>1. AnnouncedFat \in Nat
  BY SMTT(60) DEF AnnouncedFat
<1>. QED  BY <1>1 DEF BootSector, Plain, Content, Blank, Words, Kinds

LEMMA LandedType ==
  ASSUME NEW d \in Disk, NEW x \in Writes
  PROVE  Landed(d, x) \in Disk
<1>1. CASE x.kind \in {"none", "zero"}
  BY <1>1 DEF Landed
<1>2. CASE x.kind = "word"
  <2>1. SectorWith(x, d[x.lba]) \in Content
    <3>1. d[x.lba] \in Content /\ d[x.lba].w \in [Words -> Nat] /\ x.value \in Nat
      BY DEF Disk, Content, Writes
    <3>2. [d[x.lba].w EXCEPT ![x.word] = x.value] \in [Words -> Nat]
      BY <3>1
    <3>. QED  BY <1>2, <3>1, <3>2 DEF SectorWith, Content
  <2>. QED  BY <2>1 DEF Landed, Disk
<1>3. CASE x.kind \in Kinds
  <2>1. x.kind # "word"
    BY <1>3 DEF Kinds
  <2>2. SectorWith(x, d[x.lba]) \in Content
    BY <1>3, <2>1 DEF SectorWith, Content, Writes, Blank, Words
  <2>. QED  BY <2>2 DEF Landed, Disk
<1>. QED  BY <1>1, <1>2, <1>3 DEF Writes

LEMMA LandedElsewhere ==
  ASSUME NEW d \in Disk, NEW x, NEW a \in Lba, a # x.lba \/ x.kind \in {"none", "zero"}
  PROVE  Landed(d, x)[a] = d[a]
BY DEF Landed, Disk

(* A structure that lands is in its place.                                 *)
LEMMA LandedSector ==
  ASSUME NEW d \in Disk, NEW lba \in Lba, NEW content \in {Plain(k) : k \in Kinds} \cup {BootSector},
         content # Plain("zero")
  PROVE  Landed(d, Sector(lba, content))[lba] = content
BY DEF Landed, SectorWith, Sector, Disk, Plain, BootSector, Kinds

LEMMA SectorIsWrite ==
  ASSUME NEW lba \in Lba, NEW content \in Content
  PROVE  /\ Sector(lba, content) \in Writes
         /\ Sector(lba, content).lba = lba /\ Sector(lba, content).kind = content.kind
BY DEF Sector, Writes, Content, Words

LEMMA WordIsWrite ==
  ASSUME NEW copy \in Both, NEW c \in Nat, NEW value \in Nat, NEW n \in BootClusters, c <= n + 2
  PROVE  LET x == Word(copy, c, value) IN
         /\ x \in Writes /\ x.lba > EspStart /\ x.kind = "word"
<1>1. EntryLba(copy, c) \in Lba /\ EntryLba(copy, c) > EspStart
  BY EntryInModel
<1>2. EntryWord(c) \in Words
  BY SMTT(60) DEF EntryWord, Words
<1>. QED  BY <1>1, <1>2 DEF Word, Writes

LEMMA DataWrittenType ==
  ASSUME NEW d \in Disk, NEW i \in Nat
  PROVE  DataWritten(d, i) \in Disk
BY DataIsContent DEF DataWritten, Disk

LEMMA DataWrittenBelow ==
  ASSUME NEW d \in Disk, NEW i \in Nat, NEW a \in Lba, a <= EspStart
  PROVE  DataWritten(d, i)[a] = d[a]
<1>1. ClusterOf(i) \in Nat /\ ClusterOf(i) >= 2
  BY DEF ClusterOf, FirstCluster
<1>2. a \notin ClusterLba(ClusterOf(i))..(ClusterLba(ClusterOf(i)) + ClusterSectors - 1)
  BY <1>1, ClusterAfterEsp DEF Lba
<1>. QED  BY <1>2 DEF DataWritten

(***************************************************************************)
(* Type correctness.  Beyond the types: an image that is being made has a  *)
(* size, and a cluster that is being written belongs to the boot file.     *)
(***************************************************************************)
Typed ==
  /\ TypeOK
  /\ pc \notin {"check", "failed"} => total > 0
  /\ pc \in {"mirror", "data"} => step <= boot

LEMMA RootInEsp ==
  RootLba \in Nat /\ RootLba > EspStart /\ RootLba < EspEnd /\ EspEnd <= PoolStart
<1>1. 2 * FatSectors \in Nat
  OBVIOUS
<1>. QED  BY <1>1 DEF RootLba, FatEnd, EspEnd

LEMMA NoneIsWrite == None \in Writes /\ None.lba + Span(None) <= Sectors /\ None.lba = 0
BY DEF None, Writes, Span, Lba, Words

LEMMA OneSector ==
  ASSUME NEW x \in Writes, x.kind # "zero"
  PROVE  x.lba + Span(x) <= Sectors /\ x.lba + Span(x) \in Nat
BY DEF Span, Writes, Lba

(* What a seek does to the image and its length.                           *)
LEMMA SeekTyped ==
  ASSUME TypeOK, SeekOk \/ SeekFails
  PROVE  disk' \in Disk /\ length' \in 0..Sectors /\ faults' \in 0..MaxFaults
<1>1. disk \in Disk /\ held \in Writes /\ length \in 0..Sectors /\ faults \in 0..MaxFaults
      /\ held.lba + Span(held) <= Sectors
  BY DEF TypeOK, Disk, Writes
<1>2. held.lba + Span(held) \in 0..Sectors
  BY <1>1 DEF Span, Writes, Lba
<1>3. CASE SeekOk
  BY <1>1, <1>2, <1>3, LandedType DEF SeekOk, Flush, AtLeast
<1>4. CASE SeekFails
  BY <1>1, <1>4 DEF SeekFails, Fault
<1>. QED  BY <1>3, <1>4

(* A stage that writes one sector or word, and goes on or gives up.        *)
LEMMA StageTyped ==
  ASSUME Typed, SeekOk \/ SeekFails, UNCHANGED <<total, boot>>, pc \notin {"check", "failed"},
         held' \in Writes, held'.kind # "zero",
         pc' \in Stages \ {"marks", "mirror", "data"}, step' \in 0..(boot + 1),
         warned' \in BOOLEAN
  PROVE  Typed'
<1>1. disk' \in Disk /\ length' \in 0..Sectors /\ faults' \in 0..MaxFaults
  BY SeekTyped DEF Typed
<1>2. (held.lba + Span(held) <= Sectors)'
  BY OneSector
<1>. QED  BY <1>1, <1>2 DEF Typed, TypeOK, Disk, Writes

LEMMA StructureTyped ==
  ASSUME Typed, NEW kind \in Kinds \ {"zero"}, NEW lba \in Lba,
         NEW after \in Stages \ {"marks", "mirror", "data"},
         Structure(kind, lba, after)
  PROVE  Typed'
<1>1. pc = kind /\ pc \notin {"check", "failed", "marks"}
  BY DEF Structure, Kinds
<1>2. held' \in Writes /\ held'.kind # "zero"
  BY SectorIsWrite, PlainIsContent, NoneIsWrite DEF Structure, Plain, None
<1>3. step' \in 0..(boot + 1) /\ warned' \in BOOLEAN
  BY <1>1 DEF Structure, Typed, TypeOK
<1>. QED  BY <1>1, <1>2, <1>3, StageTyped DEF Structure, Stages

LEMMA InEspTyped ==
  ASSUME Typed, NEW kind \in Kinds \ {"zero"}, NEW x \in Writes, x.kind # "zero",
         NEW after \in Stages \ {"marks", "mirror", "data"},
         InEsp(kind, x, after), step' \in {step, 1}
  PROVE  Typed'
<1>1. pc = kind /\ pc \notin {"check", "failed", "marks"}
  BY DEF InEsp, Kinds
<1>2. held' \in Writes /\ held'.kind # "zero"
  BY NoneIsWrite DEF InEsp, EspGivenUp, None
<1>3. step' \in 0..(boot + 1) /\ warned' \in BOOLEAN
  <2>1. step' \in 0..(boot + 1)
    BY <1>1 DEF InEsp, Typed, TypeOK
  <2>2. warned \in BOOLEAN /\ (warned' = warned \/ warned' = TRUE)
    BY DEF InEsp, EspGivenUp, Typed, TypeOK
  <2>3. warned' \in BOOLEAN
    BY <2>2, Zenon
  <2>. QED  BY <2>1, <2>3
<1>4. SeekOk \/ SeekFails
  BY DEF InEsp
<1>5. pc' \in Stages \ {"marks", "mirror", "data"} /\ UNCHANGED <<total, boot>>
  BY DEF InEsp, EspGivenUp, Stages
<1>. QED  BY <1>1, <1>2, <1>3, <1>4, <1>5, StageTyped

(* A word of the FAT that is written unchecked.                            *)
LEMMA WordTyped ==
  ASSUME Typed, NEW copy \in Both, NEW c \in Nat, c <= boot + 2, NEW value \in Nat,
         UncheckedWord(Word(copy, c, value))
  PROVE  /\ disk' \in Disk /\ length' \in 0..Sectors /\ faults' \in 0..MaxFaults
         /\ held' \in Writes /\ held'.kind = "word" /\ held'.lba + Span(held') <= Sectors
         /\ held'.lba > EspStart \/ held'.lba = held.lba
<1> DEFINE x == Word(copy, c, value)
<1>1. x \in Writes /\ x.kind = "word" /\ x.lba > EspStart
  BY WordIsWrite DEF Typed, TypeOK
<1>2. held \in Writes
  BY DEF Typed, TypeOK, Writes
<1>3. held' \in Writes /\ held'.kind = "word" /\ (held'.lba > EspStart \/ held'.lba = held.lba)
  <2>1. CASE held' = x
    BY <1>1, <2>1
  <2>2. CASE held' = [x EXCEPT !.lba = held.lba, !.word = held.word]
    BY <1>1, <1>2, <2>2 DEF Writes
  <2>. QED  BY <2>1, <2>2 DEF UncheckedWord
<1>4. SeekOk \/ SeekFails
  BY DEF UncheckedWord
<1>. QED  BY <1>3, <1>4, SeekTyped, OneSector DEF Typed

(* The cleared FATs: where the last zeros are held.                        *)
LEMMA ZerosTyped ==
  ASSUME NEW lba \in FatStart(2)..(FatEnd - ClusterSectors)
  PROVE  /\ Zeros(lba) \in Writes /\ Zeros(lba).lba = lba
         /\ lba + Span(Zeros(lba)) <= Sectors /\ Zeros(lba).kind = "zero"
         /\ lba \in 0..Sectors /\ lba > EspStart
<1>1. lba \in Lba /\ lba + ClusterSectors <= Sectors /\ lba > EspStart
  BY FatInEsp DEF Lba
<1>2. Plain("zero") \in Content /\ Plain("zero").kind = "zero"
  BY PlainIsContent DEF Kinds, Plain
<1>3. Zeros(lba) \in Writes /\ Zeros(lba).lba = lba /\ Zeros(lba).kind = "zero"
  BY <1>1, <1>2, SectorIsWrite DEF Zeros
<1>. QED  BY <1>1, <1>3 DEF Span, Lba

LEMMA LastZeros == FatEnd - ClusterSectors \in FatStart(2)..(FatEnd - ClusterSectors)
<1>1. FatEnd - FatStart(2) = FatSectors
  BY 2 * FatSectors = FatSectors + FatSectors, 1 * FatSectors = FatSectors DEF FatEnd, FatStart
<1>. QED  BY <1>1, FatInEsp

LEMMA FatTableTyped == ASSUME Typed, WriteFatTable PROVE Typed'
<1>1. /\ disk \in Disk /\ held \in Writes /\ length \in 0..Sectors /\ faults \in 0..MaxFaults
      /\ pc = "fat" /\ step' = 0 /\ boot \in Nat /\ warned \in BOOLEAN
      /\ UNCHANGED <<total, boot>> /\ total \in Totals /\ total > 0 /\ boot \in BootClusters
  BY DEF Typed, TypeOK, Disk, Writes, WriteFatTable
<1>2. \A l \in 0..Sectors : AtLeast(l) \in 0..Sectors
  BY <1>1 DEF AtLeast
<1>3. Landed(disk, held) \in Disk
  BY <1>1, LandedType
<1>4. faults' \in 0..MaxFaults /\ disk' \in Disk /\ warned' \in BOOLEAN
  <2>1. faults' \in 0..MaxFaults /\ disk' \in Disk
    BY <1>1, <1>3 DEF WriteFatTable, Fault, SeekFails
  <2>2. warned' = warned \/ warned' = TRUE
    BY DEF WriteFatTable, EspGivenUp
  <2>3. warned' \in BOOLEAN
    BY <1>1, <2>2, Zenon
  <2>. QED  BY <2>1, <2>3
<1>5. /\ held' \in Writes /\ (held.lba + Span(held) <= Sectors)' /\ length' \in 0..Sectors
      /\ pc' \in {"marks", "checkpoint"}
  <2>1. CASE \E lba \in FatStart(2)..(FatEnd - ClusterSectors) :
               length' = AtLeast(lba) /\ held' = Zeros(lba) /\ pc' = "marks"
    BY <1>2, <2>1, ZerosTyped
  <2>2. CASE /\ length' = AtLeast(FatStart(2) - ClusterSectors) \/ length' = length
             /\ held' = None /\ pc' = "checkpoint"
    <3>1. FatStart(2) - ClusterSectors \in 0..Sectors
      <4>1. FatStart(2) = FatStart(1) + FatSectors
        BY 0 * FatSectors = 0, 1 * FatSectors = FatSectors DEF FatStart
      <4>. QED  BY <4>1, FatInEsp, LastZeros
    <3>. QED  BY <1>1, <1>2, <2>2, <3>1, NoneIsWrite
  <2>. QED  BY <2>1, <2>2, LastZeros DEF WriteFatTable, EspGivenUp, SeekFails
<1>. QED  BY <1>1, <1>4, <1>5 DEF Typed, TypeOK, Disk, Writes, Stages, LastMark, RootCluster

LEMMA TypeInit == Init => Typed
<1>1. Plain("zero") \in Content
  BY PlainIsContent DEF Kinds
<1> SUFFICES ASSUME Init PROVE Typed
  OBVIOUS
<1>2. boot \in Nat /\ total \in Totals /\ boot \in BootClusters /\ pc = "check" /\ step = 0
  BY DEF Init
<1>3. disk \in [Lba -> Content]
  BY <1>1 DEF Init
<1>4. held \in Writes /\ held.lba + Span(held) <= Sectors
  BY NoneIsWrite DEF Init
<1>5. warned \in BOOLEAN
  BY Zenon DEF Init
<1>6. length \in 0..Sectors /\ faults \in 0..MaxFaults
  BY DEF Init
<1>. QED  BY <1>2, <1>3, <1>4, <1>5, <1>6 DEF Typed, TypeOK, Stages, Writes

(* The number and the copy of a mark.                                      *)
LEMMA MarkPlace ==
  ASSUME NEW s \in 0..LastMark
  PROVE  /\ 1 + (s % 2) \in Both /\ s \div 2 \in 0..RootCluster
         /\ 2 * (s \div 2) + (s % 2) = s
<1>1. s \in {0, 1, 2, 3, 4, 5}
  BY DEF LastMark, RootCluster
<1>. QED  BY <1>1 DEF Both, RootCluster

LEMMA TypeStep == Typed /\ [Next]_vars => Typed'
<1> SUFFICES ASSUME Typed, [Next]_vars PROVE Typed'
  OBVIOUS
<1>a. /\ 0 \in Lba /\ GptPrimary \in Lba /\ GptEntries \in Lba /\ PartTable \in Lba
      /\ EspStart \in Lba /\ RootLba \in Lba /\ PoolStart \in Lba /\ PoolStart + 1 \in Lba
  BY RootInEsp DEF Lba, EspEnd
<1>b. /\ total \in Nat /\ total <= Sectors /\ boot \in Nat /\ boot \in BootClusters
      /\ disk \in Disk /\ held \in Writes /\ length \in 0..Sectors /\ faults \in 0..MaxFaults
      /\ step \in Nat /\ warned \in BOOLEAN /\ held.lba + Span(held) \in 0..Sectors
  BY DEF Typed, TypeOK, Disk, Writes, Span, Lba
<1>1. CASE Check
  BY <1>1, <1>b DEF Typed, TypeOK, Check, Stages
<1>2. CASE WriteMbr
  BY <1>2, <1>a, StructureTyped DEF WriteMbr, Stages, Kinds
<1>3. CASE WriteGptHeader
  BY <1>3, <1>a, StructureTyped DEF WriteGptHeader, Stages, Kinds
<1>4. CASE WriteGptEntries
  BY <1>4, <1>a, StructureTyped DEF WriteGptEntries, Stages, Kinds
<1>5. CASE WritePartitions
  BY <1>5, <1>a, StructureTyped DEF WritePartitions, Stages, Kinds
<1>6. CASE WriteBootSector
  <2>1. Sector(EspStart, BootSector) \in Writes /\ Sector(EspStart, BootSector).kind # "zero"
    BY <1>a, SectorIsWrite, BootSectorIsContent DEF BootSector
  <2>. QED  BY <1>6, <2>1, InEspTyped DEF WriteBootSector, Stages, Kinds
<1>7. CASE WriteFatTable
  BY <1>7, FatTableTyped
<1>8. CASE WriteMark
  <2>1. step \in 0..LastMark /\ pc = "marks"
    BY <1>8 DEF WriteMark, Typed, TypeOK
  <2>2. 1 + (step % 2) \in Both /\ step \div 2 \in Nat /\ step \div 2 <= boot + 2
    BY <1>b, <2>1, MarkPlace DEF RootCluster
  <2>3. /\ disk' \in Disk /\ length' \in 0..Sectors /\ faults' \in 0..MaxFaults
        /\ held' \in Writes /\ held'.lba + Span(held') <= Sectors
    BY <1>8, <2>2, WordTyped DEF WriteMark, Mark
  <2>4. /\ pc' \in {"marks", "root"} /\ step' \in 0..LastMark
        /\ pc' = "root" => step' = 0
    BY <1>8, <2>1 DEF WriteMark, LastMark, RootCluster
  <2>5. UNCHANGED <<total, boot, warned>>
    BY <1>8 DEF WriteMark
  <2>. QED  BY <1>b, <2>1, <2>3, <2>4, <2>5 DEF Typed, TypeOK, Disk, Writes, Stages
<1>9. CASE WriteRootDirectory
  <2>1. /\ Sector(RootLba, Plain("root")) \in Writes
        /\ Sector(RootLba, Plain("root")).kind # "zero"
    BY <1>a, SectorIsWrite, PlainIsContent DEF Plain, Kinds
  <2>. QED  BY <1>9, <2>1, InEspTyped DEF WriteRootDirectory, Stages, Kinds
<1>10. CASE BootFileMissing
  BY <1>10, <1>b DEF BootFileMissing, Fault, Typed, TypeOK, Stages
<1>11. CASE WriteLink \/ WriteMirror
  <2>1. /\ pc \in {"clusters", "mirror"} /\ pc' \in {"mirror", "data"} /\ step <= boot
        /\ UNCHANGED <<total, boot, step, warned>>
    BY <1>11 DEF WriteLink, WriteMirror, MoreClusters, Typed
  <2>2. ClusterOf(step) \in Nat /\ ClusterOf(step) <= boot + 2 /\ Link(step) \in Nat
    BY <1>b, <2>1 DEF ClusterOf, FirstCluster, Link, Mark
  <2>3. \E copy \in Both : UncheckedWord(Word(copy, ClusterOf(step), Link(step)))
    BY <1>11 DEF WriteLink, WriteMirror, Both
  <2>4. /\ disk' \in Disk /\ length' \in 0..Sectors /\ faults' \in 0..MaxFaults
        /\ held' \in Writes /\ held'.lba + Span(held') <= Sectors
    BY <2>2, <2>3, WordTyped
  <2>. QED  BY <1>b, <2>1, <2>4 DEF Typed, TypeOK, Disk, Writes, Stages
<1>12. CASE WriteData
  <2>1. pc = "data" /\ step <= boot /\ held' = None /\ UNCHANGED <<total, boot, warned>>
    BY <1>12 DEF WriteData, Typed
  <2>2. disk' \in Disk /\ length' \in 0..Sectors
    <3>1. Landed(disk, held) \in Disk
      BY <1>b, LandedType
    <3>2. DataWritten(Landed(disk, held), step) \in Disk
      BY <1>b, <3>1, DataWrittenType
    <3>3. ClusterLba(ClusterOf(step + 1)) \in 0..Sectors
      BY <1>b, <2>1, ClustersInModel
    <3>. QED  BY <1>12, <1>b, <3>1, <3>2, <3>3 DEF WriteData, Flush, SeekFails, AtLeast
  <2>3. /\ pc' \in {"clusters", "checkpoint"} /\ step' \in 0..(boot + 1)
        /\ faults' \in 0..MaxFaults
    BY <1>12, <1>b, <2>1 DEF WriteData, Flush, SeekFails, Fault
  <2>. QED  BY <1>b, <2>1, <2>2, <2>3, NoneIsWrite DEF Typed, TypeOK, Disk, Writes, Stages
<1>13. CASE EndBootFile
  BY <1>13, <1>b DEF EndBootFile, Typed, TypeOK, Stages
<1>14. CASE WriteCheckpoint
  BY <1>14, <1>a, StructureTyped DEF WriteCheckpoint, Stages, Kinds
<1>15. CASE WriteManifest
  <2>1. Structure("manifest", PoolStart + 1, "backup")
    BY <1>15 DEF WriteManifest
  <2>. QED  BY <2>1, <1>a, StructureTyped DEF Stages, Kinds
<1>16. CASE WriteBackup
  <2>1. pc = "backup" /\ BackupLba \in Lba
    BY <1>16, <1>b DEF WriteBackup, BackupLba, Lba, Typed
  <2>2. held' \in Writes /\ held'.kind # "zero"
    BY <1>16, <2>1, SectorIsWrite, PlainIsContent, NoneIsWrite
       DEF WriteBackup, Plain, None, Kinds
  <2>3. /\ SeekOk \/ SeekFails
        /\ pc' \in {"close", "failed"}
        /\ UNCHANGED <<total, boot, step, warned>>
    BY <1>16 DEF WriteBackup
  <2>4. step' \in 0..(boot + 1) /\ warned' \in BOOLEAN
    BY <2>1, <2>3 DEF Typed, TypeOK
  <2>. QED  BY <2>1, <2>2, <2>3, <2>4, StageTyped DEF Stages
<1>17. CASE Close
  <2>1. /\ pc = "close" /\ pc' = "done" /\ held' = None
        /\ UNCHANGED <<total, boot, step, warned>> /\ faults' \in 0..MaxFaults
    BY <1>17, <1>b DEF Close, Fault
  <2>2. disk' \in Disk
    <3>1. Landed(disk, held) \in Disk /\ Plain("zero") \in Content
      BY <1>b, LandedType, PlainIsContent DEF Kinds
    <3>2. [disk EXCEPT ![held.lba] = Plain("zero")] \in Disk
      BY <1>b, <3>1 DEF Disk
    <3>. QED  BY <1>17, <1>b, <3>1, <3>2 DEF Close
  <2>3. length' \in 0..Sectors
    <3>1. held.lba + 1 \in 0..Sectors
      BY <1>b DEF Writes, Lba
    <3>. QED  BY <1>17, <1>b, <3>1 DEF Close, Padded, AtLeast
  <2>. QED  BY <1>b, <2>1, <2>2, <2>3, NoneIsWrite DEF Typed, TypeOK, Disk, Writes, Stages
<1>18. CASE Ended \/ UNCHANGED vars
  BY <1>18 DEF Ended, vars, Typed, TypeOK, Span
<1>. QED  BY <1>1, <1>2, <1>3, <1>4, <1>5, <1>6, <1>7, <1>8, <1>9, <1>10, <1>11, <1>12,
             <1>13, <1>14, <1>15, <1>16, <1>17, <1>18 DEF Next

LEMMA AlwaysTyped == Spec => []Typed
BY TypeInit, TypeStep, PTL DEF Spec

(* The image, its size and the write held back keep their types: in        *)
(* particular no stage writes past the bound the clusters are given.       *)
THEOREM ImageTypeCorrect == Spec => []TypeOK
<1>1. Typed => TypeOK
  BY DEF Typed
<1>. QED  BY <1>1, AlwaysTyped, PTL

(***************************************************************************)
(* The metadata survives.  The inductive invariant says which write is     *)
(* held back in each stage, and of each structure from which stage on it   *)
(* is in place: from the one after the stage that holds it.                *)
(***************************************************************************)
EspStages == {"marks", "root", "clusters", "mirror", "data"}
Finish == {"checkpoint", "manifest", "backup", "close", "done"}

HeldBack ==
  /\ pc \in {"check", "mbr"} => held = None
  /\ pc = "gpt" => held = Sector(0, Plain("mbr"))
  /\ pc = "entries" => held = Sector(GptPrimary, Plain("gpt"))
  /\ pc = "table" => held = Sector(GptEntries, Plain("entries"))
  /\ pc = "bootSector" => held = Sector(PartTable, Plain("table"))
  /\ pc = "fat" => held = Sector(EspStart, BootSector)
  /\ pc \in EspStages \cup {"checkpoint"} => held = None \/ held.lba > EspStart
  /\ pc = "manifest" => held = Sector(PoolStart, Plain("checkpoint"))
  /\ pc = "backup" => held = Sector(PoolStart + 1, Plain("manifest"))
  /\ pc = "close" => held = Sector(total - 1, Plain("mbr"))
  /\ pc = "done" => held = None

HeadersInPlace ==
  /\ pc \in {"entries", "table", "bootSector", "fat"} \cup EspStages \cup Finish =>
       disk[0] = Plain("mbr")
  /\ pc \in {"table", "bootSector", "fat"} \cup EspStages \cup Finish =>
       disk[GptPrimary] = Plain("gpt")
  /\ pc \in {"bootSector", "fat"} \cup EspStages \cup Finish =>
       disk[GptEntries] = Plain("entries")

EspInPlace ==
  /\ pc \in {"check", "mbr", "gpt", "entries", "table", "bootSector", "fat"} =>
       disk[EspStart] = Plain("zero")
  /\ pc \in {"fat"} \cup EspStages => disk[PartTable] = Plain("table")
  /\ pc \in EspStages => disk[EspStart] = BootSector
  /\ pc \in Finish => /\ warned \/ disk[EspStart] = BootSector
                      /\ disk[EspStart] = BootSector => disk[PartTable] = Plain("table")

PoolInPlace ==
  /\ pc \in {"backup", "close", "done"} => disk[PoolStart] = Plain("checkpoint")
  /\ pc \in {"close", "done"} => disk[PoolStart + 1] = Plain("manifest")

Metadata == Roomy => HeldBack /\ HeadersInPlace /\ EspInPlace /\ PoolInPlace

Headers == {0, GptPrimary, GptEntries, PartTable, EspStart}

LEMMA Places ==
  /\ Headers \subseteq Lba /\ \A a \in Headers : a <= EspStart
  /\ PoolStart \in Lba /\ PoolStart + 1 \in Lba
  /\ 0 # GptPrimary /\ 0 # GptEntries /\ 0 # PartTable /\ GptPrimary # GptEntries
  /\ GptPrimary # PartTable /\ GptEntries # PartTable
  /\ 0 # EspStart /\ GptPrimary # EspStart /\ GptEntries # EspStart /\ PartTable # EspStart
  /\ PoolStart \notin Headers /\ PoolStart + 1 \notin Headers
BY DEF Headers, Lba

LEMMA PlainKinds ==
  /\ \A k \in Kinds, l \in Kinds : Plain(k) = Plain(l) => k = l
  /\ \A k \in Kinds : Plain(k) \in {Plain(j) : j \in Kinds} \cup {BootSector}
BY DEF Plain

(* A seek in the stage after a structure of one sector puts it in place,   *)
(* and leaves every other sector alone.                                    *)
LEMMA SectorLands ==
  ASSUME disk \in Disk, NEW lba \in Lba, NEW kind \in Kinds \ {"zero"},
         held = Sector(lba, Plain(kind)), SeekOk
  PROVE  disk'[lba] = Plain(kind) /\ \A a \in Lba : a # lba => disk'[a] = disk[a]
<1>1. Plain(kind) # Plain("zero")
  BY PlainKinds DEF Kinds
<1>2. disk'[lba] = Plain(kind)
  BY <1>1, PlainKinds, LandedSector DEF SeekOk, Flush
<1>3. held.lba = lba
  BY DEF Sector
<1>. QED  BY <1>2, <1>3, LandedElsewhere DEF SeekOk, Flush

(* Unchecked writes of the ESP leave the headers alone.                    *)
LEMMA EspKeeps ==
  ASSUME Typed, held = None \/ held.lba > EspStart,
         \/ disk' = disk \/ disk' = Landed(disk, held)
         \/ disk' = DataWritten(Landed(disk, held), step)
  PROVE  \A a \in Headers : disk'[a] = disk[a]
<1>1. disk \in Disk /\ held \in Writes /\ step \in Nat
  BY DEF Typed, TypeOK, Disk, Writes
<1>2. Landed(disk, held) \in Disk
  BY <1>1, LandedType
<1>3. \A a \in Headers : Landed(disk, held)[a] = disk[a]
  <2> SUFFICES ASSUME NEW a \in Headers PROVE Landed(disk, held)[a] = disk[a]
    OBVIOUS
  <2>1. a \in Lba /\ a <= EspStart
    BY Places
  <2>2. a # held.lba \/ held.kind \in {"none", "zero"}
    BY <1>1, <2>1 DEF None, Writes, Lba
  <2>. QED  BY <1>1, <2>1, <2>2, LandedElsewhere
<1>4. \A a \in Headers : DataWritten(Landed(disk, held), step)[a] = Landed(disk, held)[a]
  BY <1>1, <1>2, Places, DataWrittenBelow
<1>. QED  BY <1>1, <1>3, <1>4

(* A stage of the ESP after its boot sector, whether it goes on, ends or   *)
(* gives up.                                                               *)
LEMMA EspKeepsMetadata ==
  ASSUME Typed, Metadata, Roomy, pc \in EspStages, total' = total,
         pc' \in EspStages \cup {"checkpoint"}, held' = None \/ held'.lba > EspStart,
         warned' \in {warned, TRUE},
         \/ disk' = disk \/ disk' = Landed(disk, held)
         \/ disk' = DataWritten(Landed(disk, held), step)
  PROVE  Metadata'
<1>1. HeldBack /\ HeadersInPlace /\ EspInPlace
  BY DEF Metadata
<1>2. \A a \in Headers : disk'[a] = disk[a]
  BY <1>1, EspKeeps DEF HeldBack
<1>3. /\ disk'[0] = Plain("mbr") /\ disk'[GptPrimary] = Plain("gpt")
      /\ disk'[GptEntries] = Plain("entries") /\ disk'[PartTable] = Plain("table")
      /\ disk'[EspStart] = BootSector
  BY <1>1, <1>2 DEF HeadersInPlace, EspInPlace, Headers, EspStages
<1>4. HeldBack' /\ PoolInPlace'
  BY DEF HeldBack, PoolInPlace, EspStages
<1>5. HeadersInPlace' /\ EspInPlace'
  BY <1>3 DEF HeadersInPlace, EspInPlace, EspStages
<1>. QED  BY <1>4, <1>5 DEF Metadata

(* A stage after the ESP that writes one sector of the pool or the copy.   *)
LEMMA FinishKeeps ==
  ASSUME Typed, Metadata, Roomy, pc \in Finish, pc' \in Finish, UNCHANGED <<total, warned>>,
         HeldBack', PoolInPlace', \A a \in Headers : disk'[a] = disk[a]
  PROVE  Metadata'
<1>1. HeadersInPlace /\ EspInPlace
  BY DEF Metadata
<1>2. /\ disk'[0] = disk[0] /\ disk'[GptPrimary] = disk[GptPrimary]
      /\ disk'[GptEntries] = disk[GptEntries] /\ disk'[PartTable] = disk[PartTable]
      /\ disk'[EspStart] = disk[EspStart]
  BY DEF Headers
<1>3. HeadersInPlace'
  BY <1>1, <1>2 DEF HeadersInPlace, Finish, EspStages
<1>4. EspInPlace'
  BY <1>1, <1>2 DEF EspInPlace, Finish, EspStages
<1>. QED  BY <1>3, <1>4 DEF Metadata

LEMMA MetadataStep == Typed /\ Metadata /\ [Next]_vars => Metadata'
<1> SUFFICES ASSUME Typed, Metadata, [Next]_vars, Roomy' PROVE Metadata'
  BY DEF Metadata
<1>a. disk \in Disk /\ held \in Writes /\ pc \in Stages /\ total \in Nat
  BY DEF Typed, TypeOK, Disk, Writes
<1>b. total' = total
  BY DEF Next, vars, Check, WriteMbr, WriteGptHeader, WriteGptEntries, WritePartitions,
         WriteBootSector, WriteFatTable, WriteMark, WriteRootDirectory, BootFileMissing,
         WriteLink, WriteMirror, WriteData, EndBootFile, WriteCheckpoint, WriteManifest,
         WriteBackup, Close, Ended, Structure, InEsp
<1>c. Roomy /\ HeldBack /\ HeadersInPlace /\ EspInPlace /\ PoolInPlace
  BY <1>b DEF Roomy, Metadata
<1>d. CASE UNCHANGED <<pc, disk, held, total, warned>>
  BY <1>c, <1>d DEF Metadata, Roomy, HeldBack, HeadersInPlace, EspInPlace, PoolInPlace
<1>f. CASE pc' = "failed"
  BY <1>f DEF Metadata, HeldBack, HeadersInPlace, EspInPlace, PoolInPlace, EspStages, Finish
<1> USE DEF EspStages, Finish
<1>1. CASE Check
  BY <1>1, <1>c, <1>f DEF Check, Metadata, HeldBack, HeadersInPlace, EspInPlace, PoolInPlace
<1>2. CASE WriteMbr
  <2>1. CASE SeekOk /\ held' = Sector(0, Plain("mbr")) /\ pc' = "gpt" /\ pc = "mbr"
    <3>1. disk'[EspStart] = disk[EspStart]
      <4>1. held.kind = "none"
        BY <1>c, <2>1 DEF HeldBack, None
      <4>. QED  BY <2>1, <4>1, <1>a, Places, LandedElsewhere DEF SeekOk, Flush, Headers
    <3>. QED  BY <1>c, <2>1, <3>1
              DEF Metadata, HeldBack, HeadersInPlace, EspInPlace, PoolInPlace
  <2>. QED  BY <1>2, <1>f, <2>1 DEF WriteMbr, Structure
<1>3. CASE WriteGptHeader
  <2>1. CASE SeekOk /\ held' = Sector(GptPrimary, Plain("gpt")) /\ pc' = "entries" /\ pc = "gpt"
    <3>1. disk'[0] = Plain("mbr") /\ disk'[EspStart] = disk[EspStart]
      BY <1>a, <1>c, <2>1, Places, SectorLands DEF HeldBack, Headers, Kinds
    <3>. QED  BY <1>c, <2>1, <3>1
              DEF Metadata, HeldBack, HeadersInPlace, EspInPlace, PoolInPlace
  <2>. QED  BY <1>3, <1>f, <2>1 DEF WriteGptHeader, Structure
<1>4. CASE WriteGptEntries
  <2>1. CASE /\ SeekOk /\ held' = Sector(GptEntries, Plain("entries"))
             /\ pc' = "table" /\ pc = "entries"
    <3>1. /\ disk'[GptPrimary] = Plain("gpt") /\ disk'[EspStart] = disk[EspStart]
          /\ disk'[0] = disk[0]
      BY <1>a, <1>c, <2>1, Places, SectorLands DEF HeldBack, Headers, Kinds
    <3>. QED  BY <1>c, <2>1, <3>1
              DEF Metadata, HeldBack, HeadersInPlace, EspInPlace, PoolInPlace
  <2>. QED  BY <1>4, <1>f, <2>1 DEF WriteGptEntries, Structure
<1>5. CASE WritePartitions
  <2>1. CASE /\ SeekOk /\ held' = Sector(PartTable, Plain("table"))
             /\ pc' = "bootSector" /\ pc = "table"
    <3>1. /\ disk'[GptEntries] = Plain("entries") /\ disk'[EspStart] = disk[EspStart]
          /\ disk'[0] = disk[0] /\ disk'[GptPrimary] = disk[GptPrimary]
      BY <1>a, <1>c, <2>1, Places, SectorLands DEF HeldBack, Headers, Kinds
    <3>. QED  BY <1>c, <2>1, <3>1
              DEF Metadata, HeldBack, HeadersInPlace, EspInPlace, PoolInPlace
  <2>. QED  BY <1>5, <1>f, <2>1 DEF WritePartitions, Structure
<1>6. CASE WriteBootSector
  <2>1. pc = "bootSector"
    BY <1>6 DEF WriteBootSector, InEsp
  <2>2. CASE /\ SeekOk /\ held' = Sector(EspStart, BootSector) /\ pc' = "fat"
             /\ UNCHANGED warned
    <3>1. /\ disk'[PartTable] = Plain("table") /\ disk'[EspStart] = disk[EspStart]
          /\ disk'[0] = disk[0] /\ disk'[GptPrimary] = disk[GptPrimary]
          /\ disk'[GptEntries] = disk[GptEntries]
      BY <1>a, <1>c, <2>1, <2>2, Places, SectorLands DEF HeldBack, Headers, Kinds
    <3>. QED  BY <1>c, <2>1, <2>2, <3>1
              DEF Metadata, HeldBack, HeadersInPlace, EspInPlace, PoolInPlace
  <2>3. CASE SeekFails /\ EspGivenUp
    <3>1. disk'[EspStart] # BootSector
      BY <1>c, <2>1, <2>3, BootSectorIsContent DEF SeekFails, EspInPlace
    <3>. QED  BY <1>c, <2>1, <2>3, <3>1
              DEF SeekFails, EspGivenUp, Metadata, HeldBack, HeadersInPlace, EspInPlace,
                  PoolInPlace
  <2>. QED  BY <1>6, <2>2, <2>3 DEF WriteBootSector, InEsp
<1>7. CASE WriteFatTable
  <2>1. pc = "fat" /\ held = Sector(EspStart, BootSector)
    BY <1>7, <1>c DEF WriteFatTable, HeldBack
  <2>2. CASE disk' = Landed(disk, held)
    <3>1. disk'[EspStart] = BootSector
      BY <1>a, <2>1, <2>2, Places, LandedSector, BootSectorIsContent DEF Headers
    <3>2. held.lba = EspStart
      BY <2>1 DEF Sector
    <3>3. /\ disk'[0] = disk[0] /\ disk'[GptPrimary] = disk[GptPrimary]
          /\ disk'[GptEntries] = disk[GptEntries] /\ disk'[PartTable] = disk[PartTable]
      BY <1>a, <2>2, <3>2, Places, LandedElsewhere DEF Headers
    <3>4. pc' \in {"marks", "checkpoint"} /\ (held' = None \/ held'.lba > EspStart)
      <4>1. \A lba \in FatStart(2)..(FatEnd - ClusterSectors) : Zeros(lba).lba > EspStart
        BY ZerosTyped
      <4>. QED  BY <1>7, <4>1, LastZeros DEF WriteFatTable, EspGivenUp, SeekFails
    <3>. QED  BY <1>c, <2>1, <3>1, <3>3, <3>4
              DEF Metadata, HeldBack, HeadersInPlace, EspInPlace, PoolInPlace
  <2>3. CASE SeekFails /\ EspGivenUp
    <3>1. disk'[EspStart] # BootSector
      BY <1>c, <2>1, <2>3, BootSectorIsContent DEF SeekFails, EspInPlace
    <3>. QED  BY <1>c, <2>1, <2>3, <3>1
              DEF SeekFails, EspGivenUp, Metadata, HeldBack, HeadersInPlace, EspInPlace,
                  PoolInPlace
  <2>. QED  BY <1>7, <2>2, <2>3 DEF WriteFatTable
<1>8. CASE WriteMark \/ WriteLink \/ WriteMirror
  <2>1. /\ pc \in EspStages /\ pc' \in EspStages /\ warned' = warned
        /\ held = None \/ held.lba > EspStart
    BY <1>8, <1>c DEF WriteMark, WriteLink, WriteMirror, HeldBack
  <2>2. \E copy \in Both, c \in Nat, v \in Nat :
          c <= boot + 2 /\ UncheckedWord(Word(copy, c, v))
    <3>1. CASE WriteMark
      <4>1. step \in 0..LastMark /\ boot \in Nat
        BY <3>1 DEF WriteMark, Typed, TypeOK
      <4>2. 1 + (step % 2) \in Both /\ step \div 2 \in Nat /\ step \div 2 <= boot + 2
        BY <4>1, MarkPlace DEF RootCluster
      <4>. QED  BY <3>1, <4>2 DEF WriteMark, Mark
    <3>2. CASE WriteLink \/ WriteMirror
      <4>1. step <= boot /\ step \in Nat /\ boot \in Nat
        BY <3>2 DEF WriteLink, WriteMirror, MoreClusters, Typed, TypeOK
      <4>2. ClusterOf(step) \in Nat /\ ClusterOf(step) <= boot + 2 /\ Link(step) \in Nat
        BY <4>1 DEF ClusterOf, FirstCluster, Link, Mark
      <4>. QED  BY <3>2, <4>2 DEF WriteLink, WriteMirror, Both
    <3>. QED  BY <1>8, <3>1, <3>2
  <2>3. /\ held'.lba > EspStart \/ held'.lba = held.lba
        /\ disk' = disk \/ disk' = Landed(disk, held)
        /\ held'.lba = held.lba => held # None \/ held'.lba > EspStart
    <3>1. PICK copy \in Both, c \in Nat, v \in Nat :
            c <= boot + 2 /\ UncheckedWord(Word(copy, c, v))
      BY <2>2
    <3>2. Word(copy, c, v).lba > EspStart
      BY <3>1, WordIsWrite DEF Typed, TypeOK
    <3>. QED  BY <3>1, <3>2, WordTyped DEF UncheckedWord, SeekOk, Flush, SeekFails
  <2>4. held'.lba > EspStart
    BY <2>1, <2>3
  <2>. QED  BY <1>b, <1>c, <2>1, <2>3, <2>4, EspKeepsMetadata
<1>9. CASE WriteRootDirectory
  <2>1. pc = "root" /\ pc' \in {"clusters", "checkpoint"} /\ warned' \in {warned, TRUE}
    BY <1>9 DEF WriteRootDirectory, InEsp, EspGivenUp
  <2>2. held' = None \/ held'.lba > EspStart
    BY <1>9, RootInEsp DEF WriteRootDirectory, InEsp, EspGivenUp, Sector
  <2>3. disk' = disk \/ disk' = Landed(disk, held)
    BY <1>9 DEF WriteRootDirectory, InEsp, SeekOk, Flush, SeekFails
  <2>. QED  BY <1>b, <1>c, <2>1, <2>2, <2>3, EspKeepsMetadata
<1>10. CASE BootFileMissing \/ EndBootFile
  <2>1. /\ pc = "clusters" /\ pc' = "checkpoint" /\ UNCHANGED <<disk, held, warned>>
    BY <1>10 DEF BootFileMissing, EndBootFile
  <2>2. held = None \/ held.lba > EspStart
    BY <1>c, <2>1 DEF HeldBack
  <2>. QED  BY <1>b, <1>c, <2>1, <2>2, EspKeepsMetadata
<1>11. CASE WriteData
  <2>1. pc = "data" /\ pc' \in {"clusters", "checkpoint"} /\ held' = None /\ warned' = warned
    BY <1>11 DEF WriteData
  <2>2. \/ disk' = disk \/ disk' = Landed(disk, held)
        \/ disk' = DataWritten(Landed(disk, held), step)
    BY <1>11 DEF WriteData, Flush, SeekFails
  <2>. QED  BY <1>b, <1>c, <2>1, <2>2, EspKeepsMetadata
<1>12. CASE WriteCheckpoint
  <2>1. CASE /\ SeekOk /\ held' = Sector(PoolStart, Plain("checkpoint"))
             /\ pc' = "manifest" /\ pc = "checkpoint" /\ UNCHANGED warned
    <3>1. \A a \in Headers : disk'[a] = disk[a]
      BY <1>c, <2>1, EspKeeps DEF HeldBack, SeekOk, Flush
    <3>2. HeldBack' /\ PoolInPlace'
      BY <2>1 DEF HeldBack, PoolInPlace
    <3>. QED  BY <1>b, <1>c, <2>1, <3>1, <3>2, FinishKeeps
  <2>. QED  BY <1>12, <1>f, <2>1 DEF WriteCheckpoint, Structure
<1>13. CASE WriteManifest
  <2>1. CASE /\ SeekOk /\ held' = Sector(PoolStart + 1, Plain("manifest"))
             /\ pc' = "backup" /\ pc = "manifest" /\ UNCHANGED warned
    <3>1. /\ \A a \in Headers : disk'[a] = disk[a]
          /\ disk'[PoolStart] = Plain("checkpoint")
      BY <1>a, <1>c, <2>1, Places, SectorLands DEF HeldBack, Kinds
    <3>2. HeldBack' /\ PoolInPlace'
      BY <2>1, <3>1 DEF HeldBack, PoolInPlace
    <3>. QED  BY <1>b, <1>c, <2>1, <3>1, <3>2, FinishKeeps
  <2>. QED  BY <1>13, <1>f, <2>1 DEF WriteManifest, Structure
<1>14. CASE WriteBackup
  <2>1. CASE /\ SeekOk /\ held' = Sector(BackupLba, Plain("mbr"))
             /\ pc' = "close" /\ pc = "backup" /\ UNCHANGED warned
    <3>1. /\ \A a \in Headers : disk'[a] = disk[a]
          /\ disk'[PoolStart] = disk[PoolStart]
          /\ disk'[PoolStart + 1] = Plain("manifest")
      BY <1>a, <1>c, <2>1, Places, SectorLands DEF HeldBack, Kinds
    <3>2. HeldBack' /\ PoolInPlace'
      BY <1>b, <1>c, <2>1, <3>1 DEF HeldBack, PoolInPlace, BackupLba
    <3>. QED  BY <1>b, <1>c, <2>1, <3>1, <3>2, FinishKeeps
  <2>. QED  BY <1>14, <1>f, <2>1 DEF WriteBackup
<1>15. CASE Close
  <2>1. /\ pc = "close" /\ pc' = "done" /\ held' = None /\ UNCHANGED warned
        /\ held = Sector(total - 1, Plain("mbr"))
    BY <1>15, <1>c DEF Close, HeldBack
  <2>2. held.lba = total - 1 /\ total - 1 > PoolStart + 1
    BY <1>a, <1>c, <2>1 DEF Sector, Roomy
  <2>3. \A a \in Headers \cup {PoolStart, PoolStart + 1} : a \in Lba /\ a # held.lba
    BY <1>a, <2>2, Places DEF Lba
  <2>4. \A a \in Headers \cup {PoolStart, PoolStart + 1} : disk'[a] = disk[a]
    BY <1>15, <1>a, <2>3, LandedElsewhere DEF Close, Disk
  <2>5. HeldBack' /\ PoolInPlace'
    BY <1>c, <2>1, <2>4 DEF HeldBack, PoolInPlace
  <2>. QED  BY <1>b, <1>c, <2>1, <2>4, <2>5, FinishKeeps
<1>16. CASE Ended \/ UNCHANGED vars
  BY <1>16, <1>d DEF Ended, vars
<1>. QED  BY <1>1, <1>2, <1>3, <1>4, <1>5, <1>6, <1>7, <1>8, <1>9, <1>10, <1>11, <1>12,
             <1>13, <1>14, <1>15, <1>16 DEF Next

LEMMA MetadataInit == Init => Metadata
<1>1. EspStart \in Lba
  BY Places DEF Headers
<1>. QED  BY <1>1 DEF Init, Metadata, HeldBack, HeadersInPlace, EspInPlace, PoolInPlace,
                      EspStages, Finish

(* Whatever the layout, the sizes of the image and of the boot file, and   *)
(* the writes that fail: a run that returns 0 leaves every structure its   *)
(* readers look for in place, if the image is larger than the ESP; of the  *)
(* partition table and the boot sector it may lose one with a warning, and *)
(* never leaves a boot sector without the table.                           *)
THEOREM MetadataAlwaysSurvives == Spec => []MetadataSurvives
<1>1. Metadata => MetadataSurvives
  BY DEF Metadata, HeadersInPlace, EspInPlace, PoolInPlace, MetadataSurvives, EspStages, Finish
<1>. QED  BY <1>1, MetadataInit, MetadataStep, AlwaysTyped, PTL DEF Spec

(***************************************************************************)
(* The boot file.  First, entries of the FAT are distinct words of the     *)
(* image, and the sectors of clusters are distinct and after the FAT.      *)
(***************************************************************************)
Entries == 0..(FatEntries - 1)
Read(d, copy, c) == d[EntryLba(copy, c)].w[EntryWord(c)]

(* A boot file that fits ends, cluster by cluster, within the ESP.         *)
LEMMA ClustersInEsp ==
  ASSUME boot \in Nat, Fits, NEW i \in Nat, i <= boot
  PROVE  ClusterLba(ClusterOf(i + 1)) \in 0..EspEnd
<1>1. (i + 1) * ClusterSectors <= (boot + 1) * ClusterSectors
  BY ProductMonotone, i + 1 \in Nat, boot + 1 \in Nat
<1>2. (i + 1) * ClusterSectors \in Nat /\ (boot + 1) * ClusterSectors \in Nat
  BY ProductNat, i + 1 \in Nat, boot + 1 \in Nat
<1>3. ClusterOf(i + 1) - 2 = i + 1
  BY DEF ClusterOf, FirstCluster
<1>. QED  BY <1>1, <1>2, <1>3, FatInEsp DEF ClusterLba, EspEnd, Fits

LEMMA Division ==
  ASSUME NEW c \in Nat
  PROVE  /\ c % SectorWords = c - SectorWords * (c \div SectorWords)
         /\ c % SectorWords \in Words /\ c \div SectorWords \in Nat
<1>1. c % SectorWords = c - SectorWords * (c \div SectorWords)
  BY SMTT(60)
<1>2. c % SectorWords \in Words
  BY SMTT(60) DEF Words
<1>. QED  BY <1>1, <1>2, SMTT(60)

LEMMA EntryInFat ==
  ASSUME NEW copy \in Both, NEW c \in Entries
  PROVE  /\ EntryLba(copy, c) \in FatStart(copy)..(FatStart(copy) + FatSectors - 1)
         /\ EntryLba(copy, c) \in Lba /\ EntryLba(copy, c) < FatEnd
         /\ EntryLba(copy, c) > EspStart
         /\ EntryWord(c) \in Words
<1> DEFINE q == c \div SectorWords
<1>1. c \in Nat /\ c < FatSectors * SectorWords
  <2>1. FatSectors * SectorWords \in Nat
    BY ProductNat
  <2>. QED  BY <2>1 DEF Entries, FatEntries
<1>2. q \in Nat /\ SectorWords * q <= c
  <2>1. /\ c % SectorWords = c - SectorWords * q
        /\ c % SectorWords \in Words /\ q \in Nat
    BY <1>1, Division
  <2>2. SectorWords * q \in Nat
    BY <2>1, ProductNat
  <2>. QED  BY <1>1, <2>1, <2>2 DEF Words
<1>3. q < FatSectors
  <2>1. SUFFICES ASSUME FatSectors <= q PROVE FALSE
    BY <1>2
  <2>2. FatSectors * SectorWords <= q * SectorWords
    BY <1>2, <2>1, ProductMonotone
  <2>3. q * SectorWords = SectorWords * q /\ SectorWords * q \in Nat
    BY <1>2, ProductNat
  <2>4. FatSectors * SectorWords \in Nat
    BY ProductNat
  <2>. QED  BY <1>1, <1>2, <2>2, <2>3, <2>4
<1>4. EntryLba(copy, c) = FatStart(copy) + q
  BY DEF EntryLba
<1>5. EntryWord(c) \in Words
  BY <1>1, Division DEF EntryWord
<1>6. /\ FatStart(copy) \in Nat /\ FatStart(copy) > EspStart
      /\ FatStart(copy) + FatSectors <= FatEnd
  <2>1. 1 * FatSectors = FatSectors /\ 0 * FatSectors = 0 /\ 2 * FatSectors = FatSectors + FatSectors
    OBVIOUS
  <2>. QED  BY <2>1 DEF FatStart, FatEnd, Both
<1> HIDE DEF q
<1>. QED  BY <1>2, <1>3, <1>4, <1>5, <1>6, FatInEsp DEF Lba

LEMMA EntriesDistinct ==
  ASSUME NEW k \in Both, NEW l \in Both, NEW c \in Entries, NEW d \in Entries,
         EntryLba(k, c) = EntryLba(l, d)
  PROVE  k = l /\ (EntryWord(c) = EntryWord(d) => c = d)
<1>1. k = l
  <2>1. 1 * FatSectors = FatSectors /\ 0 * FatSectors = 0
    OBVIOUS
  <2>. QED  BY <2>1, EntryInFat DEF FatStart, Both
<1>2. c \in Nat /\ d \in Nat
  <2>1. FatSectors * SectorWords \in Nat
    BY ProductNat
  <2>. QED  BY <2>1 DEF Entries, FatEntries
<1>3. c \div SectorWords = d \div SectorWords
  <2>1. FatStart(k) \in Nat
    BY FatInEsp DEF Both
  <2>2. c \div SectorWords \in Nat /\ d \div SectorWords \in Nat
    BY <1>2, Division
  <2>. QED  BY <1>1, <2>1, <2>2 DEF EntryLba
<1>4. ASSUME EntryWord(c) = EntryWord(d) PROVE c = d
  <2>1. c % SectorWords = c - SectorWords * (c \div SectorWords)
    BY <1>2, Division
  <2>2. d % SectorWords = d - SectorWords * (c \div SectorWords)
    BY <1>2, <1>3, Division
  <2>3. SectorWords * (c \div SectorWords) \in Nat
    BY <1>2, Division, ProductNat
  <2>. QED  BY <1>2, <1>4, <2>1, <2>2, <2>3 DEF EntryWord
<1>. QED  BY <1>1, <1>4

(* A word of the FAT that lands changes one entry of one copy.             *)
LEMMA ReadWord ==
  ASSUME NEW d \in Disk, NEW k \in Both, NEW c \in Entries, NEW v \in Nat,
         NEW copy \in Both, NEW x \in Entries
  PROVE  Read(Landed(d, Word(k, c, v)), copy, x) =
           IF copy = k /\ x = c THEN v ELSE Read(d, copy, x)
<1> DEFINE a == EntryLba(copy, x)
           b == EntryLba(k, c)
           y == Word(k, c, v)
<1>1. /\ a \in Lba /\ EntryWord(x) \in Words
      /\ b \in Lba /\ EntryWord(c) \in Words
  BY EntryInFat
<1>2. d[b] \in Content /\ d[b].w \in [Words -> Nat]
  BY <1>1 DEF Disk, Content
<1>3. /\ Landed(d, y) = [d EXCEPT ![b] = SectorWith(y, d[b])]
      /\ SectorWith(y, d[b]).w = [d[b].w EXCEPT ![EntryWord(c)] = v]
  BY <1>2 DEF Landed, Word, SectorWith, Content
<1>4. CASE a = b
  <2>1. Landed(d, y)[a].w = [d[b].w EXCEPT ![EntryWord(c)] = v]
    BY <1>1, <1>3, <1>4 DEF Disk
  <2>2. copy = k /\ (EntryWord(x) = EntryWord(c) => x = c)
    BY <1>4, EntriesDistinct
  <2> HIDE DEF a, b, y
  <2>3. Landed(d, y)[a].w[EntryWord(x)] = IF EntryWord(x) = EntryWord(c) THEN v
                                          ELSE d[a].w[EntryWord(x)]
    BY <1>1, <1>2, <1>4, <2>1
  <2>4. Landed(d, y)[a].w[EntryWord(x)] = IF x = c THEN v ELSE d[a].w[EntryWord(x)]
    BY <2>2, <2>3
  <2>. QED  BY <2>2, <2>4 DEF Read, a, y
<1>5. CASE a # b
  <2>1. Landed(d, y)[a] = d[a]
    BY <1>1, <1>3, <1>5 DEF Disk
  <2>2. ~(copy = k /\ x = c)
    BY <1>5
  <2>. QED  BY <2>1, <2>2 DEF Read
<1>. QED  BY <1>4, <1>5

(* Outside the FAT the word changes nothing.                               *)
LEMMA WordInFat ==
  ASSUME NEW d \in Disk, NEW k \in Both, NEW c \in Entries, NEW v,
         NEW a \in Lba, a >= FatEnd \/ a <= EspStart
  PROVE  Landed(d, Word(k, c, v))[a] = d[a]
<1>1. EntryLba(k, c) \in Nat /\ EntryLba(k, c) < FatEnd /\ EntryLba(k, c) > EspStart
  BY EntryInFat DEF Lba
<1>2. Word(k, c, v).lba # a
  BY <1>1, FatInEsp DEF Word, Lba
<1>. QED  BY <1>2, LandedElsewhere

(* A write outside both copies of the FAT changes no entry.                *)
LEMMA ReadUnchanged ==
  ASSUME NEW d, NEW e, \A a \in Lba : a > EspStart /\ a < FatEnd => e[a] = d[a],
         NEW copy \in Both, NEW x \in Entries
  PROVE  Read(e, copy, x) = Read(d, copy, x)
BY EntryInFat DEF Read

FileSector(i, s) == ClusterLba(ClusterOf(i)) + s
InCluster == 0..(ClusterSectors - 1)

LEMMA FileSectorPlace ==
  ASSUME NEW i \in Nat \ {0}, NEW s \in InCluster
  PROVE  FileSector(i, s) = FatEnd + i * ClusterSectors + s /\ FileSector(i, s) >= FatEnd
<1>1. ClusterOf(i) - 2 = i
  BY DEF ClusterOf, FirstCluster
<1>2. i * ClusterSectors \in Nat
  BY ProductNat
<1>. QED  BY <1>1, <1>2, FatInEsp DEF FileSector, ClusterLba, InCluster

LEMMA FileSectorInEsp ==
  ASSUME boot \in Nat, Fits, NEW i \in 1..boot, NEW s \in InCluster
  PROVE  FileSector(i, s) < EspEnd /\ FileSector(i, s) \in Lba
<1>1. i * ClusterSectors + ClusterSectors = (i + 1) * ClusterSectors
  OBVIOUS
<1>2. ClusterLba(ClusterOf(i + 1)) = FatEnd + (i + 1) * ClusterSectors
  BY ClusterOf(i + 1) - 2 = i + 1 DEF ClusterLba, ClusterOf, FirstCluster
<1>3. ClusterLba(ClusterOf(i + 1)) <= EspEnd
  BY ClustersInEsp, i \in Nat, i <= boot
<1>4. i * ClusterSectors \in Nat /\ EspEnd \in Nat /\ EspEnd < Sectors
  BY ProductNat, i \in Nat DEF EspEnd
<1>. QED  BY <1>1, <1>2, <1>3, <1>4, FileSectorPlace, FatInEsp DEF InCluster, Lba

(* The data of one cluster goes to its own sectors only.                   *)
LEMMA DataRead ==
  ASSUME boot \in Nat, Fits, NEW d \in Disk, NEW i \in 1..boot, NEW j \in 1..boot,
         NEW s \in InCluster
  PROVE  DataWritten(d, i)[FileSector(j, s)] = IF j = i THEN Data(i) ELSE d[FileSector(j, s)]
<1> DEFINE a == FileSector(j, s)
<1>1. a \in Lba
  BY FileSectorInEsp
<1>2. ClusterLba(ClusterOf(i)) = FatEnd + i * ClusterSectors
  BY ClusterOf(i) - 2 = i DEF ClusterLba, ClusterOf, FirstCluster
<1>3. a = FatEnd + j * ClusterSectors + s
  BY FileSectorPlace
<1>4. i * ClusterSectors \in Nat /\ j * ClusterSectors \in Nat
  BY ProductNat, i \in Nat, j \in Nat
<1>5. j < i => j * ClusterSectors + ClusterSectors <= i * ClusterSectors
  <2>1. (j + 1) * ClusterSectors = j * ClusterSectors + ClusterSectors
    OBVIOUS
  <2>. QED  BY <2>1, ProductMonotone, j + 1 \in Nat, i \in Nat
<1>6. i < j => i * ClusterSectors + ClusterSectors <= j * ClusterSectors
  <2>1. (i + 1) * ClusterSectors = i * ClusterSectors + ClusterSectors
    OBVIOUS
  <2>. QED  BY <2>1, ProductMonotone, i + 1 \in Nat, j \in Nat
<1>7. a \in ClusterLba(ClusterOf(i))..(ClusterLba(ClusterOf(i)) + ClusterSectors - 1) <=> j = i
  BY <1>2, <1>3, <1>4, <1>5, <1>6, FatInEsp DEF InCluster
<1> HIDE DEF a
<1>8. DataWritten(d, i)[a] = IF j = i THEN Data(i) ELSE d[a]
  BY <1>1, <1>7 DEF DataWritten
<1>. QED  BY <1>8 DEF a

LEMMA DataWrittenInFat ==
  ASSUME NEW d \in Disk, NEW i \in Nat \ {0}, NEW a \in Lba, a < FatEnd
  PROVE  DataWritten(d, i)[a] = d[a]
<1>1. ClusterLba(ClusterOf(i)) = FatEnd + i * ClusterSectors
  BY ClusterOf(i) - 2 = i DEF ClusterLba, ClusterOf, FirstCluster
<1>2. i * ClusterSectors \in Nat
  BY ProductNat
<1>3. a \notin ClusterLba(ClusterOf(i))..(ClusterLba(ClusterOf(i)) + ClusterSectors - 1)
  BY <1>1, <1>2, FatInEsp DEF Lba
<1>. QED  BY <1>3 DEF DataWritten

(* The FAT after k clusters, and the data of the first k clusters.         *)
LinkOf(c, k) ==
  IF c <= RootCluster THEN Mark
  ELSE IF c <= ClusterOf(k) THEN Link(c - RootCluster) ELSE Free
ChainIn(d, copy, k) == \A c \in Entries : Read(d, copy, c) = LinkOf(c, k)
Chain(d, k) == ChainIn(d, 1, k) /\ ChainIn(d, 2, k)
Stored(d, k) == \A i \in 1..k, s \in InCluster : d[FileSector(i, s)] = Data(i)
Marked(d, k) ==
  \A copy \in Both, c \in Entries :
    Read(d, copy, c) = IF 2 * c + copy - 1 < k THEN Mark ELSE Free

(* The image with the write on it that is held back.                       *)
Image == Landed(disk, held)

Early == {"check", "mbr", "gpt", "entries", "table", "bootSector", "fat"}
Late == {"checkpoint", "manifest", "backup", "close", "done"}

File ==
  (Roomy /\ Fits /\ faults = 0) =>
    /\ pc \in Early => Marked(Image, 0)
    /\ pc = "marks" => Marked(Image, step)
    /\ pc = "root" => Chain(Image, 0)
    /\ pc = "clusters" => step >= 1 /\ Chain(Image, step - 1) /\ Stored(Image, step - 1)
    /\ pc = "mirror" => /\ step >= 1 /\ Stored(Image, step - 1)
                        /\ ChainIn(Image, 1, step) /\ ChainIn(Image, 2, step - 1)
    /\ pc = "data" => step >= 1 /\ Chain(Image, step) /\ Stored(Image, step - 1)
    /\ pc \in Late => Chain(Image, boot) /\ Stored(Image, boot)

LEMMA LowEntries ==
  ASSUME boot \in Nat, Fits
  PROVE  FatEntries \in Nat /\ 0..RootCluster \subseteq Entries
<1>1. FatEntries \in Nat
  BY ProductNat DEF FatEntries
<1>. QED  BY <1>1 DEF Fits, FirstCluster, RootCluster, Entries

(* The next mark, and what all of them make.                               *)
LEMMA NextMark ==
  ASSUME NEW d \in Disk, boot \in Nat, Fits, NEW s \in 0..LastMark, Marked(d, s)
  PROVE  Marked(Landed(d, Word(1 + (s % 2), s \div 2, Mark)), s + 1)
<1> DEFINE k == 1 + (s % 2)
           m == s \div 2
<1>1. k \in Both /\ m \in Entries /\ m \in Nat /\ 2 * m + k - 1 = s /\ s \in Nat
  BY MarkPlace, LowEntries DEF RootCluster, LastMark, Both
<1> HIDE DEF k, m
<1>2. ASSUME NEW copy \in Both, NEW c \in Entries
      PROVE  Read(Landed(d, Word(k, m, Mark)), copy, c) =
               IF 2 * c + copy - 1 < s + 1 THEN Mark ELSE Free
  <2>1. Read(Landed(d, Word(k, m, Mark)), copy, c) =
          IF copy = k /\ c = m THEN Mark ELSE Read(d, copy, c)
    BY <1>1, ReadWord DEF Mark
  <2>2. Read(d, copy, c) = IF 2 * c + copy - 1 < s THEN Mark ELSE Free
    BY DEF Marked
  <2>3. c \in Nat
    BY LowEntries DEF Entries
  <2>4. (copy = k /\ c = m) <=> 2 * c + copy - 1 = s
    BY <1>1, <2>3 DEF Both
  <2>. QED  BY <1>1, <2>1, <2>2, <2>3, <2>4 DEF Both
<1>. QED  BY <1>2 DEF Marked, k, m

LEMMA AllMarks ==
  ASSUME NEW d, boot \in Nat, Fits, Marked(d, LastMark + 1)
  PROVE  Chain(d, 0)
<1>1. ASSUME NEW copy \in Both, NEW c \in Entries PROVE Read(d, copy, c) = LinkOf(c, 0)
  <2>1. c \in Nat
    BY LowEntries DEF Entries
  <2>2. 2 * c + copy - 1 < LastMark + 1 <=> c <= RootCluster
    BY <2>1 DEF Both, LastMark, RootCluster
  <2>3. LinkOf(c, 0) = IF c <= RootCluster THEN Mark ELSE Free
    BY <2>1 DEF LinkOf, RootCluster, ClusterOf, FirstCluster
  <2>. QED  BY <2>2, <2>3 DEF Marked
<1>. QED  BY <1>1 DEF Chain, ChainIn, Both

(* The link of the i-th cluster in one copy.                               *)
LEMMA NextLink ==
  ASSUME NEW d \in Disk, boot \in Nat, Fits, NEW i \in 1..boot, NEW k \in Both
  PROVE  LET e == Landed(d, Word(k, ClusterOf(i), Link(i))) IN
         /\ ChainIn(d, k, i - 1) => ChainIn(e, k, i)
         /\ \A copy \in Both, n \in Nat : copy # k /\ ChainIn(d, copy, n) => ChainIn(e, copy, n)
         /\ \A n \in 0..boot : Stored(d, n) => Stored(e, n)
<1> DEFINE e == Landed(d, Word(k, ClusterOf(i), Link(i)))
<1>1. FatEntries \in Nat /\ ClusterOf(i) \in Entries /\ Link(i) \in Nat /\ ClusterOf(i) = i + 2
  BY LowEntries DEF ClusterOf, FirstCluster, Link, Mark, Fits, Entries
<1>2. \A copy \in Both, c \in Entries :
        Read(e, copy, c) = IF copy = k /\ c = ClusterOf(i) THEN Link(i) ELSE Read(d, copy, c)
  BY <1>1, ReadWord
<1>3. \A c \in Entries :
        LinkOf(c, i) = IF c = ClusterOf(i) THEN Link(i) ELSE LinkOf(c, i - 1)
  BY <1>1 DEF LinkOf, RootCluster, ClusterOf, FirstCluster, Entries
<1>4. ASSUME NEW j \in 1..boot, NEW s \in InCluster
      PROVE  e[FileSector(j, s)] = d[FileSector(j, s)]
  <2>1. FileSector(j, s) \in Lba /\ FileSector(j, s) >= FatEnd
    BY FileSectorInEsp, FileSectorPlace, j \in Nat \ {0}
  <2>. QED  BY <1>1, <2>1, WordInFat
<1> HIDE DEF e
<1>5. ChainIn(d, k, i - 1) => ChainIn(e, k, i)
  BY <1>2, <1>3 DEF ChainIn
<1>6. \A copy \in Both, n \in Nat : copy # k /\ ChainIn(d, copy, n) => ChainIn(e, copy, n)
  BY <1>2 DEF ChainIn
<1>7. \A n \in 0..boot : Stored(d, n) => Stored(e, n)
  BY <1>4 DEF Stored
<1>. QED  BY <1>5, <1>6, <1>7 DEF e

(* The data of the i-th cluster.                                           *)
LEMMA NextData ==
  ASSUME NEW d \in Disk, boot \in Nat, Fits, NEW i \in 1..boot
  PROVE  /\ Chain(d, i) => Chain(DataWritten(d, i), i)
         /\ Stored(d, i - 1) => Stored(DataWritten(d, i), i)
<1> DEFINE e == DataWritten(d, i)
<1>1. \A a \in Lba : a > EspStart /\ a < FatEnd => e[a] = d[a]
  BY DataWrittenInFat
<1>2. \A copy \in Both, c \in Entries : Read(e, copy, c) = Read(d, copy, c)
  BY <1>1, ReadUnchanged
<1>3. \A j \in 1..boot, s \in InCluster :
        e[FileSector(j, s)] = IF j = i THEN Data(i) ELSE d[FileSector(j, s)]
  BY DataRead
<1> HIDE DEF e
<1>4. Chain(d, i) => Chain(e, i)
  BY <1>2 DEF Chain, ChainIn, Both
<1>5. ASSUME Stored(d, i - 1), NEW j \in 1..i, NEW s \in InCluster
      PROVE  e[FileSector(j, s)] = Data(j)
  <2>1. j \in 1..boot /\ (j # i => j \in 1..(i - 1))
    OBVIOUS
  <2>. QED  BY <1>3, <1>5, <2>1 DEF Stored
<1>6. Stored(d, i - 1) => Stored(e, i)
  BY <1>5 DEF Stored
<1>. QED  BY <1>4, <1>6 DEF e

(* A write elsewhere keeps the marks, the chains and the file.             *)
LEMMA FatKept ==
  ASSUME NEW d, NEW e, \A a \in Lba : a > EspStart /\ a < FatEnd => e[a] = d[a]
  PROVE  \A n \in Nat : (Marked(d, n) => Marked(e, n)) /\ (Chain(d, n) => Chain(e, n))
<1>1. \A copy \in Both, c \in Entries : Read(e, copy, c) = Read(d, copy, c)
  BY ReadUnchanged
<1>. QED  BY <1>1 DEF Marked, Chain, ChainIn, Both

LEMMA FileKept ==
  ASSUME boot \in Nat, Fits, NEW d, NEW e, \A a \in Lba : a < PoolStart => e[a] = d[a],
         Stored(d, boot)
  PROVE  Stored(e, boot)
<1> SUFFICES ASSUME NEW i \in 1..boot, NEW s \in InCluster PROVE e[FileSector(i, s)] = Data(i)
  BY DEF Stored
<1>1. FileSector(i, s) < PoolStart /\ FileSector(i, s) \in Lba
  BY FileSectorInEsp, RootInEsp DEF Lba, EspEnd
<1>. QED  BY <1>1 DEF Stored

(* The invariant of the next state, with the boot file of this one.        *)
LEMMA FilePrimed ==
  ASSUME UNCHANGED <<total, boot>>, NEW d, NEW n, d = Image', n = step',
         (Roomy /\ Fits /\ faults' = 0) =>
           /\ pc' \in Early => Marked(d, 0)
           /\ pc' = "marks" => Marked(d, n)
           /\ pc' = "root" => Chain(d, 0)
           /\ pc' = "clusters" => n >= 1 /\ Chain(d, n - 1) /\ Stored(d, n - 1)
           /\ pc' = "mirror" => /\ n >= 1 /\ Stored(d, n - 1)
                                /\ ChainIn(d, 1, n) /\ ChainIn(d, 2, n - 1)
           /\ pc' = "data" => n >= 1 /\ Chain(d, n) /\ Stored(d, n - 1)
           /\ pc' \in Late => Chain(d, boot) /\ Stored(d, boot)
  PROVE  File'
<1>1. (Roomy' <=> Roomy) /\ (Fits' <=> Fits)
  BY DEF Roomy, Fits
<1>2. /\ Marked(Image, 0)' <=> Marked(d, 0)
      /\ Marked(Image, step)' <=> Marked(d, n)
  BY DEF Marked, Read
<1>3. /\ ChainIn(Image, 1, step)' <=> ChainIn(d, 1, n)
      /\ ChainIn(Image, 2, step - 1)' <=> ChainIn(d, 2, n - 1)
      /\ Chain(Image, 0)' <=> Chain(d, 0)
      /\ Chain(Image, step)' <=> Chain(d, n)
      /\ Chain(Image, step - 1)' <=> Chain(d, n - 1)
      /\ Chain(Image, boot)' <=> Chain(d, boot)
  BY DEF Chain, ChainIn, Read, LinkOf, Link
<1>4. /\ Stored(Image, step - 1)' <=> Stored(d, n - 1)
      /\ Stored(Image, boot)' <=> Stored(d, boot)
  BY DEF Stored, FileSector
<1>. QED  BY <1>1, <1>2, <1>3, <1>4 DEF File

(* What a seek and a write, and a stage that only ends, do to the image.   *)
LEMMA ImageMoves ==
  /\ disk' = Landed(disk, held) => Image' = Landed(Image, held')
  /\ UNCHANGED <<disk, held>> => Image' = Image
  /\ \A d : Landed(d, None) = d
BY DEF Image, Landed, None

(* A stage that writes one sector outside the FAT and the file.            *)
LEMMA StageKeepsFile ==
  ASSUME Typed, File, UNCHANGED <<total, boot>>, NEW lba \in Int, NEW content,
         \/ SeekOk /\ held' = Sector(lba, content)
         \/ faults' = faults + 1
         \/ pc' = "failed",
         \/ pc \in Early /\ pc' \in Early \cup {"failed"} /\ lba <= EspStart
         \/ pc' = "checkpoint" /\ faults' = faults + 1
         \/ pc \in Late /\ pc' \in Late \cup {"failed"} /\ (Roomy => lba >= PoolStart)
  PROVE  File'
<1>1. disk \in Disk /\ held \in Writes /\ boot \in Nat /\ faults \in Nat
  BY DEF Typed, TypeOK, Disk, Writes
<1>2. Image \in Disk
  BY <1>1, LandedType DEF Image
<1>3. CASE pc' = "failed"
  BY <1>3 DEF File, Early, Late
<1>4. CASE faults' = faults + 1
  BY <1>1, <1>4 DEF File
<1>5. CASE SeekOk /\ held' = Sector(lba, content) /\ pc' # "failed" /\ faults' # faults + 1
  <2>1. Image' = Landed(Image, Sector(lba, content)) /\ faults' = faults
    BY <1>5, ImageMoves DEF SeekOk, Flush
  <2>2. Sector(lba, content).lba = lba
    BY DEF Sector
  <2>3. \A a \in Lba : a # lba => Image'[a] = Image[a]
    BY <1>2, <2>1, <2>2, LandedElsewhere
  <2>4. CASE pc \in Early /\ pc' \in Early /\ lba <= EspStart
    <3>1. \A a \in Lba : a > EspStart /\ a < FatEnd => Image'[a] = Image[a]
      BY <2>3, <2>4 DEF Lba
    <3>2. Marked(Image, 0) => Marked(Image', 0)
      BY <3>1, FatKept
    <3>3. (Roomy /\ Fits /\ faults' = 0) => Marked(Image', 0)
      BY <2>1, <2>4, <3>2 DEF File
    <3>. QED  BY <2>4, <3>3, FilePrimed DEF Early, Late
  <2>5. CASE pc \in Late /\ pc' \in Late /\ (Roomy => lba >= PoolStart)
    <3>1. SUFFICES ASSUME Roomy, Fits, faults' = 0
                   PROVE  Chain(Image', boot) /\ Stored(Image', boot)
      BY <2>5, FilePrimed DEF Early, Late
    <3>2. \A a \in Lba : a < PoolStart => Image'[a] = Image[a]
      BY <2>3, <2>5, <3>1 DEF Lba
    <3>3. \A a \in Lba : a > EspStart /\ a < FatEnd => Image'[a] = Image[a]
      <4>1. FatEnd < PoolStart
        BY RootInEsp, FatInEsp DEF RootLba, EspEnd
      <4>. QED  BY <3>2, <4>1, FatInEsp DEF Lba
    <3>4. Chain(Image, boot) /\ Stored(Image, boot)
      BY <2>1, <2>5, <3>1 DEF File
    <3>. QED  BY <1>1, <3>1, <3>2, <3>3, <3>4, FatKept, FileKept
  <2>. QED  BY <1>5, <2>4, <2>5
<1>. QED  BY <1>3, <1>4, <1>5

(* A stage that leaves the image as it is.                                 *)
LEMMA SameImageKeepsFile ==
  ASSUME Typed, File, UNCHANGED <<total, boot, faults>>, Image' = Image,
         \/ pc \in Early /\ pc' \in Early \cup {"failed"}
         \/ pc = "fat" /\ pc' = "marks" /\ step' = 0
         \/ pc \in Late /\ pc' \in Late
         \/ pc = "clusters" /\ pc' = "checkpoint" /\ step > boot
  PROVE  File'
<1>1. CASE pc' = "failed"
  BY <1>1 DEF File, Early, Late
<1>2. CASE pc \in Early /\ pc' \in Early \cup {"marks"} /\ (pc' = "marks" => step' = 0)
  <2>1. (Roomy /\ Fits /\ faults' = 0) => Marked(Image', 0)
    BY <1>2 DEF File
  <2>. QED  BY <1>2, <2>1, FilePrimed DEF Early, Late
<1>3. CASE pc \in Late /\ pc' \in Late
  <2>1. (Roomy /\ Fits /\ faults' = 0) => Chain(Image', boot) /\ Stored(Image', boot)
    BY <1>3 DEF File
  <2>. QED  BY <1>3, <2>1, FilePrimed DEF Early, Late
<1>4. CASE pc = "clusters" /\ pc' = "checkpoint" /\ step > boot
  <2>1. step - 1 = boot
    BY <1>4 DEF Typed, TypeOK
  <2>2. (Roomy /\ Fits /\ faults' = 0) => Chain(Image', boot) /\ Stored(Image', boot)
    BY <1>4, <2>1 DEF File
  <2>. QED  BY <1>4, <2>2, FilePrimed DEF Early, Late
<1>. QED  BY <1>1, <1>2, <1>3, <1>4 DEF Early

LEMMA FileStep == Typed /\ File /\ [Next]_vars => File'
<1> SUFFICES ASSUME Typed, File, [Next]_vars PROVE File'
  OBVIOUS
<1>a. /\ total \in Nat /\ boot \in Nat /\ step \in Nat /\ faults \in Nat
      /\ disk \in Disk /\ held \in Writes
  BY DEF Typed, TypeOK, Disk, Writes, LastMark, RootCluster
<1>b. Image \in Disk
  BY <1>a, LandedType DEF Image
<1>1. CASE Check
  BY <1>1, <1>a, ImageMoves, SameImageKeepsFile DEF Check, Early
<1>2. CASE WriteMbr
  <2>. QED  BY <1>2, StageKeepsFile DEF WriteMbr, Structure, Early
<1>3. CASE WriteGptHeader
  BY <1>3, StageKeepsFile DEF WriteGptHeader, Structure, Early
<1>4. CASE WriteGptEntries
  BY <1>4, StageKeepsFile DEF WriteGptEntries, Structure, Early
<1>5. CASE WritePartitions
  BY <1>5, StageKeepsFile DEF WritePartitions, Structure, Early
<1>6. CASE WriteBootSector
  <2>1. CASE SeekOk /\ held' = Sector(EspStart, BootSector) /\ pc' = "fat"
    BY <1>6, <2>1, StageKeepsFile DEF WriteBootSector, InEsp, Early
  <2>2. CASE SeekFails
    BY <1>a, <2>2 DEF SeekFails, Fault, File
  <2>. QED  BY <1>6, <2>1, <2>2 DEF WriteBootSector, InEsp
<1>7. CASE WriteFatTable
  <2>1. CASE faults' = faults + 1
    BY <1>a, <2>1 DEF File
  <2>2. CASE /\ disk' = Landed(disk, held) /\ held' = Zeros(FatEnd - ClusterSectors)
             /\ pc' = "marks" /\ UNCHANGED faults
    <3>1. Landed(Image, held') = Image
      BY <2>2 DEF Landed, Zeros, Sector, Plain
    <3>2. Image' = Image
      BY <2>2, <3>1, ImageMoves
    <3>. QED  BY <1>7, <2>2, <3>2, SameImageKeepsFile DEF WriteFatTable, Early
  <2>. QED  BY <1>7, <2>1, <2>2 DEF WriteFatTable, Fault, SeekFails
<1>8. CASE WriteMark
  <2>1. CASE SeekFails
    BY <1>a, <2>1 DEF SeekFails, Fault, File
  <2>2. CASE SeekOk /\ held' = Word(1 + (step % 2), step \div 2, Mark)
    <3>1. Image' = Landed(Image, Word(1 + (step % 2), step \div 2, Mark)) /\ faults' = faults
      BY <2>2, ImageMoves DEF SeekOk, Flush
    <3>2. pc = "marks" /\ step \in 0..LastMark /\ UNCHANGED <<total, boot>>
      BY <1>8 DEF WriteMark, Typed, TypeOK
    <3>3. (Roomy /\ Fits /\ faults' = 0) => Marked(Image', step + 1)
      BY <1>a, <1>b, <3>1, <3>2, NextMark DEF File
    <3>4. CASE step < LastMark
      <4>1. pc' = "marks" /\ step' = step + 1
        BY <1>8, <3>2, <3>4 DEF WriteMark
      <4>. QED  BY <3>2, <3>3, <4>1, FilePrimed DEF Early, Late
    <3>5. CASE ~(step < LastMark)
      <4>1. pc' = "root" /\ step = LastMark
        BY <1>8, <3>2, <3>5 DEF WriteMark, LastMark, RootCluster
      <4>2. (Roomy /\ Fits /\ faults' = 0) => Chain(Image', 0)
        BY <1>a, <3>3, <4>1, AllMarks
      <4>. QED  BY <3>2, <4>1, <4>2, FilePrimed DEF Early, Late
    <3>. QED  BY <3>4, <3>5
  <2>. QED  BY <1>8, <2>1, <2>2 DEF WriteMark, UncheckedWord
<1>9. CASE WriteRootDirectory
  <2>1. CASE SeekFails
    BY <1>a, <2>1 DEF SeekFails, Fault, File
  <2>2. CASE SeekOk /\ held' = Sector(RootLba, Plain("root")) /\ pc' = "clusters"
    <3>1. Image' = Landed(Image, Sector(RootLba, Plain("root"))) /\ faults' = faults
      BY <2>2, ImageMoves DEF SeekOk, Flush
    <3>2. pc = "root" /\ step' = 1 /\ UNCHANGED <<total, boot>>
      BY <1>9 DEF WriteRootDirectory, InEsp
    <3>3. RootLba >= FatEnd /\ Sector(RootLba, Plain("root")).lba = RootLba
      BY FatInEsp DEF RootLba, Sector
    <3>4. \A a \in Lba : a > EspStart /\ a < FatEnd => Image'[a] = Image[a]
      BY <1>b, <3>1, <3>3, LandedElsewhere, FatInEsp, RootInEsp DEF Lba
    <3>5. Chain(Image, 0) => Chain(Image', 0)
      BY <3>4, FatKept
    <3>6. (Roomy /\ Fits /\ faults' = 0) => Chain(Image', 0)
      BY <3>1, <3>2, <3>5 DEF File
    <3>7. Stored(Image', 0)
      BY DEF Stored
    <3>. QED  BY <2>2, <3>2, <3>6, <3>7, FilePrimed DEF Early, Late
  <2>. QED  BY <1>9, <2>1, <2>2 DEF WriteRootDirectory, InEsp
<1>10. CASE BootFileMissing
  BY <1>10, <1>a DEF BootFileMissing, Fault, File
<1>11. CASE WriteLink
  <2>1. CASE SeekFails
    BY <1>a, <2>1 DEF SeekFails, Fault, File
  <2>2. CASE SeekOk /\ held' = Word(1, ClusterOf(step), Link(step))
    <3>1. /\ Image' = Landed(Image, Word(1, ClusterOf(step), Link(step))) /\ faults' = faults
      BY <2>2, ImageMoves DEF SeekOk, Flush
    <3>2. pc = "clusters" /\ pc' = "mirror" /\ step <= boot /\ UNCHANGED <<total, boot, step>>
      BY <1>11 DEF WriteLink, MoreClusters
    <3>3. SUFFICES ASSUME Roomy, Fits, faults' = 0
                   PROVE  /\ step >= 1 /\ Stored(Image', step - 1)
                          /\ ChainIn(Image', 1, step) /\ ChainIn(Image', 2, step - 1)
      BY <3>2, FilePrimed DEF Early, Late
    <3>4. step \in 1..boot /\ Chain(Image, step - 1) /\ Stored(Image, step - 1)
      BY <1>a, <3>1, <3>2, <3>3 DEF File
    <3>5. 1 \in Both /\ 2 \in Both /\ step - 1 \in 0..boot /\ step - 1 \in Nat
      BY <1>a, <3>4 DEF Both
    <3>. QED  BY <1>a, <1>b, <3>1, <3>3, <3>4, <3>5, NextLink DEF Chain
  <2>. QED  BY <1>11, <2>1, <2>2 DEF WriteLink, UncheckedWord
<1>12. CASE WriteMirror
  <2>1. CASE SeekFails
    BY <1>a, <2>1 DEF SeekFails, Fault, File
  <2>2. CASE SeekOk /\ held' = Word(2, ClusterOf(step), Link(step))
    <3>1. /\ Image' = Landed(Image, Word(2, ClusterOf(step), Link(step))) /\ faults' = faults
      BY <2>2, ImageMoves DEF SeekOk, Flush
    <3>2. pc = "mirror" /\ pc' = "data" /\ step <= boot /\ UNCHANGED <<total, boot, step>>
      BY <1>12 DEF WriteMirror, Typed
    <3>3. SUFFICES ASSUME Roomy, Fits, faults' = 0
                   PROVE  step >= 1 /\ Chain(Image', step) /\ Stored(Image', step - 1)
      BY <3>2, FilePrimed DEF Early, Late
    <3>4. /\ step \in 1..boot /\ Stored(Image, step - 1)
          /\ ChainIn(Image, 1, step) /\ ChainIn(Image, 2, step - 1)
      BY <1>a, <3>1, <3>2, <3>3 DEF File
    <3>5. 1 \in Both /\ 2 \in Both /\ step - 1 \in 0..boot /\ step \in Nat
      BY <1>a, <3>4 DEF Both
    <3>. QED  BY <1>a, <1>b, <3>1, <3>3, <3>4, <3>5, NextLink DEF Chain
  <2>. QED  BY <1>12, <2>1, <2>2 DEF WriteMirror, UncheckedWord
<1>13. CASE WriteData
  <2>1. CASE faults' = faults + 1
    BY <1>a, <2>1 DEF File
  <2>2. CASE /\ disk' = DataWritten(Landed(disk, held), step) /\ step' = step + 1
             /\ pc' = "clusters" /\ UNCHANGED faults
    <3>1. Image' = DataWritten(Image, step) /\ pc = "data" /\ UNCHANGED <<total, boot>>
      BY <1>13, <2>2, ImageMoves DEF Image, WriteData
    <3>2. SUFFICES ASSUME Roomy, Fits, faults' = 0
                   PROVE  step + 1 >= 1 /\ Chain(Image', step) /\ Stored(Image', step)
      <4>1. step' - 1 = step
        BY <1>a, <2>2
      <4>. QED  BY <2>2, <3>1, <3>2, <4>1, FilePrimed DEF Early, Late
    <3>3. step \in 1..boot /\ Chain(Image, step) /\ Stored(Image, step - 1)
      BY <1>a, <2>2, <3>1, <3>2 DEF File, Typed
    <3>. QED  BY <1>a, <1>b, <3>1, <3>2, <3>3, NextData
  <2>. QED  BY <1>13, <2>1, <2>2 DEF WriteData, Fault, SeekFails
<1>14. CASE EndBootFile
  BY <1>14, <1>a, ImageMoves, SameImageKeepsFile DEF EndBootFile, MoreClusters
<1>15. CASE WriteCheckpoint
  BY <1>15, StageKeepsFile DEF WriteCheckpoint, Structure, Late
<1>16. CASE WriteManifest
  BY <1>16, StageKeepsFile DEF WriteManifest, Structure, Late
<1>17. CASE WriteBackup
  <2>1. BackupLba \in Int /\ (Roomy => BackupLba >= PoolStart)
    BY <1>a DEF BackupLba, Roomy
  <2>. QED  BY <1>17, <2>1, StageKeepsFile DEF WriteBackup, Late
<1>18. CASE Close
  <2>1. CASE Fault
    BY <1>a, <2>1 DEF Fault, File
  <2>2. CASE disk' = Landed(disk, held) /\ UNCHANGED faults
    <3>1. held' = None /\ pc = "close" /\ pc' = "done" /\ UNCHANGED <<total, boot>>
      BY <1>18 DEF Close
    <3>2. Image' = Image
      BY <2>2, <3>1, ImageMoves
    <3>. QED  BY <2>2, <3>1, <3>2, SameImageKeepsFile DEF Late
  <2>. QED  BY <1>18, <2>1, <2>2 DEF Close
<1>19. CASE Ended \/ UNCHANGED vars
  BY <1>19 DEF Ended, vars, File, Image, Roomy, Fits, Marked, Chain, ChainIn, Stored, Read,
               LinkOf, Link, FileSector
<1>. QED  BY <1>1, <1>2, <1>3, <1>4, <1>5, <1>6, <1>7, <1>8, <1>9, <1>10, <1>11, <1>12,
             <1>13, <1>14, <1>15, <1>16, <1>17, <1>18, <1>19 DEF Next

LEMMA FileInit == Init => File
<1> SUFFICES ASSUME Init, Fits, NEW copy \in Both, NEW c \in Entries
             PROVE  pc = "check" /\ Read(Image, copy, c) = IF 2 * c + copy - 1 < 0 THEN Mark ELSE Free
  BY DEF Init, File, Early, Late, Marked
<1>1. EntryLba(copy, c) \in Lba /\ EntryWord(c) \in Words
  BY EntryInFat
<1>2. c \in Nat
  <2>1. FatEntries \in Nat
    BY ProductNat DEF FatEntries
  <2>. QED  BY <2>1 DEF Entries
<1>3. Image = disk
  BY ImageMoves DEF Init, Image
<1>. QED  BY <1>1, <1>2, <1>3 DEF Init, Read, Plain, Blank, Free, Both

(* For every layout and every boot file that fits: a run of which no write *)
(* failed leaves, in both copies of the FAT, one chain through the         *)
(* clusters that hold the boot file in order at one place behind the FATs, *)
(* and every other entry free.                                             *)
THEOREM ChainAlwaysLeadsToFile == Spec => []ChainLeadsToFile
<1>1. Typed /\ Metadata /\ File => ChainLeadsToFile
  <2> SUFFICES ASSUME Typed, Metadata, File, pc = "done", Roomy, Fits, faults = 0
               PROVE  ChainLeadsToFile
    BY DEF ChainLeadsToFile
  <2>0. Image = disk
    BY ImageMoves DEF Metadata, HeldBack, Image
  <2>1. Chain(disk, boot) /\ Stored(disk, boot) /\ boot \in Nat
    BY <2>0 DEF File, Late, Typed, TypeOK
  <2>2. FatEntries \in Nat
    BY ProductNat DEF FatEntries
  <2>3. ASSUME NEW copy \in Both, NEW c \in Entries
        PROVE  Entry(copy, c) = IF c <= RootCluster \/ c = ClusterOf(boot) THEN Mark
                                ELSE IF InFile(c) THEN c + 1 ELSE Free
    <3>1. Entry(copy, c) = LinkOf(c, boot)
      BY <2>1 DEF Entry, Read, Chain, ChainIn, Both
    <3>2. c \in Nat
      BY <2>2 DEF Entries
    <3>. QED  BY <2>1, <3>1, <3>2
              DEF LinkOf, Link, InFile, ClusterOf, FirstCluster, RootCluster
  <2>4. ASSUME NEW i \in 1..boot, NEW s \in InCluster
        PROVE  disk[FatEnd + (ClusterOf(i) - RootCluster) * ClusterSectors + s] = Data(i)
    <3>1. ClusterLba(ClusterOf(i)) = FatEnd + (ClusterOf(i) - RootCluster) * ClusterSectors
      BY DEF ClusterLba, RootCluster
    <3>. QED  BY <2>1, <3>1 DEF Stored, FileSector
  <2>5. FatEnd \in FatEnd..(EspEnd - (boot + 1) * ClusterSectors)
    <3>1. (boot + 1) * ClusterSectors \in Nat
      BY <2>1, ProductNat, boot + 1 \in Nat
    <3>. QED  BY <3>1, FatInEsp DEF Fits, EspEnd
  <2>. QED  BY <2>3, <2>4, <2>5 DEF ChainLeadsToFile, Entries, InCluster
<1>. QED  BY <1>1, FileInit, FileStep, MetadataInit, MetadataStep, AlwaysTyped, PTL DEF Spec

(***************************************************************************)
(* The directory and the boot sector.                                      *)
(***************************************************************************)
Directory ==
  (Roomy /\ Fits /\ Short /\ faults = 0) =>
    /\ pc \in {"fat"} \cup EspStages \cup Late => Image[EspStart] = BootSector
    /\ pc \in {"clusters", "mirror", "data"} \cup Late => Image[RootLba] = Plain("root")

LEMMA RootPlace ==
  /\ EspStart \in Lba /\ RootLba \in Lba /\ EspStart < RootLba
  /\ RootLba < PoolStart /\ RootLba >= FatEnd
BY RootInEsp, FatInEsp DEF Lba, EspEnd, RootLba

(* The data of a short file ends before the directory.                     *)
LEMMA DataBeforeRoot ==
  ASSUME boot \in Nat, Short, NEW d \in Disk, NEW i \in 1..boot
  PROVE  /\ DataWritten(d, i)[RootLba] = d[RootLba]
         /\ DataWritten(d, i)[EspStart] = d[EspStart]
<1>1. ClusterLba(ClusterOf(i)) = FatEnd + i * ClusterSectors
  BY ClusterOf(i) - 2 = i DEF ClusterLba, ClusterOf, FirstCluster
<1>2. i * ClusterSectors + ClusterSectors = (i + 1) * ClusterSectors
  OBVIOUS
<1>3. (i + 1) * ClusterSectors <= (boot + 1) * ClusterSectors
  BY ProductMonotone, i + 1 \in Nat, boot + 1 \in Nat
<1>4. i * ClusterSectors \in Nat /\ (boot + 1) * ClusterSectors \in Nat
  BY ProductNat, i \in Nat, boot + 1 \in Nat
<1>5. RootLba \notin ClusterLba(ClusterOf(i))..(ClusterLba(ClusterOf(i)) + ClusterSectors - 1)
  BY <1>1, <1>2, <1>3, <1>4, FatInEsp DEF Short, RootLba
<1>6. DataWritten(d, i)[RootLba] = d[RootLba]
  BY <1>5, RootPlace DEF DataWritten
<1>7. DataWritten(d, i)[EspStart] = d[EspStart]
  BY RootPlace, DataWrittenBelow, i \in Nat
<1>. QED  BY <1>6, <1>7

LEMMA DirectoryStep == Typed /\ Metadata /\ File /\ Directory /\ [Next]_vars => Directory'
<1> SUFFICES ASSUME Typed, Metadata, File, Directory, [Next]_vars,
                    Roomy', Fits', Short', faults' = 0
             PROVE  /\ pc' \in {"fat"} \cup EspStages \cup Late => Image'[EspStart] = BootSector
                    /\ pc' \in {"clusters", "mirror", "data"} \cup Late =>
                         Image'[RootLba] = Plain("root")
  BY DEF Directory
<1>a. /\ total \in Nat /\ boot \in Nat /\ step \in Nat /\ faults \in Nat
      /\ disk \in Disk /\ held \in Writes
  BY DEF Typed, TypeOK, Disk, Writes, LastMark, RootCluster
<1>b. Image \in Disk
  BY <1>a, LandedType DEF Image
<1>c. UNCHANGED <<total, boot>>
  BY DEF Next, vars, Check, WriteMbr, WriteGptHeader, WriteGptEntries, WritePartitions,
         WriteBootSector, WriteFatTable, WriteMark, WriteRootDirectory, BootFileMissing,
         WriteLink, WriteMirror, WriteData, EndBootFile, WriteCheckpoint, WriteManifest,
         WriteBackup, Close, Ended, Structure, InEsp
<1>d. /\ faults' # faults + 1
      /\ ~Fault /\ ~SeekFails
  BY <1>a DEF Fault, SeekFails
<1>e. Roomy /\ Fits /\ Short
  BY <1>c DEF Roomy, Fits, Short
<1>f. faults' = faults => /\ pc \in {"fat"} \cup EspStages \cup Late => Image[EspStart] = BootSector
                          /\ pc \in {"clusters", "mirror", "data"} \cup Late =>
                               Image[RootLba] = Plain("root")
  BY <1>e DEF Directory
<1>g. ASSUME SeekOk PROVE Image' = Landed(Image, held') /\ faults' = faults
  BY <1>g, ImageMoves DEF SeekOk, Flush
<1>h. ASSUME SeekOk, held'.lba # EspStart
      PROVE  Image'[EspStart] = Image[EspStart]
  BY <1>b, <1>g, <1>h, RootPlace, LandedElsewhere
<1>i. ASSUME SeekOk, held'.lba # RootLba
      PROVE  Image'[RootLba] = Image[RootLba]
  BY <1>b, <1>g, <1>i, RootPlace, LandedElsewhere
<1> USE DEF EspStages, Late
<1>1. CASE Check \/ WriteMbr \/ WriteGptHeader \/ WriteGptEntries \/ WritePartitions
  BY <1>1 DEF Check, WriteMbr, WriteGptHeader, WriteGptEntries, WritePartitions, Structure
<1>2. CASE WriteBootSector
  <2>1. SeekOk /\ held' = Sector(EspStart, BootSector) /\ pc' = "fat"
    BY <1>2, <1>d DEF WriteBootSector, InEsp
  <2>2. Image'[EspStart] = BootSector
    BY <1>b, <1>g, <2>1, RootPlace, LandedSector, BootSectorIsContent
  <2>. QED  BY <2>1, <2>2
<1>3. CASE WriteFatTable
  <2>1. /\ disk' = Landed(disk, held) /\ held' = Zeros(FatEnd - ClusterSectors)
        /\ pc = "fat" /\ pc' = "marks" /\ UNCHANGED faults
    BY <1>3, <1>d DEF WriteFatTable
  <2>2. Landed(Image, held') = Image
    BY <2>1 DEF Landed, Zeros, Sector, Plain
  <2>3. Image' = Image
    BY <2>1, <2>2, ImageMoves
  <2>. QED  BY <1>f, <2>1, <2>3
<1>4. CASE WriteMark
  <2>1. SeekOk /\ held' = Word(1 + (step % 2), step \div 2, Mark) /\ pc = "marks"
    BY <1>4, <1>d DEF WriteMark, UncheckedWord
  <2>2. held'.lba # EspStart
    <3>1. step \in 0..LastMark
      BY <2>1 DEF Typed, TypeOK
    <3>2. 1 + (step % 2) \in Both /\ step \div 2 \in Entries
      BY <1>a, <1>e, <3>1, MarkPlace, LowEntries
    <3>. QED  BY <2>1, <3>2, EntryInFat DEF Word, Lba
  <2>3. pc' \in {"marks", "root"}
    BY <1>4 DEF WriteMark
  <2>. QED  BY <1>f, <1>g, <1>h, <2>1, <2>2, <2>3
<1>5. CASE WriteRootDirectory
  <2>1. /\ SeekOk /\ held' = Sector(RootLba, Plain("root")) /\ pc = "root"
    BY <1>5, <1>d DEF WriteRootDirectory, InEsp
  <2>2. Image'[RootLba] = Plain("root")
    <3>1. Plain("root") \in {Plain(k) : k \in Kinds} \cup {BootSector}
          /\ Plain("root") # Plain("zero")
      BY PlainKinds DEF Kinds
    <3>. QED  BY <1>b, <1>g, <2>1, <3>1, RootPlace, LandedSector
  <2>3. held'.lba # EspStart
    BY <2>1, RootPlace DEF Sector, Lba
  <2>4. pc' = "clusters"
    BY <1>5, <1>d DEF WriteRootDirectory, InEsp
  <2>. QED  BY <1>f, <1>g, <1>h, <2>1, <2>2, <2>3, <2>4
<1>6. CASE WriteLink \/ WriteMirror
  <2>1. /\ SeekOk /\ \E k \in Both : held' = Word(k, ClusterOf(step), Link(step))
        /\ pc \in {"clusters", "mirror"} /\ pc' \in {"mirror", "data"} /\ step <= boot
    BY <1>6, <1>d DEF WriteLink, WriteMirror, UncheckedWord, Both, MoreClusters, Typed
  <2>2. ClusterOf(step) \in Entries
    <3>1. FatEntries \in Nat
      BY ProductNat DEF FatEntries
    <3>. QED  BY <1>a, <1>e, <2>1, <3>1 DEF Fits, ClusterOf, FirstCluster, Entries
  <2>3. held'.lba # EspStart /\ held'.lba # RootLba
    <3>1. PICK k \in Both : held' = Word(k, ClusterOf(step), Link(step))
      BY <2>1
    <3>2. held'.lba = EntryLba(k, ClusterOf(step))
      BY <3>1 DEF Word
    <3>. QED  BY <2>2, <3>2, EntryInFat, RootPlace, FatInEsp DEF Lba
  <2>. QED  BY <1>f, <1>g, <1>h, <1>i, <2>1, <2>3
<1>7. CASE WriteData
  <2>1. /\ disk' = DataWritten(Landed(disk, held), step) /\ held' = None
        /\ pc = "data" /\ pc' = "clusters" /\ UNCHANGED faults
    BY <1>7, <1>d DEF WriteData
  <2>2. Image' = DataWritten(Image, step)
    BY <2>1, ImageMoves DEF Image
  <2>3. step \in 1..boot
    BY <1>a, <1>e, <2>1 DEF File, Typed
  <2>. QED  BY <1>a, <1>b, <1>e, <1>f, <2>1, <2>2, <2>3, DataBeforeRoot
<1>8. CASE EndBootFile
  <2>1. Image' = Image /\ UNCHANGED faults /\ pc = "clusters" /\ pc' = "checkpoint"
    BY <1>8, ImageMoves DEF EndBootFile
  <2>. QED  BY <1>f, <2>1
<1>9. CASE WriteCheckpoint \/ WriteManifest \/ WriteBackup
  <2>1. pc \in Late /\ SeekOk /\ held'.lba > RootLba
    BY <1>9, <1>a, <1>d, <1>e, RootPlace
       DEF WriteCheckpoint, WriteManifest, WriteBackup, Structure, Sector, BackupLba, Roomy, Lba
  <2>2. held'.lba # RootLba /\ held'.lba # EspStart
    BY <2>1, RootPlace DEF Lba
  <2>. QED  BY <1>f, <1>g, <1>h, <1>i, <2>1, <2>2
<1>10. CASE Close
  <2>1. disk' = Landed(disk, held) /\ UNCHANGED faults /\ held' = None /\ pc = "close"
    BY <1>10, <1>d DEF Close
  <2>2. Image' = Image
    BY <2>1, ImageMoves
  <2>. QED  BY <1>f, <2>1, <2>2
<1>11. CASE BootFileMissing
  BY <1>11, <1>d DEF BootFileMissing
<1>12. CASE Ended \/ UNCHANGED vars
  <2>1. UNCHANGED <<disk, held, pc, faults>>
    BY <1>12 DEF Ended, vars
  <2>. QED  BY <1>f, <2>1, ImageMoves
<1>. QED  BY <1>1, <1>2, <1>3, <1>4, <1>5, <1>6, <1>7, <1>8, <1>9, <1>10, <1>11, <1>12
          DEF Next

(* For every layout: a boot file that ends before the place of the root    *)
(* directory leaves it and the boot sector intact.                         *)
THEOREM DirectoryAlwaysSurvives == Spec => []DirectorySurvives
<1>1. Init => Directory
  BY DEF Init, Directory, Late, EspStages
<1>2. Metadata /\ Directory => DirectorySurvives
  <2> SUFFICES ASSUME Metadata, Directory, pc = "done", Roomy, Fits, Short, faults = 0
               PROVE  disk[RootLba] = Plain("root") /\ disk[EspStart] = BootSector
    BY DEF DirectorySurvives
  <2>1. Image = disk
    BY ImageMoves DEF Metadata, HeldBack, Image
  <2>. QED  BY <2>1 DEF Directory, Late
<1>. QED  BY <1>1, <1>2, DirectoryStep, FileInit, FileStep, MetadataInit, MetadataStep,
             AlwaysTyped, PTL DEF Spec

(***************************************************************************)
(* The end of the image.  Until the end is reached, the last sector reads  *)
(* as zero and nothing is held back that could reach it.                   *)
(***************************************************************************)
Started == pc \in {"clusters", "mirror", "data"} => step >= 1

LEMMA StartedStep == Typed /\ Started /\ [Next]_vars => Started'
BY DEF Typed, TypeOK, Started, Next, vars, Check, WriteMbr, WriteGptHeader, WriteGptEntries,
       WritePartitions, WriteBootSector, WriteFatTable, WriteMark, WriteRootDirectory,
       BootFileMissing, WriteLink, WriteMirror, WriteData, EndBootFile, WriteCheckpoint,
       WriteManifest, WriteBackup, Close, Ended, Structure, InEsp, EspGivenUp

Size ==
  (Roomy /\ Fits) =>
    /\ length <= total
    /\ held.kind = "none" => held = None
    /\ pc # "close" => held.lba + Span(held) < total
    /\ pc # "done" => disk[total - 1] = Plain("zero")
    /\ pc = "done" => /\ disk[total - 1] \in {Plain("mbr"), Plain("zero")}
                      /\ disk[total - 1] = Plain("mbr") \/ faults = 0 =>
                           length = total /\ disk[total - 1] = Plain("mbr")

LEMMA NextCluster ==
  ASSUME NEW i \in Nat
  PROVE  ClusterLba(ClusterOf(i + 1)) = ClusterLba(ClusterOf(i)) + ClusterSectors
<1>1. ClusterOf(i + 1) - 2 = i + 1 /\ ClusterOf(i) - 2 = i
  BY DEF ClusterOf, FirstCluster
<1>2. (i + 1) * ClusterSectors = i * ClusterSectors + ClusterSectors
  OBVIOUS
<1>3. i * ClusterSectors \in Nat
  BY ProductNat
<1>. QED  BY <1>1, <1>2, <1>3, FatInEsp DEF ClusterLba

LEMMA SizeKept ==
  ASSUME Typed, Size, UNCHANGED <<total, boot>>, pc \notin {"close", "done"}, pc' # "done",
         (Roomy /\ Fits) =>
           /\ \/ disk' = disk \/ disk' = Landed(disk, held)
              \/ disk' = DataWritten(Landed(disk, held), step) /\ step \in 1..boot
           /\ length' = length \/ \E l \in Nat : l < total /\ length' = AtLeast(l)
           /\ held'.kind = "none" => held' = None
           /\ pc' # "close" => held'.lba + Span(held') < total
  PROVE  Size'
<1>1. (Roomy' <=> Roomy) /\ (Fits' <=> Fits)
  BY DEF Roomy, Fits
<1>2. Span(held)' = Span(held')
  BY DEF Span
<1> SUFFICES ASSUME Roomy, Fits
             PROVE  length' <= total /\ disk'[total - 1] = Plain("zero")
  BY <1>1, <1>2 DEF Size, None
<1>3. /\ total \in Nat /\ total <= Sectors /\ boot \in Nat /\ length \in Nat
      /\ disk \in Disk /\ held \in Writes /\ step \in Nat
  BY DEF Typed, TypeOK, Disk, Writes, LastMark, RootCluster
<1>4. length' <= total
  BY <1>3 DEF Size, AtLeast
<1>5. total - 1 \in Lba /\ total - 1 >= PoolStart
  BY <1>3 DEF Roomy, Lba
<1>6. Landed(disk, held)[total - 1] = disk[total - 1]
  <2>1. held.kind \in {"none", "zero"} \/ held.lba # total - 1
    BY <1>3 DEF Size, Span, Writes, Lba
  <2>. QED  BY <1>3, <1>5, <2>1, LandedElsewhere
<1>7. ASSUME step \in 1..boot
      PROVE  DataWritten(Landed(disk, held), step)[total - 1] = Landed(disk, held)[total - 1]
  <2>1. ClusterLba(ClusterOf(step + 1)) <= EspEnd
    BY <1>3, <1>7, ClustersInEsp
  <2>2. ClusterLba(ClusterOf(step + 1)) = ClusterLba(ClusterOf(step)) + ClusterSectors
    BY <1>3, NextCluster
  <2>3. ClusterLba(ClusterOf(step)) \in Nat
    BY <1>3, ClusterOf(step) \in Nat, ClusterOf(step) >= 2, ClusterAfterEsp
       DEF ClusterOf, FirstCluster
  <2>4. EspEnd <= PoolStart /\ EspEnd \in Nat
    BY RootInEsp DEF EspEnd
  <2>5. total - 1 \notin ClusterLba(ClusterOf(step))..(ClusterLba(ClusterOf(step)) + ClusterSectors - 1)
    BY <1>5, <2>1, <2>2, <2>3, <2>4 DEF Lba
  <2>. QED  BY <1>5, <2>5 DEF DataWritten
<1>8. disk'[total - 1] = Plain("zero")
  BY <1>6, <1>7 DEF Size
<1>. QED  BY <1>4, <1>8

(* What a seek does to the image and its length before the last sector.    *)
LEMMA SeekLength ==
  ASSUME Typed, Size, Roomy, Fits, pc # "close", Flush \/ UNCHANGED <<disk, length>>
  PROVE  /\ disk' = disk \/ disk' = Landed(disk, held)
         /\ length' = length \/ \E l \in Nat : l < total /\ length' = AtLeast(l)
<1>1. held.lba + Span(held) \in Nat
  BY DEF Typed, TypeOK, Writes, Span, Lba
<1>. QED  BY <1>1 DEF Flush, Size

(* A stage that writes one sector.                                         *)
LEMMA StageKeepsSize ==
  ASSUME Typed, Size, UNCHANGED <<total, boot>>, pc \notin {"close", "done"}, pc' # "done",
         SeekOk \/ SeekFails, NEW lba \in Nat, lba < PoolStart + 2, NEW content,
         content.kind \in Kinds \ {"zero"},
         held' = None \/ held' = Sector(lba, content)
  PROVE  Size'
<1>1. total \in Nat
  BY DEF Typed, TypeOK
<1>2. /\ Sector(lba, content).lba = lba /\ Span(Sector(lba, content)) = 1
      /\ Sector(lba, content).kind # "none"
  BY DEF Sector, Span, Kinds
<1>3. None.lba = 0 /\ Span(None) = 0
  BY DEF None, Span
<1>4. Roomy => held'.lba + Span(held') < total
  BY <1>1, <1>2, <1>3 DEF Roomy
<1>5. Flush \/ UNCHANGED <<disk, length>>
  BY DEF SeekOk, SeekFails
<1>. QED  BY <1>2, <1>4, <1>5, SeekLength, SizeKept

LEMMA StructureKeepsSize ==
  ASSUME Typed, Size, NEW kind \in Kinds \ {"zero"}, NEW lba \in Nat, lba < PoolStart + 2,
         NEW after \in Stages \ {"done"}, Structure(kind, lba, after)
  PROVE  Size'
<1>1. Plain(kind).kind = kind
  BY DEF Plain
<1>2. pc \notin {"close", "done"}
  BY DEF Structure, Kinds
<1>. QED  BY <1>1, <1>2, StageKeepsSize DEF Structure

(* One word of the FAT, for a boot file that fits.                         *)
LEMMA WordKeepsSize ==
  ASSUME Typed, Size, UNCHANGED <<total, boot>>, pc \notin {"close", "done"}, pc' # "done",
         NEW k \in Both, NEW c, Fits => c \in Entries, NEW v, UncheckedWord(Word(k, c, v))
  PROVE  Size'
<1>1. total \in Nat /\ held \in Writes
  BY DEF Typed, TypeOK, Writes
<1> DEFINE x == Word(k, c, v)
<1>2. x.kind = "word" /\ x.lba = EntryLba(k, c)
  BY DEF Word
<1>3. /\ held'.kind = "word"
      /\ held'.lba = EntryLba(k, c) \/ (held # None /\ held'.lba = held.lba)
  <2>1. CASE held' = x
    BY <1>2, <2>1
  <2>2. CASE held # None /\ held' = [x EXCEPT !.lba = held.lba, !.word = held.word]
    BY <2>2 DEF Word
  <2>. QED  BY <2>1, <2>2 DEF UncheckedWord, SeekFails
<1>4. Span(held') = 1
  BY <1>3 DEF Span
<1>5. ASSUME Roomy, Fits PROVE held'.lba + Span(held') < total
  <2>1. CASE held'.lba = EntryLba(k, c)
    <3>1. EntryLba(k, c) \in Nat /\ EntryLba(k, c) < FatEnd
      BY <1>5, EntryInFat DEF Lba
    <3>2. FatEnd < PoolStart
      BY RootInEsp, FatInEsp DEF RootLba, EspEnd
    <3>. QED  BY <1>1, <1>4, <1>5, <2>1, <3>1, <3>2, FatInEsp DEF Roomy
  <2>2. CASE held # None /\ held'.lba = held.lba
    <3>1. held.kind # "none"
      BY <1>5, <2>2 DEF Size
    <3>2. Span(held) >= 1 /\ Span(held) \in Nat
      BY <3>1 DEF Span
    <3>3. held.lba + Span(held) < total
      BY <1>5 DEF Size
    <3>. QED  BY <1>1, <1>4, <2>2, <3>2, <3>3 DEF Writes, Lba
  <2>. QED  BY <1>3, <2>1, <2>2
<1>6. Flush \/ UNCHANGED <<disk, length>>
  BY DEF UncheckedWord, SeekOk, SeekFails
<1>. QED  BY <1>3, <1>5, <1>6, SeekLength, SizeKept

LEMMA FatTableKeepsSize == ASSUME Typed, Size, WriteFatTable PROVE Size'
<1>1. /\ pc = "fat" /\ pc' \in {"marks", "checkpoint"} /\ UNCHANGED <<total, boot>>
      /\ total \in Nat /\ length \in Nat
  BY DEF WriteFatTable, EspGivenUp, Typed, TypeOK
<1>2. ASSUME Roomy, Fits
      PROVE  /\ disk' = disk \/ disk' = Landed(disk, held)
             /\ length' = length \/ \E l \in Nat : l < total /\ length' = AtLeast(l)
             /\ held'.kind = "none" => held' = None
             /\ held'.lba + Span(held') < total
  <2>1. /\ FatEnd < PoolStart /\ PoolStart < total
        /\ FatStart(2) + FatSectors = FatEnd
    <3>1. FatEnd < PoolStart
      BY RootInEsp, FatInEsp DEF RootLba, EspEnd
    <3>2. FatStart(2) + FatSectors = FatEnd
      BY 2 * FatSectors = FatSectors + FatSectors, 1 * FatSectors = FatSectors
         DEF FatEnd, FatStart
    <3>. QED  BY <1>1, <1>2, <3>1, <3>2 DEF Roomy
  <2>2. ASSUME NEW lba \in FatStart(2)..(FatEnd - ClusterSectors), held' = Zeros(lba)
        PROVE  held'.kind # "none" /\ held'.lba + Span(held') < total /\ lba \in Nat /\ lba < total
    <3>1. held'.kind = "zero" /\ held'.lba = lba /\ Span(held') = ClusterSectors
      BY <2>2, ZerosTyped DEF Span
    <3>. QED  BY <1>1, <2>1, <3>1, FatInEsp
  <2>3. held' = None => held'.lba + Span(held') < total
    BY <1>1, <2>1 DEF None, Span
  <2>4. CASE /\ disk' = Landed(disk, held) /\ length' = AtLeast(FatEnd - ClusterSectors)
             /\ held' = Zeros(FatEnd - ClusterSectors)
    BY <2>2, <2>4, LastZeros
  <2>5. CASE /\ disk' = Landed(disk, held)
             /\ \E lba \in FatStart(2)..(FatEnd - ClusterSectors) :
                  length' = AtLeast(lba) /\ held' = Zeros(lba)
    BY <2>2, <2>5
  <2>6. CASE /\ disk' = Landed(disk, held) /\ held' = None
             /\ length' = AtLeast(FatStart(2) - ClusterSectors)
    <3>1. FatStart(2) - ClusterSectors \in Nat /\ FatStart(2) - ClusterSectors < total
      <4>1. FatStart(2) = EspStart + Reserved + FatSectors
        BY 1 * FatSectors = FatSectors DEF FatStart
      <4>. QED  BY <1>1, <2>1, <4>1, FatInEsp
    <3>. QED  BY <2>3, <2>6, <3>1
  <2>7. CASE UNCHANGED <<disk, length>> /\ held' = None
    BY <2>3, <2>7
  <2>. QED  BY <2>4, <2>5, <2>6, <2>7 DEF WriteFatTable, EspGivenUp, SeekFails
<1>. QED  BY <1>1, <1>2, SizeKept

LEMMA DataKeepsSize == ASSUME Typed, Started, Size, WriteData PROVE Size'
<1>1. /\ pc = "data" /\ pc' \in {"clusters", "checkpoint"} /\ UNCHANGED <<total, boot>>
      /\ total \in Nat /\ boot \in Nat /\ step \in 1..boot /\ held' = None
  BY DEF WriteData, Typed, TypeOK, Started
<1>2. None.lba = 0 /\ Span(None) = 0
  BY DEF None, Span
<1>3. Roomy => held'.lba + Span(held') < total
  BY <1>1, <1>2 DEF Roomy
<1>4. CASE /\ disk' = DataWritten(Landed(disk, held), step)
           /\ length' = AtLeast(ClusterLba(ClusterOf(step + 1)))
  <2>1. ASSUME Roomy, Fits
        PROVE  /\ ClusterLba(ClusterOf(step + 1)) \in Nat
               /\ ClusterLba(ClusterOf(step + 1)) < total
    <3>1. ClusterLba(ClusterOf(step + 1)) \in 0..EspEnd
      BY <1>1, <2>1, ClustersInEsp
    <3>2. EspEnd <= PoolStart /\ EspEnd \in Nat
      BY RootInEsp DEF EspEnd
    <3>. QED  BY <1>1, <2>1, <3>1, <3>2 DEF Roomy
  <2>. QED  BY <1>1, <1>3, <1>4, <2>1, SizeKept
<1>5. CASE Flush \/ UNCHANGED <<disk, length>>
  BY <1>1, <1>3, <1>5, SeekLength, SizeKept
<1>. QED  BY <1>4, <1>5 DEF WriteData, SeekFails

LEMMA BackupKeepsSize == ASSUME Typed, Size, WriteBackup PROVE Size'
<1>1. /\ pc = "backup" /\ UNCHANGED <<total, boot>> /\ total \in Nat
      /\ Flush \/ UNCHANGED <<disk, length>>
  BY DEF WriteBackup, SeekOk, SeekFails, Typed, TypeOK
<1>2. \/ pc' = "close" /\ held'.kind # "none"
      \/ pc' = "failed" /\ held' = None
  BY DEF WriteBackup, Sector, Plain
<1>3. Roomy => (pc' # "close" => held'.lba + Span(held') < total)
  BY <1>1, <1>2 DEF None, Span, Roomy
<1>. QED  BY <1>1, <1>2, <1>3, SeekLength, SizeKept

LEMMA CloseKeepsSize == ASSUME Typed, Metadata, Size, Close PROVE Size'
<1>1. /\ pc = "close" /\ pc' = "done" /\ UNCHANGED <<total, boot>> /\ held' = None
      /\ total \in Nat /\ total <= Sectors /\ length \in Nat /\ faults \in Nat /\ disk \in Disk
  BY DEF Close, Typed, TypeOK, Disk
<1>2. (Roomy' <=> Roomy) /\ (Fits' <=> Fits)
  BY <1>1 DEF Roomy, Fits
<1>3. None.lba = 0 /\ Span(None) = 0 /\ Span(held)' = Span(held')
  BY DEF None, Span
<1>4. ASSUME Roomy, Fits
      PROVE  /\ length' <= total
             /\ disk'[total - 1] \in {Plain("mbr"), Plain("zero")}
             /\ disk'[total - 1] = Plain("mbr") \/ faults' = 0 =>
                  length' = total /\ disk'[total - 1] = Plain("mbr")
  <2>1. /\ held = Sector(total - 1, Plain("mbr")) /\ held.lba = total - 1
        /\ disk[total - 1] = Plain("zero") /\ length <= total
    BY <1>1, <1>4 DEF Metadata, HeldBack, Size, Sector
  <2>2. total - 1 \in Lba
    BY <1>1, <1>4 DEF Roomy, Lba
  <2>3. Plain("zero") # Plain("mbr")
    BY PlainKinds DEF Kinds
  <2>4. CASE /\ disk' = Landed(disk, held) /\ length' = Padded(AtLeast(held.lba + 1))
    <3>1. disk'[total - 1] = Plain("mbr")
      <4>1. Plain("mbr") \in {Plain(k) : k \in Kinds} \cup {BootSector}
        BY PlainKinds DEF Kinds
      <4>. QED  BY <1>1, <2>1, <2>2, <2>3, <2>4, <4>1, LandedSector
    <3>2. length' = total
      BY <1>1, <2>1, <2>4 DEF Padded, AtLeast
    <3>. QED  BY <1>1, <3>1, <3>2
  <2>5. CASE Fault /\ disk' = [disk EXCEPT ![held.lba] = Plain("zero")] /\ length' = Padded(length)
    <3>1. disk'[total - 1] = Plain("zero") /\ faults' # 0
      BY <1>1, <2>1, <2>2, <2>5 DEF Disk, Fault
    <3>2. length' = total
      BY <1>1, <2>1, <2>5 DEF Padded
    <3>. QED  BY <1>1, <2>3, <3>1, <3>2
  <2>6. CASE Fault /\ UNCHANGED <<disk, length>>
    BY <1>1, <2>1, <2>3, <2>6 DEF Fault
  <2>. QED  BY <2>4, <2>5, <2>6 DEF Close
<1>. QED  BY <1>1, <1>2, <1>3, <1>4 DEF Size, Roomy

LEMMA SizeStep == Typed /\ Metadata /\ Started /\ Size /\ [Next]_vars => Size'
<1> SUFFICES ASSUME Typed, Metadata, Started, Size, [Next]_vars PROVE Size'
  OBVIOUS
<1>a. total \in Nat /\ boot \in Nat /\ step \in Nat
  BY DEF Typed, TypeOK, LastMark, RootCluster
<1>1. CASE Check \/ BootFileMissing \/ EndBootFile
  <2>1. /\ UNCHANGED <<total, boot, disk, length, held>>
        /\ pc \notin {"close", "done"} /\ pc' \notin {"close", "done"}
    BY <1>1 DEF Check, BootFileMissing, EndBootFile
  <2>. QED  BY <2>1, SizeKept DEF Size
<1>2. CASE WriteMbr \/ WriteGptHeader \/ WriteGptEntries \/ WritePartitions
  BY <1>2, StructureKeepsSize
     DEF WriteMbr, WriteGptHeader, WriteGptEntries, WritePartitions, Kinds, Stages
<1>3. CASE WriteCheckpoint \/ WriteManifest
  BY <1>3, StructureKeepsSize DEF WriteCheckpoint, WriteManifest, Kinds, Stages
<1>4. CASE WriteBootSector \/ WriteRootDirectory
  <2>1. PICK lba \in {EspStart, RootLba}, content \in {BootSector, Plain("root")} :
          held' = None \/ held' = Sector(lba, content)
    BY <1>4 DEF WriteBootSector, WriteRootDirectory, InEsp, EspGivenUp
  <2>2. content.kind \in Kinds \ {"zero"}
    BY DEF BootSector, Plain, Kinds
  <2>3. lba \in Nat /\ lba < PoolStart + 2
    BY RootInEsp, RootPlace DEF Lba
  <2>4. /\ UNCHANGED <<total, boot>> /\ pc \notin {"close", "done"} /\ pc' # "done"
        /\ SeekOk \/ SeekFails
    BY <1>4 DEF WriteBootSector, WriteRootDirectory, InEsp, EspGivenUp
  <2>. QED  BY <2>1, <2>2, <2>3, <2>4, StageKeepsSize
<1>5. CASE WriteMark
  <2>1. step \in 0..LastMark /\ pc = "marks" /\ pc' \in {"marks", "root"}
    BY <1>5 DEF WriteMark, Typed, TypeOK
  <2>2. 1 + (step % 2) \in Both /\ (Fits => step \div 2 \in Entries)
    BY <1>a, <2>1, MarkPlace, LowEntries
  <2>. QED  BY <1>5, <2>1, <2>2, WordKeepsSize DEF WriteMark
<1>6. CASE WriteLink \/ WriteMirror
  <2>1. /\ UNCHANGED <<total, boot>> /\ step <= boot
        /\ pc \in {"clusters", "mirror"} /\ pc' \in {"mirror", "data"}
        /\ \E k \in Both : UncheckedWord(Word(k, ClusterOf(step), Link(step)))
    BY <1>6 DEF WriteLink, WriteMirror, Both, MoreClusters, Typed
  <2>2. Fits => ClusterOf(step) \in Entries
    <3>1. FatEntries \in Nat
      BY ProductNat DEF FatEntries
    <3>. QED  BY <1>a, <2>1, <3>1 DEF Fits, ClusterOf, FirstCluster, Entries
  <2>. QED  BY <2>1, <2>2, WordKeepsSize
<1>7. CASE Ended \/ UNCHANGED vars
  BY <1>7 DEF Ended, vars, Size, Roomy, Fits, Span, None
<1>. QED  BY <1>1, <1>2, <1>3, <1>4, <1>5, <1>6, <1>7, FatTableKeepsSize, DataKeepsSize,
             BackupKeepsSize, CloseKeepsSize DEF Next

LEMMA SizeInit == Init => Started /\ Size
<1> SUFFICES ASSUME Init PROVE Started /\ Size
  OBVIOUS
<1>1. total \in Nat /\ total <= Sectors /\ pc = "check" /\ length = 0 /\ held = None
  BY DEF Init
<1>2. Roomy => disk[total - 1] = Plain("zero")
  BY <1>1 DEF Init, Roomy, Lba
<1>3. None.lba = 0 /\ Span(None) = 0
  BY DEF None, Span
<1>. QED  BY <1>1, <1>2, <1>3 DEF Started, Size, Roomy

(* For every layout, whatever fails: the last sector of the image is the   *)
(* copy of the first, zero or missing, and no write goes beyond it.        *)
THEOREM BackupAlwaysOrNothing == Spec => []BackupOrNothing
<1>1. Metadata /\ Size => BackupOrNothing
  <2> SUFFICES ASSUME Metadata, Size, pc = "done", Roomy, Fits
               PROVE  /\ length <= total
                      /\ disk[total - 1] \in {Plain("mbr"), Plain("zero")}
                      /\ disk[total - 1] = Plain("mbr") \/ faults = 0 =>
                           length = total /\ disk[total - 1] = disk[0]
    BY DEF BackupOrNothing
  <2>1. disk[0] = Plain("mbr")
    BY DEF Metadata, HeadersInPlace, Finish
  <2>. QED  BY <2>1 DEF Size
<1>. QED  BY <1>1, SizeInit, SizeStep, StartedStep, MetadataInit, MetadataStep, AlwaysTyped,
             PTL DEF Spec
=============================================================================

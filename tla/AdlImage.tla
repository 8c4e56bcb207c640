------------------------------- MODULE AdlImage -------------------------------
(***************************************************************************)
(* The disk image writer (mkiso/aefs/adl_disk.c): the stages of            *)
(* adl_generate_complete_iso, each of which seeks to a place its own       *)
(* arithmetic computes and writes there.  Nothing but that arithmetic      *)
(* keeps one structure from overwriting another, and the FAT, the root     *)
(* directory and the clusters of the boot file are computed by three       *)
(* functions that must agree.                                              *)
(*                                                                         *)
(* A write of up to a sector only reaches the buffer of stdio: it reaches  *)
(* the image at the next seek, and a failure shows there, in the stage     *)
(* that seeks and not in the one that wrote.  Some seeks end the run when  *)
(* they fail, those of the ESP are a warning or are not checked at all.    *)
(*                                                                         *)
(* Abstractions.  A sector is the structure it holds and its 32-bit words  *)
(* that update_fat_entry wrote since.  Of the fields of the headers only   *)
(* the size of a FAT is kept, which the boot sector announces.  The image  *)
(* is a new file: a sector never written reads as zero, and zeros over it  *)
(* change nothing.  The buffer of stdio is as large as a cluster; a write  *)
(* that fails leaves nothing of itself, and the file where it was.         *)
(***************************************************************************)
EXTENDS Integers

CONSTANTS
  GptPrimary, GptEntries, PartTable,   \* ADL_GPT_PRIMARY_LBA, ... (1, 2, 64)
  EspStart, EspSectors, PoolStart,     \* ESP_START_LBA, ... (1024, 262144, 263168)
  Reserved,        \* sectors before the first FAT (32)
  FatSectors,      \* sectors of a FAT as it is written (512)
  FatSpan,         \* sectors the boot sector reckons for each sector of a FAT (4096)
  RootGap,         \* from the second FAT to the root directory (64)
  ClusterSectors,  \* sectors of a cluster (8)
  SectorWords,     \* FAT entries in a sector (128)
  Totals,          \* the sizes of an image, in sectors
  BootClusters,    \* the sizes of a boot file, in clusters
  MaxFaults,       \* bound of the model: writes that fail
  Sectors          \* bound of the model: sectors no write goes beyond

ASSUME LayoutAssumption ==
  /\ GptPrimary \in Nat \ {0} /\ GptEntries \in Nat /\ PartTable \in Nat
  /\ EspStart \in Nat /\ EspSectors \in Nat /\ PoolStart \in Nat
  /\ GptPrimary < GptEntries /\ GptEntries < PartTable /\ PartTable < EspStart
  /\ EspStart + EspSectors <= PoolStart
  /\ Reserved \in Nat \ {0} /\ FatSectors \in Nat \ {0} /\ RootGap \in Nat
  /\ FatSpan \in Nat \ {0}
  /\ ClusterSectors \in Nat \ {0} /\ SectorWords \in Nat \ {0}
  /\ ClusterSectors < FatSectors
  /\ Reserved + 2 * FatSectors + RootGap < EspSectors

ASSUME InputAssumption ==
  /\ Totals \subseteq Nat /\ BootClusters \subseteq Nat /\ MaxFaults \in Nat
  /\ Sectors \in Nat /\ PoolStart + 1 < Sectors
  /\ \A t \in Totals : t <= Sectors
  /\ \A n \in BootClusters :
       EspStart + Reserved + 2 * FatSectors + (n + 1) * ClusterSectors <= Sectors

VARIABLES
  total,   \* the size asked for
  boot,    \* the clusters of the boot file, 0 if it is missing or empty
  pc,      \* the stage reached
  disk,    \* the image
  length,  \* the size of the image file
  held,    \* the write that stdio holds back
  step,    \* the mark, or the cluster of the boot file, to write next
  warned,  \* the ESP was given up with a warning
  faults   \* the writes that failed

vars == <<total, boot, pc, disk, length, held, step, warned, faults>>

Lba == 0..(Sectors - 1)
Words == 0..(SectorWords - 1)

Stages == {"check", "mbr", "gpt", "entries", "table", "bootSector", "fat", "marks",
           "root", "clusters", "mirror", "data", "checkpoint", "manifest", "backup",
           "close", "done", "failed"}

(* What a sector holds: a structure, with the size of a FAT that the boot  *)
(* sector announces or the cluster of the boot file, and its FAT entries.  *)
Kinds == {"zero", "mbr", "gpt", "entries", "table", "bootSector", "root",
          "data", "checkpoint", "manifest"}
Blank == [i \in Words |-> 0]
Plain(kind) == [kind |-> kind, n |-> 0, w |-> Blank]
Data(n) == [kind |-> "data", n |-> n, w |-> Blank]
Content == [kind : Kinds, n : Nat, w : [Words -> Nat]]

(***************************************************************************)
(* Where things go.                                                        *)
(***************************************************************************)
RootCluster == 2
FirstCluster == 3

(* A fault: the place in the partition is taken as a place on the disk.    *)
FatStart_OnDisk(copy) == Reserved + (copy - 1) * FatSectors

FatStart(copy) == EspStart + Reserved + (copy - 1) * FatSectors
FatEnd == EspStart + Reserved + 2 * FatSectors
EntryLba(copy, c) == FatStart(copy) + c \div SectorWords
EntryWord(c) == c % SectorWords

(* The values of an entry: 0 is free, one value stands for the media type, *)
(* the hard error and the end of a chain, a link is the cluster it names.  *)
Free == 0
Mark == 1

RootLba == FatEnd + RootGap

(* A fault: data_start_lba counts one FAT.                                 *)
ClusterLba_OneFat(c) == EspStart + Reserved + FatSectors + (c - 2) * ClusterSectors

(* A fault: the two reserved clusters are counted.                         *)
ClusterLba_FromZero(c) == FatEnd + c * ClusterSectors

ClusterLba(c) == FatEnd + (c - 2) * ClusterSectors

(* The FAT size of the boot sector, which is not that of the FATs.  Its    *)
(* struct is not packed: a reader that goes by the offsets of FAT32 finds  *)
(* neither this field nor the others, and the signature lies behind the    *)
(* 512 bytes that are written.                                             *)
AnnouncedFat == (EspSectors + FatSpan - 1) \div FatSpan
BootSector == [kind |-> "bootSector", n |-> AnnouncedFat, w |-> Blank]

(***************************************************************************)
(* Writing.  A held write is a sector, one 32-bit word of a FAT, or the    *)
(* last zeros of a FAT that is cleared.                                    *)
(***************************************************************************)
Sector(lba, content) ==
  [kind |-> content.kind, lba |-> lba, word |-> 0, value |-> content.n]
None == [kind |-> "none", lba |-> 0, word |-> 0, value |-> 0]
Zeros(lba) == Sector(lba, Plain("zero"))

(* update_fat_entry: the entry of a cluster in one copy of the FAT.        *)
Both == {1, 2}
Word(copy, c, value) ==
  [kind |-> "word", lba |-> EntryLba(copy, c), word |-> EntryWord(c), value |-> value]

Span(x) == IF x.kind = "none" THEN 0 ELSE IF x.kind = "zero" THEN ClusterSectors ELSE 1

(* A sector with a held write on it, and the image.                        *)
SectorWith(x, sector) ==
  IF x.kind = "word" THEN [sector EXCEPT !.w = [sector.w EXCEPT ![x.word] = x.value]]
  ELSE [kind |-> x.kind, n |-> x.value, w |-> Blank]

Landed(d, x) ==
  IF x.kind \in {"none", "zero"} THEN d
  ELSE [d EXCEPT ![x.lba] = SectorWith(x, d[x.lba])]

AtLeast(l) == IF length < l THEN l ELSE length

(* What seek_to_lba and fseek do first: the held write reaches the image,  *)
(* or it is lost, and then the seek fails as well and moves nothing.       *)
Flush == disk' = Landed(disk, held) /\ length' = AtLeast(held.lba + Span(held))
Fault == faults < MaxFaults /\ faults' = faults + 1
SeekOk == Flush /\ UNCHANGED faults
SeekFails == held # None /\ Fault /\ UNCHANGED <<disk, length>>

Init ==
  /\ total \in Totals
  /\ boot \in BootClusters
  /\ pc = "check"
  /\ disk = [a \in Lba |-> Plain("zero")]
  /\ length = 0
  /\ held = None
  /\ step = 0
  /\ warned = FALSE
  /\ faults = 0

(* aefs_generate_iso_image and the start of adl_generate_complete_iso: a   *)
(* size of 0 or a missing file is refused and no image is made.            *)
Check ==
  /\ pc = "check"
  /\ pc' = IF total = 0 \/ boot = 0 THEN "failed" ELSE "mbr"
  /\ UNCHANGED <<total, boot, disk, length, held, step, warned, faults>>

(* A structure of one sector: a seek that fails ends the run.              *)
Structure(kind, lba, after) ==
  /\ pc = kind
  /\ \/ SeekOk /\ held' = Sector(lba, Plain(kind)) /\ pc' = after
     \/ SeekFails /\ held' = None /\ pc' = "failed"
  /\ UNCHANGED <<total, boot, step, warned>>

WriteMbr == Structure("mbr", 0, "gpt")
WriteGptHeader == Structure("gpt", GptPrimary, "entries")
WriteGptEntries == Structure("entries", GptEntries, "table")
WritePartitions == Structure("table", PartTable, "bootSector")

(* adl_initialize_esp_fat32: a seek that fails ends the ESP, not the run.  *)
(* What is lost is the write before it: the partition table, when it is    *)
(* the first seek of the ESP.                                              *)
EspGivenUp == held' = None /\ pc' = "checkpoint" /\ warned' = TRUE

InEsp(kind, x, after) ==
  /\ pc = kind
  /\ \/ SeekOk /\ held' = x /\ pc' = after /\ UNCHANGED warned
     \/ SeekFails /\ EspGivenUp
  /\ UNCHANGED <<total, boot>>

WriteBootSector ==
  InEsp("bootSector", Sector(EspStart, BootSector), "fat") /\ UNCHANGED step

(* generate_fat_table clears both FATs; the last zeros of the second one   *)
(* are held back.  The writes are not checked, so zeros that are lost move *)
(* the rest of them forward; of the two seeks, the first may lose the boot *)
(* sector and the second the last zeros of the first FAT.                  *)
WriteFatTable ==
  /\ pc = "fat"
  /\ \/ /\ disk' = Landed(disk, held) /\ length' = AtLeast(FatEnd - ClusterSectors)
        /\ held' = Zeros(FatEnd - ClusterSectors)
        /\ pc' = "marks" /\ UNCHANGED <<faults, warned>>
     \/ /\ disk' = Landed(disk, held) /\ Fault
        /\ \E lba \in FatStart(2)..(FatEnd - ClusterSectors) :
             length' = AtLeast(lba) /\ held' = Zeros(lba)
        /\ pc' = "marks" /\ UNCHANGED warned
     \/ /\ disk' = Landed(disk, held) /\ Fault
        /\ length' = AtLeast(FatStart(2) - ClusterSectors)
        /\ EspGivenUp
     \/ SeekFails /\ EspGivenUp
  /\ step' = 0
  /\ UNCHANGED <<total, boot>>

(* One half of update_fat_entry: neither the seek nor the write is         *)
(* checked.  After a seek that fails, the word goes where the lost write   *)
(* should have gone.                                                       *)
UncheckedWord(x) ==
  \/ SeekOk /\ held' = x
  \/ SeekFails /\ held' = [x EXCEPT !.lba = held.lba, !.word = held.word]

(* The first three entries, each in one copy of the FAT and then in the    *)
(* other.                                                                  *)
LastMark == 2 * RootCluster + 1

WriteMark ==
  /\ pc = "marks"
  /\ UncheckedWord(Word(1 + (step % 2), step \div 2, Mark))
  /\ IF step < LastMark THEN step' = step + 1 /\ UNCHANGED pc ELSE step' = 0 /\ pc' = "root"
  /\ UNCHANGED <<total, boot, warned>>

(* create_fat32_root_directory: the directory names cluster 3.             *)
WriteRootDirectory ==
  /\ InEsp("root", Sector(RootLba, Plain("root")), "clusters")
  /\ step' = 1

(* adl_write_to_fat32 cannot open the boot file, which was there before.   *)
BootFileMissing ==
  /\ pc = "clusters" /\ step = 1
  /\ Fault
  /\ pc' = "checkpoint"
  /\ UNCHANGED <<total, boot, disk, length, held, step, warned>>

(* One turn of the loop in adl_write_to_fat32 for the i-th cluster: its    *)
(* entry in the first FAT and in the second, then the data.                *)
ClusterOf(i) == FirstCluster + i - 1
Link(i) == IF i = boot THEN Mark ELSE FirstCluster + i

DataWritten(d, i) ==
  LET lba == ClusterLba(ClusterOf(i)) IN
  [a \in Lba |-> IF a \in lba..(lba + ClusterSectors - 1) THEN Data(i) ELSE d[a]]

(* A fault: one cluster too many.                                          *)
MoreClusters_OneMore == step <= boot + 1

MoreClusters == step <= boot

WriteLink ==
  /\ pc = "clusters" /\ MoreClusters
  /\ UncheckedWord(Word(1, ClusterOf(step), Link(step)))
  /\ pc' = "mirror"
  /\ UNCHANGED <<total, boot, step, warned>>

WriteMirror ==
  /\ pc = "mirror"
  /\ UncheckedWord(Word(2, ClusterOf(step), Link(step)))
  /\ pc' = "data"
  /\ UNCHANGED <<total, boot, step, warned>>

(* The data fills the buffer and is not held back; a write of it that      *)
(* fails is not noticed.  A seek that fails ends the loop as if the file   *)
(* were complete.                                                          *)
WriteData ==
  /\ pc = "data"
  /\ \/ /\ disk' = DataWritten(Landed(disk, held), step)
        /\ length' = AtLeast(ClusterLba(ClusterOf(step + 1)))
        /\ step' = step + 1 /\ pc' = "clusters"
        /\ UNCHANGED faults
     \/ Flush /\ Fault /\ step' = step + 1 /\ pc' = "clusters"
     \/ SeekFails /\ pc' = "checkpoint" /\ UNCHANGED step
  /\ held' = None
  /\ UNCHANGED <<total, boot, warned>>

EndBootFile ==
  /\ pc = "clusters" /\ ~MoreClusters
  /\ pc' = "checkpoint"
  /\ UNCHANGED <<total, boot, disk, length, held, step, warned, faults>>

WriteCheckpoint == Structure("checkpoint", PoolStart, "manifest")
WriteManifest == Structure("manifest", PoolStart + 1, "backup")

(* A fault: the sector after the last one.                                 *)
BackupLba_PastEnd == total

BackupLba == total - 1

(* The copy of the first sector in the last one.                           *)
WriteBackup ==
  /\ pc = "backup"
  /\ \/ SeekOk /\ held' = Sector(BackupLba, Plain("mbr")) /\ pc' = "close"
     \/ SeekFails /\ held' = None /\ pc' = "failed"
  /\ UNCHANGED <<total, boot, step, warned>>

(* The seek to the end is not checked.  A copy it loses is replaced by a   *)
(* sector of padding, or by nothing if that is lost as well; the run ends  *)
(* with 0 in each case.                                                    *)
Padded(l) == IF l < total THEN total ELSE l

Close ==
  /\ pc = "close"
  /\ \/ /\ disk' = Landed(disk, held)
        /\ length' = Padded(AtLeast(held.lba + 1))
        /\ UNCHANGED faults
     \/ /\ Fault
        /\ \/ /\ disk' = [disk EXCEPT ![held.lba] = Plain("zero")]
              /\ length' = Padded(length)
           \/ UNCHANGED <<disk, length>>
  /\ held' = None
  /\ pc' = "done"
  /\ UNCHANGED <<total, boot, step, warned>>

Ended == pc \in {"done", "failed"} /\ UNCHANGED vars

Next ==
  \/ Check \/ WriteMbr \/ WriteGptHeader \/ WriteGptEntries \/ WritePartitions
  \/ WriteBootSector \/ WriteFatTable \/ WriteMark \/ WriteRootDirectory
  \/ BootFileMissing \/ WriteLink \/ WriteMirror \/ WriteData \/ EndBootFile
  \/ WriteCheckpoint \/ WriteManifest \/ WriteBackup \/ Close \/ Ended

Spec == Init /\ [][Next]_vars

(***************************************************************************)
(* Properties.                                                             *)
(***************************************************************************)
EspEnd == EspStart + EspSectors

TypeOK ==
  /\ total \in Totals /\ boot \in BootClusters
  /\ pc \in Stages
  /\ disk \in [Lba -> Content]
  /\ length \in 0..Sectors
  /\ held \in [kind : Kinds \cup {"none", "word"}, lba : Lba, word : Words, value : Nat]
  /\ held.lba + Span(held) <= Sectors
  /\ step \in 0..(IF pc = "marks" THEN LastMark ELSE boot + 1)
  /\ warned \in BOOLEAN
  /\ faults \in 0..MaxFaults

(* The image is larger than the ESP and the start of the pool.             *)
Roomy == total >= PoolStart + 3

(* Whatever the boot file's size and whichever writes fail: a run of       *)
(* adl_generate_complete_iso that returns 0 leaves the MBR, the shadow GPT *)
(* and its entry, the checkpoint and the manifest where their readers      *)
(* look, overwritten by nothing.  The partition table and the boot sector  *)
(* may be lost, but not in silence, and a partition table that is lost     *)
(* leaves an ESP without a boot sector rather than an ESP no table names.  *)
MetadataSurvives ==
  (pc = "done" /\ Roomy) =>
    /\ disk[0] = Plain("mbr")
    /\ disk[GptPrimary] = Plain("gpt")
    /\ disk[GptEntries] = Plain("entries")
    /\ disk[PoolStart] = Plain("checkpoint")
    /\ disk[PoolStart + 1] = Plain("manifest")
    /\ warned \/ disk[EspStart] = BootSector
    /\ disk[EspStart] = BootSector => disk[PartTable] = Plain("table")

(* The boot file fits the FAT and the ESP.                                 *)
FatEntries == FatSectors * SectorWords
Fits ==
  /\ FirstCluster + boot <= FatEntries
  /\ FatEnd + (boot + 1) * ClusterSectors <= EspEnd

Entry(copy, c) == disk[EntryLba(copy, c)].w[EntryWord(c)]
InFile(c) == c \in FirstCluster..(FirstCluster + boot - 1)

(* When no write failed, both copies of the FAT hold one chain, from the   *)
(* cluster the directory names to an end mark, every other entry is free,  *)
(* and there is one place for the clusters, in the ESP and behind the      *)
(* FATs, at which those of the chain hold the boot file in order: what     *)
(* update_fat_entry and the data writes of adl_write_to_fat32 number and   *)
(* place alike.  It is not the place that the boot sector announces.       *)
ChainLeadsToFile ==
  (pc = "done" /\ Roomy /\ Fits /\ faults = 0) =>
    /\ \A copy \in Both, c \in 0..(FatEntries - 1) :
         Entry(copy, c) = IF c <= RootCluster \/ c = ClusterOf(boot) THEN Mark
                          ELSE IF InFile(c) THEN c + 1 ELSE Free
    /\ \E area \in FatEnd..(EspEnd - (boot + 1) * ClusterSectors) :
         \A i \in 1..boot, s \in 0..(ClusterSectors - 1) :
           disk[area + (ClusterOf(i) - RootCluster) * ClusterSectors + s] = Data(i)

(* The boot file ends before the root directory.                           *)
Short == (boot + 1) * ClusterSectors <= RootGap

(* A boot file that ends before the root directory (28 KB in this layout)  *)
(* leaves create_fat32_root_directory's sector and the boot sector intact. *)
DirectorySurvives ==
  (pc = "done" /\ Roomy /\ Fits /\ Short /\ faults = 0) =>
    disk[RootLba] = Plain("root") /\ disk[EspStart] = BootSector

(* A run that returns 0 leaves an image no larger than asked for, whatever *)
(* failed.  Its last sector, where adl_disk.h places the backup of the ADL *)
(* header, is the copy of the first one, in an image of the full size; the *)
(* copy can be lost, then the sector is zero or missing and holds nothing  *)
(* of the ESP or the pool.                                                 *)
BackupOrNothing ==
  (pc = "done" /\ Roomy /\ Fits) =>
    /\ length <= total
    /\ disk[total - 1] \in {Plain("mbr"), Plain("zero")}
    /\ disk[total - 1] = Plain("mbr") \/ faults = 0 =>
         length = total /\ disk[total - 1] = disk[0]
=============================================================================

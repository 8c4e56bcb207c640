------------------------- MODULE ContainersCorrect -------------------------
(***************************************************************************)
(* What the images of Containers owe their readers.  An image is read the  *)
(* way its user reads it: the headers say where something is, and it has   *)
(* to be there, whole, whatever was written before and after it.           *)
(***************************************************************************)
EXTENDS Containers

Succeeded == pc = "done" /\ result = 0 /\ ~lost

ZonesHold(names) ==
    \A n \in names : Holds(file, header.zones[n].offset, header.zones[n].size, TagOf(n))
HeaderThere == Holds(file, 0, HEADER_SIZE, "header")

\* A range whose first byte is the given byte of the code.
CodeAt(at, from) ==
    from < job.z.code => Inside(file, at, 1) /\ Content(file, at, 1) = [what |-> "code", from |-> from]

-----------------------------------------------------------------------------
(* Containers with zones. *)

CommonReads ==
    /\ HeaderThere /\ HeaderValid(header)
    /\ ZonesHold(DOMAIN header.zones)

DirectReads(magic) ==
    /\ HeaderThere /\ StrictlyValid(header, magic)
    /\ ZonesHold(DOMAIN header.zones)

\* The checksum of AETB is one that no reader computes.
AetbReads == HeaderThere /\ ZonesHold(DOMAIN header.zones)

IyaReads ==
    /\ IyaExtracts(file, header)
    /\ \A n \in {"manifest", "aetb"} :
          header.zones[n].size > 0 => IyaExtracted(file, header, n) = [what |-> n, from |-> 0]

(* The kernel image: code and state where the header says, and where the   *)
(* nexus, whose offsets were worked out apart, says.                       *)
AkiReads ==
    LET in == KernelInput(job.z)
        nexus == NexusEntries(job.z)
    IN  /\ HeaderThere
        /\ \A n \in {"act", "truth", "aethela", "nexus"} : header.zones[n] = nexus[n]
        /\ Holds(file, nexus.act.offset, job.z.code, "code")
        /\ Holds(file, nexus.truth.offset, TRUTH_BASE, "dictionary")
        /\ Holds(file, nexus.truth.offset + TRUTH_BASE, job.z.mirror, "mirror")

\* The same weaver on an embryo: the header calls the state the truth zone.
AkiWovenReads ==
    /\ HeaderThere
    /\ Holds(file, header.zones.act.offset, job.z.code, "code")
    /\ Holds(file, header.zones.truth.offset, job.z.mirror, "mirror")

WovenReads ==
    /\ HeaderThere
    /\ ZonesHold({"act", "mirror"})
    /\ job.format = "srv woven" =>
          Holds(file, header.zones.schema.offset, header.zones.schema.size, "truth")

BinReads ==
    IF job.flat THEN Holds(file, 0, job.z.code - job.entry, CodeFrom(job.z, job.entry).parts[1].what)
    ELSE Holds(file, 0, 64, "header") /\ Holds(file, 64, job.z.code, "code")

-----------------------------------------------------------------------------
(* Images a loader maps. *)

EntersCode == CodeAt(FileOffsetOf(header, header.entry), job.entry)

InsideTheImage ==
    \A i \in DOMAIN header.sections :
        header.sections[i].rva + InMemory(header.sections[i].vsize) <= header.imageSize

Relocations == LoadedAt(file, header, header.directories.reloc.offset,
                        header.directories.reloc.size, "reloc")

EfiReads ==
    /\ InsideTheImage /\ Relocations
    /\ LoadedAt(file, header, SECTION_ALIGNMENT, HEADER_SIZE, "aetb header")
    /\ EntryIsPlain(job.z, job.starts, job.entry) => EntersCode

\* What each zone is called once it is a section.
SectionOf == [mirror |-> ".data", truth |-> ".rodata"]
ZonesLoaded ==
    \A n \in DOMAIN SectionOf :
        job.z[n] > 0 => LoadedAt(file, header, Placement(header, SectionOf[n]).rva, job.z[n], n)

PeReads == InsideTheImage /\ Relocations /\ ZonesLoaded /\ EntersCode

(* Every marker the compiler left with room behind it became a call of the *)
(* function it asked for: the address is that of a slot, and the loader    *)
(* fills that slot by the name the lookup table points to.                 *)
DriverReads ==
    LET used == header.directories.used
        table == header.directories.imports
    IN  /\ InsideTheImage /\ ZonesLoaded
        /\ \A k \in DOMAIN job.calls :
              Patched(job.z, job.arm, job.calls[k].at) => CallReaches(file, header, job.calls[k], job.arm)
        /\ \A i \in DOMAIN used :
              LoadedAt(file, header, table + NameOffset(used, i), NameEntrySize(used[i]),
                       <<"name of", used[i]>>)
        /\ header.directories.function.offset + header.directories.function.size
              <= SECTION_ALIGNMENT + Placement(header, ".text").vsize

-----------------------------------------------------------------------------
(* Mach-O, alone and as the payload of an IM4P container. *)

SegmentsHold(at) ==
    LET segments == MachoSegments(job.z)
    IN  /\ Holds(file, at, 32, "header")
        /\ \A i \in DOMAIN segments :
              Holds(file, at + segments[i].file, segments[i].size, segments[i].what)
        /\ \A i, j \in DOMAIN segments :
              i < j => segments[i].vm + segments[i].size <= segments[j].vm

Im4pReads == SegmentsHold(Im4pPayloadAt(temp.size, job.identifier))

-----------------------------------------------------------------------------
(* Firmware.  In a ROM of one window the trampoline is put over the header *)

RomReads ==
    /\ job.size >= ROM_WINDOW_SIZE + HEADER_SIZE => HeaderThere /\ HeaderValid(header)
    /\ ZonesHold({"act", "mirror", "truth"})
    /\ Holds(file, file.size - ROM_RESET_VECTOR_SIZE, ROM_RESET_VECTOR_SIZE, "reset vector")

-----------------------------------------------------------------------------
(* A writer that reports success, of bytes that all arrived, has made an   *)
(* image whose headers lead to what they announce: zones, sections,        *)
(* imports, segments or payload, none of them covered by another.  The     *)
(* constants of the kernel image and of AETB files woven in assembly are   *)
(* left out; AkiZonesAsDocumented says why.                                *)
ImagesReadBack ==
    Succeeded =>
        CASE job.format \in {"srv", "hda", "ax"} -> CommonReads
          [] job.format = "aki direct" -> DirectReads("AKI!")
          [] job.format = "srv direct" -> DirectReads("SRV!")
          [] job.format = "hda direct" -> DirectReads("HDA!")
          [] job.format = "aetb"  -> AetbReads
          [] job.format = "iya"   -> IyaReads
          [] job.format = "aki"   -> AkiReads
          [] job.format = "aki woven" -> AkiWovenReads
          [] job.format = "bin"   -> BinReads
          [] job.format = "efi"   -> EfiReads
          [] job.format = "pe"    -> PeReads
          [] job.format = "sys"   -> DriverReads
          [] job.format = "macho" -> SegmentsHold(0)
          [] job.format = "im4p"  -> Im4pReads
          [] job.format = "rom"   -> RomReads
          [] OTHER -> WovenReads

(* pe32plus_generate_efi and pe_industrial_generate_efi, which boot        *)
(* machines, look at every result: no byte is lost behind a reported       *)
(* success, be it in a write or in what stdio held until the close.        *)
SuccessMeansWritten ==
    pc = "done" /\ result = 0 /\ job.format \in {"efi", "pe"} => ~lost

(* A machine that resets into the ROM leaves the trampoline at the entry   *)
(* point of the program, in the mode the program was compiled for, with a  *)
(* stack, having gone through nothing but what the image holds.            *)
RomReachesEntry ==
    Arrived /\ job.entry < job.z.code =>
        /\ Fetched(file, cpu) = [what |-> "code", from |-> job.entry]
        /\ cpu.mode = ModeFor(job.bits) /\ cpu.stack

\* And it does leave it: no instruction of the trampoline faults or loops.
RomArrives == (pc = "running") ~> Arrived

(* "0x60: aethela_logic [offset, size]" and "0x70: genesis_nexus": the     *)
(* constants and the nexus of a kernel image are where its header says     *)
(* (binary_weaver.asm, the layout above _weave_aki_structure).             *)
AkiZonesAsDocumented ==
    Succeeded /\ job.format = "aki" =>
        /\ Holds(file, header.zones.aethela.offset, AETHELA_BASE, "engine")
        /\ Holds(file, header.zones.nexus.offset, header.zones.nexus.size, "nexus")
=============================================================================

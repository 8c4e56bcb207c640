------------------------------ MODULE RomImage ------------------------------
(***************************************************************************)
(* The firmware image of formats/rom/rom_gen.c, and what an x86 machine    *)
(* does with it after reset.                                               *)
(*                                                                         *)
(* The image ends at 4 GB.  Addresses are counted from there, so that the  *)
(* reset vector is at -16 and the reset window, its last 64 KB, begins at  *)
(* -65536; zero stands for 4 GB itself.                                    *)
(***************************************************************************)
EXTENDS ZoneImages

ROM_WINDOW_SIZE == 65536
ROM_LOAD_BASE == -65536
ROM_RESET_VECTOR_SIZE == 16
KB64 == 65536
ROM_STACK32 == 654336
ROM_STACK64 == 654336

-----------------------------------------------------------------------------
(* A trampoline is a sequence of instructions, each with its size and its  *)
(* operand, followed by its tables.                                        *)

Instr(op, size, arg) == [op |-> op, size |-> size, arg |-> arg]
PlaceOf(program, i) == SumFunctionOnSet([k \in DOMAIN program |-> program[k].size], 1 .. i - 1)
LengthOf(program) == PlaceOf(program, Len(program) + 1)
PlaceOfOp(program, op) ==
    PlaceOf(program, CHOOSE i \in DOMAIN program : program[i].op = op)

\* build_trampoline16: a far pointer after the code, read through cs.
Trampoline16(entry) ==
    LET code == <<Instr("cli", 1, 0), Instr("clear segments", 2, 0), Instr("stack", 7, 31744),
                  Instr("jump through word", 5, 15), Instr("word", 2, 0)>>
    IN  [code EXCEPT ![5].arg = LengthOf(code) + entry]

(* What both others begin with: the A20 gate, the descriptor table, the    *)
(* protected mode bit and a far jump past itself that loads the code       *)
(* selector, then the data segments and a stack.                           *)
EnterProtected_LateTable(gdtr, pm32) ==
    <<Instr("cli", 1, 0), Instr("A20", 6, 0), Instr("set PE", 12, 0),
      Instr("far jump", 8, [sel |-> 8, to |-> ROM_LOAD_BASE + pm32]), Instr("lgdt", 7, gdtr),
      Instr("data segments", 10, 16), Instr("stack", 5, ROM_STACK32)>>
EnterProtected(gdtr, pm32) ==
    <<Instr("cli", 1, 0), Instr("A20", 6, 0), Instr("lgdt", 7, gdtr),
      Instr("set PE", 12, 0), Instr("far jump", 8, [sel |-> 8, to |-> ROM_LOAD_BASE + pm32]),
      Instr("data segments", 10, 16), Instr("stack", 5, ROM_STACK32)>>

Descriptors(kinds) == [i \in DOMAIN kinds |-> Instr(kinds[i], 8, 0)]

\* build_trampoline32
Trampoline32(entry) ==
    LET build(gdtr, pm32) ==
          EnterProtected(gdtr, pm32)
          \o <<Instr("load entry", 5, entry), Instr("jump", 2, 0),
               Instr("gdtr", 6, [limit |-> 3 * 8 - 1, base |-> ROM_LOAD_BASE + gdtr + 6])>>
          \o Descriptors(<<"null", "code32", "data">>)
        draft == build(0, 0)
    IN  build(PlaceOfOp(draft, "gdtr"), PlaceOfOp(draft, "data segments"))

\* Six pages: one root, one directory of four, and the four, each for a GB.
PageTables(tables) ==
    <<Instr("PML4", 4096, ROM_LOAD_BASE + tables + 4096),
      Instr("PDPT", 4096, [i \in 0 .. 3 |-> ROM_LOAD_BASE + tables + 8192 + 4096 * i])>>
    \o [i \in 1 .. 4 |-> Instr("PD", 4096, i - 1)]

(* build_trampoline64: on to long mode over page tables of its own, which  *)
(* map the first 4 GB to themselves.                                       *)
Trampoline64(entry) ==
    LET build(gdtr, pm32, lm64, padding, tables) ==
          EnterProtected(gdtr, pm32)
          \o <<Instr("set PAE", 9, 0), Instr("set LME", 14, 0), Instr("load CR3", 8, ROM_LOAD_BASE + tables),
               Instr("set PG", 11, 0), Instr("far jump long", 7, [sel |-> 24, to |-> ROM_LOAD_BASE + lm64]),
               Instr("data segments again", 10, 16), Instr("stack again", 10, ROM_STACK64),
               Instr("load entry", 10, entry), Instr("jump", 2, 0),
               Instr("gdtr", 6, [limit |-> 4 * 8 - 1, base |-> ROM_LOAD_BASE + gdtr + 6])>>
          \o Descriptors(<<"null", "code32", "data", "code64">>)
          \o <<Instr("padding", padding, 0)>> \o PageTables(tables)
        draft == build(0, 0, 0, 0, 0)
        padding == AlignUp(PlaceOfOp(draft, "padding"), 4096) - PlaceOfOp(draft, "padding")
        tables == PlaceOfOp(draft, "padding") + padding
    IN  build(PlaceOfOp(draft, "gdtr"), PlaceOfOp(draft, "data segments"),
              PlaceOfOp(draft, "data segments again"), padding, tables)

-----------------------------------------------------------------------------
(* rom_generate_image, a size of zero having been replaced by its default. *)
(* In 16 bits the code follows the trampoline, in the reset window;        *)
(* otherwise it follows the header, below the window.                      *)

RomZones(z, act) ==
    [act |-> Zone(act, z.code), mirror |-> Zone(act + z.code, z.mirror),
     truth |-> Zone(act + z.code + z.mirror, z.truth)]
PayloadEnd(z, act) == act + z.code + z.mirror + z.truth

RomTrampoline_Unbased(bits, size, entry) ==
    IF bits = 16 THEN Trampoline16(entry)
    ELSE IF bits = 32 THEN Trampoline32(entry - size)
    ELSE Trampoline64(entry - size)
RomTrampoline(bits, size, entry) ==
    IF bits = 16 THEN Trampoline16(entry)
    ELSE IF bits = 32 THEN Trampoline32(HEADER_SIZE - size + entry)
    ELSE Trampoline64(HEADER_SIZE - size + entry)

ActFlowAt(bits, size, entry) ==
    IF bits = 16 THEN size - ROM_WINDOW_SIZE + LengthOf(Trampoline16(entry)) ELSE HEADER_SIZE

RomAccepted(z, bits, size, entry) ==
    LET window == size - ROM_WINDOW_SIZE
        end == PayloadEnd(z, ActFlowAt(bits, size, entry))
    IN  /\ size >= ROM_WINDOW_SIZE
        /\ (size - 1) \div KB64 < KB64      \* at most 4 GB
        /\ entry <= z.code
        /\ \/ /\ bits = 16
              /\ LengthOf(Trampoline16(entry)) + entry < KB64
              /\ end <= size - ROM_RESET_VECTOR_SIZE
           \/ bits \in {32, 64} /\ end <= window

RomHeader(z, bits, size, entry) ==
    Sealed([HeaderInit("ROM!", [bits |-> bits]) EXCEPT
              !.genesis = entry, !.zones = RomZones(z, ActFlowAt(bits, size, entry))], "from zero")

(* The file is filled, then the header, the trampoline, the zones and the  *)
(* reset vector are put into it.                                           *)
RomWrites(z, bits, size, entry) ==
    LET zones == RomZones(z, ActFlowAt(bits, size, entry))
        put(name) == IF zones[name].size = 0 THEN <<>>
                     ELSE <<CheckedAt(zones[name].offset, TagOf(name), zones[name].size)>>
    IN  <<Checked("fill", size), CheckedAt(0, "header", HEADER_SIZE),
          CheckedAt(size - ROM_WINDOW_SIZE, "trampoline", LengthOf(RomTrampoline(bits, size, entry)))>>
        \o put("act") \o put("mirror") \o put("truth")
        \o <<CheckedAt(size - ROM_RESET_VECTOR_SIZE, "reset vector", ROM_RESET_VECTOR_SIZE)>>

\* Closing is not checked.
RomPlan(z, bits, size, entry) ==
    Plan(RomAccepted(z, bits, size, entry), RomHeader(z, bits, size, entry),
         RomWrites(z, bits, size, entry), FALSE)

-----------------------------------------------------------------------------
(* The machine.  After reset the code segment is based at the window and   *)
(* the instruction pointer is at its end.  gdt is the base and limit of    *)
(* the descriptor table, target what the entry was loaded from.            *)

Reset == [mode |-> "real", base |-> ROM_LOAD_BASE, ip |-> KB64 - ROM_RESET_VECTOR_SIZE,
          gdt |-> [limit |-> 0, base |-> 0], pe |-> FALSE, pae |-> FALSE, lme |-> FALSE,
          cr3 |-> 0, pg |-> FALSE, stack |-> FALSE, target |-> 0]

\* What the machine finds at an address, and at the address its ip points to.
FoundAt(file, address) == Content(file, file.size + address, 1)
Fetched(file, cpu) == FoundAt(file, cpu.base + cpu.ip)

\* The instruction or the table that begins at a place of the trampoline.
AtPlace(program, place) == {i \in DOMAIN program : PlaceOf(program, i) = place}
EntryAt(file, program, address) ==
    IF address < 0 /\ FoundAt(file, address).what = "trampoline"
    THEN {program[i] : i \in AtPlace(program, FoundAt(file, address).from)}
    ELSE {}

\* The segment descriptor a selector names, if the table has it.
DescriptorOf(file, program, gdt, sel) ==
    IF sel + 7 > gdt.limit THEN {} ELSE {d.op : d \in EntryAt(file, program, gdt.base + sel)}

\* The tables a CR3 leads to map the 4 GB to themselves.
MapsToItself(file, program, cr3) ==
    \E pml4 \in EntryAt(file, program, cr3) :
        /\ pml4.op = "PML4"
        /\ \E pdpt \in EntryAt(file, program, pml4.arg) :
              /\ pdpt.op = "PDPT"
              /\ \A i \in 0 .. 3 : \E pd \in EntryAt(file, program, pdpt.arg[i]) :
                    pd.op = "PD" /\ pd.arg = i

\* What an instruction does, if the machine can carry it out at all.
Executed(file, program, cpu, n) ==
    LET next == [cpu EXCEPT !.ip = @ + n.size]
    IN  CASE n.op \in {"cli", "clear segments", "A20", "data segments again"} -> {next}
          [] n.op \in {"stack", "stack again"} -> {[next EXCEPT !.stack = TRUE]}
          [] n.op = "jump through word" ->
               {[cpu EXCEPT !.ip = w.arg] : w \in EntryAt(file, program, cpu.base + n.arg)}
          [] n.op = "lgdt" ->
               {[next EXCEPT !.gdt = g.arg] : g \in EntryAt(file, program, cpu.base + n.arg)}
          [] n.op = "set PE" -> {[next EXCEPT !.pe = TRUE]}
          [] n.op = "far jump" ->
               {[cpu EXCEPT !.mode = "protected", !.base = 0, !.ip = n.arg.to] :
                    d \in DescriptorOf(file, program, cpu.gdt, n.arg.sel) \cap {"code32"}}
          [] n.op = "data segments" ->
               {next : d \in DescriptorOf(file, program, cpu.gdt, n.arg) \cap {"data"}}
          [] n.op = "set PAE" -> {[next EXCEPT !.pae = TRUE]}
          [] n.op = "set LME" -> {[next EXCEPT !.lme = TRUE]}
          [] n.op = "load CR3" -> {[next EXCEPT !.cr3 = n.arg]}
          [] n.op = "set PG" ->
               IF cpu.pe /\ cpu.pae /\ cpu.lme /\ MapsToItself(file, program, cpu.cr3)
               THEN {[next EXCEPT !.pg = TRUE]} ELSE {}
          [] n.op = "far jump long" ->
               {[cpu EXCEPT !.mode = "long", !.ip = n.arg.to] :
                    d \in DescriptorOf(file, program, cpu.gdt, n.arg.sel) \cap {"code64"}}
          [] n.op = "load entry" -> {[next EXCEPT !.target = n.arg]}
          [] n.op = "jump" -> {[cpu EXCEPT !.ip = cpu.target]}
          [] OTHER -> {}

(* The reset vector is a near jump of 13 past its three bytes; in real     *)
(* mode the pointer wraps at 64 KB.                                        *)
AfterReset(cpu) == [cpu EXCEPT !.ip = (@ + 3 + 13) % KB64]

ModeFor(bits) == CASE bits = 16 -> "real" [] bits = 32 -> "protected" [] bits = 64 -> "long"
=============================================================================

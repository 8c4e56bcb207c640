---------------------------- MODULE MCContainers ----------------------------
(* One image at a time, for every format: zones that are empty, odd, or    *)
(* beyond a page, entry points at both ends, and sizes at the limits of    *)
(* the formats.                                                            *)
EXTENDS ContainersCorrect

Z(code, mirror, truth, relocs, symbols, strtab) ==
    [code |-> code, mirror |-> mirror, truth |-> truth, relocs |-> relocs,
     symbols |-> symbols, strtab |-> strtab, entry |-> 0]

Zones == {Z(0, 0, 0, 0, 0, 0), Z(1, 0, 0, 0, 0, 0), Z(500, 0, 40, 0, 1, 5), Z(513, 7, 0, 2, 0, 0),
          Z(1030, 514, 33, 1, 2, 9), Z(4097, 450, 4096, 3, 1, 1)}

Plain == {[format |-> f, z |-> z] :
             f \in {"srv", "hda", "ax", "aetb", "aki direct", "srv direct", "hda direct", "iya",
                    "aki", "aki woven", "hda woven", "srv woven", "aetb woven"}, z \in Zones}

Entered(formats, extra) ==
    {[format |-> f, z |-> z, entry |-> entry] @@ x :
        f \in formats, z \in {y \in Zones : y.code # 1}, entry \in {0, 300, 500}, x \in extra}

Bins == Entered({"bin"}, {[flat |-> b] : b \in BOOLEAN})

\* Functions at 0, 300 and, of the same look as the one at 300, at 44.
Efis == Entered({"efi"}, {[starts |-> s] : s \in {<<>>, (0 :> 7 @@ 300 :> 7), (44 :> 7 @@ 300 :> 7)}})
Pes == {j \in Entered({"pe"}, {<<>>}) : j.entry < j.z.code \/ j.z.code = 0}

Call(at, name) == [at |-> at, name |-> name]
Systems == {j \in Entered({"sys"},
                {[calls |-> c, arm |-> arm] :
                   c \in {<<>>, <<Call(40, "IoCreateDevice"), Call(492, "DbgPrint")>>,
                          <<Call(20, "DbgPrint"), Call(60, "ExAllocatePoolWithTag"),
                            Call(100, "DbgPrint"), Call(495, "IoCreateDevice")>>},
                   arm \in BOOLEAN}) : j.entry < j.z.code \/ j.z.code = 0}

Apple == {[format |-> "macho", z |-> z, base |-> base] : z \in Zones, base \in {0, 8, 65536}}
         \cup {[format |-> "macho", z |-> Z(n, 0, 5, 0, 0, 0), base |-> 0] :
                  n \in {4096, 1024 * 1024 - 8192, 1024 * 1024}}
         \cup {[format |-> "im4p", z |-> z, base |-> 0, identifier |-> n] :
                  z \in {Z(500, 0, 40, 0, 1, 5), Z(4097, 450, 4096, 3, 1, 1),
                         Z(80000, 7, 9, 0, 0, 0)},
                  n \in {0, 4, 81, 208, 209, 256, 257}}

Roms == {[format |-> "rom", z |-> z, bits |-> bits, size |-> size, entry |-> entry] :
            z \in {Z(500, 0, 40, 0, 1, 5), Z(1030, 514, 33, 1, 2, 9), Z(65000, 400, 4, 0, 0, 0),
                   Z(130000, 800, 16, 0, 0, 0)},
            bits \in {16, 32, 64}, size \in {65535, 65536, 65792, 131072, 262144},
            entry \in {0, 499, 500}}

MCJobs == Plain \cup Bins \cup Efis \cup Pes \cup Systems \cup Apple \cup Roms
=============================================================================

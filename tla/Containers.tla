----------------------------- MODULE Containers -----------------------------
(***************************************************************************)
(* The last step of a compilation: one image is written, by the writer of  *)
(* its format, while the system may fail to open the file, may write less  *)
(* than it was asked to, and may lose what stdio still holds when the file *)
(* is closed.  Then what was written is used: read through its headers,    *)
(* or, for a ROM, run.                                                     *)
(*                                                                         *)
(* One writer runs at a time and nothing is retried, but two formats take  *)
(* two steps: a flat binary whose assembly weaver fails is written again   *)
(* in C, and an IM4P container is made from a Mach-O file that has been    *)
(* written and read back.                                                  *)
(***************************************************************************)
EXTENDS AsmWeavers, PeImages, AppleImages, RomImage

CONSTANT Jobs    \* what the driver may be asked for: records [format, z, ...]

ImageFormats ==
    {"srv", "hda", "ax", "aetb", "aki direct", "srv direct", "hda direct", "iya", "aki", "aki woven",
     "hda woven", "srv woven", "aetb woven", "bin", "efi", "pe", "sys", "macho", "im4p", "rom"}

(* Sizes, counts and entry points are unsigned.  The scores of an EFI      *)
(* entry are numbers.  The markers of a driver are in order and apart: the *)
(* scan goes on behind what it patched.                                    *)
MarkersApart(j) ==
    \A k, l \in DOMAIN j.calls :
        k < l => j.calls[k].at + (IF j.arm THEN 8 ELSE 4) <= j.calls[l].at
JobOK(j) ==
    /\ j.format \in ImageFormats
    /\ {j.z.code, j.z.mirror, j.z.truth, j.z.relocs, j.z.symbols, j.z.strtab} \subseteq Nat
    /\ j.format \in {"bin", "efi", "pe", "sys", "rom"} => j.entry \in Nat
    /\ j.format = "bin" => j.flat \in BOOLEAN
    /\ j.format = "efi" => \A place \in DOMAIN j.starts : place \in Nat /\ j.starts[place] \in Nat
    /\ j.format = "sys" => /\ j.arm \in BOOLEAN
                          /\ j.calls \in Seq([at : Nat, name : DOMAIN ImportNames])
                          /\ MarkersApart(j)
    /\ j.format = "im4p" => j.identifier \in Nat
    /\ j.format = "rom" => j.size \in Nat

ASSUME JobsAssumption == \A j \in Jobs : JobOK(j)

VARIABLES
    job, stage, pc,
    todo,        \* the writes still to be made
    header,      \* what the header written says
    target,      \* where the writes go: the file, or stderr
    file,        \* the output file, NoFile when there is none
    temp,        \* the Mach-O file an IM4P container is made from
    result, lost,\* what the writer returned; whether bytes of the image are missing
    cpu          \* the machine the ROM is plugged into

vars == <<job, stage, pc, todo, header, target, file, temp, result, lost, cpu>>

PlanOf(j, s, macho) ==
    CASE j.format = "srv"  -> SrvPlan(j.z)
      [] j.format = "hda"  -> HdaPlan(j.z)
      [] j.format = "ax"   -> AxPlan(j.z)
      [] j.format = "aetb" -> AetbPlan(j.z)
      [] j.format = "aki direct" -> AkiDirect(j.z)
      [] j.format = "srv direct" -> SrvDirect(j.z)
      [] j.format = "hda direct" -> HdaDirect(j.z)
      [] j.format = "iya"  -> IyaPlan(j.z.mirror, j.z.code)
      [] j.format = "aki"  -> AkiPlan(KernelInput(j.z))
      [] j.format = "aki woven"  -> AkiPlan(EmbryoInput(j.z))
      [] j.format = "hda woven"  -> AsmHdaPlan(EmbryoInput(j.z))
      [] j.format = "srv woven"  -> AsmSrvPlan(EmbryoInput(j.z))
      [] j.format = "aetb woven" -> AsmAetbPlan(EmbryoInput(j.z))
      [] j.format = "bin"  -> IF s = "fallback" THEN BinFallbackPlan(j.z, j.entry, j.flat)
                              ELSE BinPlan(j.z, j.entry, j.flat)
      [] j.format = "efi"  -> EfiPlan(j.z, j.starts, j.entry)
      [] j.format = "pe"   -> IndustrialPlan(j.z, j.entry)
      [] j.format = "sys"  -> DriverPlan(j.z, j.entry, j.calls, j.arm)
      [] j.format = "macho" -> MachoPlan(j.z, j.base)
      [] j.format = "im4p" -> IF s = "temp" THEN MachoPlan(j.z, j.base)
                              ELSE Im4pPlan(macho, j.identifier)
      [] j.format = "rom"  -> RomPlan(j.z, j.bits, j.size, j.entry)

CurrentPlan == PlanOf(job, stage, temp)

Init ==
    /\ job \in Jobs
    /\ stage = IF job.format = "im4p" THEN "temp" ELSE "main"
    /\ pc = "start"
    /\ todo = <<>> /\ header = <<>> /\ target = "file"
    /\ file = NoFile /\ temp = NoFile
    /\ result = 0 /\ lost = FALSE /\ cpu = Reset

-----------------------------------------------------------------------------
(* Writing. *)

Refuse ==
    /\ pc = "start" /\ ~CurrentPlan.accepts
    /\ pc' = "returned" /\ result' = -1
    /\ UNCHANGED <<job, stage, todo, header, target, file, temp, lost, cpu>>

Open ==
    /\ pc = "start"
    /\ \E plan \in {CurrentPlan} :
         /\ plan.accepts /\ plan.opens
         /\ todo' = plan.writes /\ header' = plan.header
    /\ target' = "file" /\ file' = EmptyFile
    /\ pc' = "writing" /\ result' = 0
    /\ lost' = (lost /\ temp # NoFile)    \* the fallback begins again, an IM4P does not
    /\ UNCHANGED <<job, stage, temp, cpu>>

(* The directory is missing or may not be written.  The system calls of    *)
(* Darwin answer with a positive error number, and 2, for the missing one, *)
(* is also the handle of stderr.                                           *)
OpenFails ==
    /\ pc = "start"
    /\ \E plan \in {CurrentPlan} :
         /\ plan.accepts
         /\ todo' = plan.writes /\ header' = plan.header
         /\ \/ pc' = "returned" /\ result' = -1 /\ target' = target
            \/ plan.errnoIsHandle /\ pc' = "writing" /\ result' = 0 /\ target' = "stderr"
    /\ file' = NoFile /\ lost' = TRUE
    /\ UNCHANGED <<job, stage, temp, cpu>>

Put(write) ==
    IF target = "stderr" THEN NoFile
    ELSE IF write.at = END_OF_FILE THEN Appended(file, write.piece)
    ELSE Overlay(file, write.at, write.piece)

\* What a write of no bytes would do, made or not.
SkipEmpty ==
    /\ pc = "writing" /\ todo # <<>> /\ Head(todo).piece.size = 0
    /\ todo' = Tail(todo)
    /\ UNCHANGED <<job, stage, pc, header, target, file, temp, result, lost, cpu>>

WriteNext ==
    /\ pc = "writing" /\ todo # <<>> /\ Head(todo).piece.size > 0 /\ Head(todo).reaches
    /\ file' = Put(Head(todo))
    /\ todo' = Tail(todo)
    /\ IF Head(todo).compared /\ Head(todo).count # Head(todo).piece.size
       THEN pc' = "returned" /\ result' = -1
       ELSE UNCHANGED <<pc, result>>
    /\ UNCHANGED <<job, stage, header, target, temp, lost, cpu>>

(* The disk is full, or there is no handle to write to.  A writer that     *)
(* does not look goes on.                                                  *)
WriteFails ==
    /\ pc = "writing" /\ todo # <<>> /\ Head(todo).piece.size > 0 /\ target = "file"
    /\ todo' = Tail(todo) /\ lost' = TRUE
    /\ IF Head(todo).compared
       THEN pc' = "returned" /\ result' = -1
       ELSE UNCHANGED <<pc, result>>
    /\ UNCHANGED <<job, stage, header, target, file, temp, cpu>>

Close ==
    /\ pc = "writing" /\ todo = <<>>
    /\ pc' = "returned"
    /\ UNCHANGED <<job, stage, todo, header, target, file, temp, result, lost, cpu>>

\* What was still in the buffer of the library is lost.
FlushFails_Ignored ==
    /\ pc = "writing" /\ todo = <<>> /\ target = "file"
    /\ file' = IF HEADER_SIZE < file.size THEN Cut(file, HEADER_SIZE) ELSE EmptyFile
    /\ lost' = TRUE /\ pc' = "returned" /\ result' = 0
    /\ UNCHANGED <<job, stage, todo, header, target, temp, cpu>>
FlushFails ==
    /\ pc = "writing" /\ todo = <<>> /\ target = "file"
    /\ \E n \in {0, HEADER_SIZE} : file' = IF n < file.size THEN Cut(file, n) ELSE EmptyFile
    /\ lost' = TRUE /\ pc' = "returned"
    /\ result' = IF CurrentPlan.closeChecked THEN -1 ELSE 0
    /\ UNCHANGED <<job, stage, todo, header, target, temp, cpu>>

-----------------------------------------------------------------------------
(* The driver. *)

\* let_weave_to_target: what the assembly weaver could not write is written in C.
Fallback ==
    /\ pc = "returned" /\ job.format = "bin" /\ stage = "main"
    /\ \/ result # 0
       \/ file.size = 0 /\ job.z.code > job.entry
    /\ stage' = "fallback" /\ pc' = "start" /\ target' = "file"
    /\ UNCHANGED <<job, todo, header, file, temp, result, lost, cpu>>

(* The Mach-O file is read back, as long as it is found to be; the error   *)
(* of making it is the error of the compilation.                           *)
ReadBack ==
    /\ pc = "returned" /\ stage = "temp" /\ result = 0 /\ file # NoFile
    /\ temp' = file /\ file' = NoFile
    /\ stage' = "main" /\ pc' = "start"
    /\ UNCHANGED <<job, todo, header, target, result, lost, cpu>>

\* run_compiler: the output of a failed writer is removed.
Finish ==
    /\ pc = "returned"
    /\ stage = "temp" => result # 0
    /\ ~(job.format = "bin" /\ stage = "main" /\ (result # 0 \/ (file.size = 0 /\ job.z.code > job.entry)))
    /\ pc' = "done"
    /\ file' = IF result # 0 THEN NoFile ELSE file
    /\ UNCHANGED <<job, stage, todo, header, target, temp, result, lost, cpu>>

-----------------------------------------------------------------------------
(* The machine a ROM is for. *)

Program == RomTrampoline(job.bits, job.size, job.entry)

PowerOn ==
    /\ pc = "done" /\ job.format = "rom" /\ result = 0 /\ ~lost
    /\ pc' = "running" /\ cpu' = Reset
    /\ UNCHANGED <<job, stage, todo, header, target, file, temp, result, lost>>

CpuReset ==
    /\ pc = "running" /\ Fetched(file, cpu) = [what |-> "reset vector", from |-> 0]
    /\ cpu' = AfterReset(cpu)
    /\ UNCHANGED <<job, stage, pc, todo, header, target, file, temp, result, lost>>

CpuStep ==
    /\ pc = "running" /\ Fetched(file, cpu).what = "trampoline"
    /\ \E program \in {Program} :
         \E i \in AtPlace(program, Fetched(file, cpu).from) :
            cpu' \in Executed(file, program, cpu, program[i])
    /\ UNCHANGED <<job, stage, pc, todo, header, target, file, temp, result, lost>>

\* The trampoline has been left: the program runs, or the machine has gone astray.
Arrived == pc = "running" /\ Fetched(file, cpu).what \notin {"reset vector", "trampoline"}

Writing == Refuse \/ Open \/ OpenFails \/ SkipEmpty \/ WriteNext \/ WriteFails \/ Close \/ FlushFails
Running == PowerOn \/ CpuReset \/ CpuStep
Next == Writing \/ Fallback \/ ReadBack \/ Finish \/ Running

\* A machine that is switched on executes.
Spec == Init /\ [][Next]_vars /\ WF_vars(Running)
=============================================================================

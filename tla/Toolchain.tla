----------------------------- MODULE Toolchain -----------------------------
(***************************************************************************)
(* What a build script relies on when it calls the compiler again and      *)
(* again: a command is one step.  It writes its output and no other file;  *)
(* when it reports success the output is its own, of source files that are *)
(* sound or of an embryo that was; when it reports a failure the output is *)
(* the old one or none, but for the writers that leave what they wrote.    *)
(***************************************************************************)
EXTENDS Integers, Sequences

CONSTANTS
    Sessions,   \* the command sequences to run
    Imposing,   \* the formats that impose the architect's mode
    Careless,   \* the formats whose writers leave what they wrote
    Sound       \* the source files that may be built, each with the mode

VARIABLES session, run, disk, status

vars == <<session, run, disk, status>>

Files == {"embryo", "output"}

Absent == [kind |-> "absent"]

command == session[run + 1]
mode == command.architect \/ command.format \in Imposing

\* What a write that failed unnoticed, or was given up, leaves.
Partial == [kind |-> "partial", run |-> run + 1]

Artefact(kind, sources, architect) ==
    [kind |-> kind, run |-> run + 1, sources |-> sources, architect |-> architect]

Init ==
    /\ session \in Sessions
    /\ run = 0
    /\ disk = [p \in Files |-> Absent]
    /\ status = 0

Leaves(outcomes) ==
    /\ run < Len(session) /\ run' = run + 1
    /\ \E left \in outcomes : disk' = [disk EXCEPT ![command.to] = left]
    /\ UNCHANGED session

\* An embryo is written with all of its sources in it, or the command fails.
Compile ==
    /\ command.kind = "compile" /\ command.files # <<>>
    /\ \A k \in DOMAIN command.files : <<command.files[k], mode>> \in Sound
    /\ Leaves(IF command.format = "LET" THEN {Artefact("let", command.files, mode)}
              ELSE {Artefact("image", command.files, mode), Partial})
    /\ status' = 0

\* A single file with assembly in it goes to the assembler unread.
Assemble ==
    /\ command.kind = "compile" /\ command.format = "BIN" /\ Len(command.files) = 1
    /\ Leaves({Artefact("assembly", command.files, mode)})
    /\ status' = 0

\* An image woven from an embryo is one of the embryo's sources, in its mode.
Weave ==
    /\ command.kind = "weave" /\ disk["embryo"].kind = "let"
    /\ Leaves({Artefact("image", disk["embryo"].sources, disk["embryo"].architect), Partial})
    /\ status' = 0

Fail ==
    /\ Leaves({disk[command.to],
               IF command.kind = "compile" /\ command.format \notin Careless THEN Absent ELSE Partial})
    /\ status' \in 1 .. 255

Next == Compile \/ Assemble \/ Weave \/ Fail

Spec == Init /\ [][Next]_vars
=============================================================================

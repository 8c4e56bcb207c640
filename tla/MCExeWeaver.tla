---------------------------- MODULE MCExeWeaver ----------------------------
(* A small instance of ExeWeaver: three functions of one library and one   *)
(* of another, up to three calls and one constant reference in a program,  *)
(* sizes around a page.                                                    *)
EXTENDS ExeWeaver, TLC

MCSpecs == << [dll |-> "ntdll", function |-> "NtWriteFile"],
              [dll |-> "user32", function |-> "MessageBoxA"],
              [dll |-> "ntdll", function |-> "NtTerminateProcess"],
              [dll |-> "ntdll", function |-> "NtClose"] >>

MCStrLen == [n \in {"ntdll", "user32", "NtWriteFile", "MessageBoxA",
                    "NtTerminateProcess", "NtClose"} |->
                CASE n = "ntdll" -> 9 [] n = "user32" -> 10 [] n = "NtClose" -> 7
                  [] n = "NtTerminateProcess" -> 18 [] OTHER -> 11]

CallSites == {1, 6, 11}

\* One program for every choice of sizes and of a function, or none, at each
\* call site; a program with constants refers to the last of them.
MCPrograms ==
    { [codeSize |-> size, mirrorSize |-> mirror, truthSize |-> truth, entry |-> size - 1,
       sites |-> [h \in {h \in CallSites : calls[h] # 0} |-> calls[h]],
       refs |-> [h \in {h \in {17} : truth > 0} |-> truth - 1]] :
      size \in {21, 4096, 4097}, mirror \in {0, 8, 4104}, truth \in {0, 513},
      calls \in [CallSites -> 0 .. Len(MCSpecs)] }
=============================================================================

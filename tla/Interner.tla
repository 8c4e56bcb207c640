------------------------------ MODULE Interner ------------------------------
(***************************************************************************)
(* What the parser relies on when it keeps ids in place of strings: an id  *)
(* is the name of one string, and a string that is long enough to be       *)
(* deduplicated has one id, until everything is forgotten.                 *)
(***************************************************************************)
EXTENDS Integers

CONSTANTS Strings, LenOf, MinDedupLen

VARIABLE ids    \* the <<id, string>> pairs that callers may hold

Init == ids = {}

\* An add is answered with a pair that goes with all those given before.
Fits(id, s) ==
  \A p \in ids : /\ p[1] = id => p[2] = s
                 /\ p[2] = s /\ LenOf[s] >= MinDedupLen => p[1] = id

Answer(s) ==
  \E p \in ids' : /\ p \in Nat \X {s}
                   /\ Fits(p[1], s)
                   /\ ids' = ids \cup {p}

Forget == ids' = {}

Next == (\E s \in Strings : Answer(s)) \/ Forget

Spec == Init /\ [][Next]_ids
=============================================================================

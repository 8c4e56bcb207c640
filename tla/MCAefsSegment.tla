--------------------------- MODULE MCAefsSegment ---------------------------
(* Instances of AefsSegment: one bitmap byte, so four blocks, under an     *)
(* index limit of eight as in the code (twice the bitmap), two sizes, and  *)
(* a word wide enough for four blocks of the larger size.                  *)
EXTENDS AefsSegment
=============================================================================

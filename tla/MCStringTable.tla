--------------------------- MODULE MCStringTable ---------------------------
(* Instances of StringTable: two strings that share hash and length, one   *)
(* that shares only a bucket, one too short to be deduplicated.            *)
EXTENDS StringTable, TLC

CONSTANTS a, b, c, d

MCStrings == {a, b, c, d}
MCLenOf == (a :> 4) @@ (b :> 4) @@ (c :> 5) @@ (d :> 2)
MCHashOf == (a :> 7) @@ (b :> 7) @@ (c :> 4) @@ (d :> 1)
MCPrimes == {3, 7, 13}
=============================================================================

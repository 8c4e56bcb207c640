------------------------------ MODULE MCAdlImage ------------------------------
(* A small layout: 8 entries in a FAT, room for 6 clusters in the ESP.     *)
EXTENDS AdlImage

Sizes == {0, 2, 10, 24, 27, 30, 38}
Files == 0..9
=============================================================================

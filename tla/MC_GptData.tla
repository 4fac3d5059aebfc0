---------------------------- MODULE MC_GptData ----------------------------
(* Instance of GptData for TLC: a table of two sectors, an alignment of    *)
(* three; the sizes are those of a drive without a medium, of drives too   *)
(* small for the two tables and for a partition, and just large enough.    *)
(* A made-up size may lie within the drive, beyond its end, or so far that *)
(* no offset leads there.                                                  *)
EXTENDS GptData

MCSizes == {0, 3, 6, 11}
MCMadeUp == {5, 24}
MCImages == {3}
MCGarbage == {61}
=============================================================================

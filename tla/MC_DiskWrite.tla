---------------------------- MODULE MC_DiskWrite ----------------------------
(***************************************************************************)
(* DiskWrite on two disks: a small one with small sectors and one with     *)
(* larger sectors.                                                         *)
(***************************************************************************)
EXTENDS DiskWrite, TLC

CONSTANTS d1, d2

MCDisks == {d1, d2}
MCCapacity == d1 :> 8 @@ d2 :> 12
MCDiskSector == d1 :> 2 @@ d2 :> 4
=============================================================================

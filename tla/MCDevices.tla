------------------------------ MODULE MCDevices ------------------------------
(***************************************************************************)
(* An instance of Devices for TLC: the disk and another device, a table of *)
(* two drivers, rings of two entries, indexes that wrap around after       *)
(* three, a readable sector and a bad one, a queue of three slots.  Disks  *)
(* report a queue that is smaller or larger than the rings.                *)
(***************************************************************************)
EXTENDS Devices

TwoSectors == {0, 1}
OneBad     == {1}
Queues     == {1, 3}
=============================================================================

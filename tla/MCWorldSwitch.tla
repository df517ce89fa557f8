---------------------------- MODULE MCWorldSwitch ----------------------------
(***************************************************************************)
(* Instances of WorldSwitch, and of SeeCommand which refines it, for TLC.  *)
(* Threads are interchangeable, and the runs check safety properties only, *)
(* so that symmetry is sound.                                              *)
(***************************************************************************)
EXTENDS SeeCommand, TLC

Symmetry == Permutations(Threads)
=============================================================================

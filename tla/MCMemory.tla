------------------------------- MODULE MCMemory -------------------------------
(***************************************************************************)
(* An instance of Memory for TLC.  The cores are interchangeable, and the  *)
(* run checks safety properties only, so that symmetry is sound.           *)
(***************************************************************************)
EXTENDS Memory, TLC

CoreSymmetry == Permutations(Cores)
SizesHere    == {1, 2, 3}
=============================================================================

---------------------------- MODULE MCDiskObjects ----------------------------
(***************************************************************************)
(* TLC instances of DiskObjects.                                           *)
(***************************************************************************)
EXTENDS DiskObjects, TLC

Symmetry == Permutations(Ops) \cup Permutations(Keys)
=============================================================================

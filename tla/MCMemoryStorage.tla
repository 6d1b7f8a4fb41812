--------------------------- MODULE MCMemoryStorage ---------------------------
(***************************************************************************)
(* TLC instances of MemoryStorage.                                         *)
(***************************************************************************)
EXTENDS MemoryStorage, TLC

Symmetry == Permutations(Ops) \cup Permutations(Refs) \cup Permutations(Keys)
=============================================================================

-------------------------- MODULE MCMemoryManager --------------------------
(* MemoryManager for TLC. *)
EXTENDS MemoryManager, TLC

Symmetry == Permutations(Thread)
=============================================================================

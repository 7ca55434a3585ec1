---------------------------- MODULE MCRefCount -----------------------------
(* RefCount for TLC: symmetric sets of handles and objects. *)
EXTENDS RefCount, TLC
Symmetry == Permutations(Handle) \cup Permutations(Obj)
=============================================================================

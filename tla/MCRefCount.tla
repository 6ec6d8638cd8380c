----------------------------- MODULE MCRefCount -----------------------------
(* Small instances of RefCount for TLC. *)
EXTENDS RefCount, TLC

(* Threads and references are interchangeable. *)
Symmetry == Permutations(Threads) \cup Permutations(Refs)
=============================================================================

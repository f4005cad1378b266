--------------------------- MODULE MCVersionedStore ---------------------------
(* Threads are interchangeable: what a call does depends on its arguments. *)
EXTENDS VersionedStore, TLC

Symmetry == Permutations(Callers)
=============================================================================

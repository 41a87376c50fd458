----------------------------- MODULE MCOrderings -----------------------------
(* Instances of Orderings for TLC.                                         *)
EXTENDS Orderings, TLC

\* Threads are interchangeable, which is sound for invariants.
Symmetry == Permutations(Threads)
=============================================================================

------------------------------ MODULE MCContext ------------------------------
(* Instances of Context for TLC.                                           *)
EXTENDS Context, TLC

\* Contexts are interchangeable, which is sound for invariants.
Symmetry == Permutations(Contexts)
=============================================================================

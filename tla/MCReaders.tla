------------------------------ MODULE MCReaders ------------------------------
(* Instances of Readers for TLC.                                           *)
EXTENDS Readers, TLC

\* The loads of other cells change nothing that the properties look at.
OnlineOnly == {cell \in Cells : cell[1] = "online"}

\* Markers are interchangeable, which is sound for invariants.
Symmetry == Permutations(Markers)
=============================================================================

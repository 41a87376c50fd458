---------------------------- MODULE MCCalibration ----------------------------
(* Instances of Calibration for TLC.                                       *)
EXTENDS Calibration, TLC

\* Markers and freezers are interchangeable, which is sound for invariants.
Symmetry == Permutations(Markers) \cup Permutations(Freezers)
=============================================================================

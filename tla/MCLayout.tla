------------------------------- MODULE MCLayout -------------------------------
(* Instances of Memory, and of Layout with it, for TLC.                    *)
EXTENDS Memory
=============================================================================

----------------------------- MODULE MCDiagnosis -----------------------------
(* Instances of Diagnosis for TLC.                                         *)
EXTENDS Diagnosis

TwoBuckets == <<2>>
UpperHalf == {<<4, 3>>, <<6, 3>>}

\* NaN, a threshold every available score meets, and one that few meet.
AnyPolicy == {None, <<-1, 1>>, <<2, 3>>}
=============================================================================

------------------------------ MODULE MCWindows ------------------------------
(* Instances of Windows for TLC.                                           *)
EXTENDS Windows, TLC

\* The cells that checkpoints of the instance write: with one stage no mark
\* has a predecessor, and a latency falls into the class of its bucket.
\* The loads of all other cells return zero.
WrittenCells ==
    {cell \in Cells :
        \/ cell[1] \in {"local", "cumulative"}
        \/ cell[1] = "calibration" /\ cell[3] # "PreviousCumulative"
             /\ cell[4] \in {CalibrationClass(l) : l \in Latencies}
        \/ cell[1] = "online" /\ cell[3] = "First"
        \/ cell[1] = "completion" /\ cell[3] \in Endings
        \/ cell = <<"diagnostics", "SkippedWhileFreezing">>}
=============================================================================

------------------------------ MODULE MCBuckets ------------------------------
(* Instances of Buckets for TLC.                                           *)
EXTENDS Buckets

\* Two ordinary intervals, with calibration buckets one and more wide.
SmallDefault == <<1, 5, 12>>
SmallCalibration == <<1, 2, 3, 4, 5, 6, 8, 10, 12>>

\* Every quantile a float with three significant bits can hold, down to a
\* subnormal whose denominator exceeds the product type.
SmallQuantiles ==
    {<<4, 2>>} \cup ((4 .. 7) \X (3 .. 4)) \cup {<<1, 5>>, <<1, 9>>}
Median == {<<4, 3>>}
=============================================================================

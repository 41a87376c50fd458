------------------------------- MODULE Buckets -------------------------------
(***************************************************************************)
(* Latency buckets and quantile estimates (bucket.rs): the ordinary grid,  *)
(* the calibration grid that splits each finite ordinary bucket in four,   *)
(* and the nearest-rank estimate a freeze publishes as a threshold.  A     *)
(* population grows sample by sample, as checkpoints record it, and an     *)
(* estimate may be asked for at any time.                                  *)
(***************************************************************************)
EXTENDS Ranks

CONSTANTS
    DefaultBounds,      \* DEFAULT_BOUNDS, ascending
    CalibrationBounds   \* CALIBRATION_BOUNDS, ascending

IsGrid(bounds) ==
    /\ bounds \in Seq(Nat \ {0})
    /\ \A i \in 1 .. Len(bounds) - 1 : bounds[i] < bounds[i + 1]

\* The tables are pinned: every ordinary bound is every fourth finer one.
ASSUME GridAssumption ==
    /\ IsGrid(DefaultBounds) /\ IsGrid(CalibrationBounds)
    /\ Len(CalibrationBounds) = 4 * (Len(DefaultBounds) - 1) + 1
    /\ \A i \in DOMAIN DefaultBounds :
          DefaultBounds[i] = CalibrationBounds[4 * (i - 1) + 1]

\* The pinned tables, up to their last ordinary bound below 2^31: the first
\* 225 calibration bounds, four to an ordinary interval.
DEFAULT_BOUNDS ==
    <<100, 135, 181, 244, 328, 442, 595, 800, 1077, 1450, 1951, 2626, 3535,
      4758, 6404, 8620, 11602, 15615, 21017, 28289, 38075, 51248, 68978,
      92841, 124961, 168192, 226380, 304699, 410113, 551995, 742964,
      1000000, 1345960, 1811609, 2438354, 3281928, 4417345, 5945571,
      8002502, 10771051, 14497407, 19512934, 26263635, 35349811, 47579443,
      64040043, 86195357, 116015530, 156152301, 210174801, 282886943,
      380754602, 512480588, 689778538, 928414545, 1249609141, 1681924325>>

CALIBRATION_BOUNDS ==
    <<100, 108, 116, 125, 135, 145, 156, 168, 181, 195, 210, 226, 244, 263,
      283, 305, 328, 353, 381, 410, 442, 476, 513, 552, 595, 641, 690, 743,
      800, 862, 928, 1000, 1077, 1160, 1250, 1346, 1450, 1562, 1682, 1811,
      1951, 2101, 2263, 2438, 2626, 2829, 3047, 3282, 3535, 3808, 4101,
      4417, 4758, 5125, 5520, 5946, 6404, 6898, 7430, 8003, 8620, 9285,
      10000, 10772, 11602, 12496, 13460, 14497, 15615, 16819, 18116, 19513,
      21017, 22638, 24383, 26264, 28289, 30470, 32819, 35350, 38075, 41011,
      44173, 47579, 51248, 55200, 59456, 64040, 68978, 74296, 80025, 86195,
      92841, 100000, 107710, 116015, 124961, 134596, 144974, 156152, 168192,
      181161, 195129, 210174, 226380, 243835, 262636, 282887, 304699,
      328193, 353498, 380755, 410113, 441735, 475794, 512480, 551995,
      594557, 640400, 689778, 742964, 800250, 861954, 928415, 1000000,
      1077105, 1160155, 1249609, 1345960, 1449740, 1561523, 1681924,
      1811609, 1951293, 2101748, 2263803, 2438354, 2626363, 2828869,
      3046990, 3281928, 3534981, 3807546, 4101127, 4417345, 4757945,
      5124806, 5519955, 5945571, 6404004, 6897785, 7429639, 8002502,
      8619536, 9284145, 10000000, 10771051, 11601553, 12496092, 13459604,
      14497407, 15615230, 16819243, 18116092, 19512934, 21017480, 22638034,
      24383541, 26263635, 28288694, 30469896, 32819279, 35349811, 38075460,
      41011271, 44173447, 47579443, 51248059, 55199543, 59455707, 64040043,
      68977854, 74296395, 80025023, 86195357, 92841455, 100000000,
      107710506, 116015530, 124960914, 134596032, 144974067, 156152301,
      168192433, 181160920, 195129342, 210174801, 226380341, 243835410,
      262636352, 282886943, 304698957, 328192787, 353498110, 380754602,
      410112707, 441734470, 475794432, 512480588, 551995432, 594557071,
      640400427, 689778538, 742963951, 800250228, 861953567, 928414545,
      1000000000, 1077105056, 1160155302, 1249609141, 1345960324,
      1449740670, 1561523006, 1681924325>>

VARIABLES
    counts,     \* one counter per calibration bucket, from 0
    sampled     \* history: how often each latency was sampled

vars == <<counts, sampled>>

CalibrationBuckets == 0 .. Len(CalibrationBounds)

Init ==
    /\ counts = [b \in CalibrationBuckets |-> 0]
    /\ sampled = [ns \in Latencies |-> 0]

-----------------------------------------------------------------------------
(* Buckets.                                                                *)

DefaultBucketize(ns) == Bucketize(ns, DefaultBounds)

\* Mutant: the subsearch starts one calibration bucket too early.
CalibrationBucketizeShifted(ns, bucket) ==
    IF bucket = 0 THEN 0
    ELSE IF bucket = Len(DefaultBounds) THEN Len(CalibrationBounds)
    ELSE LET first == (bucket - 1) * 4
         IN  first + Bucketize(ns, SubSeq(CalibrationBounds, first + 1, first + 3))

\* Only the calibration buckets inside the ordinary bucket are searched.
CalibrationBucketize(ns, bucket) ==
    IF bucket = 0 THEN 0
    ELSE IF bucket = Len(DefaultBounds) THEN Len(CalibrationBounds)
    ELSE LET first == 1 + (bucket - 1) * 4
         IN  first + Bucketize(ns, SubSeq(CalibrationBounds, first + 1, first + 3))

-----------------------------------------------------------------------------
(* Estimates.                                                              *)

\* Mutant: the harmonic mean is rounded up.
FiniteRepresentativeUp(lower, upper) ==
    (2 * lower * upper + lower + upper - 1) \div (lower + upper)

\* The harmonic mean of the bounds, rounded half up.
FiniteRepresentative(lower, upper) ==
    LET numerator == 2 * lower * upper
        denominator == lower + upper
    IN  numerator \div denominator
        + (IF numerator % denominator >= (denominator + 1) \div 2 THEN 1 ELSE 0)

Estimate(q) ==
    LET selection == NearestRank(counts, q)
        bucket == selection.bucket
    IN  IF selection = None THEN None
        ELSE IF bucket = 0
        THEN [rank |-> selection.rank, terminal |-> "Lower", lower |-> None,
              upper |-> CalibrationBounds[1], value |-> None]
        ELSE IF bucket = Len(CalibrationBounds)
        THEN [rank |-> selection.rank, terminal |-> "Upper",
              lower |-> CalibrationBounds[Len(CalibrationBounds)],
              upper |-> None, value |-> None]
        ELSE [rank |-> selection.rank, terminal |-> "Finite",
              lower |-> CalibrationBounds[bucket],
              upper |-> CalibrationBounds[bucket + 1],
              value |-> FiniteRepresentative(CalibrationBounds[bucket],
                                             CalibrationBounds[bucket + 1])]

-----------------------------------------------------------------------------

\* A checkpoint samples its latency into one calibration bucket.
Record(ns) ==
    /\ Samples(counts) < MaxSamples
    /\ counts' = [counts EXCEPT ![CalibrationBucketize(ns, DefaultBucketize(ns))] = @ + 1]
    /\ sampled' = [sampled EXCEPT ![ns] = @ + 1]

Next == \E ns \in Latencies : Record(ns)

Spec == Init /\ [][Next]_vars

-----------------------------------------------------------------------------
(* Properties.                                                             *)

\* The samples in the population that are at most ns.
UpTo(ns) == SumFunctionOnSet(sampled, {l \in Latencies : l =< ns})

\* The k-th smallest sample.
Smallest(k) == Min({l \in Latencies : UpTo(l) >= k})

\* The exact rank: the fewest samples whose share reaches the quantile.
ExactRank(q) ==
    Min({k \in 1 .. Samples(counts) : k * PowerOfTwo[q[2]] >= Samples(counts) * q[1]})

\* The nested search finds the bucket a search of the whole grid would find.
NestedSearchExact ==
    \A b \in CalibrationBuckets :
        counts[b] = SumFunctionOnSet(sampled,
                      {l \in Latencies : Bucketize(l, CalibrationBounds) = b})

\* The estimate of a quantile, made from bucket counts alone, has the exact
\* nearest rank, and its bounds enclose the sample of that rank.
EstimateEncloses ==
    \A q \in Quantiles :
        IF Samples(counts) = 0 THEN Estimate(q) = None
        ELSE LET estimate == Estimate(q)
                 sample == Smallest(ExactRank(q))
             IN  /\ estimate.rank = ExactRank(q)
                 /\ estimate.lower # None => estimate.lower =< sample
                 /\ estimate.upper # None => sample < estimate.upper

\* A threshold lies in the bucket of the sample it stands for, also where the
\* bucket is a single nanosecond wide: a sample in a lower bucket is never
\* classified as tail and one in a higher bucket always is.
ThresholdInBucket ==
    \A q \in Quantiles :
        Samples(counts) > 0 /\ Estimate(q).terminal = "Finite" =>
            /\ Estimate(q).lower =< Estimate(q).value
            /\ Estimate(q).value < Estimate(q).upper

\* max_relative_error is the "maximum relative value error of the finite
\* bucket": the threshold is that close to the sample it stands for.
RelativeErrorBounded ==
    \A q \in Quantiles :
        Samples(counts) > 0 /\ Estimate(q).terminal = "Finite" =>
            LET estimate == Estimate(q)
                sample == Smallest(ExactRank(q))
                error == IF estimate.value > sample
                         THEN estimate.value - sample ELSE sample - estimate.value
            IN  error * (estimate.upper + estimate.lower)
                  =< (estimate.upper - estimate.lower) * sample
=============================================================================

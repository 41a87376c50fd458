-------------------------------- MODULE Ranks --------------------------------
(***************************************************************************)
(* The arithmetic of bucket.rs that the freeze and the diagnosis share:    *)
(* buckets and nearest ranks of bucketed populations.  A quantile is the   *)
(* exact value significand / 2^shift of an f64, a population a function    *)
(* from bucket indices, from 0, to counts.                                 *)
(***************************************************************************)
EXTENDS Integers, Sequences, FiniteSets, FiniteSetsExt, Functions

CONSTANTS
    Latencies,      \* latencies that are recorded
    Quantiles,      \* pairs <<significand, shift>>
    ProductBits,    \* bits of the integers that hold rank products
    MaxSamples,     \* bound: samples of a population
    None

ASSUME LatenciesAssumption == Latencies \subseteq Nat /\ IsFiniteSet(Latencies)
ASSUME WidthAssumption == ProductBits \in Nat /\ MaxSamples \in Nat

PowerOfTwo[n \in Nat] == IF n = 0 THEN 1 ELSE 2 * PowerOfTwo[n - 1]

\* Validated quantiles, and integers wide enough for samples * significand.
ASSUME QuantilesAssumption ==
    \A q \in Quantiles :
        /\ q[1] \in Nat \ {0} /\ q[2] \in Nat /\ q[1] =< PowerOfTwo[q[2]]
        /\ MaxSamples * q[1] < PowerOfTwo[ProductBits]

\* A selection is not mistaken for none.
ASSUME NoneAssumption == None \notin [rank : Nat, samples : Nat, bucket : Nat]

\* Bounds are the first latencies of the next bucket.
Bucketize(ns, bounds) == Cardinality({i \in DOMAIN bounds : ns >= bounds[i]})

Occupied(counts) == {b \in DOMAIN counts : counts[b] > 0}
Samples(counts) == SumFunctionOnSet(counts, Occupied(counts))

\* Mutant: the rank is rounded down.
QuantileRankFloor(samples, q) ==
    IF q[2] >= ProductBits THEN 1
    ELSE Min({Max({(samples * q[1]) \div PowerOfTwo[q[2]], 1}), samples})

\* The ceiling of samples * quantile.
QuantileRank(samples, q) ==
    LET product == samples * q[1]
        denominator == PowerOfTwo[q[2]]
        ceiling == product \div denominator
                     + (IF product % denominator # 0 THEN 1 ELSE 0)
    IN  IF q[2] >= ProductBits THEN 1
        ELSE Min({Max({ceiling, 1}), samples})

\* The first bucket at which the cumulative count reaches the rank.
NearestRank(counts, q) ==
    LET samples == Samples(counts)
        rank == QuantileRank(samples, q)
        through(bucket) ==
            SumFunctionOnSet(counts, {b \in Occupied(counts) : b =< bucket})
    IN  IF samples = 0 THEN None
        ELSE [rank |-> rank, samples |-> samples,
              bucket |-> Min({b \in Occupied(counts) : through(b) >= rank})]
=============================================================================

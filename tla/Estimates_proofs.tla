--------------------------- MODULE Estimates_proofs ---------------------------
(***************************************************************************)
(* Proofs about what is derived from bucketed counts: quantile estimates   *)
(* (module Buckets) and diagnosis scores (module Diagnosis), for any       *)
(* tables that nest, any latencies, quantiles, thresholds and policies.    *)
(***************************************************************************)
EXTENDS Buckets, Diagnosis, Induction

-----------------------------------------------------------------------------
(* Nearest ranks.                                                          *)

LEMMA PowersAre ==
    /\ PowerOfTwo[0] = 1
    /\ \A n \in Nat : PowerOfTwo[n] \in Nat \ {0} /\ PowerOfTwo[n + 1] = 2 * PowerOfTwo[n]
<1> DEFINE Rule(g) == [n \in Nat |-> IF n = 0 THEN 1 ELSE 2 * g[n - 1]]
<1>1. PICK step : step = [x \in Nat \ {0} |-> 2 * x]
  OBVIOUS
<1> PICK V : V = Nat \ {0}
  OBVIOUS
<1>2. step \in [V -> V] /\ 1 \in V
  BY <1>1
<1>3. PICK f \in [Nat -> V] : f[0] = 1 /\ \A k \in Nat : f[k + 1] = step[f[k]]
  <2>1. \E f : IsIteration(f, V, 1, step)
    BY <1>2, IterateExists
  <2>2. QED
    BY <2>1 DEF IsIteration
<1>4. f = Rule(f)
  <2>1. ASSUME NEW j \in Nat PROVE f[j] = IF j = 0 THEN 1 ELSE 2 * f[j - 1]
    <3>1. CASE j = 0
      BY <1>3, <3>1
    <3>2. CASE j # 0
      <4>1. PICK k \in Nat : j = k + 1
        BY <3>2
      <4>2. f[j] = step[f[k]] /\ f[k] \in Nat \ {0}
        BY <1>3, <4>1
      <4>3. QED
        BY <1>1, <3>2, <4>1, <4>2
    <3>3. QED
      BY <3>1, <3>2
  <2>2. QED
    BY <1>3, <2>1
<1>5. PowerOfTwo = CHOOSE g : g = Rule(g)
  BY DEF PowerOfTwo
<1>6. PowerOfTwo = Rule(PowerOfTwo)
  <2> HIDE DEF Rule
  <2> QED
    BY <1>4, <1>5
<1>7. PowerOfTwo[0] = 1
  BY <1>6
<1>8. ASSUME NEW n \in Nat PROVE PowerOfTwo[n + 1] = 2 * PowerOfTwo[n]
  <2>1. n + 1 \in Nat /\ n + 1 # 0 /\ (n + 1) - 1 = n
    OBVIOUS
  <2>2. PowerOfTwo[n + 1] = 2 * PowerOfTwo[(n + 1) - 1]
    BY <1>6, <2>1
  <2>3. QED
    BY <2>1, <2>2
<1>9. Nat \subseteq {n \in Nat : PowerOfTwo[n] \in Nat \ {0}}
  <2>1. PICK T : T = {n \in Nat : PowerOfTwo[n] \in Nat \ {0}}
    OBVIOUS
  <2>2. 0 \in T /\ \A n \in Nat : n \in T => n + 1 \in T
    BY <1>7, <1>8, <2>1
  <2>3. QED
    BY <2>1, <2>2, InductionOnNat
<1>10. QED
  BY <1>7, <1>8, <1>9

LEMMA PowersGrow ==
    ASSUME NEW m \in Nat, NEW n \in Nat, m =< n
    PROVE  PowerOfTwo[m] =< PowerOfTwo[n]
<1>1. PICK T : T = {k \in Nat : PowerOfTwo[m] =< PowerOfTwo[m + k]}
  OBVIOUS
<1>2. 0 \in T
  <2>1. m + 0 = m
    OBVIOUS
  <2>2. QED
    BY <1>1, <2>1, PowersAre
<1>3. ASSUME NEW k \in Nat, k \in T PROVE k + 1 \in T
  <2>1. PICK j \in Nat : j = m + k
    OBVIOUS
  <2>2. m + (k + 1) = j + 1
    BY <2>1
  <2>3. PowerOfTwo[m] =< PowerOfTwo[j]
    BY <1>1, <1>3, <2>1
  <2>4. PowerOfTwo[j + 1] = 2 * PowerOfTwo[j]
        /\ PowerOfTwo[j] \in Nat /\ PowerOfTwo[m] \in Nat
    BY PowersAre
  <2>5. PowerOfTwo[m] =< PowerOfTwo[j + 1]
    BY <2>3, <2>4
  <2>6. QED
    BY <1>1, <2>2, <2>5
<1>4. Nat \subseteq T
  BY <1>2, <1>3, InductionOnNat
<1>5. n - m \in Nat /\ m + (n - m) = n
  OBVIOUS
<1>6. QED
  BY <1>1, <1>4, <1>5

\* The smallest number whose product with d reaches p.
Ceiling(p, d) == p \div d + (IF p % d # 0 THEN 1 ELSE 0)

LEMMA CeilingIs ==
    ASSUME NEW p \in Nat \ {0}, NEW d \in Nat \ {0}, NEW c, c = Ceiling(p, d)
    PROVE  c \in Nat \ {0} /\ p =< c * d /\ (c - 1) * d < p
<1>1. PICK q, r : q = p \div d /\ r = p % d
  OBVIOUS
<1>2. q \in Nat /\ r \in 0 .. d - 1 /\ p = q * d + r
  BY <1>1
<1>3. PICK a \in Nat : a = q * d
  BY <1>2, ProductNat
<1>4. CASE r = 0
  <2>1. c = q
    BY <1>1, <1>2, <1>4 DEF Ceiling
  <2>2. q # 0 /\ p = a
    BY <1>2, <1>3, <1>4
  <2>3. c * d = a /\ (c - 1) * d = a - d
    BY <1>2, <1>3, <2>1
  <2>4. QED
    BY <1>2, <2>1, <2>2, <2>3
<1>5. CASE r # 0
  <2>1. c = q + 1
    BY <1>1, <1>2, <1>5 DEF Ceiling
  <2>2. c * d = a + d /\ (c - 1) * d = a
    BY <1>2, <1>3, <2>1
  <2>3. p = a + r
    BY <1>2, <1>3
  <2>4. QED
    BY <1>2, <1>5, <2>1, <2>2, <2>3
<1>6. QED
  BY <1>4, <1>5

\* The rank of a quantile is the least one whose share of the samples reaches
\* it: rank, and no fewer, reaches samples * q[1] when counted q[2] bits up.
IsRank(rank, samples, q) ==
    /\ rank \in 1 .. samples
    /\ samples * q[1] =< rank * PowerOfTwo[q[2]]
    /\ (rank - 1) * PowerOfTwo[q[2]] < samples * q[1]

LEMMA RankIs ==
    ASSUME NEW q \in Quantiles, NEW samples \in 1 .. MaxSamples
    PROVE  IsRank(QuantileRank(samples, q), samples, q)
<1>1. PICK n, d : n = q[1] /\ d = PowerOfTwo[q[2]]
  OBVIOUS
<1>2. /\ n \in Nat \ {0} /\ q[2] \in Nat /\ n =< d /\ d \in Nat \ {0}
      /\ MaxSamples \in Nat /\ ProductBits \in Nat
      /\ MaxSamples * n < PowerOfTwo[ProductBits]
  BY <1>1, QuantilesAssumption, WidthAssumption, PowersAre
<1>3. PICK p \in Nat : p = samples * n
  BY <1>2, ProductNat
<1>4. p =< MaxSamples * n /\ p =< samples * d /\ p # 0
  <2>1. samples * n =< MaxSamples * n
    BY <1>2, ProductMonotonic
  <2>2. n * samples =< d * samples
    BY <1>2, ProductMonotonic
  <2>3. 1 * n =< samples * n
    BY <1>2, ProductMonotonic
  <2>4. n * samples = samples * n /\ d * samples = samples * d /\ 1 * n = n
    BY <1>2
  <2>5. QED
    BY <1>2, <1>3, <2>1, <2>2, <2>3, <2>4
<1>5. CASE q[2] >= ProductBits
  <2>1. QuantileRank(samples, q) = 1
    BY <1>5 DEF QuantileRank
  <2>2. PowerOfTwo[ProductBits] =< d
    BY <1>1, <1>2, <1>5, PowersGrow
  <2>3. PowerOfTwo[ProductBits] \in Nat /\ MaxSamples * n \in Nat
    BY <1>2, PowersAre, ProductNat
  <2>4. p =< d
    BY <1>2, <1>4, <2>2, <2>3
  <2>5. p =< 1 * d /\ (1 - 1) * d < p
    BY <1>2, <1>4, <2>4
  <2>6. QED
    BY <1>1, <1>3, <2>1, <2>5 DEF IsRank
<1>6. CASE ~(q[2] >= ProductBits)
  <2>1. PICK c : c = Ceiling(p, d)
    OBVIOUS
  <2>2. c \in Nat \ {0} /\ p =< c * d /\ (c - 1) * d < p
    BY <1>2, <1>4, <2>1, CeilingIs
  <2>3. c =< samples
    <3>1. SUFFICES ASSUME samples =< c - 1 PROVE FALSE
      BY <2>2
    <3>2. samples * d =< (c - 1) * d
      BY <1>2, <2>2, <3>1, ProductMonotonic
    <3>3. samples * d \in Nat /\ (c - 1) * d \in Nat
      BY <1>2, <2>2, ProductNat
    <3>4. QED
      BY <1>4, <2>2, <3>2, <3>3
  <2>4. Max({c, 1}) = c
    BY <2>2, MaxOfTwo
  <2>5. Min({c, samples}) = c
    <3>1. {c, samples} \in SUBSET Nat /\ c \in {c, samples}
      BY <2>2
    <3>2. Min({c, samples}) \in {c, samples}
          /\ \A y \in {c, samples} : Min({c, samples}) =< y
      BY <3>1, MinOf
    <3>3. QED
      BY <2>2, <2>3, <3>2
  <2>6. QuantileRank(samples, q) = Min({Max({c, 1}), samples})
    BY <1>1, <1>3, <1>6, <2>1, Zenon DEF QuantileRank, Ceiling
  <2>7. QuantileRank(samples, q) = c
    BY <2>4, <2>5, <2>6
  <2>8. c \in 1 .. samples
    BY <2>2, <2>3
  <2>9. IsRank(c, samples, q)
    BY <1>1, <1>3, <2>2, <2>8, Zenon DEF IsRank
  <2>10. QED
    BY <2>7, <2>9
<1>7. QED
  BY <1>5, <1>6

\* There is one such rank.
LEMMA RankUnique ==
    ASSUME NEW q \in Quantiles, NEW samples \in Nat, NEW rank, IsRank(rank, samples, q),
           NEW k \in Nat, samples * q[1] =< k * PowerOfTwo[q[2]]
    PROVE  rank =< k
<1>1. PICK d \in Nat \ {0} : d = PowerOfTwo[q[2]]
  BY QuantilesAssumption, PowersAre
<1>2. PICK p \in Nat : p = samples * q[1]
  BY QuantilesAssumption, ProductNat
<1>3. SUFFICES ASSUME k =< rank - 1 PROVE FALSE
  BY DEF IsRank
<1>4. rank - 1 \in Nat /\ p =< k * d /\ (rank - 1) * d < p
  BY <1>1, <1>2 DEF IsRank
<1>5. k * d =< (rank - 1) * d
  BY <1>3, <1>4, ProductMonotonic
<1>6. k * d \in Nat /\ (rank - 1) * d \in Nat
  BY <1>4, ProductNat
<1>7. QED
  BY <1>4, <1>5, <1>6

\* Empty buckets do not count.
OccupiedIn(h, R) == {b \in Occupied(h) : b \in R}

LEMMA SumOccupied ==
    ASSUME NEW D, IsFiniteSet(D), NEW h \in [D -> Nat], NEW R \in SUBSET D
    PROVE  SumFunctionOnSet(h, OccupiedIn(h, R)) = SumFunctionOnSet(h, R)
<1>1. PICK Q : Q = OccupiedIn(h, R)
  OBVIOUS
<1>2. IsFiniteSet(R) /\ \A b \in R : h[b] \in Nat
  BY FS_Subset
<1>3. Q \in SUBSET R /\ \A b \in R \ Q : h[b] = 0
  BY <1>1 DEF OccupiedIn, Occupied
<1>4. \A b \in R : h[b] \in Int
  BY <1>2
<1>5. SumFunctionOnSet(h, R) = SumFunctionOnSet(h, Q) + SumFunctionOnSet(h, R \ Q)
  BY <1>2, <1>3, <1>4, SumSplit
<1>6. IsFiniteSet(Q) /\ IsFiniteSet(R \ Q)
  BY <1>2, <1>3, FS_Subset
<1>7. SumFunctionOnSet(h, R \ Q) = 0
  BY <1>3, <1>6, SumZero
<1>8. SumFunctionOnSet(h, Q) \in Int
  <2>1. \A b \in Q : h[b] \in Int
    BY <1>3, <1>4
  <2>2. QED
    BY <1>6, <2>1, SumType
<1>9. QED
  BY <1>1, <1>5, <1>7, <1>8

\* What nearest_rank selects: the bucket in which the rank-th sample lies,
\* when samples are ordered by bucket.
Selects(selection, h, n, samples, q) ==
    /\ selection = [rank |-> selection.rank, samples |-> samples,
                    bucket |-> selection.bucket]
    /\ IsRank(selection.rank, samples, q)
    /\ selection.bucket \in 0 .. n
    /\ selection.rank =< SumFunctionOnSet(h, 0 .. selection.bucket)
    /\ SumFunctionOnSet(h, 0 .. selection.bucket - 1) < selection.rank

Through(h, bucket) == SumFunctionOnSet(h, {b \in Occupied(h) : b =< bucket})
FirstReaching(h, rank) == Min({b \in Occupied(h) : Through(h, b) >= rank})

LEMMA FirstReachingIs ==
    ASSUME NEW n \in Nat, NEW h \in [0 .. n -> Nat],
           NEW rank \in Nat \ {0}, rank =< SumFunctionOnSet(h, 0 .. n),
           NEW bucket, bucket = FirstReaching(h, rank)
    PROVE  /\ bucket \in 0 .. n
           /\ rank =< SumFunctionOnSet(h, 0 .. bucket)
           /\ SumFunctionOnSet(h, 0 .. bucket - 1) < rank
<1>0. PICK D : D = 0 .. n /\ IsFiniteSet(D) /\ h \in [D -> Nat]
  BY FS_Interval, SMTT(30)
<1>1. PICK O : O = Occupied(h)
  OBVIOUS
<1>2. O \in SUBSET Nat /\ \A b \in O : b \in 0 .. n /\ b =< n
  BY <1>1 DEF Occupied
<1>3. ASSUME NEW b \in 0 .. n PROVE Through(h, b) = SumFunctionOnSet(h, 0 .. b)
  <2>1. PICK Q : Q = {a \in Occupied(h) : a =< b}
    OBVIOUS
  <2>2. PICK R : R = 0 .. b
    OBVIOUS
  <2>3. R \in SUBSET D /\ Q = OccupiedIn(h, R)
    BY <1>0, <1>1, <1>2, <2>1, <2>2 DEF OccupiedIn
  <2>4. SumFunctionOnSet(h, Q) = SumFunctionOnSet(h, R)
    BY <1>0, <2>3, SumOccupied, ZenonT(60)
  <2>5. QED
    BY <2>1, <2>2, <2>4 DEF Through
<1>4. ASSUME NEW b \in 0 .. n PROVE SumFunctionOnSet(h, 0 .. b) \in Nat
  <2>1. PICK R : R = 0 .. b
    OBVIOUS
  <2>2. R \in SUBSET D
    BY <1>0, <2>1
  <2>3. IsFiniteSet(R) /\ \A a \in R : h[a] \in Nat
    BY <1>0, <2>2, FS_Subset
  <2>4. QED
    BY <2>1, <2>3, SumNat
<1>5. PICK T : T = {b \in O : Through(h, b) >= rank}
  OBVIOUS
\* What the occupied buckets up to one count, the last of them counts.
<1>6. ASSUME NEW b \in 0 .. n, SumFunctionOnSet(h, 0 .. b) >= rank
      PROVE  \E a \in T : a =< b
  <2>1. PICK U : U = {a \in O : a =< b}
    OBVIOUS
  <2>2. Through(h, b) = SumFunctionOnSet(h, U)
    BY <1>1, <2>1 DEF Through
  <2>3. U # {}
    <3>1. CASE U = {}
      <4>1. Through(h, b) = 0
        BY <2>2, <3>1, SumEmpty
      <4>2. QED
        BY <1>3, <1>6, <4>1
    <3>2. QED
      BY <3>1
  <2>4. U \in SUBSET Nat /\ \A a \in U : a =< b
    BY <1>2, <2>1
  <2>5. PICK a \in U : \A c \in U : c =< a
    <3>1. PICK m \in Nat : m = b
      OBVIOUS
    <3>2. \A c \in U : c =< m
      BY <2>4, <3>1
    <3>3. \E a \in U : \A c \in U : c =< a
      BY <2>3, <2>4, <3>2, GreatestExists
    <3>4. QED
      BY <3>3
  <2>6. U = {c \in O : c =< a} /\ a \in O /\ a =< b
    <3>1. a \in O /\ a =< b /\ a \in Nat /\ b \in Nat
      BY <2>1, <2>4, <2>5
    <3>2. \A c \in O : c \in Nat /\ (c =< b => c \in U)
      BY <1>2, <2>1
    <3>3. \A c \in O : c =< a => c \in U
      BY <3>1, <3>2
    <3>4. QED
      BY <2>1, <2>5, <3>1, <3>3
  <2>7. Through(h, a) = Through(h, b)
    BY <1>1, <2>2, <2>6 DEF Through
  <2>8. Through(h, a) >= rank
    BY <1>3, <1>6, <2>7
  <2>9. QED
    BY <1>5, <2>6, <2>8
<1>7. T # {}
  <2>1. n \in 0 .. n /\ SumFunctionOnSet(h, 0 .. n) >= rank
    BY <1>4
  <2>2. QED
    BY <1>6, <2>1
<1>8. bucket \in T /\ \A b \in T : bucket =< b
  <2>1. T \in SUBSET Nat
    BY <1>2, <1>5
  <2>2. Min(T) \in T /\ \A b \in T : Min(T) =< b
    BY <1>7, <2>1, MinOf
  <2>3. bucket = Min(T)
    BY <1>1, <1>5 DEF FirstReaching
  <2>4. QED
    BY <2>2, <2>3
<1>9. bucket \in 0 .. n /\ SumFunctionOnSet(h, 0 .. bucket) >= rank
  BY <1>2, <1>3, <1>5, <1>8
<1>10. SumFunctionOnSet(h, 0 .. bucket - 1) < rank
  <2>1. CASE bucket = 0
    <3>1. 0 .. bucket - 1 = {}
      BY <2>1
    <3>2. SumFunctionOnSet(h, 0 .. bucket - 1) = 0
      BY <3>1, SumEmpty
    <3>3. QED
      BY <3>2
  <2>2. CASE bucket # 0
    <3>1. PICK b \in 0 .. n : b = bucket - 1 /\ b < bucket
      BY <1>9, <2>2, SMTT(30)
    <3>2. SUFFICES ASSUME SumFunctionOnSet(h, 0 .. b) >= rank PROVE FALSE
      BY <1>4, <3>1
    <3>3. PICK a \in T : a =< b
      BY <1>6, <3>2
    <3>4. bucket =< a /\ a \in Nat
      BY <1>2, <1>5, <1>8, <3>3
    <3>5. QED
      BY <1>9, <3>1, <3>3, <3>4
  <2>3. QED
    BY <2>1, <2>2
<1>11. QED
  BY <1>4, <1>9, <1>10

LEMMA SamplesAre ==
    ASSUME NEW D, IsFiniteSet(D), NEW h \in [D -> Nat]
    PROVE  Samples(h) = SumFunctionOnSet(h, D) /\ Samples(h) \in Nat
<1>1. OccupiedIn(h, D) = Occupied(h) /\ D \in SUBSET D
  BY DEF OccupiedIn, Occupied
<1>2. Samples(h) = SumFunctionOnSet(h, D)
  BY <1>1, SumOccupied DEF Samples
<1>3. \A b \in D : h[b] \in Nat
  OBVIOUS
<1>4. QED
  BY <1>2, <1>3, SumNat

LEMMA NearestRankIs ==
    ASSUME NEW n \in Nat, NEW h \in [0 .. n -> Nat], NEW q \in Quantiles,
           NEW samples \in 0 .. MaxSamples, samples = Samples(h)
    PROVE  /\ samples = 0 => NearestRank(h, q) = None
           /\ samples # 0 => Selects(NearestRank(h, q), h, n, samples, q)
<1>1. samples = SumFunctionOnSet(h, 0 .. n)
  <2>1. PICK D : D = 0 .. n /\ IsFiniteSet(D)
    BY FS_Interval
  <2>2. h \in [D -> Nat]
    BY <2>1
  <2>3. QED
    BY <2>1, <2>2, SamplesAre
<1>2. PICK rank, bucket : rank = QuantileRank(samples, q) /\ bucket = FirstReaching(h, rank)
  OBVIOUS
<1>3. NearestRank(h, q) = IF samples = 0 THEN None
                          ELSE [rank |-> rank, samples |-> samples, bucket |-> bucket]
  BY <1>2, Zenon DEF NearestRank, FirstReaching, Through
<1>4. ASSUME samples # 0 PROVE Selects(NearestRank(h, q), h, n, samples, q)
  <2>1. samples \in 1 .. MaxSamples
    BY <1>4
  <2>2. IsRank(rank, samples, q)
    BY <1>2, <2>1, RankIs
  <2>3. rank \in Nat \ {0} /\ rank =< SumFunctionOnSet(h, 0 .. n)
    BY <1>1, <2>2 DEF IsRank
  <2>4. /\ bucket \in 0 .. n
        /\ rank =< SumFunctionOnSet(h, 0 .. bucket)
        /\ SumFunctionOnSet(h, 0 .. bucket - 1) < rank
    BY <1>2, <2>3, FirstReachingIs
  <2>5. PICK x : x = NearestRank(h, q)
    OBVIOUS
  <2>6. x = [rank |-> rank, samples |-> samples, bucket |-> bucket]
    BY <1>3, <1>4, <2>5
  <2>7. x.rank = rank /\ x.bucket = bucket
    BY <2>6
  <2>8. QED
    BY <2>2, <2>4, <2>5, <2>6, <2>7, Zenon DEF Selects
<1>5. QED
  BY <1>1, <1>3, <1>4

-----------------------------------------------------------------------------
(* The two searches.                                                       *)

LEMMA GridAscends ==
    ASSUME NEW bounds, IsGrid(bounds)
    PROVE  \A i, j \in 1 .. Len(bounds) : i < j => bounds[i] < bounds[j]
<1>1. PICK n \in Nat : n = Len(bounds)
  BY DEF IsGrid
<1>2. \A i \in 1 .. n : bounds[i] \in Nat
  BY <1>1 DEF IsGrid
<1>3. \A i \in 1 .. n : i < n => bounds[i] < bounds[i + 1]
  BY <1>1 DEF IsGrid
<1>4. PICK T : T = {d \in Nat : \A i \in 1 .. n : i + (d + 1) =< n =>
                                    bounds[i] < bounds[i + (d + 1)]}
  OBVIOUS
<1>5. 0 \in T
  BY <1>3, <1>4
<1>6. ASSUME NEW d \in Nat, d \in T PROVE d + 1 \in T
  <2>1. ASSUME NEW i \in 1 .. n, i + ((d + 1) + 1) =< n
        PROVE  bounds[i] < bounds[i + ((d + 1) + 1)]
    <3>1. PICK j \in 1 .. n : j = i + (d + 1)
      BY <2>1
    <3>2. bounds[i] < bounds[j]
      BY <1>4, <1>6, <3>1
    <3>3. j < n /\ j + 1 = i + ((d + 1) + 1) /\ j + 1 \in 1 .. n
      BY <2>1, <3>1
    <3>4. bounds[j] < bounds[j + 1]
      BY <1>3, <3>3
    <3>5. bounds[i] \in Nat /\ bounds[j] \in Nat /\ bounds[j + 1] \in Nat
      BY <1>2, <3>3
    <3>6. QED
      BY <3>2, <3>3, <3>4, <3>5
  <2>2. QED
    BY <1>4, <2>1
<1>7. Nat \subseteq T
  BY <1>5, <1>6, InductionOnNat
<1>8. ASSUME NEW i \in 1 .. n, NEW j \in 1 .. n, i < j
      PROVE  bounds[i] < bounds[j]
  <2>1. PICK d \in Nat : d = j - i - 1
    BY <1>8
  <2>2. i + (d + 1) = j
    BY <2>1
  <2>3. d \in T
    BY <1>7
  <2>4. i + (d + 1) =< n => bounds[i] < bounds[i + (d + 1)]
    BY <1>4, <2>3
  <2>5. QED
    BY <2>2, <2>4
<1>9. QED
  BY <1>1, <1>8

\* The bounds a latency has reached are the first k.
Lands(ns, bounds, k) ==
    k \in 0 .. Len(bounds) /\ \A i \in 1 .. Len(bounds) : bounds[i] =< ns <=> i =< k

LEMMA LandsIs ==
    ASSUME NEW bounds, bounds \in Seq(Nat), NEW ns \in Nat, NEW k, Lands(ns, bounds, k)
    PROVE  Bucketize(ns, bounds) = k
<1>1. PICK n \in Nat : n = Len(bounds) /\ DOMAIN bounds = 1 .. n
  OBVIOUS
<1>2. k \in 0 .. n /\ \A i \in 1 .. n : bounds[i] =< ns <=> i =< k
  BY <1>1 DEF Lands
<1>3. \A i \in 1 .. n : bounds[i] \in Nat
  BY <1>1
<1>4. \A i \in 1 .. n : ns >= bounds[i] <=> i =< k
  BY <1>2, <1>3
<1>5. {i \in DOMAIN bounds : ns >= bounds[i]} = 1 .. k
  BY <1>1, <1>2, <1>4
<1>6. Cardinality(1 .. k) = k
  BY <1>2, FS_Interval
<1>7. QED
  BY <1>5, <1>6 DEF Bucketize

LEMMA LandsSomewhere ==
    ASSUME NEW bounds, IsGrid(bounds), NEW ns \in Nat
    PROVE  Lands(ns, bounds, Bucketize(ns, bounds))
<1>1. PICK n \in Nat : n = Len(bounds)
  BY DEF IsGrid
<1>2. \A i \in 1 .. n : bounds[i] \in Nat
  BY <1>1 DEF IsGrid
<1>3. \A i, j \in 1 .. n : i < j => bounds[i] < bounds[j]
  BY <1>1, GridAscends
<1>4. PICK T : T = {i \in 1 .. n : bounds[i] =< ns}
  OBVIOUS
<1>5. \E k \in 0 .. n : \A i \in 1 .. n : bounds[i] =< ns <=> i =< k
  <2>1. CASE T = {}
    <3>1. 0 \in 0 .. n /\ \A i \in 1 .. n : bounds[i] =< ns <=> i =< 0
      BY <1>4, <2>1
    <3>2. QED
      BY <3>1
  <2>2. CASE T # {}
    <3>1. T \in SUBSET Nat /\ \A i \in T : i =< n
      BY <1>4
    <3>2. PICK k \in T : \A i \in T : i =< k
      BY <2>2, <3>1, GreatestExists
    <3>3. k \in 1 .. n /\ bounds[k] =< ns
      BY <1>4, <3>2
    <3>4. ASSUME NEW i \in 1 .. n PROVE bounds[i] =< ns <=> i =< k
      <4>1. ASSUME i < k PROVE bounds[i] =< ns
        BY <1>2, <1>3, <3>3, <4>1
      <4>2. bounds[i] =< ns => i =< k
        BY <1>4, <3>2
      <4>3. QED
        BY <3>3, <4>1, <4>2
    <3>5. k \in 0 .. n
      BY <3>3
    <3>6. QED
      BY <3>4, <3>5
  <2>3. QED
    BY <2>1, <2>2
<1>6. PICK k : Lands(ns, bounds, k)
  BY <1>1, <1>5 DEF Lands
<1>7. bounds \in Seq(Nat)
  BY DEF IsGrid
<1>8. QED
  BY <1>6, <1>7, LandsIs

\* The search of the calibration grid from the ordinary bucket is the search
\* of the whole grid.
LEMMA NestedSearch ==
    ASSUME NEW ns \in Nat
    PROVE  CalibrationBucketize(ns, DefaultBucketize(ns)) = Bucketize(ns, CalibrationBounds)
<1>1. PICK coarse, fine, m, n :
          /\ coarse = DefaultBounds /\ fine = CalibrationBounds
          /\ m = Len(coarse) /\ n = Len(fine)
  OBVIOUS
<1>2. /\ m \in Nat \ {0} /\ n \in Nat /\ n = 4 * (m - 1) + 1
      /\ fine \in Seq(Nat \ {0}) /\ coarse \in Seq(Nat \ {0})
      /\ \A i \in 1 .. m : coarse[i] = fine[4 * (i - 1) + 1]
  <2>1. coarse \in Seq(Nat \ {0}) /\ fine \in Seq(Nat \ {0})
    BY <1>1, GridAssumption DEF IsGrid
  <2>2. m \in Nat /\ n \in Nat /\ DOMAIN coarse = 1 .. m
    BY <1>1, <2>1
  <2>3. n = 4 * (m - 1) + 1 /\ \A i \in 1 .. m : coarse[i] = fine[4 * (i - 1) + 1]
    BY <1>1, <2>2, GridAssumption
  <2>4. m # 0
    BY <2>2, <2>3
  <2>5. QED
    BY <2>1, <2>2, <2>3, <2>4
<1>3. PICK k, c : k = Bucketize(ns, coarse) /\ c = Bucketize(ns, fine)
  OBVIOUS
<1>4. k \in 0 .. m /\ \A i \in 1 .. m : coarse[i] =< ns <=> i =< k
  BY <1>1, <1>3, GridAssumption, LandsSomewhere DEF Lands
<1>5. c \in 0 .. n /\ \A i \in 1 .. n : fine[i] =< ns <=> i =< c
  BY <1>1, <1>3, GridAssumption, LandsSomewhere DEF Lands
<1>6. ASSUME NEW i \in 1 .. m
      PROVE  4 * (i - 1) + 1 \in 1 .. n /\ (i =< k <=> 4 * (i - 1) + 1 =< c)
  <2>1. 4 * (i - 1) + 1 \in 1 .. n
    BY <1>2
  <2>2. coarse[i] =< ns <=> fine[4 * (i - 1) + 1] =< ns
    BY <1>2
  <2>3. QED
    BY <1>4, <1>5, <2>1, <2>2
<1>7. CASE k = 0
  <2>1. ~(1 =< c)
    <3>1. 1 \in 1 .. m /\ 4 * (1 - 1) + 1 = 1 /\ ~(1 =< k)
      BY <1>2, <1>7
    <3>2. QED
      BY <1>6, <3>1
  <2>2. c = 0
    BY <1>5, <2>1
  <2>3. QED
    BY <1>1, <1>3, <1>7, <2>2 DEF CalibrationBucketize, DefaultBucketize
<1>8. CASE k # 0 /\ k = m
  <2>1. k \in 1 .. m /\ k =< k
    BY <1>2, <1>8
  <2>2. n =< c
    BY <1>2, <1>6, <1>8, <2>1
  <2>3. c = n
    BY <1>2, <1>5, <2>2
  <2>4. QED
    BY <1>1, <1>3, <1>8, <2>3 DEF CalibrationBucketize, DefaultBucketize
<1>9. CASE k # 0 /\ k # m
  <2>1. PICK first \in Nat : first = 1 + (k - 1) * 4
    BY <1>4, <1>9
  <2>2. k \in 1 .. m /\ k + 1 \in 1 .. m /\ k =< k /\ ~(k + 1 =< k)
    BY <1>2, <1>4, <1>9
  <2>3. first = 4 * (k - 1) + 1 /\ first + 4 = 4 * ((k + 1) - 1) + 1
    BY <1>4, <2>1
  <2>4. first \in 1 .. n /\ first + 4 \in 1 .. n /\ first =< c /\ ~(first + 4 =< c)
    BY <1>6, <2>2, <2>3
  <2>5. PICK j \in 0 .. 3 : j = c - first
    BY <1>5, <2>4
  <2>6. PICK sub : sub = SubSeq(fine, first + 1, first + 3)
    OBVIOUS
  <2>7. /\ sub \in Seq(Nat) /\ Len(sub) = 3
        /\ \A i \in 1 .. 3 : sub[i] = fine[first + i]
    <3>1. PICK a, b : a = first + 1 /\ b = first + 3
      OBVIOUS
    <3>2. a \in 1 .. n /\ b \in 1 .. n /\ b = a + 2
      BY <1>2, <2>4, <3>1
    <3>3. sub = SubSeq(fine, a, b) /\ fine \in Seq(Nat) /\ Len(fine) = n
      BY <1>1, <1>2, <2>6, <3>1
    <3>4. sub \in Seq(Nat) /\ Len(sub) = 3
      BY <3>2, <3>3
    <3>5. \A i \in 1 .. 3 : sub[i] = fine[a + i - 1]
      BY <3>2, <3>3
    <3>6. \A i \in 1 .. 3 : a + i - 1 = first + i
      BY <3>1
    <3>7. QED
      BY <3>4, <3>5, <3>6
  <2>8. Lands(ns, sub, j)
    <3>1. ASSUME NEW i \in 1 .. 3 PROVE sub[i] =< ns <=> i =< j
      <4>1. first + i \in 1 .. n
        BY <1>2, <2>4
      <4>2. fine[first + i] =< ns <=> first + i =< c
        BY <1>5, <4>1
      <4>3. QED
        BY <1>5, <2>5, <2>7, <4>2
    <3>2. QED
      BY <2>5, <2>7, <3>1 DEF Lands
  <2>9. Bucketize(ns, sub) = j
    BY <2>7, <2>8, LandsIs
  <2>10. first + Bucketize(ns, sub) = c
    BY <1>5, <2>5, <2>9
  <2>11. QED
    BY <1>1, <1>3, <1>9, <2>1, <2>6, <2>10 DEF CalibrationBucketize, DefaultBucketize
<1>10. QED
  BY <1>7, <1>8, <1>9

-----------------------------------------------------------------------------
(* The population.                                                         *)

\* Inductive: the counters are those of a search of the whole grid.
PopulationInvariant ==
    /\ counts \in [CalibrationBuckets -> Nat]
    /\ sampled \in [Latencies -> Nat]
    /\ Samples(counts) =< MaxSamples
    /\ NestedSearchExact

Landing(b) == {l \in Latencies : Bucketize(l, CalibrationBounds) = b}

LEMMA Grid ==
    /\ IsFiniteSet(CalibrationBuckets)
    /\ \A ns \in Nat : Bucketize(ns, CalibrationBounds) \in CalibrationBuckets
<1>1. PICK n \in Nat : n = Len(CalibrationBounds)
  BY GridAssumption DEF IsGrid
<1>2. IsFiniteSet(0 .. n)
  BY FS_Interval
<1>3. ASSUME NEW ns \in Nat PROVE Bucketize(ns, CalibrationBounds) \in 0 .. n
  BY <1>1, GridAssumption, LandsSomewhere DEF Lands
<1>4. QED
  BY <1>1, <1>2, <1>3 DEF CalibrationBuckets

LEMMA PopulationInit == Init => PopulationInvariant
<1> SUFFICES ASSUME Init PROVE PopulationInvariant
  OBVIOUS
<1>1. counts \in [CalibrationBuckets -> Nat] /\ sampled \in [Latencies -> Nat]
  BY DEF Init
<1>2. Samples(counts) = 0
  <2>1. \A b \in CalibrationBuckets : counts[b] = 0
    BY DEF Init
  <2>2. QED
    BY <1>1, <2>1, Grid, SamplesAre, SumZero
<1>3. NestedSearchExact
  <2>1. ASSUME NEW b \in CalibrationBuckets
        PROVE  counts[b] = SumFunctionOnSet(sampled, Landing(b))
    <3>1. PICK F : F = Landing(b)
      OBVIOUS
    <3>2. F \in SUBSET Latencies
      BY <3>1 DEF Landing
    <3>3. IsFiniteSet(F)
      BY <3>2, LatenciesAssumption, FS_Subset
    <3>4. \A l \in F : sampled[l] = 0
      BY <3>2 DEF Init
    <3>5. SumFunctionOnSet(sampled, F) = 0
      BY <3>3, <3>4, SumZero
    <3>6. QED
      BY <3>1, <3>5 DEF Init
  <2>2. QED
    BY <2>1 DEF NestedSearchExact, Landing
<1>4. 0 =< MaxSamples
  BY WidthAssumption
<1>5. QED
  BY <1>1, <1>2, <1>3, <1>4 DEF PopulationInvariant

LEMMA PopulationStep == PopulationInvariant /\ [Next]_vars => PopulationInvariant'
<1> SUFFICES ASSUME PopulationInvariant, [Next]_vars PROVE PopulationInvariant'
  OBVIOUS
<1>0. /\ counts \in [CalibrationBuckets -> Nat]
      /\ sampled \in [Latencies -> Nat]
      /\ Samples(counts) =< MaxSamples
      /\ NestedSearchExact
  BY DEF PopulationInvariant
<1>1. CASE UNCHANGED vars
  BY <1>0, <1>1 DEF vars, PopulationInvariant, NestedSearchExact
<1>2. ASSUME NEW ns \in Latencies, Record(ns) PROVE PopulationInvariant'
  <2>1. ns \in Nat
    BY LatenciesAssumption
  <2>2. PICK bucket : bucket = Bucketize(ns, CalibrationBounds)
    OBVIOUS
  <2>3. bucket \in CalibrationBuckets
    BY <2>1, <2>2, Grid
  <2>4. /\ Samples(counts) < MaxSamples
        /\ counts' = [counts EXCEPT ![bucket] = @ + 1]
        /\ sampled' = [sampled EXCEPT ![ns] = @ + 1]
    BY <1>2, <2>1, <2>2, NestedSearch DEF Record
  <2>5. PICK g, t : g = counts' /\ t = sampled'
    OBVIOUS
  <2>6. /\ g \in [CalibrationBuckets -> Nat] /\ t \in [Latencies -> Nat]
        /\ g[bucket] = counts[bucket] + 1 /\ t[ns] = sampled[ns] + 1
        /\ \A b \in CalibrationBuckets : b # bucket => g[b] = counts[b]
        /\ \A l \in Latencies : l # ns => t[l] = sampled[l]
    BY <1>0, <2>3, <2>4, <2>5
  <2>7. Samples(g) =< MaxSamples
    <3>1. SumFunctionOnSet(g, CalibrationBuckets) =
          SumFunctionOnSet(counts, CalibrationBuckets) + (g[bucket] - counts[bucket])
      <4>1. \A b \in CalibrationBuckets : g[b] \in Int /\ counts[b] \in Int
        BY <1>0, <2>6
      <4>2. QED
        BY <2>3, <2>6, <4>1, Grid, SumChange
    <3>2. Samples(g) = Samples(counts) + (g[bucket] - counts[bucket])
      BY <1>0, <2>6, <3>1, Grid, SamplesAre
    <3>3. Samples(counts) \in Nat /\ counts[bucket] \in Nat
      BY <1>0, <2>3, Grid, SamplesAre
    <3>4. QED
      BY <2>4, <2>6, <3>2, <3>3, WidthAssumption
  <2>8. ASSUME NEW b \in CalibrationBuckets
        PROVE  g[b] = SumFunctionOnSet(t, Landing(b))
    <3>1. PICK F : F = Landing(b)
      OBVIOUS
    <3>2. F \in SUBSET Latencies /\ (ns \in F <=> b = bucket)
      BY <2>2, <3>1 DEF Landing
    <3>3. IsFiniteSet(F)
      BY <3>2, LatenciesAssumption, FS_Subset
    <3>4. \A l \in F : t[l] \in Int /\ sampled[l] \in Int
      BY <1>0, <2>6, <3>2
    <3>5. counts[b] = SumFunctionOnSet(sampled, F) /\ counts[b] \in Nat
      BY <1>0, <3>1 DEF NestedSearchExact, Landing
    <3>6. \A l \in F : l # ns => t[l] = sampled[l]
      BY <2>6, <3>2
    <3>7. CASE b = bucket
      <4>1. SumFunctionOnSet(t, F) = SumFunctionOnSet(sampled, F) + (t[ns] - sampled[ns])
        BY <3>2, <3>3, <3>4, <3>6, <3>7, SumChange
      <4>2. t[ns] - sampled[ns] = 1
        BY <1>0, <2>6
      <4>3. QED
        BY <2>6, <3>1, <3>5, <3>7, <4>1, <4>2
    <3>8. CASE b # bucket
      <4>1. \A l \in F : sampled[l] \in Int /\ sampled[l] = t[l]
        BY <3>2, <3>4, <3>6, <3>8
      <4>2. SumFunctionOnSet(sampled, F) = SumFunctionOnSet(t, F)
        BY <3>3, <4>1, SumEqual
      <4>3. QED
        BY <2>6, <3>1, <3>5, <3>8, <4>2
    <3>9. QED
      BY <3>7, <3>8
  <2>9. QED
    BY <2>5, <2>6, <2>7, <2>8 DEF PopulationInvariant, NestedSearchExact, Landing
<1>3. QED
  BY <1>1, <1>2 DEF Next

\* A population's counters are those of its samples, counted by a search of
\* the whole calibration grid.
THEOREM PopulationInductive == Spec => []PopulationInvariant
<1>1. QED
  BY PopulationInit, PopulationStep, PTL DEF Spec

\* NestedSearchExact: calibration_bucketize never files a latency elsewhere
\* than bucketize over the whole table would.
THEOREM NestedSearchExactHolds == Spec => []NestedSearchExact
<1>1. PopulationInvariant => NestedSearchExact
  BY DEF PopulationInvariant
<1>2. QED
  BY <1>1, PopulationInductive, PTL

-----------------------------------------------------------------------------
(* Estimates.                                                              *)

LEMMA GreatestOfFinite ==
    ASSUME NEW T \in SUBSET Nat, IsFiniteSet(T), T # {}
    PROVE  \E x \in T : \A y \in T : y =< x
<1>1. PICK f : f = [x \in T |-> x]
  OBVIOUS
<1>2. \A x \in T : f[x] \in Nat /\ f[x] = x
  BY <1>1
<1>3. PICK n : n = SumFunctionOnSet(f, T)
  OBVIOUS
<1>4. n \in Nat /\ \A x \in T : x =< n
  BY <1>2, <1>3, SumNat
<1>5. QED
  BY <1>4, GreatestExists

LEMMA BucketizeMonotonic ==
    ASSUME NEW bounds, IsGrid(bounds), NEW a \in Nat, NEW b \in Nat, a =< b
    PROVE  Bucketize(a, bounds) =< Bucketize(b, bounds)
<1>1. PICK n \in Nat : n = Len(bounds)
  BY DEF IsGrid
<1>2. \A i \in 1 .. n : bounds[i] \in Nat
  BY <1>1 DEF IsGrid
<1>3. PICK j, k : j = Bucketize(a, bounds) /\ k = Bucketize(b, bounds)
  OBVIOUS
<1>4. j \in 0 .. n /\ \A i \in 1 .. n : bounds[i] =< a <=> i =< j
  BY <1>1, <1>3, LandsSomewhere DEF Lands
<1>5. k \in 0 .. n /\ \A i \in 1 .. n : bounds[i] =< b <=> i =< k
  BY <1>1, <1>3, LandsSomewhere DEF Lands
<1>6. CASE j = 0
  BY <1>3, <1>5, <1>6
<1>7. CASE j # 0
  <2>1. j \in 1 .. n /\ bounds[j] =< a
    BY <1>4, <1>7
  <2>2. bounds[j] =< b
    BY <1>2, <2>1
  <2>3. QED
    BY <1>3, <1>5, <2>1, <2>2
<1>8. QED
  BY <1>6, <1>7

\* The samples counted up to a bucket.
LandingUpTo(b) == {l \in Latencies : Bucketize(l, CalibrationBounds) =< b}

LEMMA CountedUpTo ==
    ASSUME PopulationInvariant, NEW b \in CalibrationBuckets \cup {-1}
    PROVE  SumFunctionOnSet(counts, 0 .. b) = SumFunctionOnSet(sampled, LandingUpTo(b))
<1>1. PICK n \in Nat : n = Len(CalibrationBounds) /\ CalibrationBuckets = 0 .. n
  BY GridAssumption DEF IsGrid, CalibrationBuckets
<1>2. PICK key : key = [l \in Latencies |-> Bucketize(l, CalibrationBounds)]
  OBVIOUS
<1>3. \A l \in Latencies : key[l] \in 0 .. n
  BY <1>1, <1>2, Grid, LatenciesAssumption
<1>4. PICK B : B = 0 .. b
  OBVIOUS
<1>5. IsFiniteSet(B)
  BY <1>1, <1>4, FS_Interval
<1>6. \A c \in B : c \in CalibrationBuckets
  BY <1>1, <1>4
<1>7. \A l \in Latencies : sampled[l] \in Int
  BY DEF PopulationInvariant
<1>8. ASSUME NEW c \in B
      PROVE  counts[c] = SumFunctionOnSet(sampled, Fibre(Latencies, key, c))
  <2>1. Fibre(Latencies, key, c) = {l \in Latencies : Bucketize(l, CalibrationBounds) = c}
    BY <1>2 DEF Fibre
  <2>2. QED
    BY <1>6, <2>1, Zenon DEF PopulationInvariant, NestedSearchExact
<1>9. SumFunctionOnSet(counts, B) = SumFunctionOnSet(sampled, Over(Latencies, key, B))
  <2>1. IsFiniteSet(Latencies)
    BY LatenciesAssumption
  <2>2. CountsByKey(counts, B, sampled, Latencies, key)
    BY <1>8 DEF CountsByKey
  <2>3. QED
    BY <1>5, <1>7, <2>1, <2>2, SumFibres
<1>10. Over(Latencies, key, B) = LandingUpTo(b)
  <2>1. ASSUME NEW l \in Latencies PROVE key[l] \in B <=> key[l] =< b
    BY <1>1, <1>3, <1>4
  <2>2. QED
    BY <1>2, <2>1 DEF Over, LandingUpTo
<1>11. QED
  BY <1>4, <1>9, <1>10

\* The sample of a rank lies in the bucket at which the counts reach it.
LEMMA SmallestLands ==
    ASSUME PopulationInvariant, NEW rank \in Nat \ {0}, NEW bucket \in CalibrationBuckets,
           rank =< SumFunctionOnSet(counts, 0 .. bucket),
           SumFunctionOnSet(counts, 0 .. bucket - 1) < rank
    PROVE  Smallest(rank) \in Nat /\ Bucketize(Smallest(rank), CalibrationBounds) = bucket
<1>1. PICK n \in Nat : n = Len(CalibrationBounds) /\ CalibrationBuckets = 0 .. n
  BY GridAssumption DEF IsGrid, CalibrationBuckets
<1>2. PICK c : c = bucket - 1
  OBVIOUS
<1>3. c \in CalibrationBuckets \cup {-1} /\ c \in Int /\ bucket \in Nat
  BY <1>1, <1>2
<1>4. PICK U, V : U = LandingUpTo(bucket) /\ V = LandingUpTo(c)
  OBVIOUS
<1>5. rank =< SumFunctionOnSet(sampled, U) /\ SumFunctionOnSet(sampled, V) < rank
  BY <1>2, <1>3, <1>4, CountedUpTo
<1>6. U \in SUBSET Latencies /\ V \in SUBSET Latencies /\ Latencies \in SUBSET Nat
  BY <1>4, LatenciesAssumption DEF LandingUpTo
<1>7. IsFiniteSet(U) /\ IsFiniteSet(V)
  BY <1>6, LatenciesAssumption, FS_Subset
<1>8. \A l \in Latencies : sampled[l] \in Nat
  BY DEF PopulationInvariant
<1>9. \A a, b \in Nat : a =< b =>
          Bucketize(a, CalibrationBounds) =< Bucketize(b, CalibrationBounds)
  BY GridAssumption, BucketizeMonotonic
<1>10. \A l \in Latencies : Bucketize(l, CalibrationBounds) \in Nat
  BY <1>1, <1>6, Grid
<1>11. PICK T : T = {l \in Latencies : UpTo(l) >= rank}
  OBVIOUS
<1>12. PICK m \in U : m \in T
  <2>1. U # {}
    <3>1. SUFFICES ASSUME U = {} PROVE FALSE
      OBVIOUS
    <3>2. SumFunctionOnSet(sampled, U) = 0
      BY <3>1, SumEmpty
    <3>3. QED
      BY <1>5, <3>2
  <2>2. PICK m \in U : \A l \in U : l =< m
    <3>1. U \in SUBSET Nat
      BY <1>6
    <3>2. \E m \in U : \A l \in U : l =< m
      BY <1>7, <2>1, <3>1, GreatestOfFinite
    <3>3. QED
      BY <3>2
  <2>3. U = {l \in Latencies : l =< m}
    <3>1. ASSUME NEW l \in Latencies, l =< m PROVE l \in U
      <4>1. /\ l \in Nat /\ m \in Latencies /\ m \in Nat
            /\ Bucketize(m, CalibrationBounds) =< bucket
        BY <1>4, <1>6 DEF LandingUpTo
      <4>2. Bucketize(l, CalibrationBounds) =< Bucketize(m, CalibrationBounds)
        BY <1>9, <3>1, <4>1
      <4>3. Bucketize(l, CalibrationBounds) =< bucket
        BY <1>3, <1>10, <4>1, <4>2
      <4>4. QED
        BY <1>4, <4>3 DEF LandingUpTo
    <3>2. QED
      BY <1>6, <2>2, <3>1
  <2>4. UpTo(m) = SumFunctionOnSet(sampled, U)
    BY <2>3 DEF UpTo
  <2>5. SumFunctionOnSet(sampled, U) \in Nat
    BY <1>6, <1>7, <1>8, SumNat
  <2>6. QED
    BY <1>5, <1>6, <1>11, <2>4, <2>5
<1>13. PICK s : s = Smallest(rank)
  OBVIOUS
<1>14. s \in T /\ s =< m
  <2>1. T \in SUBSET Nat /\ T # {}
    BY <1>6, <1>11, <1>12
  <2>2. Min(T) \in T /\ \A l \in T : Min(T) =< l
    BY <2>1, MinOf
  <2>3. s = Min(T)
    BY <1>11, <1>13 DEF Smallest
  <2>4. QED
    BY <1>12, <2>2, <2>3
<1>15. s \in Latencies /\ s \in Nat /\ m \in Latencies /\ m \in Nat /\ UpTo(s) >= rank
  BY <1>6, <1>11, <1>14
<1>16. PICK k : k = Bucketize(s, CalibrationBounds)
  OBVIOUS
<1>17. k \in Nat /\ k =< bucket
  <2>1. Bucketize(s, CalibrationBounds) =< Bucketize(m, CalibrationBounds)
    BY <1>9, <1>14, <1>15
  <2>2. Bucketize(m, CalibrationBounds) =< bucket
    BY <1>4 DEF LandingUpTo
  <2>3. QED
    BY <1>3, <1>10, <1>15, <1>16, <2>1, <2>2
<1>18. ~(k =< c)
  <2>1. SUFFICES ASSUME k =< c PROVE FALSE
    OBVIOUS
  <2>2. PICK S : S = {l \in Latencies : l =< s}
    OBVIOUS
  <2>3. S \in SUBSET V
    <3>1. ASSUME NEW l \in Latencies, l =< s PROVE l \in V
      <4>1. Bucketize(l, CalibrationBounds) =< k
        BY <1>6, <1>9, <1>15, <1>16, <3>1
      <4>2. Bucketize(l, CalibrationBounds) =< c
        BY <1>3, <1>10, <1>17, <2>1, <4>1
      <4>3. QED
        BY <1>4, <4>2 DEF LandingUpTo
    <3>2. QED
      BY <2>2, <3>1
  <2>4. SumFunctionOnSet(sampled, S) =< SumFunctionOnSet(sampled, V)
    BY <1>6, <1>7, <1>8, <2>3, SumSubset
  <2>5. SumFunctionOnSet(sampled, V) \in Nat
    BY <1>6, <1>7, <1>8, SumNat
  <2>6. UpTo(s) = SumFunctionOnSet(sampled, S) /\ UpTo(s) \in Nat
    <3>1. IsFiniteSet(S) /\ \A l \in S : sampled[l] \in Nat
      BY <1>6, <1>7, <1>8, <2>3, FS_Subset
    <3>2. SumFunctionOnSet(sampled, S) \in Nat
      BY <3>1, SumNat
    <3>3. QED
      BY <2>2, <3>2 DEF UpTo
  <2>7. QED
    BY <1>5, <1>15, <2>4, <2>5, <2>6
<1>19. k = bucket
  BY <1>2, <1>3, <1>17, <1>18
<1>20. QED
  BY <1>13, <1>15, <1>16, <1>19

LEMMA ExactRankIs ==
    ASSUME NEW q \in Quantiles, NEW rank, IsRank(rank, Samples(counts), q),
           Samples(counts) \in Nat
    PROVE  ExactRank(q) = rank
<1>1. PICK samples \in Nat : samples = Samples(counts)
  OBVIOUS
<1>2. PICK p, d : p = samples * q[1] /\ d = PowerOfTwo[q[2]]
  OBVIOUS
<1>3. PICK T : T = {k \in 1 .. samples : k * d >= p}
  OBVIOUS
<1>4. rank \in 1 .. samples /\ p =< rank * d /\ IsRank(rank, samples, q)
  BY <1>1, <1>2 DEF IsRank
<1>5. p \in Nat /\ d \in Nat
  BY <1>2, QuantilesAssumption, PowersAre, ProductNat
<1>6. rank \in T
  <2>1. rank * d \in Nat
    BY <1>4, <1>5, ProductNat
  <2>2. QED
    BY <1>3, <1>4, <1>5, <2>1
<1>7. PICK k : k = Min(T)
  OBVIOUS
<1>8. k \in T /\ k =< rank
  <2>1. T \in SUBSET Nat /\ T # {}
    BY <1>3, <1>6
  <2>2. Min(T) \in T /\ \A x \in T : Min(T) =< x
    BY <2>1, MinOf
  <2>3. QED
    BY <1>6, <1>7, <2>2
<1>9. k \in Nat /\ p =< k * d
  <2>1. k \in Nat /\ k * d >= p
    BY <1>3, <1>8
  <2>2. k * d \in Nat
    BY <1>5, <2>1, ProductNat
  <2>3. QED
    BY <1>5, <2>1, <2>2
<1>10. rank =< k
  BY <1>2, <1>4, <1>9, RankUnique
<1>11. ExactRank(q) = k
  BY <1>1, <1>2, <1>3, <1>7, Zenon DEF ExactRank
<1>12. QED
  BY <1>4, <1>8, <1>9, <1>10, <1>11

\* The terminal, the bounds and the value of a bucket.
Terminal(bucket) ==
    IF bucket = 0 THEN "Lower"
    ELSE IF bucket = Len(CalibrationBounds) THEN "Upper" ELSE "Finite"

LEMMA EstimateIs ==
    ASSUME PopulationInvariant, NEW q \in Quantiles
    PROVE  /\ Samples(counts) \in Nat
           /\ Samples(counts) = 0 => Estimate(q) = None
           /\ Samples(counts) # 0 =>
                 \E bucket \in CalibrationBuckets :
                    /\ Estimate(q).rank = ExactRank(q)
                    /\ Bucketize(Smallest(ExactRank(q)), CalibrationBounds) = bucket
                    /\ Smallest(ExactRank(q)) \in Nat
                    /\ Estimate(q).terminal = Terminal(bucket)
                    /\ Estimate(q).lower = IF bucket = 0 THEN None
                                           ELSE CalibrationBounds[bucket]
                    /\ Estimate(q).upper = IF bucket = Len(CalibrationBounds) THEN None
                                           ELSE CalibrationBounds[bucket + 1]
                    /\ Terminal(bucket) = "Finite" =>
                          Estimate(q).value =
                            FiniteRepresentative(CalibrationBounds[bucket],
                                                 CalibrationBounds[bucket + 1])
<1>1. PICK n \in Nat : n = Len(CalibrationBounds) /\ CalibrationBuckets = 0 .. n
  BY GridAssumption DEF IsGrid, CalibrationBuckets
<1>2. n # 0
  <2>1. PICK m \in Nat : m = Len(DefaultBounds) /\ n = 4 * (m - 1) + 1
    BY <1>1, GridAssumption DEF IsGrid
  <2>2. QED
    BY <2>1
<1>3. PICK samples : samples = Samples(counts)
  OBVIOUS
<1>4. samples \in 0 .. MaxSamples
  <2>1. samples \in Nat /\ samples =< MaxSamples
    BY <1>3, Grid, SamplesAre DEF PopulationInvariant
  <2>2. QED
    BY <2>1, WidthAssumption
<1>5. PICK selection : selection = NearestRank(counts, q)
  OBVIOUS
<1>6. counts \in [0 .. n -> Nat]
  BY <1>1 DEF PopulationInvariant
<1>7. /\ samples = 0 => selection = None
      /\ samples # 0 => Selects(selection, counts, n, samples, q)
  BY <1>3, <1>4, <1>5, <1>6, NearestRankIs
<1>8. ASSUME samples = 0 PROVE Estimate(q) = None
  BY <1>5, <1>7, <1>8 DEF Estimate
<1>9. ASSUME samples # 0
      PROVE  \E bucket \in CalibrationBuckets :
                /\ Estimate(q).rank = ExactRank(q)
                /\ Bucketize(Smallest(ExactRank(q)), CalibrationBounds) = bucket
                /\ Smallest(ExactRank(q)) \in Nat
                /\ Estimate(q).terminal = Terminal(bucket)
                /\ Estimate(q).lower = IF bucket = 0 THEN None
                                       ELSE CalibrationBounds[bucket]
                /\ Estimate(q).upper = IF bucket = Len(CalibrationBounds) THEN None
                                       ELSE CalibrationBounds[bucket + 1]
                /\ Terminal(bucket) = "Finite" =>
                      Estimate(q).value =
                        FiniteRepresentative(CalibrationBounds[bucket],
                                             CalibrationBounds[bucket + 1])
  <2>1. PICK rank, bucket : rank = selection.rank /\ bucket = selection.bucket
    OBVIOUS
  <2>2. /\ selection = [rank |-> rank, samples |-> samples, bucket |-> bucket]
        /\ IsRank(rank, samples, q) /\ rank \in 1 .. samples
        /\ bucket \in 0 .. n
        /\ rank =< SumFunctionOnSet(counts, 0 .. bucket)
        /\ SumFunctionOnSet(counts, 0 .. bucket - 1) < rank
    BY <1>7, <1>9, <2>1 DEF Selects, IsRank
  <2>3. selection # None
    <3>1. rank \in Nat /\ samples \in Nat /\ bucket \in Nat
      BY <1>4, <2>2
    <3>2. selection \in [rank : Nat, samples : Nat, bucket : Nat]
      BY <2>2, <3>1
    <3>3. QED
      BY <3>2, NoneAssumption
  <2>4. ExactRank(q) = rank
    BY <1>3, <1>4, <2>2, ExactRankIs
  <2>5. Smallest(rank) \in Nat /\ Bucketize(Smallest(rank), CalibrationBounds) = bucket
    <3>1. rank \in Nat \ {0} /\ bucket \in CalibrationBuckets
      BY <1>1, <1>4, <2>2
    <3>2. QED
      BY <2>2, <3>1, SmallestLands
  <2>6. PICK lower, upper, value :
            /\ lower = CalibrationBounds[bucket] /\ upper = CalibrationBounds[bucket + 1]
            /\ value = FiniteRepresentative(lower, upper)
    OBVIOUS
  <2>7. CASE bucket = 0
    <3>1. Estimate(q) = [rank |-> rank, terminal |-> "Lower", lower |-> None,
                         upper |-> CalibrationBounds[1], value |-> None]
      BY <1>5, <2>1, <2>3, <2>7 DEF Estimate
    <3>2. 0 # Len(CalibrationBounds) /\ bucket + 1 = 1
      BY <1>1, <1>2, <2>7
    <3>3. QED
      BY <1>1, <2>2, <2>4, <2>5, <2>7, <3>1, <3>2 DEF Terminal
  <2>8. CASE bucket # 0 /\ bucket = n
    <3>1. Estimate(q) = [rank |-> rank, terminal |-> "Upper", lower |-> lower,
                         upper |-> None, value |-> None]
      BY <1>1, <1>5, <2>1, <2>3, <2>6, <2>8 DEF Estimate
    <3>2. QED
      BY <1>1, <2>2, <2>4, <2>5, <2>6, <2>8, <3>1 DEF Terminal
  <2>9. CASE bucket # 0 /\ bucket # n
    <3>1. Estimate(q) = [rank |-> rank, terminal |-> "Finite", lower |-> lower,
                         upper |-> upper, value |-> value]
      BY <1>1, <1>5, <2>1, <2>3, <2>6, <2>9 DEF Estimate
    <3>2. QED
      BY <1>1, <2>2, <2>4, <2>5, <2>6, <2>9, <3>1 DEF Terminal
  <2>10. QED
    BY <2>7, <2>8, <2>9
<1>10. QED
  BY <1>3, <1>4, <1>8, <1>9

\* EstimateEncloses: estimate_quantile has the exact nearest rank, and its
\* bounds enclose the sample of that rank, for any tables and quantiles.
THEOREM EstimateEnclosesHolds == Spec => []EstimateEncloses
<1>1. ASSUME PopulationInvariant PROVE EstimateEncloses
  <2>1. SUFFICES
            ASSUME NEW q \in Quantiles
            PROVE  IF Samples(counts) = 0 THEN Estimate(q) = None
                   ELSE /\ Estimate(q).rank = ExactRank(q)
                        /\ Estimate(q).lower # None =>
                              Estimate(q).lower =< Smallest(ExactRank(q))
                        /\ Estimate(q).upper # None =>
                              Smallest(ExactRank(q)) < Estimate(q).upper
    BY Zenon DEF EstimateEncloses
  <2>2. CASE Samples(counts) = 0
    BY <1>1, <2>2, EstimateIs
  <2>3. CASE Samples(counts) # 0
    <3>1. PICK n \in Nat : n = Len(CalibrationBounds) /\ CalibrationBuckets = 0 .. n
      BY GridAssumption DEF IsGrid, CalibrationBuckets
    <3>2. PICK bucket \in CalibrationBuckets :
             /\ Estimate(q).rank = ExactRank(q)
             /\ Bucketize(Smallest(ExactRank(q)), CalibrationBounds) = bucket
             /\ Smallest(ExactRank(q)) \in Nat
             /\ Estimate(q).lower = IF bucket = 0 THEN None
                                    ELSE CalibrationBounds[bucket]
             /\ Estimate(q).upper = IF bucket = Len(CalibrationBounds) THEN None
                                    ELSE CalibrationBounds[bucket + 1]
      BY <1>1, <2>3, EstimateIs, Zenon
    <3>3. PICK s \in Nat : s = Smallest(ExactRank(q))
      BY <3>2
    <3>4. /\ bucket \in 0 .. n
          /\ \A i \in 1 .. n : CalibrationBounds[i] =< s <=> i =< bucket
      BY <3>1, <3>2, <3>3, GridAssumption, LandsSomewhere DEF Lands
    <3>5. \A i \in 1 .. n : CalibrationBounds[i] \in Nat
      BY <3>1, GridAssumption DEF IsGrid
    <3>6. bucket # 0 => CalibrationBounds[bucket] =< s
      BY <3>4
    <3>7. bucket # n => s < CalibrationBounds[bucket + 1]
      BY <3>4, <3>5
    <3>8. QED
      BY <2>3, <3>1, <3>2, <3>3, <3>6, <3>7
  <2>4. QED
    BY <2>2, <2>3
<1>2. QED
  BY <1>1, PopulationInductive, PTL

\* The rounded harmonic mean of two bounds lies between them.
LEMMA RepresentativeBetween ==
    ASSUME NEW lower \in Nat \ {0}, NEW upper \in Nat, lower < upper
    PROVE  /\ lower =< FiniteRepresentative(lower, upper)
           /\ FiniteRepresentative(lower, upper) < upper
<1>1. PICK e \in Nat \ {0} : e = upper - lower /\ upper = lower + e
  OBVIOUS
<1>2. PICK d \in Nat \ {0} : d = lower + upper /\ d = 2 * lower + e
  BY <1>1
<1>3. PICK a, b, c \in Nat : a = lower * lower /\ b = lower * e /\ c = e * e
  <2>1. lower * lower \in Nat /\ lower * e \in Nat /\ e * e \in Nat
    BY ProductNat
  <2>2. QED
    BY <2>1
<1>4. lower =< b /\ e =< c
  <2>1. 1 * lower =< e * lower /\ 1 * e =< e * e
    BY ProductMonotonic
  <2>2. e * lower = lower * e /\ 1 * lower = lower /\ 1 * e = e
    OBVIOUS
  <2>3. QED
    BY <1>3, <2>1, <2>2
<1>5. PICK p \in Nat : p = 2 * lower * upper /\ p = 2 * a + 2 * b
  <2>1. 2 * lower * upper = 2 * (lower * lower) + 2 * (lower * e)
    BY <1>1
  <2>2. QED
    BY <1>3, <2>1
<1>6. lower * d = 2 * a + b
  <2>1. lower * d = 2 * (lower * lower) + lower * e
    BY <1>2
  <2>2. QED
    BY <1>3, <2>1
<1>7. upper * d = 2 * a + 3 * b + c
  <2>1. upper * d = 2 * (lower * lower) + 3 * (lower * e) + e * e
    BY <1>1, <1>2
  <2>2. QED
    BY <1>3, <2>1
<1>8. PICK q, r : q = p \div d /\ r = p % d
  OBVIOUS
<1>9. q \in Nat /\ r \in 0 .. d - 1 /\ p = q * d + r
  BY <1>8
<1>10. PICK x \in Nat : x = q * d
  BY <1>9, ProductNat
<1>11. p = x + r /\ r \in Nat /\ r < d
  BY <1>9, <1>10
<1>12. lower =< q
  <2>1. SUFFICES ASSUME q + 1 =< lower PROVE FALSE
    BY <1>9
  <2>2. (q + 1) * d =< lower * d
    BY <1>9, <2>1, ProductMonotonic
  <2>3. (q + 1) * d = x + d
    BY <1>9, <1>10
  <2>4. QED
    BY <1>5, <1>6, <1>11, <2>2, <2>3
<1>13. q < upper
  <2>1. SUFFICES ASSUME upper =< q PROVE FALSE
    BY <1>9
  <2>2. upper * d =< q * d
    BY <1>9, <2>1, ProductMonotonic
  <2>3. 2 * a + 3 * b + c =< x
    BY <1>7, <1>10, <2>2
  <2>4. QED
    BY <1>4, <1>5, <1>11, <2>3
\* Rounding up from just below the upper bound would need it closer.
<1>14. ASSUME q + 1 = upper PROVE ~(r >= (d + 1) \div 2)
  <2>1. x = 2 * a + 3 * b + c - d
    <3>1. upper * d = q * d + d
      BY <1>9, <1>14
    <3>2. QED
      BY <1>7, <1>10, <3>1
  <2>2. r + b + c = d
    BY <1>5, <1>11, <2>1
  <2>3. 2 * r < d
    BY <1>2, <1>4, <1>11, <2>2
  <2>4. QED
    BY <1>11, <2>3
<1>15. PICK v : v = FiniteRepresentative(lower, upper)
  OBVIOUS
<1>16. v = q + (IF r >= (d + 1) \div 2 THEN 1 ELSE 0)
  BY <1>2, <1>5, <1>8, <1>15, Zenon DEF FiniteRepresentative
<1>17. CASE r >= (d + 1) \div 2
  <2>1. v = q + 1 /\ q + 1 # upper
    BY <1>14, <1>16, <1>17
  <2>2. QED
    BY <1>9, <1>12, <1>13, <1>15, <2>1
<1>18. CASE ~(r >= (d + 1) \div 2)
  <2>1. v = q
    BY <1>9, <1>16, <1>18
  <2>2. QED
    BY <1>12, <1>13, <1>15, <2>1
<1>19. QED
  BY <1>17, <1>18

\* ThresholdInBucket: finite_representative stays in the bucket it stands
\* for, so no threshold classifies a sample on the wrong side of it.
THEOREM ThresholdInBucketHolds == Spec => []ThresholdInBucket
<1>1. ASSUME PopulationInvariant PROVE ThresholdInBucket
  <2>1. SUFFICES
            ASSUME NEW q \in Quantiles, Samples(counts) > 0,
                   Estimate(q).terminal = "Finite"
            PROVE  Estimate(q).lower =< Estimate(q).value
                   /\ Estimate(q).value < Estimate(q).upper
    BY DEF ThresholdInBucket
  <2>2. Samples(counts) # 0
    BY <1>1, <2>1, EstimateIs
  <2>3. PICK n \in Nat : n = Len(CalibrationBounds) /\ CalibrationBuckets = 0 .. n
    BY GridAssumption DEF IsGrid, CalibrationBuckets
  <2>4. PICK bucket \in CalibrationBuckets :
           /\ Estimate(q).terminal = Terminal(bucket)
           /\ Estimate(q).lower = IF bucket = 0 THEN None
                                  ELSE CalibrationBounds[bucket]
           /\ Estimate(q).upper = IF bucket = Len(CalibrationBounds) THEN None
                                  ELSE CalibrationBounds[bucket + 1]
           /\ Terminal(bucket) = "Finite" =>
                 Estimate(q).value =
                   FiniteRepresentative(CalibrationBounds[bucket],
                                        CalibrationBounds[bucket + 1])
    BY <1>1, <2>2, EstimateIs, Zenon
  <2>5. bucket # 0 /\ bucket # n
    BY <2>1, <2>3, <2>4 DEF Terminal
  <2>6. PICK lower, upper : lower = CalibrationBounds[bucket]
                            /\ upper = CalibrationBounds[bucket + 1]
    OBVIOUS
  <2>7. bucket \in 1 .. n - 1
    BY <2>3, <2>4, <2>5
  <2>8. lower \in Nat \ {0} /\ upper \in Nat /\ lower < upper
    BY <2>3, <2>6, <2>7, GridAssumption DEF IsGrid
  <2>9. /\ Estimate(q).lower = lower /\ Estimate(q).upper = upper
        /\ Estimate(q).value = FiniteRepresentative(lower, upper)
    BY <2>1, <2>3, <2>4, <2>5, <2>6
  <2>10. QED
    BY <2>8, <2>9, RepresentativeBetween
<1>2. QED
  BY <1>1, PopulationInductive, PTL

-----------------------------------------------------------------------------
(* What a diagnosis counts.                                                *)

Mark == [previous : Previouses \cup {None}, local : Latencies]

\* The places of the marks in a set of marks.
Positions(ms, P) == {i \in DOMAIN ms : ms[i] \in P}

CauseMarks(c) == {mark \in Mark : mark.previous # None /\ CauseCell(mark) = c}
IncomingMarks(c) == {mark \in Mark : mark.previous # None /\ IncomingCell(mark) = c}
OnlineMarks(c) == {mark \in Mark : OnlineCell(mark) = c}

Below(a, b) == a \in Nat /\ a =< b

\* Inductive: every cell counts its marks, and a scan at most as many.
DiagnosisInvariant ==
    /\ marks \in Seq(Mark)
    /\ \A c \in MatrixCells :
          /\ counters.cause[c] = Cardinality(Positions(marks, CauseMarks(c)))
          /\ counters.incoming[c] = Cardinality(Positions(marks, IncomingMarks(c)))
    /\ \A c \in OnlineCells :
          counters.online[c] = Cardinality(Positions(marks, OnlineMarks(c)))
    /\ DOMAIN counters.cause = MatrixCells /\ DOMAIN counters.incoming = MatrixCells
    /\ DOMAIN counters.online = OnlineCells
    /\ seen # None =>
          /\ \A c \in MatrixCells : /\ Below(seen.cause[c], counters.cause[c])
                                    /\ Below(seen.incoming[c], counters.incoming[c])
          /\ \A c \in OnlineCells : Below(seen.online[c], counters.online[c])

LEMMA PositionsAre ==
    ASSUME NEW M, NEW ms \in Seq(M), NEW P
    PROVE  /\ IsFiniteSet(DOMAIN ms) /\ Positions(ms, P) \in SUBSET DOMAIN ms
           /\ IsFiniteSet(Positions(ms, P)) /\ Cardinality(Positions(ms, P)) \in Nat
<1>1. PICK D : D = DOMAIN ms
  OBVIOUS
<1>2. IsFiniteSet(D)
  <2>1. PICK n \in Nat : n = Len(ms) /\ D = 1 .. n
    BY <1>1
  <2>2. QED
    BY <2>1, FS_Interval
<1>3. Positions(ms, P) \in SUBSET D
  BY <1>1 DEF Positions
<1>4. IsFiniteSet(Positions(ms, P)) /\ Cardinality(Positions(ms, P)) \in Nat
  BY <1>2, <1>3, FS_Subset, FS_CardinalityType
<1>5. QED
  BY <1>1, <1>2, <1>3, <1>4

LEMMA PositionsAppend ==
    ASSUME NEW M, NEW ms \in Seq(M), NEW m \in M, NEW P
    PROVE  Cardinality(Positions(Append(ms, m), P)) =
               Cardinality(Positions(ms, P)) + (IF m \in P THEN 1 ELSE 0)
<1>1. PICK n \in Nat : n = Len(ms) /\ DOMAIN ms = 1 .. n
  OBVIOUS
<1>2. PICK k : k = n + 1
  OBVIOUS
<1>3. PICK t : t = Append(ms, m)
  OBVIOUS
<1>4. DOMAIN t = DOMAIN ms \cup {k} /\ k \notin DOMAIN ms
  <2>1. DOMAIN t = 1 .. k
    BY <1>1, <1>2, <1>3
  <2>2. 1 .. k = 1 .. n \cup {k} /\ k \notin 1 .. n
    BY <1>2
  <2>3. QED
    BY <1>1, <2>1, <2>2
<1>5. t[k] = m /\ \A i \in DOMAIN ms : t[i] = ms[i]
  BY <1>1, <1>2, <1>3
<1>6. PICK Q : Q = Positions(ms, P)
  OBVIOUS
<1>7. IsFiniteSet(Q) /\ Cardinality(Q) \in Nat /\ k \notin Q
  BY <1>4, <1>6, PositionsAre
<1>8. CASE m \in P
  <2>1. Positions(t, P) = Q \cup {k}
    BY <1>4, <1>5, <1>6, <1>8 DEF Positions
  <2>2. Cardinality(Q \cup {k}) = Cardinality(Q) + 1
    BY <1>7, FS_AddElement
  <2>3. QED
    BY <1>3, <1>6, <1>8, <2>1, <2>2
<1>9. CASE m \notin P
  <2>1. Positions(t, P) = Q
    BY <1>4, <1>5, <1>6, <1>9 DEF Positions
  <2>2. QED
    BY <1>3, <1>6, <1>7, <1>9, <2>1
<1>10. QED
  BY <1>8, <1>9

\* Marks that a scan misses are fewer than those there are.
LEMMA MissedBelow ==
    ASSUME NEW M, NEW ms \in Seq(M), NEW P, NEW L \in SUBSET Positions(ms, P)
    PROVE  Below(Cardinality(Positions(ms, P)) - Cardinality(L),
                 Cardinality(Positions(ms, P)))
<1>1. PICK Q : Q = Positions(ms, P)
  OBVIOUS
<1>2. IsFiniteSet(Q) /\ Cardinality(Q) \in Nat
  BY <1>1, PositionsAre
<1>3. IsFiniteSet(L) /\ Cardinality(L) =< Cardinality(Q)
  BY <1>1, <1>2, FS_Subset
<1>4. Cardinality(L) \in Nat
  BY <1>3, FS_CardinalityType
<1>5. QED
  BY <1>1, <1>2, <1>3, <1>4 DEF Below

LEMMA DiagnosisInitInvariant == DiagnosisInit => DiagnosisInvariant
<1> SUFFICES ASSUME DiagnosisInit PROVE DiagnosisInvariant
  OBVIOUS
<1>1. marks = <<>> /\ seen = None /\ counters = NothingCounted
  BY DEF DiagnosisInit
<1>2. marks \in Seq(Mark)
  BY <1>1
<1>3. \A P : Cardinality(Positions(marks, P)) = 0
  <2>1. ASSUME NEW P PROVE Positions(marks, P) = {}
    BY <1>1 DEF Positions
  <2>2. QED
    BY <2>1, FS_EmptySet
<1>4. /\ counters.cause = [c \in MatrixCells |-> 0]
      /\ counters.incoming = [c \in MatrixCells |-> 0]
      /\ counters.online = [c \in OnlineCells |-> 0]
  BY <1>1 DEF NothingCounted
<1>5. QED
  BY <1>1, <1>2, <1>3, <1>4 DEF DiagnosisInvariant

LEMMA DiagnosisStep ==
    DiagnosisInvariant /\ [DiagnosisNext]_diagnosisVars => DiagnosisInvariant'
<1> SUFFICES ASSUME DiagnosisInvariant, [DiagnosisNext]_diagnosisVars
             PROVE  DiagnosisInvariant'
  OBVIOUS
<1>0. /\ marks \in Seq(Mark)
      /\ DOMAIN counters.cause = MatrixCells /\ DOMAIN counters.incoming = MatrixCells
      /\ DOMAIN counters.online = OnlineCells
      /\ \A c \in MatrixCells :
            /\ counters.cause[c] = Cardinality(Positions(marks, CauseMarks(c)))
            /\ counters.incoming[c] = Cardinality(Positions(marks, IncomingMarks(c)))
      /\ \A c \in OnlineCells :
            counters.online[c] = Cardinality(Positions(marks, OnlineMarks(c)))
  BY DEF DiagnosisInvariant
<1>1. CASE UNCHANGED diagnosisVars
  BY <1>1 DEF diagnosisVars, DiagnosisInvariant
<1>2. ASSUME NEW previous \in Previouses \cup {None}, NEW local \in Latencies,
             RecordMark([previous |-> previous, local |-> local])
      PROVE  DiagnosisInvariant'
  <2>1. PICK mark \in Mark : RecordMark(mark)
    <3>1. [previous |-> previous, local |-> local] \in Mark
      BY DEF Mark
    <3>2. QED
      BY <1>2, <3>1
  <2>2. seen' = None /\ marks' = Append(marks, mark)
    BY <2>1 DEF RecordMark
  <2>3. /\ counters'.cause = IF mark.previous = None THEN counters.cause
                            ELSE [counters.cause EXCEPT ![CauseCell(mark)] = @ + 1]
        /\ counters'.incoming = IF mark.previous = None THEN counters.incoming
                               ELSE [counters.incoming EXCEPT ![IncomingCell(mark)] = @ + 1]
        /\ counters'.online = [counters.online EXCEPT ![OnlineCell(mark)] = @ + 1]
    BY <2>1 DEF RecordMark
  <2>4. marks' \in Seq(Mark)
    BY <1>0, <2>2
  <2>5. \A P : Cardinality(Positions(marks', P)) =
               Cardinality(Positions(marks, P)) + (IF mark \in P THEN 1 ELSE 0)
    BY <1>0, <2>2, PositionsAppend
  <2>6. \A P : Cardinality(Positions(marks, P)) \in Nat
    BY <1>0, PositionsAre
  <2>7. ASSUME NEW c \in MatrixCells
        PROVE  counters'.cause[c] = Cardinality(Positions(marks', CauseMarks(c)))
    <3>1. PICK P : P = CauseMarks(c)
      OBVIOUS
    <3>2. mark \in P <=> mark.previous # None /\ CauseCell(mark) = c
      BY <3>1 DEF CauseMarks
    <3>3. counters'.cause[c] = counters.cause[c] + (IF mark \in P THEN 1 ELSE 0)
      <4>1. counters.cause[c] \in Nat
        BY <1>0, <2>6
      <4>2. QED
        BY <1>0, <2>3, <3>2, <4>1
    <3>4. QED
      BY <1>0, <2>5, <3>1, <3>3
  <2>8. ASSUME NEW c \in MatrixCells
        PROVE  counters'.incoming[c] = Cardinality(Positions(marks', IncomingMarks(c)))
    <3>1. PICK P : P = IncomingMarks(c)
      OBVIOUS
    <3>2. mark \in P <=> mark.previous # None /\ IncomingCell(mark) = c
      BY <3>1 DEF IncomingMarks
    <3>3. counters'.incoming[c] = counters.incoming[c] + (IF mark \in P THEN 1 ELSE 0)
      <4>1. counters.incoming[c] \in Nat
        BY <1>0, <2>6
      <4>2. QED
        BY <1>0, <2>3, <3>2, <4>1
    <3>4. QED
      BY <1>0, <2>5, <3>1, <3>3
  <2>9. ASSUME NEW c \in OnlineCells
        PROVE  counters'.online[c] = Cardinality(Positions(marks', OnlineMarks(c)))
    <3>1. PICK P : P = OnlineMarks(c)
      OBVIOUS
    <3>2. mark \in P <=> OnlineCell(mark) = c
      BY <3>1 DEF OnlineMarks
    <3>3. counters'.online[c] = counters.online[c] + (IF mark \in P THEN 1 ELSE 0)
      <4>1. counters.online[c] \in Nat
        BY <1>0, <2>6
      <4>2. QED
        BY <1>0, <2>3, <3>2, <4>1
    <3>4. QED
      BY <1>0, <2>5, <3>1, <3>3
  <2>10. /\ DOMAIN counters'.cause = MatrixCells /\ DOMAIN counters'.incoming = MatrixCells
         /\ DOMAIN counters'.online = OnlineCells
    BY <1>0, <2>3
  <2>11. QED
    BY <2>2, <2>4, <2>7, <2>8, <2>9, <2>10
       DEF DiagnosisInvariant, CauseMarks, IncomingMarks, OnlineMarks
<1>3. ASSUME NEW lateCause \in SUBSET DOMAIN marks,
             NEW lateIncoming \in SUBSET DOMAIN marks,
             NEW lateOnline \in SUBSET DOMAIN marks,
             Scan(lateCause, lateIncoming, lateOnline)
      PROVE  DiagnosisInvariant'
  <2>1. marks' = marks /\ counters' = counters
    BY <1>3 DEF Scan
  <2>2. \A i \in DOMAIN marks : marks[i] \in Mark
    BY <1>0
  <2>3. ASSUME NEW c \in MatrixCells PROVE Below(seen'.cause[c], counters.cause[c])
    <3>1. PICK L : L = {i \in Predecessors(lateCause) : CauseCell(marks[i]) = c}
      OBVIOUS
    <3>2. seen'.cause[c] = counters.cause[c] - Cardinality(L)
      BY <1>3, <3>1 DEF Scan, Hits
    <3>3. L \in SUBSET Positions(marks, CauseMarks(c))
      BY <2>2, <3>1 DEF Predecessors, Positions, CauseMarks
    <3>4. QED
      BY <1>0, <3>2, <3>3, MissedBelow
  <2>4. ASSUME NEW c \in MatrixCells PROVE Below(seen'.incoming[c], counters.incoming[c])
    <3>1. PICK L : L = {i \in Predecessors(lateIncoming) : IncomingCell(marks[i]) = c}
      OBVIOUS
    <3>2. seen'.incoming[c] = counters.incoming[c] - Cardinality(L)
      BY <1>3, <3>1 DEF Scan, Hits
    <3>3. L \in SUBSET Positions(marks, IncomingMarks(c))
      BY <2>2, <3>1 DEF Predecessors, Positions, IncomingMarks
    <3>4. QED
      BY <1>0, <3>2, <3>3, MissedBelow
  <2>5. ASSUME NEW c \in OnlineCells PROVE Below(seen'.online[c], counters.online[c])
    <3>1. PICK L : L = {i \in lateOnline : OnlineCell(marks[i]) = c}
      OBVIOUS
    <3>2. seen'.online[c] = counters.online[c] - Cardinality(L)
      BY <1>3, <3>1 DEF Scan, Hits
    <3>3. L \in SUBSET Positions(marks, OnlineMarks(c))
      BY <2>2, <3>1 DEF Positions, OnlineMarks
    <3>4. QED
      BY <1>0, <3>2, <3>3, MissedBelow
  <2>6. QED
    BY <1>0, <2>1, <2>3, <2>4, <2>5 DEF DiagnosisInvariant
<1>4. QED
  BY <1>1, <1>2, <1>3 DEF DiagnosisNext

\* The cause and incoming matrices and the online truth table count every
\* mark in its cell, and a relaxed scan never more than there are.
THEOREM DiagnosisInductive == DiagnosisSpec => []DiagnosisInvariant
<1>1. QED
  BY DiagnosisInitInvariant, DiagnosisStep, PTL DEF DiagnosisSpec

-----------------------------------------------------------------------------
(* The scores of either path.                                              *)

RateNames == {"local_tail_origin_tail", "local_tail_rate_given_prev_tail",
              "local_tail_rate_given_prev_not_tail", "amplification_lift",
              "carry_through"}
CleanNames == {"tail_onset", "local_tail_origin_clean"}

LEMMA JoinedIs ==
    ASSUME NEW onset, NEW clean, NEW rates, DOMAIN rates = RateNames,
           NEW scores, scores = Joined(CleanScores(onset, clean), rates)
    PROVE  /\ DOMAIN scores = CleanNames \cup RateNames
           /\ scores["tail_onset"] = onset /\ scores["local_tail_origin_clean"] = clean
           /\ \A name \in RateNames : scores[name] = rates[name]
<1>1. PICK c : c = CleanScores(onset, clean)
  OBVIOUS
<1>2. /\ DOMAIN c = CleanNames /\ c["tail_onset"] = onset
      /\ c["local_tail_origin_clean"] = clean
  BY <1>1 DEF CleanScores, CleanNames
<1>3. scores = [score \in CleanNames \cup RateNames |->
                   IF score \in CleanNames THEN c[score] ELSE rates[score]]
  BY <1>1, <1>2 DEF Joined
<1>4. \A name \in RateNames : name \notin CleanNames
  BY DEF RateNames, CleanNames
<1>5. "tail_onset" \in CleanNames /\ "local_tail_origin_clean" \in CleanNames
  BY DEF CleanNames
<1>6. QED
  BY <1>2, <1>3, <1>4, <1>5

LEMMA RateScoresAre ==
    ASSUME NEW tl, NEW pt, NEW cl, NEW pc, NEW lt,
           NEW rates, rates = RateScores(tl, pt, cl, pc, lt)
    PROVE  /\ DOMAIN rates = RateNames
           /\ rates["local_tail_origin_tail"] = Ratio(tl, lt)
           /\ rates["local_tail_rate_given_prev_tail"] = Ratio(tl, pt)
           /\ rates["local_tail_rate_given_prev_not_tail"] = Ratio(cl, pc)
           /\ rates["amplification_lift"] = Lift(tl, pt, cl, pc)
           /\ rates["carry_through"] = Ratio(pt - tl, pt)
BY DEF RateScores, RateNames

LEMMA NoRateScoresAre ==
    /\ DOMAIN NoRateScores = RateNames
    /\ \A name \in RateNames : NoRateScores[name] = Unavailable
BY DEF NoRateScores, RateNames

LEMMA RatioIs ==
    ASSUME NEW a, NEW b
    PROVE  /\ Ratio(a, b).numerator = a /\ Ratio(a, b).denominator = b
           /\ Ratio(a, b).status = Available <=> b # 0
BY DEF Ratio, Available

LEMMA UnavailableIs ==
    /\ Unavailable.numerator = 0 /\ Unavailable.denominator = 0
    /\ Unavailable.status # Available
BY DEF Unavailable, Available, NoPredecessorPopulation

\* What TornScoresCoherent says of the scores of one path.
Coherent(scores) ==
    /\ \A score \in DOMAIN scores \ {"amplification_lift"} :
          scores[score].numerator =< scores[score].denominator
    /\ scores["carry_through"].status = Available =>
          scores["carry_through"].numerator
            + scores["local_tail_rate_given_prev_tail"].numerator
            = scores["carry_through"].denominator
    /\ scores["local_tail_origin_tail"].status = Available =>
          scores["local_tail_origin_tail"].numerator
            + scores["local_tail_origin_clean"].numerator
            = scores["local_tail_origin_tail"].denominator
    /\ scores["amplification_lift"].status = Available =>
          \A rate \in {"local_tail_rate_given_prev_tail",
                       "local_tail_rate_given_prev_not_tail"} :
              scores[rate].status = Available

LEMMA CoherentWithout ==
    ASSUME NEW onset, NEW clean, onset.numerator =< onset.denominator,
           clean.numerator =< clean.denominator
    PROVE  Coherent(Joined(CleanScores(onset, clean), NoRateScores))
<1>1. PICK scores : scores = Joined(CleanScores(onset, clean), NoRateScores)
  OBVIOUS
<1>2. /\ DOMAIN scores = CleanNames \cup RateNames
      /\ scores["tail_onset"] = onset /\ scores["local_tail_origin_clean"] = clean
      /\ \A name \in RateNames : scores[name] = Unavailable
  BY <1>1, NoRateScoresAre, JoinedIs
<1>3. ASSUME NEW score \in DOMAIN scores
      PROVE  scores[score].numerator =< scores[score].denominator
  <2>1. CASE score \in RateNames
    BY <1>2, <2>1, UnavailableIs
  <2>2. CASE score \in CleanNames
    BY <1>2, <2>2 DEF CleanNames
  <2>3. QED
    BY <1>2, <2>1, <2>2
<1>4. /\ scores["carry_through"].status # Available
      /\ scores["local_tail_origin_tail"].status # Available
      /\ scores["amplification_lift"].status # Available
  BY <1>2, UnavailableIs DEF RateNames
<1>5. QED
  BY <1>1, <1>3, <1>4 DEF Coherent

LEMMA CoherentWith ==
    ASSUME NEW onset, onset.numerator =< onset.denominator,
           NEW tl \in Nat, NEW pt \in Nat, NEW cl \in Nat, NEW pc \in Nat,
           NEW lt \in Nat, NEW clean \in Nat,
           tl =< pt, cl =< pc, lt = tl + clean
    PROVE  Coherent(Joined(CleanScores(onset, Ratio(clean, lt)),
                           RateScores(tl, pt, cl, pc, lt)))
<1>1. PICK rates : rates = RateScores(tl, pt, cl, pc, lt)
  OBVIOUS
<1>2. PICK scores : scores = Joined(CleanScores(onset, Ratio(clean, lt)), rates)
  OBVIOUS
<1>3. /\ DOMAIN scores = CleanNames \cup RateNames
      /\ scores["tail_onset"] = onset
      /\ scores["local_tail_origin_clean"] = Ratio(clean, lt)
      /\ \A name \in RateNames : scores[name] = rates[name]
  BY <1>1, <1>2, RateScoresAre, JoinedIs
<1>4. /\ scores["local_tail_origin_tail"] = Ratio(tl, lt)
      /\ scores["local_tail_rate_given_prev_tail"] = Ratio(tl, pt)
      /\ scores["local_tail_rate_given_prev_not_tail"] = Ratio(cl, pc)
      /\ scores["amplification_lift"] = Lift(tl, pt, cl, pc)
      /\ scores["carry_through"] = Ratio(pt - tl, pt)
  BY <1>1, <1>3, RateScoresAre DEF RateNames
<1>5. ASSUME NEW score \in DOMAIN scores \ {"amplification_lift"}
      PROVE  scores[score].numerator =< scores[score].denominator
  <2>1. tl =< lt /\ clean =< lt /\ pt - tl =< pt
    OBVIOUS
  <2>2. score \in {"tail_onset", "local_tail_origin_clean", "local_tail_origin_tail",
                  "local_tail_rate_given_prev_tail",
                  "local_tail_rate_given_prev_not_tail", "carry_through"}
    BY <1>3, <1>5 DEF CleanNames, RateNames
  <2>3. QED
    BY <1>3, <1>4, <2>1, <2>2, RatioIs
<1>6. scores["carry_through"].numerator
        + scores["local_tail_rate_given_prev_tail"].numerator
        = scores["carry_through"].denominator
  <2>1. pt - tl + tl = pt
    OBVIOUS
  <2>2. QED
    BY <1>4, <2>1, RatioIs
<1>7. scores["local_tail_origin_tail"].numerator
        + scores["local_tail_origin_clean"].numerator
        = scores["local_tail_origin_tail"].denominator
  BY <1>3, <1>4, RatioIs
<1>8. ASSUME scores["amplification_lift"].status = Available
      PROVE  /\ scores["local_tail_rate_given_prev_tail"].status = Available
             /\ scores["local_tail_rate_given_prev_not_tail"].status = Available
  <2>1. pt * cl # 0
    BY <1>4, <1>8, RatioIs DEF Lift
  <2>2. pt # 0 /\ cl # 0
    BY <2>1
  <2>3. pc # 0
    BY <2>2
  <2>4. QED
    BY <1>4, <2>2, <2>3, RatioIs
<1>9. Coherent(scores)
  BY <1>5, <1>6, <1>7, <1>8 DEF Coherent
<1>10. QED
  BY <1>1, <1>2, <1>9

\* Sums over the cells of a segment.
AddUp(f, S) ==
    \A C \in SUBSET S :
        /\ Total(f, C) \in Nat
        /\ \A D \in SUBSET C : Total(f, D) =< Total(f, C)
        /\ \A D : Total(f, C) = Total(f, C \cap D) + Total(f, C \ D)
        /\ Total(f, C) # 0 => \E c \in C : f[c] # 0

LEMMA TotalsAddUp ==
    ASSUME NEW S, IsFiniteSet(S), NEW f, \A c \in S : f[c] \in Nat
    PROVE  AddUp(f, S)
<1> SUFFICES ASSUME NEW C \in SUBSET S
             PROVE  /\ Total(f, C) \in Nat
                    /\ \A D \in SUBSET C : Total(f, D) =< Total(f, C)
                    /\ \A D : Total(f, C) = Total(f, C \cap D) + Total(f, C \ D)
                    /\ Total(f, C) # 0 => \E c \in C : f[c] # 0
  BY Zenon DEF AddUp
<1>1. IsFiniteSet(C) /\ \A c \in C : f[c] \in Nat
  BY FS_Subset
<1>2. Total(f, C) \in Nat
  BY <1>1, SumNat DEF Total
<1>3. ASSUME NEW D \in SUBSET C PROVE Total(f, D) =< Total(f, C)
  BY <1>1, SumSubset DEF Total
<1>4. ASSUME NEW D PROVE Total(f, C) = Total(f, C \cap D) + Total(f, C \ D)
  <2>1. PICK R : R = C \cap D
    OBVIOUS
  <2>2. R \in SUBSET C /\ C \ D = C \ R /\ \A c \in C : f[c] \in Int
    BY <1>1, <2>1
  <2>3. SumFunctionOnSet(f, C) = SumFunctionOnSet(f, R) + SumFunctionOnSet(f, C \ R)
    BY <1>1, <2>2, SumSplit
  <2>4. QED
    BY <2>1, <2>2, <2>3 DEF Total
<1>5. ASSUME \A c \in C : f[c] = 0 PROVE Total(f, C) = 0
  BY <1>1, <1>5, SumZero DEF Total
<1>6. QED
  BY <1>2, <1>3, <1>4, <1>5

LEMMA CellsFinite == IsFiniteSet(MatrixCells) /\ IsFiniteSet(OnlineCells)
<1>1. PICK n \in Nat : n = Len(Bounds)
  BY BoundsAssumption
<1>2. PICK B : B = 0 .. n /\ IsFiniteSet(B)
  BY FS_Interval
<1>3. PICK C : C = 0 .. 11 /\ IsFiniteSet(C)
  <2>1. PICK m \in Nat : m = 11
    OBVIOUS
  <2>2. IsFiniteSet(0 .. m)
    BY FS_Interval
  <2>3. QED
    BY <2>1, <2>2
<1>4. IsFiniteSet(B \X B)
  BY <1>2, FS_Product
<1>5. MatrixCells = B \X B /\ OnlineCells = C
  BY <1>1, <1>2, <1>3, Zenon DEF MatrixCells, Buckets, OnlineCells
<1>6. QED
  BY <1>3, <1>4, <1>5

\* The cells of the online truth table by what they say of a mark.
PredecessorCells == OnlineCells \ (0 .. ONLINE_FIRST_COUNTERS - 1)
LocalTailCells == {c \in OnlineCells : HasBit(c, 2)}
AfterTailCells == {c \in OnlineCells : HasBit(c, 1)}
PreviousTailCells == {c \in PredecessorCells : HasBit(c - ONLINE_FIRST_COUNTERS, 4)}

LEMMA OnlineScoresAre ==
    ASSUME NEW scan, NEW o, o = scan.online
    PROVE  OnlineScores(scan) =
             LET clean == CleanScores(
                     Ratio(Total(o, AfterTailCells \ PreviousTailCells),
                           Total(o, AfterTailCells)),
                     Ratio(Total(o, LocalTailCells \ PreviousTailCells),
                           Total(o, LocalTailCells)))
             IN  IF Total(o, PredecessorCells) = 0 THEN Joined(clean, NoRateScores)
                 ELSE Joined(clean,
                        RateScores(Total(o, LocalTailCells \cap PreviousTailCells),
                                   Total(o, PreviousTailCells),
                                   Total(o, (LocalTailCells \cap PredecessorCells)
                                              \ PreviousTailCells),
                                   Total(o, PredecessorCells \ PreviousTailCells),
                                   Total(o, LocalTailCells)))
BY Zenon DEF OnlineScores, PredecessorCells, LocalTailCells, AfterTailCells, PreviousTailCells

LEMMA OnlineCoherent ==
    ASSUME NEW scan, \A c \in OnlineCells : scan.online[c] \in Nat
    PROVE  Coherent(OnlineScores(scan))
<1>1. PICK o : o = scan.online
  OBVIOUS
<1>2. PICK A, L, P, Q : /\ A = AfterTailCells /\ L = LocalTailCells
                        /\ P = PreviousTailCells /\ Q = PredecessorCells
  OBVIOUS
<1>3. /\ A \in SUBSET OnlineCells /\ L \in SUBSET OnlineCells
      /\ P \in SUBSET OnlineCells /\ Q \in SUBSET OnlineCells
  BY <1>2 DEF AfterTailCells, LocalTailCells, PreviousTailCells, PredecessorCells
<1>4. \A c \in OnlineCells : o[c] \in Nat
  BY <1>1
<1>5. \A C \in SUBSET OnlineCells :
          /\ Total(o, C) \in Nat
          /\ \A D \in SUBSET C : Total(o, D) =< Total(o, C)
          /\ \A D : Total(o, C) = Total(o, C \cap D) + Total(o, C \ D)
  <2>1. AddUp(o, OnlineCells)
    BY <1>4, CellsFinite, TotalsAddUp
  <2>2. QED
    BY <2>1, Zenon DEF AddUp
<1>6. PICK at, ac : at = Total(o, A) /\ ac = Total(o, A \ P)
  OBVIOUS
<1>7. PICK lt, tl, lc : /\ lt = Total(o, L) /\ tl = Total(o, L \cap P)
                        /\ lc = Total(o, L \ P)
  OBVIOUS
<1>8. PICK pt, cl, pc : /\ pt = Total(o, P) /\ cl = Total(o, (L \cap Q) \ P)
                        /\ pc = Total(o, Q \ P)
  OBVIOUS
<1>9. at \in Nat /\ ac \in Nat /\ ac =< at
  <2>1. A \ P \in SUBSET A /\ A \ P \in SUBSET OnlineCells
    BY <1>3
  <2>2. QED
    BY <1>3, <1>5, <1>6, <2>1
<1>10. lt \in Nat /\ tl \in Nat /\ lc \in Nat /\ lt = tl + lc
  <2>1. L \ P \in SUBSET OnlineCells /\ L \cap P \in SUBSET OnlineCells
    BY <1>3
  <2>2. QED
    BY <1>3, <1>5, <1>7, <2>1
<1>11. pt \in Nat /\ tl =< pt
  <2>1. L \cap P \in SUBSET P
    BY <1>3
  <2>2. QED
    BY <1>3, <1>5, <1>7, <1>8, <2>1
<1>12. cl \in Nat /\ pc \in Nat /\ cl =< pc
  <2>1. PICK X, Y : X = (L \cap Q) \ P /\ Y = Q \ P
    OBVIOUS
  <2>2. X \in SUBSET Y /\ Y \in SUBSET OnlineCells /\ X \in SUBSET OnlineCells
    BY <1>3, <2>1
  <2>3. Total(o, X) \in Nat /\ Total(o, Y) \in Nat /\ Total(o, X) =< Total(o, Y)
    BY <1>5, <2>2
  <2>4. QED
    BY <1>8, <2>1, <2>3
<1>13. PICK onset, clean : onset = Ratio(ac, at) /\ clean = Ratio(lc, lt)
  OBVIOUS
<1>14. onset.numerator =< onset.denominator /\ clean.numerator =< clean.denominator
  BY <1>9, <1>10, <1>13, RatioIs
<1>15. OnlineScores(scan) =
          IF Total(o, Q) = 0 THEN Joined(CleanScores(onset, clean), NoRateScores)
          ELSE Joined(CleanScores(onset, clean), RateScores(tl, pt, cl, pc, lt))
  BY <1>1, <1>2, <1>6, <1>7, <1>8, <1>13, OnlineScoresAre, Zenon
<1>16. Coherent(Joined(CleanScores(onset, clean), NoRateScores))
  BY <1>14, CoherentWithout
<1>17. Coherent(Joined(CleanScores(onset, clean), RateScores(tl, pt, cl, pc, lt)))
  BY <1>10, <1>11, <1>12, <1>13, <1>14, CoherentWith
<1>18. QED
  BY <1>15, <1>16, <1>17

\* The matrix path speaks of rows and columns of the cause matrix, and of a
\* part of the incoming matrix.
LEMMA MatrixScoresAre ==
    ASSUME NEW scan, NEW q
    PROVE  IF NearestRank(Rows(scan.cause), q) = None
           THEN MatrixScores(scan, q) =
                    Joined(CleanScores(Unavailable, Unavailable), NoRateScores)
           ELSE \E R, C, A, B, onset :
                  /\ R \in SUBSET MatrixCells /\ C \in SUBSET MatrixCells
                  /\ B \in SUBSET MatrixCells
                  /\ A \in SUBSET B
                  /\ \/ onset = Unavailable
                     \/ onset = Ratio(Total(scan.incoming, A), Total(scan.incoming, B))
                  /\ MatrixScores(scan, q) =
                       Joined(CleanScores(onset, Ratio(Total(scan.cause, C \ R),
                                                       Total(scan.cause, C))),
                              RateScores(Total(scan.cause, R \cap C),
                                         Total(scan.cause, R),
                                         Total(scan.cause, C \ R),
                                         Total(scan.cause, MatrixCells \ R),
                                         Total(scan.cause, C)))
<1>1. PICK previous, local, after :
          /\ previous = NearestRank(Rows(scan.cause), q)
          /\ local = NearestRank(Columns(scan.cause), q)
          /\ after = IF isFirst THEN None ELSE NearestRank(Columns(scan.incoming), q)
  OBVIOUS
<1>2. PICK R, C, A, B :
          /\ R = {c \in MatrixCells : c[1] >= previous.bucket}
          /\ C = {c \in MatrixCells : c[2] >= local.bucket}
          /\ A = {c \in MatrixCells : c[2] >= after.bucket /\ c[1] < previous.bucket}
          /\ B = {c \in MatrixCells : c[2] >= after.bucket}
  OBVIOUS
<1>3. /\ R \in SUBSET MatrixCells /\ C \in SUBSET MatrixCells
      /\ A \in SUBSET MatrixCells /\ B \in SUBSET MatrixCells /\ A \in SUBSET B
  BY <1>2, Zenon
<1>4. PICK onset : onset = IF previous = None \/ after = None THEN Unavailable
                           ELSE TailOnset(scan, previous.bucket, after.bucket)
  OBVIOUS
<1>5. \/ onset = Unavailable
      \/ onset = Ratio(Total(scan.incoming, A), Total(scan.incoming, B))
  BY <1>2, <1>4, Zenon DEF TailOnset
<1>6. ASSUME previous = None
      PROVE  MatrixScores(scan, q) =
                 Joined(CleanScores(Unavailable, Unavailable), NoRateScores)
  BY <1>1, <1>6, Zenon DEF MatrixScores
<1>7. ASSUME previous # None
      PROVE  MatrixScores(scan, q) =
                 Joined(CleanScores(onset, Ratio(Total(scan.cause, C \ R),
                                                 Total(scan.cause, C))),
                        RateScores(Total(scan.cause, R \cap C), Total(scan.cause, R),
                                   Total(scan.cause, C \ R),
                                   Total(scan.cause, MatrixCells \ R),
                                   Total(scan.cause, C)))
  BY <1>1, <1>2, <1>4, <1>7, Zenon DEF MatrixScores
<1>8. QED
  BY <1>1, <1>3, <1>5, <1>6, <1>7, Zenon

LEMMA MatrixCoherent ==
    ASSUME NEW scan, NEW q,
           \A c \in MatrixCells : scan.cause[c] \in Nat /\ scan.incoming[c] \in Nat
    PROVE  Coherent(MatrixScores(scan, q))
<1>1. CASE NearestRank(Rows(scan.cause), q) = None
  <2>1. MatrixScores(scan, q) =
            Joined(CleanScores(Unavailable, Unavailable), NoRateScores)
    BY <1>1, MatrixScoresAre, Zenon
  <2>2. QED
    BY <2>1, UnavailableIs, CoherentWithout
<1>2. CASE NearestRank(Rows(scan.cause), q) # None
  <2>1. PICK f, g : f = scan.cause /\ g = scan.incoming
    OBVIOUS
  <2>2. PICK R, C, A, B, onset :
          /\ R \in SUBSET MatrixCells /\ C \in SUBSET MatrixCells
          /\ B \in SUBSET MatrixCells
          /\ A \in SUBSET B
          /\ onset = Unavailable \/ onset = Ratio(Total(g, A), Total(g, B))
          /\ MatrixScores(scan, q) =
               Joined(CleanScores(onset, Ratio(Total(f, C \ R), Total(f, C))),
                      RateScores(Total(f, R \cap C), Total(f, R), Total(f, C \ R),
                                 Total(f, MatrixCells \ R), Total(f, C)))
    <3>1. \E R, C, A, B, onset :
             /\ R \in SUBSET MatrixCells /\ C \in SUBSET MatrixCells
             /\ B \in SUBSET MatrixCells
             /\ A \in SUBSET B
             /\ \/ onset = Unavailable
                \/ onset = Ratio(Total(scan.incoming, A), Total(scan.incoming, B))
             /\ MatrixScores(scan, q) =
                  Joined(CleanScores(onset, Ratio(Total(scan.cause, C \ R),
                                                  Total(scan.cause, C))),
                         RateScores(Total(scan.cause, R \cap C), Total(scan.cause, R),
                                    Total(scan.cause, C \ R),
                                    Total(scan.cause, MatrixCells \ R),
                                    Total(scan.cause, C)))
      BY <1>2, MatrixScoresAre, Zenon
    <3>2. QED
      BY <2>1, <3>1, ZenonT(60)
  <2>3. \A X \in SUBSET MatrixCells :
            /\ Total(f, X) \in Nat /\ Total(g, X) \in Nat
            /\ \A Y \in SUBSET X : /\ Total(f, Y) =< Total(f, X)
                                   /\ Total(g, Y) =< Total(g, X)
            /\ \A Y : Total(f, X) = Total(f, X \cap Y) + Total(f, X \ Y)
    <3>1. \A c \in MatrixCells : f[c] \in Nat
      BY <2>1
    <3>2. \A c \in MatrixCells : g[c] \in Nat
      BY <2>1
    <3>3. AddUp(f, MatrixCells) /\ AddUp(g, MatrixCells)
      BY <3>1, <3>2, CellsFinite, TotalsAddUp
    <3>4. QED
      BY <3>3, Zenon DEF AddUp
  <2>4. onset.numerator =< onset.denominator
    <3>1. Total(g, A) =< Total(g, B)
      BY <2>2, <2>3
    <3>2. QED
      BY <2>2, <3>1, RatioIs, UnavailableIs
  <2>5. PICK lt, tl, lc : /\ lt = Total(f, C) /\ tl = Total(f, R \cap C)
                          /\ lc = Total(f, C \ R)
    OBVIOUS
  <2>6. PICK pt, pc : pt = Total(f, R) /\ pc = Total(f, MatrixCells \ R)
    OBVIOUS
  <2>7. lt \in Nat /\ tl \in Nat /\ lc \in Nat /\ lt = tl + lc
    <3>1. C \ R \in SUBSET MatrixCells /\ R \cap C \in SUBSET MatrixCells
          /\ R \cap C = C \cap R
      BY <2>2
    <3>2. QED
      BY <2>2, <2>3, <2>5, <3>1
  <2>8. pt \in Nat /\ tl =< pt
    <3>1. R \cap C \in SUBSET R
      OBVIOUS
    <3>2. QED
      BY <2>2, <2>3, <2>5, <2>6, <3>1
  <2>9. pc \in Nat /\ lc =< pc
    <3>1. PICK X, Y : X = C \ R /\ Y = MatrixCells \ R
      OBVIOUS
    <3>2. X \in SUBSET Y /\ Y \in SUBSET MatrixCells
      BY <2>2, <3>1
    <3>3. Total(f, Y) \in Nat /\ Total(f, X) =< Total(f, Y)
      BY <2>3, <3>2
    <3>4. QED
      BY <2>5, <2>6, <3>1, <3>3
  <2>10. MatrixScores(scan, q) =
           Joined(CleanScores(onset, Ratio(lc, lt)), RateScores(tl, pt, lc, pc, lt))
    BY <2>2, <2>5, <2>6, Zenon
  <2>11. QED
    BY <2>4, <2>7, <2>8, <2>9, <2>10, CoherentWith
<1>3. QED
  BY <1>1, <1>2

\* TornScoresCoherent: derive_matrix_scores and derive_calibrated_online_scores
\* give coherent scores whatever a relaxed scan has missed.
THEOREM TornScoresCoherentHolds == DiagnosisSpec => []TornScoresCoherent
<1>1. ASSUME DiagnosisInvariant PROVE TornScoresCoherent
  <2>1. SUFFICES ASSUME seen # None, NEW scores \in BothPaths(seen)
                 PROVE  Coherent(scores)
    BY Zenon DEF TornScoresCoherent, Coherent
  <2>2. /\ \A c \in MatrixCells : seen.cause[c] \in Nat /\ seen.incoming[c] \in Nat
        /\ \A c \in OnlineCells : seen.online[c] \in Nat
    BY <1>1, <2>1 DEF DiagnosisInvariant, Below
  <2>3. CASE scores = OnlineScores(seen)
    BY <2>2, <2>3, OnlineCoherent
  <2>4. ASSUME NEW q \in Quantiles, scores = MatrixScores(seen, q)
        PROVE  Coherent(scores)
    BY <2>2, <2>4, MatrixCoherent
  <2>5. QED
    BY <2>1, <2>3, <2>4 DEF BothPaths
<1>2. QED
  BY <1>1, DiagnosisInductive, PTL

-----------------------------------------------------------------------------
(* The online truth table.                                                 *)

LEMMA BitsAre ==
    ASSUME NEW b \in 0 .. 2, NEW l \in 0 .. 1, NEW a \in 0 .. 1,
           NEW cell, cell = 4 * b + 2 * l + a
    PROVE  /\ cell \in 0 .. 11
           /\ HasBit(cell, 1) <=> a = 1
           /\ HasBit(cell, 2) <=> l = 1
           /\ b # 0 => (HasBit(cell - 4, 4) <=> b = 2)
           /\ b = 0 <=> cell \in 0 .. 3
<1>1. cell \in 0 .. 11 /\ (b = 0 <=> cell \in 0 .. 3)
  OBVIOUS
<1>2. cell \div 1 = cell /\ cell \div 2 = 2 * b + l
  OBVIOUS
<1>3. cell % 2 = a /\ (2 * b + l) % 2 = l
  OBVIOUS
<1>4. b # 0 => (cell - 4) \div 4 = b - 1 /\ (b - 1) % 2 = b - 1
  OBVIOUS
<1>5. HasBit(cell, 1) <=> a = 1
  BY <1>2, <1>3 DEF HasBit
<1>6. HasBit(cell, 2) <=> l = 1
  BY <1>2, <1>3 DEF HasBit
<1>7. b # 0 => (HasBit(cell - 4, 4) <=> b = 2)
  BY <1>4 DEF HasBit
<1>8. QED
  BY <1>1, <1>5, <1>6, <1>7

\* A mark's cell says which thresholds it has reached.
Decodes(mark) ==
    /\ OnlineCell(mark) \in OnlineCells
    /\ OnlineCell(mark) \in AfterTailCells <=> AfterTail(mark)
    /\ OnlineCell(mark) \in LocalTailCells <=> LocalTail(mark)
    /\ OnlineCell(mark) \in PreviousTailCells <=> PreviousTail(mark)
    /\ OnlineCell(mark) \in PredecessorCells <=> mark.previous # None

LEMMA OnlineCellDecodes ==
    ASSUME NEW mark
    PROVE  Decodes(mark)
<1>1. PICK p, l, a : /\ p = Bit(PreviousTail(mark)) /\ l = Bit(LocalTail(mark))
                     /\ a = Bit(AfterTail(mark))
  OBVIOUS
<1>2. /\ p \in 0 .. 1 /\ l \in 0 .. 1 /\ a \in 0 .. 1
      /\ (p = 1 <=> PreviousTail(mark)) /\ (l = 1 <=> LocalTail(mark))
      /\ (a = 1 <=> AfterTail(mark))
  BY <1>1 DEF Bit
<1>3. PICK cell : cell = OnlineCell(mark)
  OBVIOUS
<1>4. cell = (IF mark.previous = None THEN 0 ELSE 4) + 4 * p + 2 * l + a
  BY <1>1, <1>3 DEF OnlineCell, ONLINE_FIRST_COUNTERS
<1>5. PICK b : b = IF mark.previous = None THEN 0 ELSE 1 + p
  OBVIOUS
<1>6. b \in 0 .. 2 /\ (b # 0 <=> mark.previous # None)
  BY <1>2, <1>5
<1>7. b = 2 <=> PreviousTail(mark)
  <2>1. PreviousTail(mark) => mark.previous # None
    BY DEF PreviousTail
  <2>2. QED
    BY <1>2, <1>5, <2>1
<1>8. cell = 4 * b + 2 * l + a
  <2>1. mark.previous = None => p = 0
    BY <1>2 DEF PreviousTail
  <2>2. QED
    BY <1>2, <1>4, <1>5, <2>1
<1>9. /\ cell \in 0 .. 11
      /\ HasBit(cell, 1) <=> a = 1
      /\ HasBit(cell, 2) <=> l = 1
      /\ b # 0 => (HasBit(cell - 4, 4) <=> b = 2)
      /\ b = 0 <=> cell \in 0 .. 3
  BY <1>2, <1>6, <1>8, BitsAre
<1>10. cell \in OnlineCells
  BY <1>9 DEF OnlineCells
<1>11. cell \in PredecessorCells <=> mark.previous # None
  <2>1. 0 .. ONLINE_FIRST_COUNTERS - 1 = 0 .. 3
    BY DEF ONLINE_FIRST_COUNTERS
  <2>2. QED
    BY <1>6, <1>9, <1>10, <2>1 DEF PredecessorCells
<1>12. cell \in PreviousTailCells <=> PreviousTail(mark)
  BY <1>6, <1>7, <1>9, <1>11 DEF PreviousTailCells, ONLINE_FIRST_COUNTERS, PreviousTail
<1>13. cell \in AfterTailCells <=> AfterTail(mark)
  BY <1>2, <1>9, <1>10 DEF AfterTailCells
<1>14. cell \in LocalTailCells <=> LocalTail(mark)
  BY <1>2, <1>9, <1>10 DEF LocalTailCells
<1>15. QED
  BY <1>3, <1>10, <1>11, <1>12, <1>13, <1>14 DEF Decodes

\* The marks counted in a set of cells.
MarksIn(C) == {i \in DOMAIN marks : OnlineCell(marks[i]) \in C}

LEMMA OnlineTotal ==
    ASSUME DiagnosisInvariant, NEW C \in SUBSET OnlineCells
    PROVE  Total(counters.online, C) = Cardinality(MarksIn(C))
<1>1. PICK D : D = DOMAIN marks
  OBVIOUS
<1>2. IsFiniteSet(D)
  BY <1>1, PositionsAre DEF DiagnosisInvariant
<1>3. PICK f : f = [i \in D |-> 1]
  OBVIOUS
<1>4. PICK key : key = [i \in D |-> OnlineCell(marks[i])]
  OBVIOUS
<1>5. ASSUME NEW R \in SUBSET D PROVE SumFunctionOnSet(f, R) = Cardinality(R)
  <2>1. IsFiniteSet(R)
    BY <1>2, FS_Subset
  <2>2. R \in SUBSET R /\ \A i \in R : f[i] = IF i \in R THEN 1 ELSE 0
    BY <1>3
  <2>3. QED
    BY <2>1, <2>2, SumCounts
<1>6. ASSUME NEW c \in C
      PROVE  counters.online[c] = SumFunctionOnSet(f, Fibre(D, key, c))
  <2>1. PICK R : R = Fibre(D, key, c)
    OBVIOUS
  <2>2. R \in SUBSET D
    BY <2>1 DEF Fibre
  <2>3. R = Positions(marks, OnlineMarks(c))
    <3>1. \A i \in D : marks[i] \in Mark
      BY <1>1 DEF DiagnosisInvariant
    <3>2. QED
      BY <1>1, <1>4, <2>1, <3>1 DEF Fibre, Positions, OnlineMarks
  <2>4. counters.online[c] = Cardinality(R)
    BY <2>3 DEF DiagnosisInvariant
  <2>5. QED
    BY <1>5, <2>1, <2>2, <2>4
<1>7. CountsByKey(counters.online, C, f, D, key)
  BY <1>6 DEF CountsByKey
<1>8. IsFiniteSet(C) /\ \A i \in D : f[i] \in Int
  BY <1>3, CellsFinite, FS_Subset
<1>9. SumFunctionOnSet(counters.online, C) = SumFunctionOnSet(f, Over(D, key, C))
  BY <1>2, <1>7, <1>8, SumFibres
<1>10. Over(D, key, C) = MarksIn(C) /\ MarksIn(C) \in SUBSET D
  BY <1>1, <1>4 DEF Over, MarksIn
<1>11. QED
  BY <1>5, <1>9, <1>10 DEF Total

\* OnlineScoresExact: calibrated_online_scores are the conditional
\* frequencies of the marks recorded, for any marks and any thresholds.
THEOREM OnlineScoresExactHolds == DiagnosisSpec => []OnlineScoresExact
<1>1. ASSUME DiagnosisInvariant PROVE OnlineScoresExact
  <2>1. PICK o, scores : o = counters.online /\ scores = OnlineScores(counters)
    OBVIOUS
  <2>2. PICK A, L, P, Q : /\ A = AfterTailCells /\ L = LocalTailCells
                          /\ P = PreviousTailCells /\ Q = PredecessorCells
    OBVIOUS
  <2>3. /\ A \in SUBSET OnlineCells /\ L \in SUBSET OnlineCells
        /\ P \in SUBSET Q /\ Q \in SUBSET OnlineCells
    BY <2>2 DEF AfterTailCells, LocalTailCells, PreviousTailCells, PredecessorCells
  <2>4. \A C \in SUBSET OnlineCells : Total(o, C) = Cardinality(MarksIn(C))
    BY <1>1, <2>1, OnlineTotal
  <2>5. PICK D : D = DOMAIN marks
    OBVIOUS
  <2>6. \A i \in D : /\ OnlineCell(marks[i]) \in A <=> AfterTail(marks[i])
                     /\ OnlineCell(marks[i]) \in L <=> LocalTail(marks[i])
                     /\ OnlineCell(marks[i]) \in P <=> PreviousTail(marks[i])
                     /\ OnlineCell(marks[i]) \in Q <=> marks[i].previous # None
    BY <2>2, OnlineCellDecodes DEF Decodes
  <2>7. PICK at, ac, lt, lc, tl : /\ at = Total(o, A) /\ ac = Total(o, A \ P)
                                  /\ lt = Total(o, L) /\ lc = Total(o, L \ P)
                                  /\ tl = Total(o, L \cap P)
    OBVIOUS
  <2>8. PICK pt, cl, pc : /\ pt = Total(o, P) /\ cl = Total(o, (L \cap Q) \ P)
                          /\ pc = Total(o, Q \ P)
    OBVIOUS
  <2>9. /\ at = Cardinality({i \in D : AfterTail(marks[i])})
        /\ ac = Cardinality({i \in D : ~PreviousTail(marks[i]) /\ AfterTail(marks[i])})
        /\ lt = Cardinality({i \in D : LocalTail(marks[i])})
        /\ lc = Cardinality({i \in D : ~PreviousTail(marks[i]) /\ LocalTail(marks[i])})
    <3>1. /\ MarksIn(A) = {i \in D : AfterTail(marks[i])}
          /\ MarksIn(L) = {i \in D : LocalTail(marks[i])}
      BY <2>5, <2>6 DEF MarksIn
    <3>2. /\ MarksIn(A \ P) = {i \in D : ~PreviousTail(marks[i]) /\ AfterTail(marks[i])}
          /\ MarksIn(L \ P) = {i \in D : ~PreviousTail(marks[i]) /\ LocalTail(marks[i])}
      BY <2>5, <2>6 DEF MarksIn
    <3>3. A \ P \in SUBSET OnlineCells /\ L \ P \in SUBSET OnlineCells
      BY <2>3
    <3>4. QED
      BY <2>3, <2>4, <2>7, <3>1, <3>2, <3>3, Zenon
  <2>10. /\ tl = Cardinality({i \in D : LocalTail(marks[i]) /\ PreviousTail(marks[i])})
         /\ pt = Cardinality({i \in D : PreviousTail(marks[i])})
         /\ cl = Cardinality({i \in D : LocalTail(marks[i])
                                 /\ marks[i].previous # None /\ ~PreviousTail(marks[i])})
         /\ pc = Cardinality({i \in D : marks[i].previous # None /\ ~PreviousTail(marks[i])})
    <3>1. /\ MarksIn(L \cap P) = {i \in D : LocalTail(marks[i]) /\ PreviousTail(marks[i])}
          /\ MarksIn(P) = {i \in D : PreviousTail(marks[i])}
      BY <2>5, <2>6 DEF MarksIn
    <3>2. MarksIn((L \cap Q) \ P) =
              {i \in D : LocalTail(marks[i]) /\ marks[i].previous # None
                           /\ ~PreviousTail(marks[i])}
      BY <2>5, <2>6 DEF MarksIn
    <3>3. MarksIn(Q \ P) = {i \in D : marks[i].previous # None /\ ~PreviousTail(marks[i])}
      BY <2>5, <2>6 DEF MarksIn
    <3>4. /\ L \cap P \in SUBSET OnlineCells /\ P \in SUBSET OnlineCells
          /\ (L \cap Q) \ P \in SUBSET OnlineCells /\ Q \ P \in SUBSET OnlineCells
      BY <2>3
    <3>5. QED
      BY <2>4, <2>7, <2>8, <3>1, <3>2, <3>3, <3>4, Zenon
  \* As many marks after a tail stay clean as do not become tails.
  <2>11. pt - tl = Cardinality({i \in D : ~LocalTail(marks[i]) /\ PreviousTail(marks[i])})
    <3>1. MarksIn(P \ L) = {i \in D : ~LocalTail(marks[i]) /\ PreviousTail(marks[i])}
      BY <2>5, <2>6 DEF MarksIn
    <3>2. P \in SUBSET OnlineCells /\ P \ L \in SUBSET OnlineCells /\ P \cap L = L \cap P
          /\ P \cap L \in SUBSET OnlineCells
      BY <2>3
    <3>3. Total(o, P \ L) = Cardinality({i \in D : ~LocalTail(marks[i]) /\ PreviousTail(marks[i])})
      BY <2>4, <3>1, <3>2, Zenon
    <3>4. AddUp(o, OnlineCells)
      <4>1. \A c \in OnlineCells : o[c] \in Nat
        BY <1>1, <2>1, PositionsAre DEF DiagnosisInvariant
      <4>2. QED
        BY <4>1, CellsFinite, TotalsAddUp
    <3>5. /\ Total(o, P) = Total(o, P \cap L) + Total(o, P \ L)
          /\ Total(o, P \cap L) \in Nat /\ Total(o, P \ L) \in Nat
      BY <3>2, <3>4, Zenon DEF AddUp
    <3>6. pt = tl + Total(o, P \ L) /\ tl \in Nat /\ Total(o, P \ L) \in Nat
      BY <2>7, <2>8, <3>2, <3>5
    <3>7. pt - tl = Total(o, P \ L)
      BY <3>6
    <3>8. QED
      BY <3>3, <3>7
  <2>12. PICK onset, clean : onset = Ratio(ac, at) /\ clean = Ratio(lc, lt)
    OBVIOUS
  <2>13. scores =
            IF Total(o, Q) = 0 THEN Joined(CleanScores(onset, clean), NoRateScores)
            ELSE Joined(CleanScores(onset, clean), RateScores(tl, pt, cl, pc, lt))
    BY <2>1, <2>2, <2>7, <2>8, <2>12, OnlineScoresAre, Zenon
  <2>14. scores["tail_onset"] = onset /\ scores["local_tail_origin_clean"] = clean
    <3>1. CASE Total(o, Q) = 0
      BY <2>13, <3>1, NoRateScoresAre, JoinedIs
    <3>2. CASE Total(o, Q) # 0
      <4>1. PICK rates : rates = RateScores(tl, pt, cl, pc, lt)
        OBVIOUS
      <4>2. QED
        BY <2>13, <3>2, <4>1, RateScoresAre, JoinedIs
    <3>3. QED
      BY <3>1, <3>2
  <2>15. ASSUME \E i \in D : marks[i].previous # None
         PROVE  /\ scores["local_tail_origin_tail"] = Ratio(tl, lt)
                /\ scores["local_tail_rate_given_prev_tail"] = Ratio(tl, pt)
                /\ scores["local_tail_rate_given_prev_not_tail"] = Ratio(cl, pc)
                /\ scores["amplification_lift"] = Quotient(Ratio(tl, pt), Ratio(cl, pc))
                /\ scores["carry_through"] = Ratio(pt - tl, pt)
    <3>1. Total(o, Q) # 0
      <4>1. MarksIn(Q) # {} /\ MarksIn(Q) \in SUBSET DOMAIN marks
        BY <2>5, <2>6, <2>15 DEF MarksIn
      <4>2. IsFiniteSet(DOMAIN marks)
        BY <1>1, PositionsAre DEF DiagnosisInvariant
      <4>3. IsFiniteSet(MarksIn(Q))
        BY <4>1, <4>2, FS_Subset
      <4>4. Cardinality(MarksIn(Q)) # 0
        BY <4>1, <4>3, FS_EmptySet
      <4>5. QED
        BY <2>3, <2>4, <4>4
    <3>2. PICK rates : rates = RateScores(tl, pt, cl, pc, lt)
      OBVIOUS
    <3>3. DOMAIN rates = RateNames
      BY <3>2, RateScoresAre
    <3>4. scores = Joined(CleanScores(onset, clean), rates)
      BY <2>13, <3>1, <3>2
    <3>5. \A name \in RateNames : scores[name] = rates[name]
      BY <3>3, <3>4, JoinedIs
    <3>6. Quotient(Ratio(tl, pt), Ratio(cl, pc)) = Lift(tl, pt, cl, pc)
      BY RatioIs DEF Quotient, Lift
    <3>7. QED
      BY <3>2, <3>5, <3>6, RateScoresAre DEF RateNames
  <2>16. /\ scores["tail_onset"] =
              Ratio(Cardinality({i \in D : ~PreviousTail(marks[i]) /\ AfterTail(marks[i])}),
                    Cardinality({i \in D : AfterTail(marks[i])}))
         /\ scores["local_tail_origin_clean"] =
              Ratio(Cardinality({i \in D : ~PreviousTail(marks[i]) /\ LocalTail(marks[i])}),
                    Cardinality({i \in D : LocalTail(marks[i])}))
    BY <2>9, <2>12, <2>14, Zenon
  <2>17. ASSUME \E i \in D : marks[i].previous # None
         PROVE  /\ scores["local_tail_origin_tail"] = Share(PreviousTail, LocalTail)
                /\ scores["local_tail_rate_given_prev_tail"] = Share(LocalTail, PreviousTail)
    <3>1. {i \in D : LocalTail(marks[i]) /\ PreviousTail(marks[i])}
             = {i \in D : PreviousTail(marks[i]) /\ LocalTail(marks[i])}
      OBVIOUS
    <3>2. QED
      BY <2>5, <2>9, <2>10, <2>15, <2>17, <3>1, Zenon DEF Share
  <2>18. QED
    BY <2>1, <2>5, <2>9, <2>10, <2>11, <2>15, <2>16, <2>17, Zenon DEF OnlineScoresExact, Share
<1>2. QED
  BY <1>1, DiagnosisInductive, PTL

-----------------------------------------------------------------------------
(* Labels.                                                                 *)

LEMMA LabelsMeet ==
    ASSUME NEW scores, NEW config
    PROVE  /\ Classification(scores, config) = "Onset" =>
                 scores["tail_onset"].status = Available
           /\ Classification(scores, config) = "Amplifier" =>
                 scores["amplification_lift"].status = Available
           /\ Classification(scores, config) = "CarryThrough" =>
                 scores["carry_through"].status = Available
           /\ Classification(scores, config) # "Inconclusive" =>
                 \/ scores["tail_onset"].status = Available
                 \/ scores["amplification_lift"].status = Available
                 \/ scores["carry_through"].status = Available
<1>1. PICK a, b, c : /\ a = Meets(scores["tail_onset"], config.onset_threshold)
                     /\ b = Meets(scores["amplification_lift"],
                                   config.amplification_lift_threshold)
                     /\ c = Meets(scores["carry_through"], config.carry_through_threshold)
  OBVIOUS
<1>2. PICK label : label = Classification(scores, config)
  OBVIOUS
<1>3. label = IF a THEN "Onset" ELSE IF b THEN "Amplifier"
              ELSE IF c THEN "CarryThrough" ELSE "Inconclusive"
  BY <1>1, <1>2, Zenon DEF Classification
<1>4. /\ a => scores["tail_onset"].status = Available
      /\ b => scores["amplification_lift"].status = Available
      /\ c => scores["carry_through"].status = Available
  BY <1>1, Zenon DEF Meets
<1>5. /\ label = "Onset" => a
      /\ label = "Amplifier" => b
      /\ label = "CarryThrough" => c
      /\ label # "Inconclusive" => a \/ b \/ c
  BY <1>3
<1>6. QED
  BY <1>2, <1>4, <1>5

\* What a scan counts in the online cells, marks have counted.
LEMMA SeenOnline ==
    ASSUME DiagnosisInvariant, seen # None, NEW C \in SUBSET OnlineCells,
           Total(seen.online, C) # 0
    PROVE  \E i \in DOMAIN marks : OnlineCell(marks[i]) \in C
<1>1. AddUp(seen.online, OnlineCells)
  <2>1. \A c \in OnlineCells : seen.online[c] \in Nat
    BY DEF DiagnosisInvariant, Below
  <2>2. QED
    BY <2>1, CellsFinite, TotalsAddUp
<1>2. PICK c \in C : seen.online[c] # 0
  BY <1>1, Zenon DEF AddUp
<1>3. PICK n : n = Cardinality(Positions(marks, OnlineMarks(c)))
  OBVIOUS
<1>4. c \in OnlineCells /\ Below(seen.online[c], n) /\ n \in Nat
  BY <1>3, PositionsAre DEF DiagnosisInvariant
<1>5. n # 0
  BY <1>2, <1>4 DEF Below
<1>6. Positions(marks, OnlineMarks(c)) # {}
  BY <1>3, <1>5, FS_EmptySet
<1>7. QED
  BY <1>6 DEF Positions, OnlineMarks

\* What a scan sees in the cause matrix, marks after others have counted.
LEMMA SeenCause ==
    ASSUME DiagnosisInvariant, seen # None, NEW q,
           NearestRank(Rows(seen.cause), q) # None
    PROVE  \E i \in DOMAIN marks : marks[i].previous # None
<1>1. PICK f, rows : f = seen.cause /\ rows = Rows(f)
  OBVIOUS
<1>2. PICK c \in MatrixCells : f[c] # 0
  <2>1. SUFFICES ASSUME \A c \in MatrixCells : f[c] = 0 PROVE FALSE
    OBVIOUS
  <2>2. ASSUME NEW p \in Buckets PROVE rows[p] = 0
    <3>1. PICK X : X = {c \in MatrixCells : c[1] = p}
      OBVIOUS
    <3>2. X \in SUBSET MatrixCells
      BY <3>1
    <3>3. IsFiniteSet(X) /\ \A c \in X : f[c] = 0
      BY <2>1, <3>2, CellsFinite, FS_Subset
    <3>4. SumFunctionOnSet(f, X) = 0
      BY <3>3, SumZero
    <3>5. rows[p] = Total(f, {c \in MatrixCells : c[1] = p})
      BY <1>1 DEF Rows
    <3>6. QED
      BY <3>1, <3>4, <3>5 DEF Total
  <2>3. DOMAIN rows = Buckets
    BY <1>1 DEF Rows
  <2>4. Occupied(rows) = {}
    BY <2>2, <2>3 DEF Occupied
  <2>5. Samples(rows) = 0
    BY <2>4, SumEmpty DEF Samples
  <2>6. NearestRank(rows, q) = None
    BY <2>5, Zenon DEF NearestRank
  <2>7. QED
    BY <1>1, <2>6
<1>3. PICK n : n = Cardinality(Positions(marks, CauseMarks(c)))
  OBVIOUS
<1>4. Below(f[c], n) /\ n \in Nat
  BY <1>1, <1>3, PositionsAre DEF DiagnosisInvariant
<1>5. n # 0
  BY <1>2, <1>4 DEF Below
<1>6. Positions(marks, CauseMarks(c)) # {}
  BY <1>3, <1>5, FS_EmptySet
<1>7. QED
  BY <1>6 DEF Positions, CauseMarks

\* LabelNeedsEvidence: Scores::classification names a cause only where marks
\* were made that show it, under every policy and however a scan is torn.
THEOREM LabelNeedsEvidenceHolds == DiagnosisSpec => []LabelNeedsEvidence
<1>1. ASSUME DiagnosisInvariant, seen # None,
             NEW config, NEW label, label = Classification(OnlineScores(seen), config)
      PROVE  /\ label = "Onset" => \E i \in DOMAIN marks : AfterTail(marks[i])
             /\ label = "Amplifier" =>
                  /\ \E i \in DOMAIN marks : PreviousTail(marks[i])
                  /\ \E i \in DOMAIN marks : /\ marks[i].previous # None
                                            /\ ~PreviousTail(marks[i])
                                            /\ LocalTail(marks[i])
             /\ label = "CarryThrough" => \E i \in DOMAIN marks : PreviousTail(marks[i])
  <2>1. PICK o, scores : o = seen.online /\ scores = OnlineScores(seen)
    OBVIOUS
  <2>2. PICK A, L, P, Q : /\ A = AfterTailCells /\ L = LocalTailCells
                          /\ P = PreviousTailCells /\ Q = PredecessorCells
    OBVIOUS
  <2>3. /\ A \in SUBSET OnlineCells /\ P \in SUBSET OnlineCells
        /\ (L \cap Q) \ P \in SUBSET OnlineCells
    BY <2>2 DEF AfterTailCells, LocalTailCells, PreviousTailCells, PredecessorCells
  <2>4. PICK D : D = DOMAIN marks
    OBVIOUS
  <2>5. \A i \in D : /\ OnlineCell(marks[i]) \in A <=> AfterTail(marks[i])
                     /\ OnlineCell(marks[i]) \in L <=> LocalTail(marks[i])
                     /\ OnlineCell(marks[i]) \in P <=> PreviousTail(marks[i])
                     /\ OnlineCell(marks[i]) \in Q <=> marks[i].previous # None
    BY <2>2, OnlineCellDecodes DEF Decodes
  <2>6. ASSUME NEW C \in SUBSET OnlineCells, Total(o, C) # 0
        PROVE  \E i \in D : OnlineCell(marks[i]) \in C
    BY <1>1, <2>1, <2>4, <2>6, SeenOnline
  <2>7. PICK onset, clean : /\ onset = Ratio(Total(o, A \ P), Total(o, A))
                            /\ clean = Ratio(Total(o, L \ P), Total(o, L))
    OBVIOUS
  <2>8. PICK rates :
          rates = RateScores(Total(o, L \cap P), Total(o, P), Total(o, (L \cap Q) \ P),
                             Total(o, Q \ P), Total(o, L))
    OBVIOUS
  <2>9. scores = IF Total(o, Q) = 0 THEN Joined(CleanScores(onset, clean), NoRateScores)
                 ELSE Joined(CleanScores(onset, clean), rates)
    BY <2>1, <2>2, <2>7, <2>8, OnlineScoresAre, Zenon
  <2>10. scores["tail_onset"].status = Available => Total(o, A) # 0
    <3>1. scores["tail_onset"] = onset
      BY <2>8, <2>9, NoRateScoresAre, RateScoresAre, JoinedIs
    <3>2. QED
      BY <2>7, <3>1, RatioIs
  <2>11. ASSUME Total(o, Q) # 0
        PROVE  /\ scores["carry_through"] = Ratio(Total(o, P) - Total(o, L \cap P), Total(o, P))
               /\ scores["amplification_lift"] =
                    Lift(Total(o, L \cap P), Total(o, P), Total(o, (L \cap Q) \ P),
                         Total(o, Q \ P))
    <3>1. DOMAIN rates = RateNames
      BY <2>8, RateScoresAre
    <3>2. scores = Joined(CleanScores(onset, clean), rates)
      BY <2>9, <2>11
    <3>3. \A name \in RateNames : scores[name] = rates[name]
      BY <3>1, <3>2, JoinedIs
    <3>4. QED
      BY <2>8, <3>3, RateScoresAre DEF RateNames
  <2>12. ASSUME Total(o, Q) = 0
         PROVE  /\ scores["carry_through"].status # Available
                /\ scores["amplification_lift"].status # Available
    <3>1. scores = Joined(CleanScores(onset, clean), NoRateScores)
      BY <2>9, <2>12
    <3>2. \A name \in RateNames : scores[name] = Unavailable
      BY <3>1, NoRateScoresAre, JoinedIs
    <3>3. QED
      BY <3>2, UnavailableIs DEF RateNames
  <2>13. scores["carry_through"].status = Available => Total(o, P) # 0
    BY <2>11, <2>12, RatioIs
  <2>14. scores["amplification_lift"].status = Available =>
            Total(o, P) # 0 /\ Total(o, (L \cap Q) \ P) # 0
    <3>1. PICK pt, cl : pt = Total(o, P) /\ cl = Total(o, (L \cap Q) \ P)
      OBVIOUS
    <3>2. pt \in Nat /\ cl \in Nat
      <4>1. \A c \in OnlineCells : o[c] \in Nat
        BY <1>1, <2>1 DEF DiagnosisInvariant, Below
      <4>2. AddUp(o, OnlineCells)
        BY <4>1, CellsFinite, TotalsAddUp
      <4>3. QED
        BY <2>3, <3>1, <4>2, Zenon DEF AddUp
    <3>3. scores["amplification_lift"].status = Available => pt * cl # 0
      BY <2>11, <2>12, <3>1, RatioIs DEF Lift
    <3>4. pt * cl # 0 => pt # 0 /\ cl # 0
      BY <3>2
    <3>5. QED
      BY <3>1, <3>3, <3>4
  <2>15. Total(o, A) # 0 => \E i \in D : AfterTail(marks[i])
    BY <2>3, <2>5, <2>6
  <2>16. Total(o, P) # 0 => \E i \in D : PreviousTail(marks[i])
    BY <2>3, <2>5, <2>6
  <2>17. Total(o, (L \cap Q) \ P) # 0 =>
            \E i \in D : /\ marks[i].previous # None
                                  /\ ~PreviousTail(marks[i]) /\ LocalTail(marks[i])
    <3>1. PICK C : C = (L \cap Q) \ P
      OBVIOUS
    <3>2. Total(o, C) # 0 => \E i \in D : OnlineCell(marks[i]) \in C
      BY <2>3, <2>6, <3>1
    <3>3. QED
      BY <2>5, <3>1, <3>2
  <2>18. QED
    BY <1>1, <2>1, <2>4, <2>10, <2>13, <2>14, <2>15, <2>16, <2>17, LabelsMeet
<1>2. ASSUME DiagnosisInvariant, seen # None, NEW config, NEW q,
             Classification(MatrixScores(seen, q), config) # "Inconclusive"
      PROVE  \E i \in DOMAIN marks : marks[i].previous # None
  <2>1. NearestRank(Rows(seen.cause), q) # None
    <3>1. SUFFICES ASSUME NearestRank(Rows(seen.cause), q) = None PROVE FALSE
      OBVIOUS
    <3>2. PICK scores : scores = MatrixScores(seen, q)
      OBVIOUS
    <3>3. scores = Joined(CleanScores(Unavailable, Unavailable), NoRateScores)
      BY <3>1, <3>2, MatrixScoresAre, Zenon
    <3>4. /\ scores["tail_onset"] = Unavailable
          /\ \A name \in RateNames : scores[name] = Unavailable
      BY <3>3, NoRateScoresAre, JoinedIs
    <3>5. /\ scores["tail_onset"].status # Available
          /\ scores["amplification_lift"].status # Available
          /\ scores["carry_through"].status # Available
      BY <3>4, UnavailableIs DEF RateNames
    <3>6. QED
      BY <1>2, <3>2, <3>5, LabelsMeet
  <2>2. QED
    BY <1>2, <2>1, SeenCause
<1>3. ASSUME DiagnosisInvariant PROVE LabelNeedsEvidence
  BY <1>1, <1>2, <1>3, Zenon DEF LabelNeedsEvidence
<1>4. QED
  BY <1>3, DiagnosisInductive, PTL
===============================================================================

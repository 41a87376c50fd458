---------------------------- MODULE Context_proofs ----------------------------
(***************************************************************************)
(* Proofs about request contexts (module Context), for any number of       *)
(* contexts, recorders, stages, buckets and calls.  The packed word is     *)
(* shown to give back what was put into it; what is then left is an        *)
(* argument about one call at a time and about sums of counters.           *)
(***************************************************************************)
EXTENDS Context, Induction

USE ContextsAssumption, LatencyAssumption

-----------------------------------------------------------------------------
(* The fields of the packed word.                                          *)

LEMMA WeightsAre ==
    /\ Weight[0] = 1
    /\ \A n \in Nat : Weight[n] \in Nat \ {0} /\ Weight[n + 1] = 2 * Weight[n]
<1> DEFINE Rule(g) == [j \in Nat |-> IF j = 0 THEN 1 ELSE 2 * g[j - 1]]
<1>1. PICK step : step = [x \in Nat \ {0} |-> 2 * x]
  OBVIOUS
<1> PICK V : V = Nat \ {0}
  OBVIOUS
<1>2. step \in [V -> V] /\ 1 \in V
  BY <1>1
<1>3. PICK f \in [Nat -> V] : f[0] = 1 /\ \A k \in Nat : f[k + 1] = step[f[k]]
  <2>1. \E f : IsIteration(f, V, 1, step)
    BY <1>2, IterateExists
  <2>2. QED
    BY <2>1 DEF IsIteration
<1>4. f = Rule(f)
  <2>1. ASSUME NEW j \in Nat PROVE f[j] = IF j = 0 THEN 1 ELSE 2 * f[j - 1]
    <3>1. CASE j = 0
      BY <1>3, <3>1
    <3>2. CASE j # 0
      <4>1. PICK k \in Nat : j = k + 1
        BY <3>2
      <4>2. f[j] = step[f[k]] /\ f[k] \in Nat \ {0}
        BY <1>3, <4>1
      <4>3. QED
        BY <1>1, <3>2, <4>1, <4>2
    <3>3. QED
      BY <3>1, <3>2
  <2>2. QED
    BY <1>3, <2>1
<1>5. Weight = CHOOSE g : g = Rule(g)
  BY DEF Weight
<1>6. Weight = Rule(Weight)
  <2> HIDE DEF Rule
  <2> QED
    BY <1>4, <1>5
<1>7. Weight[0] = 1
  BY <1>6
<1>8. ASSUME NEW n \in Nat PROVE Weight[n + 1] = 2 * Weight[n]
  <2>1. n + 1 \in Nat /\ n + 1 # 0 /\ (n + 1) - 1 = n
    OBVIOUS
  <2>2. Weight[n + 1] = 2 * Weight[(n + 1) - 1]
    BY <1>6, <2>1
  <2>3. QED
    BY <2>1, <2>2
<1>9. Nat \subseteq {n \in Nat : Weight[n] \in Nat \ {0}}
  <2>1. PICK T : T = {n \in Nat : Weight[n] \in Nat \ {0}}
    OBVIOUS
  <2>2. 0 \in T /\ \A n \in Nat : n \in T => n + 1 \in T
    BY <1>7, <1>8, <2>1
  <2>3. QED
    BY <2>1, <2>2, InductionOnNat
<1>10. QED
  BY <1>7, <1>8, <1>9

LEMMA ShiftsAre ==
    ASSUME NEW v \in Nat, NEW shifted, shifted = ShiftRight(v)
    PROVE  /\ shifted[0] = v
           /\ \A n \in Nat : shifted[n] \in Nat /\ shifted[n + 1] = shifted[n] \div 2
<1> DEFINE Rule(g) == [k \in Nat |-> IF k = 0 THEN v ELSE g[k - 1] \div 2]
<1>1. PICK step : step = [x \in Nat |-> x \div 2]
  OBVIOUS
<1>2. step \in [Nat -> Nat]
  BY <1>1
<1>3. PICK f \in [Nat -> Nat] : f[0] = v /\ \A k \in Nat : f[k + 1] = step[f[k]]
  <2>1. \E f : IsIteration(f, Nat, v, step)
    BY <1>2, IterateExists
  <2>2. QED
    BY <2>1 DEF IsIteration
<1>4. f = Rule(f)
  <2>1. ASSUME NEW j \in Nat PROVE f[j] = IF j = 0 THEN v ELSE f[j - 1] \div 2
    <3>1. CASE j = 0
      BY <1>3, <3>1
    <3>2. CASE j # 0
      <4>1. PICK k \in Nat : j = k + 1
        BY <3>2
      <4>2. f[j] = step[f[k]] /\ f[k] \in Nat
        BY <1>3, <4>1
      <4>3. QED
        BY <1>1, <3>2, <4>1, <4>2
    <3>3. QED
      BY <3>1, <3>2
  <2>2. QED
    BY <1>3, <2>1
<1>5. shifted = CHOOSE g : g = Rule(g)
  BY DEF ShiftRight
<1>6. shifted = Rule(shifted)
  <2> HIDE DEF Rule
  <2> QED
    BY <1>4, <1>5
<1>7. shifted[0] = v
  BY <1>6
<1>8. ASSUME NEW n \in Nat PROVE shifted[n + 1] = shifted[n] \div 2
  <2>1. n + 1 \in Nat /\ n + 1 # 0 /\ (n + 1) - 1 = n
    OBVIOUS
  <2>2. shifted[n + 1] = shifted[(n + 1) - 1] \div 2
    BY <1>6, <2>1
  <2>3. QED
    BY <2>1, <2>2
<1>9. Nat \subseteq {n \in Nat : shifted[n] \in Nat}
  <2>1. PICK T : T = {n \in Nat : shifted[n] \in Nat}
    OBVIOUS
  <2>2. 0 \in T /\ \A n \in Nat : n \in T => n + 1 \in T
    BY <1>7, <1>8, <2>1
  <2>3. QED
    BY <2>1, <2>2, InductionOnNat
<1>10. QED
  BY <1>7, <1>8, <1>9

Bit(v, k) == ShiftRight(v)[k] % 2

\* What the first n bits of a value are worth in a field of this width.
FieldWeights(shift, width) == [k \in shift .. shift + width - 1 |-> Weight[k - shift]]
BitsWorth(v, shift, width, n) ==
    SumFunctionOnSet(FieldWeights(shift, width), Field(v, shift, n))

LEMMA FieldInside ==
    ASSUME NEW v, NEW shift \in Nat, NEW width \in Nat, NEW k \in Field(v, shift, width)
    PROVE  k \in Nat /\ shift =< k /\ k < shift + width
<1>1. PICK j \in 0 .. width - 1 : k = shift + j
  BY DEF Field
<1>2. QED
  BY <1>1

LEMMA FieldGrows ==
    ASSUME NEW v, NEW shift \in Nat, NEW n \in Nat
    PROVE  /\ Bit(v, n) = 1 => Field(v, shift, n + 1) = Field(v, shift, n) \cup {shift + n}
           /\ Bit(v, n) # 1 => Field(v, shift, n + 1) = Field(v, shift, n)
<1>1. Field(v, shift, n) = {shift + j : j \in {k \in 0 .. n - 1 : Bit(v, k) = 1}}
  BY DEF Field, Bit
<1>2. Field(v, shift, n + 1) = {shift + j : j \in {k \in 0 .. n : Bit(v, k) = 1}}
  BY DEF Field, Bit
<1>3. ASSUME Bit(v, n) = 1
      PROVE  Field(v, shift, n + 1) = Field(v, shift, n) \cup {shift + n}
  <2>1. {k \in 0 .. n : Bit(v, k) = 1} = {k \in 0 .. n - 1 : Bit(v, k) = 1} \cup {n}
    BY <1>3
  <2>2. QED
    BY <1>1, <1>2, <2>1
<1>4. ASSUME Bit(v, n) # 1
      PROVE  Field(v, shift, n + 1) = Field(v, shift, n)
  <2>1. {k \in 0 .. n : Bit(v, k) = 1} = {k \in 0 .. n - 1 : Bit(v, k) = 1}
    BY <1>4
  <2>2. QED
    BY <1>1, <1>2, <2>1
<1>5. QED
  BY <1>3, <1>4

LEMMA FieldFinite ==
    ASSUME NEW v, NEW shift \in Nat, NEW width \in Nat, NEW S, S = Field(v, shift, width)
    PROVE  IsFiniteSet(S)
<1>1. \A k \in S : k \in shift .. shift + width - 1
  BY FieldInside
<1>2. IsFiniteSet(shift .. shift + width - 1)
  BY FS_Interval
<1>3. QED
  BY <1>1, <1>2, FS_Subset

LEMMA WeightOf ==
    ASSUME NEW shift \in Nat, NEW width \in Nat, NEW k \in Nat, shift =< k, k < shift + width
    PROVE  /\ FieldWeights(shift, width)[k] = Weight[k - shift]
           /\ FieldWeights(shift, width)[k] \in Nat
<1>1. k \in shift .. shift + width - 1 /\ k - shift \in Nat
  OBVIOUS
<1>2. FieldWeights(shift, width)[k] = Weight[k - shift]
  BY <1>1 DEF FieldWeights
<1>3. QED
  BY <1>1, <1>2, WeightsAre

LEMMA WorthGrows ==
    ASSUME NEW v, NEW shift \in Nat, NEW width \in Nat, NEW n \in Nat, n < width
    PROVE  /\ BitsWorth(v, shift, width, n) \in Int
           /\ BitsWorth(v, shift, width, n + 1) = BitsWorth(v, shift, width, n)
                + IF Bit(v, n) = 1 THEN Weight[n] ELSE 0
<1>1. PICK f : f = FieldWeights(shift, width)
  OBVIOUS
<1>2. PICK S : S = Field(v, shift, n)
  OBVIOUS
<1>3. PICK x : x = shift + n
  OBVIOUS
<1>4. IsFiniteSet(S)
  BY <1>2, FieldFinite
<1>5. x \notin S /\ \A k \in S : k \in Nat /\ shift =< k /\ k < shift + width
  BY <1>2, <1>3, FieldInside
<1>6. f[x] = Weight[n] /\ f[x] \in Int
  <2>1. x \in Nat /\ shift =< x /\ x < shift + width /\ x - shift = n
    BY <1>3
  <2>2. f[x] = Weight[x - shift] /\ f[x] \in Nat
    BY <1>1, <2>1, WeightOf
  <2>3. QED
    BY <2>1, <2>2
<1>7. \A y \in S \cup {x} : f[y] \in Int
  <2>1. \A y \in S : f[y] \in Nat
    BY <1>1, <1>5, WeightOf
  <2>2. QED
    BY <1>6, <2>1
<1>8. SumFunctionOnSet(f, S) \in Int
  BY <1>4, <1>7, SumType
<1>9. SumFunctionOnSet(f, S \cup {x}) = f[x] + SumFunctionOnSet(f, S)
  BY <1>4, <1>5, <1>7, SumAdd
<1>10. BitsWorth(v, shift, width, n) = SumFunctionOnSet(f, S)
  BY <1>1, <1>2 DEF BitsWorth
<1>11. PICK U : U = Field(v, shift, n + 1)
  OBVIOUS
<1>12. BitsWorth(v, shift, width, n + 1) = SumFunctionOnSet(f, U)
  BY <1>1, <1>11 DEF BitsWorth
<1>13. /\ Bit(v, n) = 1 => Field(v, shift, n + 1) = Field(v, shift, n) \cup {shift + n}
       /\ Bit(v, n) # 1 => Field(v, shift, n + 1) = Field(v, shift, n)
  BY FieldGrows
<1>14. CASE Bit(v, n) = 1
  <2>1. U = S \cup {x}
    BY <1>2, <1>3, <1>11, <1>13, <1>14
  <2>2. QED
    BY <1>6, <1>8, <1>9, <1>10, <1>12, <1>14, <2>1
<1>15. CASE Bit(v, n) # 1
  <2>1. U = S
    BY <1>2, <1>11, <1>13, <1>15
  <2>2. QED
    BY <1>8, <1>10, <1>12, <1>15, <2>1
<1>16. QED
  BY <1>14, <1>15

LEMMA Twice ==
    ASSUME NEW h \in Int, NEW b \in {0, 1}, NEW w \in Int
    PROVE  (2 * h + b) * w = h * (2 * w) + IF b = 1 THEN w ELSE 0
<1>1. CASE b = 0
  BY <1>1
<1>2. CASE b = 1
  BY <1>2
<1>3. QED
  BY <1>1, <1>2

\* The first n bits make up what the rest leaves of the value.
LEMMA WorthIs ==
    ASSUME NEW v \in Nat, NEW shift \in Nat, NEW width \in Nat,
           NEW left, left = ShiftRight(v)
    PROVE  \A n \in 0 .. width :
              BitsWorth(v, shift, width, n) + left[n] * Weight[n] = v
<1> DEFINE P(n) == BitsWorth(v, shift, width, n) + left[n] * Weight[n] = v
           T == {n \in Nat : n \in 0 .. width => P(n)}
<1>1. ASSUME NEW n \in Nat, n < width, P(n)
      PROVE  P(n + 1)
  <2>1. PICK q \in Nat : q = left[n]
    BY ShiftsAre
  <2>2. PICK h \in Nat : h = q \div 2
    OBVIOUS
  <2>3. PICK b \in {0, 1} : b = q % 2
    OBVIOUS
  <2>4. q = 2 * h + b
    BY <2>2, <2>3
  <2>5. PICK w \in Int : w = Weight[n]
    BY WeightsAre
  <2>6. q * w = h * (2 * w) + IF b = 1 THEN w ELSE 0
    BY <2>4, Twice
  <2>7. /\ BitsWorth(v, shift, width, n) \in Int
        /\ BitsWorth(v, shift, width, n + 1)
             = BitsWorth(v, shift, width, n) + IF b = 1 THEN w ELSE 0
    <3>1. Bit(v, n) = b
      BY <2>1, <2>3 DEF Bit
    <3>2. QED
      BY <1>1, <2>5, <3>1, WorthGrows
  <2>8. BitsWorth(v, shift, width, n) + q * w = v
    BY <1>1, <2>1, <2>5
  <2>9. PICK x \in Int : x = h * (2 * w)
    OBVIOUS
  <2>10. BitsWorth(v, shift, width, n + 1) + x = v
    BY <2>6, <2>7, <2>8, <2>9
  <2>11. left[n + 1] = h /\ Weight[n + 1] = 2 * w
    <3>1. left[n + 1] = left[n] \div 2
      BY ShiftsAre
    <3>2. Weight[n + 1] = 2 * Weight[n]
      BY WeightsAre
    <3>3. QED
      BY <2>1, <2>2, <2>5, <3>1, <3>2
  <2>12. QED
    BY <2>9, <2>10, <2>11
<1>2. P(0)
  <2>1. Field(v, shift, 0) = {}
    BY DEF Field
  <2>2. BitsWorth(v, shift, width, 0) = 0
    BY <2>1, SumEmpty DEF BitsWorth
  <2>3. left[0] = v /\ Weight[0] = 1
    BY ShiftsAre, WeightsAre
  <2>4. QED
    BY <2>2, <2>3
<1>3. ASSUME NEW n \in Nat, n \in T PROVE n + 1 \in T
  <2>1. SUFFICES ASSUME n + 1 \in 0 .. width PROVE P(n + 1)
    OBVIOUS
  <2>2. n \in 0 .. width /\ n < width
    BY <2>1
  <2> HIDE DEF P
  <2>3. QED
    BY <1>1, <1>3, <2>2
<1>4. 0 \in T
  BY <1>2
<1>5. Nat \subseteq T
  <2> HIDE DEF T
  <2> QED
    BY <1>3, <1>4, InductionOnNat
<1>6. QED
  BY <1>5

\* A field that is wide enough gives back what was put into it.
LEMMA Unpack ==
    ASSUME NEW v \in Nat, NEW shift \in Nat, NEW width \in Nat, ShiftRight(v)[width] = 0,
           NEW word, word \cap (shift .. shift + width - 1) = Field(v, shift, width)
    PROVE  Value(word, shift, width) = v
<1>1. PICK S : S = Field(v, shift, width)
  OBVIOUS
<1>2. PICK f : f = FieldWeights(shift, width)
  OBVIOUS
<1>3. IsFiniteSet(S)
  BY <1>1, FieldFinite
<1>4. PICK g : g = [k \in S |-> Weight[k - shift]]
  OBVIOUS
<1>5. Value(word, shift, width) = SumFunctionOnSet(g, S)
  BY <1>1, <1>4 DEF Value, SumFunction
<1>6. ASSUME NEW k \in S PROVE f[k] \in Int /\ f[k] = g[k]
  <2>1. k \in Nat /\ shift =< k /\ k < shift + width
    BY <1>1, FieldInside
  <2>2. f[k] = Weight[k - shift] /\ f[k] \in Nat
    BY <1>2, <2>1, WeightOf
  <2>3. QED
    BY <1>4, <2>2
<1>7. SumFunctionOnSet(f, S) = SumFunctionOnSet(g, S)
  BY <1>3, <1>6, SumEqual
<1>8. BitsWorth(v, shift, width, width) = SumFunctionOnSet(f, S)
  BY <1>1, <1>2 DEF BitsWorth
<1>9. BitsWorth(v, shift, width, width) = v
  <2>1. PICK left : left = ShiftRight(v)
    OBVIOUS
  <2>2. BitsWorth(v, shift, width, width) + left[width] * Weight[width] = v
    BY <2>1, WorthIs
  <2>3. Weight[width] \in Nat /\ left[width] = 0
    BY <2>1, WeightsAre
  <2>4. SumFunctionOnSet(f, S) \in Int
    BY <1>3, <1>6, SumType
  <2>5. QED
    BY <1>8, <2>2, <2>3, <2>4
<1>10. QED
  BY <1>5, <1>7, <1>8, <1>9

\* Six bits hold a stage and a bucket.
LEMMA SixBits ==
    ASSUME NEW v \in Nat, v < 64
    PROVE  ShiftRight(v)[6] = 0
<1>1. PICK left : left = ShiftRight(v)
  OBVIOUS
<1>2. left[0] = v /\ \A n \in Nat : left[n] \in Nat /\ left[n + 1] = left[n] \div 2
  BY <1>1, ShiftsAre
<1>3. left[1] \in Nat /\ left[1] < 32
  <2>1. left[0 + 1] = left[0] \div 2
    BY <1>2
  <2>2. QED
    BY <1>2, <2>1
<1>4. left[2] \in Nat /\ left[2] < 16
  <2>1. left[1 + 1] = left[1] \div 2
    BY <1>2
  <2>2. QED
    BY <1>3, <2>1
<1>5. left[3] \in Nat /\ left[3] < 8
  <2>1. left[2 + 1] = left[2] \div 2
    BY <1>2
  <2>2. QED
    BY <1>4, <2>1
<1>6. left[4] \in Nat /\ left[4] < 4
  <2>1. left[3 + 1] = left[3] \div 2
    BY <1>2
  <2>2. QED
    BY <1>5, <2>1
<1>7. left[5] \in Nat /\ left[5] < 2
  <2>1. left[4 + 1] = left[4] \div 2
    BY <1>2
  <2>2. QED
    BY <1>6, <2>1
<1>8. left[6] = 0
  <2>1. left[5 + 1] = left[5] \div 2
    BY <1>2
  <2>2. QED
    BY <1>7, <2>1
<1>9. QED
  BY <1>1, <1>8

Marks == [stage : Stages, bucket : Buckets]

\* What either kind of context is.
ClockContexts ==
    [kind : {"clock"}, last : 0 .. MaxNs, cumulative : 0 .. MaxNs, metadata : SUBSET Nat]
ManualContexts ==
    [kind : {"manual"}, cumulative : 0 .. MaxNs, cookie : Recorders,
     frozen : BOOLEAN, previous : Marks \cup {None}]

LEMMA BucketsAre ==
    /\ IsFiniteSet(Bounds) /\ Cardinality(Bounds) \in Nat
    /\ Buckets \subseteq Nat /\ \A b \in Buckets : b < 64
    /\ IsFiniteSet(Buckets)
    /\ \A ns : Bucketize(ns) \in Buckets
<1>1. IsFiniteSet(Bounds)
  <2>1. IsFiniteSet(1 .. MaxNs)
    BY FS_Interval
  <2>2. QED
    BY <2>1, BoundsAssumption, FS_Subset
<1>2. Cardinality(Bounds) \in Nat
  BY <1>1, FS_CardinalityType
<1>3. Buckets \subseteq Nat /\ \A b \in Buckets : b < 64
  BY <1>2, BoundsAssumption DEF Buckets
<1>4. IsFiniteSet(Buckets)
  BY <1>2, FS_Interval DEF Buckets
<1>5. ASSUME NEW ns PROVE Bucketize(ns) \in Buckets
  <2> DEFINE reached == {bound \in Bounds : bound =< ns}
  <2>1. Cardinality(reached) \in Nat /\ Cardinality(reached) =< Cardinality(Bounds)
    <3>1. reached \in SUBSET Bounds
      OBVIOUS
    <3> HIDE DEF reached
    <3>2. IsFiniteSet(reached) /\ Cardinality(reached) =< Cardinality(Bounds)
      BY <1>1, <3>1, FS_Subset
    <3>3. QED
      BY <3>2, FS_CardinalityType
  <2>2. Bucketize(ns) = Cardinality(reached)
    BY DEF Bucketize
  <2> HIDE DEF reached
  <2>3. QED
    BY <1>2, <2>1, <2>2 DEF Buckets
<1>6. QED
  BY <1>1, <1>2, <1>3, <1>4, <1>5

LEMMA StagesAre ==
    /\ Stages \subseteq Nat /\ \A s \in Stages : s < 64
    /\ IsFiniteSet(Stages) /\ 0 \in Stages
<1>1. NumStages \in Nat /\ 1 =< NumStages /\ NumStages =< 64
  BY StagesAssumption
<1>2. IsFiniteSet(Stages)
  BY <1>1, FS_Interval DEF Stages
<1>3. QED
  BY <1>1, <1>2 DEF Stages

\* The fields of the word do not touch: the mark that is packed last is read
\* back, and what identifies the context is left as it was.
Carries(packed, word, mark) ==
    /\ packed \in SUBSET Nat
    /\ Value(packed, 48, 6) = mark.stage
    /\ Value(packed, 54, 6) = mark.bucket
    /\ HAS_PREVIOUS_BIT \in packed
    /\ packed \cap (0 .. 31) = word \cap (0 .. 31)
    /\ STARTED_FROZEN_BIT \in packed <=> STARTED_FROZEN_BIT \in word

LEMMA PackedApart ==
    ASSUME NEW word \in SUBSET Nat, NEW mark \in Marks, NEW packed,
           packed = (word \cap IDENTITY_MASK) \cup PackPrevious(mark)
    PROVE  Carries(packed, word, mark)
<1>1. PICK stage \in Nat : stage = mark.stage /\ stage < 64
  BY StagesAre DEF Marks
<1>2. PICK bucket \in Nat : bucket = mark.bucket /\ bucket < 64
  BY BucketsAre DEF Marks
<1>3. PICK F : F = Field(stage, 48, 6)
  OBVIOUS
<1>4. PICK G : G = Field(bucket, 54, 6)
  OBVIOUS
<1>5. packed = (word \cap (0 .. 47)) \cup F \cup G \cup {60}
  BY <1>1, <1>2, <1>3, <1>4 DEF PackPrevious, IDENTITY_MASK, PREVIOUS_STAGE_SHIFT,
     PREVIOUS_BUCKET_SHIFT, HAS_PREVIOUS_BIT
<1>6. \A k \in F : k \in Nat /\ 48 =< k /\ k < 54
  BY <1>3, FieldInside
<1>7. \A k \in G : k \in Nat /\ 54 =< k /\ k < 60
  BY <1>4, FieldInside
<1>8. packed \cap (48 .. 48 + 6 - 1) = F
  BY <1>5, <1>6, <1>7
<1>9. packed \cap (54 .. 54 + 6 - 1) = G
  BY <1>5, <1>6, <1>7
<1>10. Value(packed, 48, 6) = stage
  BY <1>1, <1>3, <1>8, SixBits, Unpack, SMTT(30)
<1>11. Value(packed, 54, 6) = bucket
  BY <1>2, <1>4, <1>9, SixBits, Unpack, SMTT(30)
<1>12. packed \in SUBSET Nat /\ 60 \in packed
  BY <1>5, <1>6, <1>7
<1>13. packed \cap (0 .. 31) = word \cap (0 .. 31)
  BY <1>5, <1>6, <1>7
<1>14. 32 \in packed <=> 32 \in word
  BY <1>5, <1>6, <1>7
<1>15. QED
  BY <1>1, <1>2, <1>10, <1>11, <1>12, <1>13, <1>14
     DEF Carries, HAS_PREVIOUS_BIT, STARTED_FROZEN_BIT

\* Ctx::new: the word has the cookie and the bit, and no mark yet.
LEMMA NewClockedIs ==
    ASSUME NEW r \in Recorders, NEW timestamp \in 0 .. MaxNs, NEW frozen,
           NEW new, new = NewClocked(r, timestamp, frozen)
    PROVE  /\ new \in ClockContexts /\ new.cumulative = 0 /\ new.last = timestamp
           /\ RegistryCookie(new) = r
           /\ StartedFrozen(new) <=> frozen
           /\ Previous(new) = None
<1>1. PICK F : F = Field(r, 0, 32)
  OBVIOUS
<1>2. \A k \in F : k \in Nat /\ k < 32
  BY <1>1, FieldInside
<1>3. PICK word : word = F \cup (IF frozen THEN {32} ELSE {})
  OBVIOUS
<1>4. new = [kind |-> "clock", last |-> timestamp, cumulative |-> 0, metadata |-> word]
  BY <1>1, <1>3 DEF NewClocked, STARTED_FROZEN_BIT
<1>5. word \in SUBSET Nat
  BY <1>2, <1>3
<1>6. word \cap (0 .. 0 + 32 - 1) = F
  BY <1>2, <1>3
<1>7. Value(word, 0, 32) = r
  <2>1. r \in Nat /\ ShiftRight(r)[32] = 0
    BY RecordersAssumption
  <2>2. PICK shift \in Nat, width \in Nat : shift = 0 /\ width = 32
    OBVIOUS
  <2>3. word \cap (shift .. shift + width - 1) = Field(r, shift, width)
    BY <1>1, <1>6, <2>2
  <2>4. ShiftRight(r)[width] = 0
    BY <2>1, <2>2
  <2>5. Value(word, shift, width) = r
    BY <2>1, <2>3, <2>4, Unpack
  <2>6. QED
    BY <2>2, <2>5
<1>8. 60 \notin word /\ (32 \in word <=> frozen)
  BY <1>2, <1>3
<1>9. new.kind = "clock" /\ new.metadata = word
  BY <1>4
<1>10. RegistryCookie(new) = r /\ Previous(new) = None
  BY <1>7, <1>8, <1>9 DEF RegistryCookie, Previous, HAS_PREVIOUS_BIT
<1>11. StartedFrozen(new) <=> frozen
  BY <1>8, <1>9 DEF StartedFrozen, STARTED_FROZEN_BIT
<1>12. QED
  BY <1>4, <1>5, <1>10, <1>11 DEF ClockContexts

\* Ctx::set_previous and its manual counterpart.
LEMMA SetPreviousIs ==
    ASSUME NEW context \in ClockContexts \cup ManualContexts, NEW mark \in Marks,
           NEW new, new = SetPrevious(context, mark)
    PROVE  /\ context \in ClockContexts => new \in ClockContexts /\ new.last = context.last
           /\ context \in ManualContexts => new \in ManualContexts
           /\ new.kind = context.kind /\ new.cumulative = context.cumulative
           /\ RegistryCookie(new) = RegistryCookie(context)
           /\ StartedFrozen(new) = StartedFrozen(context)
           /\ Previous(new) = mark
<1>1. CASE context \in ManualContexts
  <2>1. context.kind = "manual"
    BY <1>1 DEF ManualContexts
  <2>2. new = [context EXCEPT !.previous = mark]
    BY <2>1 DEF SetPrevious
  <2>3. /\ new \in ManualContexts /\ new.kind = "manual" /\ new.previous = mark
        /\ new.cookie = context.cookie /\ new.frozen = context.frozen
        /\ new.cumulative = context.cumulative
    BY <1>1, <2>2 DEF ManualContexts
  <2>4. context \notin ClockContexts
    BY <2>1 DEF ClockContexts
  <2>5. QED
    BY <2>1, <2>3, <2>4 DEF RegistryCookie, StartedFrozen, Previous
<1>2. CASE context \in ClockContexts
  <2>1. context.kind = "clock" /\ context.metadata \in SUBSET Nat
    BY <1>2 DEF ClockContexts
  <2>2. PICK packed : packed = (context.metadata \cap IDENTITY_MASK) \cup PackPrevious(mark)
    OBVIOUS
  <2> PICK word \in SUBSET Nat : word = context.metadata
    BY <2>1
  <2>3. new = [context EXCEPT !.metadata = packed]
    BY <2>1, <2>2 DEF SetPrevious
  <2>4. /\ packed \in SUBSET Nat
        /\ Value(packed, 48, 6) = mark.stage
        /\ Value(packed, 54, 6) = mark.bucket
        /\ HAS_PREVIOUS_BIT \in packed
        /\ packed \cap (0 .. 31) = word \cap (0 .. 31)
        /\ STARTED_FROZEN_BIT \in packed <=> STARTED_FROZEN_BIT \in word
    <3>1. packed = (word \cap IDENTITY_MASK) \cup PackPrevious(mark)
      BY <2>2
    <3>2. Carries(packed, word, mark)
      BY <3>1, PackedApart
    <3>3. QED
      BY <3>2 DEF Carries
  <2>5. /\ new \in ClockContexts /\ new.kind = "clock" /\ new.metadata = packed
        /\ new.last = context.last /\ new.cumulative = context.cumulative
    BY <1>2, <2>3, <2>4 DEF ClockContexts
  <2>6. context \notin ManualContexts
    BY <2>1 DEF ManualContexts
  <2>7. Value(packed, 0, 32) = Value(context.metadata, 0, 32)
    <3>1. packed \cap (0 .. 0 + 32 - 1) = context.metadata \cap (0 .. 0 + 32 - 1)
      BY <2>4
    <3>2. QED
      BY <3>1 DEF Value
  <2>8. RegistryCookie(new) = RegistryCookie(context)
    BY <2>1, <2>5, <2>7 DEF RegistryCookie
  <2>9. StartedFrozen(new) = StartedFrozen(context)
    BY <2>1, <2>4, <2>5 DEF StartedFrozen
  <2>10. Previous(new) = mark
    <3>1. mark = [stage |-> mark.stage, bucket |-> mark.bucket]
      BY DEF Marks
    <3>2. QED
      BY <2>4, <2>5, <3>1 DEF Previous, PREVIOUS_STAGE_SHIFT, PREVIOUS_BUCKET_SHIFT
  <2>11. QED
    BY <1>2, <2>1, <2>5, <2>6, <2>8, <2>9, <2>10
<1>3. QED
  BY <1>1, <1>2

-----------------------------------------------------------------------------
(* Calls.                                                                  *)

Tallies == UNION {[cells -> Nat \ {0}] : cells \in SUBSET Cells}
Steps == [stage : Stages, local : 0 .. MaxNs]
Starts == [ns : 0 .. MaxNs, cookie : Recorders \cup {None}, frozen : BOOLEAN]

Types ==
    /\ counters \in [Recorders -> Tallies]
    /\ ctx \in [Contexts -> ClockContexts \cup ManualContexts \cup {None}]
    /\ path \in [Contexts -> Seq(Steps)]
    /\ started \in [Contexts -> Starts]
    /\ calls \in [Recorders -> Nat]
    /\ accepted \in [Recorders -> Nat]

\* What a live context says of itself is sound.
WordInv ==
    \A c \in Contexts : ctx[c] # None =>
        /\ RegistryCookie(ctx[c]) \in Recorders
        /\ Previous(ctx[c]) \in Marks \cup {None}

\* Count, of any bag.
Copies(cell, bag) == IF BagIn(cell, bag) THEN bag[cell] ELSE 0

\* What an increment does to a count.
LEMMA IncrementIs ==
    ASSUME counters \in [Recorders -> Tallies], NEW r \in Recorders,
           NEW cells \in SUBSET Cells, Increment(r, cells)
    PROVE  /\ counters' \in [Recorders -> Tallies]
           /\ \A q \in Recorders, cell \in Cells :
                 /\ Count(q, cell) \in Nat
                 /\ Copies(cell, counters'[q])
                      = Count(q, cell) + IF q = r /\ cell \in cells THEN 1 ELSE 0
<1>1. PICK before \in Tallies : before = counters[r]
  OBVIOUS
<1>2. PICK D \in SUBSET Cells : before \in [D -> Nat \ {0}]
  BY <1>1 DEF Tallies
<1>3. PICK after : after = before (+) SetToBag(cells)
  OBVIOUS
<1>4. after = [e \in D \cup cells |-> (IF e \in D THEN before[e] ELSE 0)
                                       + (IF e \in cells THEN 1 ELSE 0)]
  <2>1. DOMAIN before = D /\ DOMAIN SetToBag(cells) = cells
    BY <1>2 DEF SetToBag
  <2>2. \A e \in cells : SetToBag(cells)[e] = 1
    BY DEF SetToBag
  <2>3. after = [e \in D \cup cells |->
                    (IF e \in D THEN before[e] ELSE 0)
                    + (IF e \in cells THEN SetToBag(cells)[e] ELSE 0)]
    BY <1>3, <2>1 DEF (+)
  <2>4. QED
    BY <2>2, <2>3
<1>5. after \in [D \cup cells -> Nat \ {0}]
  BY <1>2, <1>4
<1>6. after \in Tallies
  <2>1. D \cup cells \in SUBSET Cells
    OBVIOUS
  <2>2. QED
    BY <1>5, <2>1 DEF Tallies
<1>7. counters' = [counters EXCEPT ![r] = after]
  BY <1>1, <1>3 DEF Increment
<1>8. counters' \in [Recorders -> Tallies]
  BY <1>6, <1>7
<1>9. ASSUME NEW q \in Recorders, NEW cell \in Cells
      PROVE  /\ Count(q, cell) \in Nat
             /\ Copies(cell, counters'[q])
                  = Count(q, cell) + IF q = r /\ cell \in cells THEN 1 ELSE 0
  <2>1. PICK E \in SUBSET Cells : counters[q] \in [E -> Nat \ {0}]
    BY DEF Tallies
  <2>2. Count(q, cell) = IF cell \in E THEN counters[q][cell] ELSE 0
    BY <2>1 DEF Count, Copies, BagIn, BagToSet
  <2>3. Count(q, cell) \in Nat
    BY <2>1, <2>2
  <2>4. CASE q # r
    <3>1. counters'[q] = counters[q]
      BY <1>7, <2>4
    <3>2. QED
      BY <2>3, <2>4, <3>1 DEF Count, Copies, BagIn, BagToSet
  <2>5. CASE q = r
    <3>1. counters'[q] = after
      BY <1>7, <2>5
    <3>2. Count(q, cell) = IF cell \in D THEN before[cell] ELSE 0
      BY <1>1, <1>2, <2>5 DEF Count, Copies, BagIn, BagToSet
    <3>3. DOMAIN after = D \cup cells
      BY <1>4
    <3>4. Copies(cell, counters'[q]) = IF cell \in D \cup cells THEN after[cell] ELSE 0
      BY <3>1, <3>3 DEF Count, Copies, BagIn, BagToSet
    <3>5. QED
      BY <1>2, <1>4, <2>5, <3>2, <3>4
  <2>6. QED
    BY <2>3, <2>4, <2>5
<1>10. QED
  BY <1>8, <1>9

LEMMA LiveContext ==
    ASSUME Types, NEW c \in Contexts, ctx[c] # None
    PROVE  /\ ctx[c] \in ClockContexts \cup ManualContexts
           /\ ctx[c].kind = "clock" => ctx[c] \in ClockContexts
           /\ ctx[c].kind # "clock" => ctx[c] \in ManualContexts
           /\ ctx[c].cumulative \in 0 .. MaxNs
<1>1. ctx[c] \in ClockContexts \cup ManualContexts
  BY DEF Types
<1>2. CASE ctx[c] \in ClockContexts
  BY <1>2 DEF ClockContexts
<1>3. CASE ctx[c] \in ManualContexts
  BY <1>3 DEF ManualContexts
<1>4. QED
  BY <1>1, <1>2, <1>3

LEMMA ReadingFacts ==
    ASSUME NEW reading \in Readings
    PROVE  reading.ns \in 0 .. MaxNs /\ (reading.overflowed => reading.ns = MaxNs)
<1>1. CASE reading \in [ns : 0 .. MaxNs, overflowed : {FALSE}]
  <2>1. reading.ns \in 0 .. MaxNs /\ reading.overflowed = FALSE
    BY <1>1
  <2>2. QED
    BY <2>1
<1>2. CASE reading \in {[ns |-> MaxNs, overflowed |-> TRUE]}
  <2>1. reading = [ns |-> MaxNs, overflowed |-> TRUE]
    BY <1>2
  <2>2. reading.ns = MaxNs
    BY <2>1
  <2>3. QED
    BY <2>2
<1>3. QED
  BY <1>1, <1>2 DEF Readings

\* What validate_mark and the readings of the clock leave to record_valid_mark.
LEMMA AcceptedFacts ==
    ASSUME Types, WordInv, NEW c \in Contexts, NEW r \in Recorders, NEW id \in StageIds,
           NEW reading \in Readings, ctx[c] # None, Rejection(r, ctx[c], id, reading) = None,
           NEW context, context = ctx[c], NEW local, local = LocalNs(context, reading)
    PROVE  /\ RegistryCookie(context) = r
           /\ id.index \in Stages
           /\ Previous(context) \in Marks \cup {None}
           /\ Previous(context) # None => id.index # 0
           /\ local \in 0 .. MaxNs
           /\ reading.ns \in 0 .. MaxNs
           /\ reading.overflowed => local = MaxNs
           /\ context.kind = "clock" /\ ~reading.overflowed
                => local = reading.ns - context.last
           /\ CumulativeNs(context, local) \in 0 .. MaxNs
<1>1. None \notin Rejections
  BY NoneAssumption
<1>2. /\ RegistryCookie(context) = r
      /\ Previous(context) = None \/ id.index # 0
      /\ ~(context.kind = "clock" /\ reading.ns < context.last)
  BY <1>1 DEF Rejection, Rejections
<1>3. Previous(context) \in Marks \cup {None}
  BY DEF WordInv
<1>4. id.index \in Stages
  BY DEF StageIds
<1>5. reading.ns \in 0 .. MaxNs
  BY ReadingFacts
<1>6. /\ context.kind = "clock" => context.last \in 0 .. MaxNs
      /\ context.cumulative \in 0 .. MaxNs
  <2>1. context.cumulative \in 0 .. MaxNs
    BY LiveContext
  <2>2. context.kind = "clock" => context \in ClockContexts
    BY LiveContext
  <2>3. QED
    BY <2>1, <2>2 DEF ClockContexts
<1>7. local \in 0 .. MaxNs
  <2>1. CASE reading.overflowed
    BY <2>1 DEF LocalNs
  <2>2. CASE ~reading.overflowed /\ context.kind = "clock"
    BY <1>2, <1>5, <1>6, <2>2 DEF LocalNs
  <2>3. CASE ~reading.overflowed /\ context.kind # "clock"
    BY <1>5, <2>3 DEF LocalNs
  <2>4. QED
    BY <2>1, <2>2, <2>3
<1>8. /\ reading.overflowed => local = MaxNs
      /\ context.kind = "clock" /\ ~reading.overflowed => local = reading.ns - context.last
  BY DEF LocalNs
<1>9. CumulativeNs(context, local) \in 0 .. MaxNs
  BY <1>6, <1>7 DEF CumulativeNs, Overflows
<1>10. QED
  BY <1>2, <1>3, <1>4, <1>5, <1>7, <1>8, <1>9

\* The context that goes on to the next mark.
LEMMA AdvanceIs ==
    ASSUME NEW context \in ClockContexts \cup ManualContexts, NEW s \in Stages,
           NEW reading \in Readings, NEW local, local = LocalNs(context, reading),
           CumulativeNs(context, local) \in 0 .. MaxNs,
           NEW new, new = Advance(context, s, reading)
    PROVE  /\ new \in ClockContexts \cup ManualContexts
           /\ new.kind = context.kind
           /\ new.kind = "clock" => new.last = reading.ns
           /\ new.cumulative = CumulativeNs(context, local)
           /\ RegistryCookie(new) = RegistryCookie(context)
           /\ StartedFrozen(new) <=> StartedFrozen(context)
           /\ Previous(new) = [stage |-> s, bucket |-> CumulativeBucket(context, local)]
<1>1. PICK counted : counted = [context EXCEPT !.cumulative = CumulativeNs(context, local)]
  OBVIOUS
<1>2. PICK timed : timed = IF context.kind = "clock"
                           THEN [counted EXCEPT !.last = reading.ns] ELSE counted
  OBVIOUS
<1>3. PICK mark \in Marks : mark = [stage |-> s, bucket |-> CumulativeBucket(context, local)]
  <2>1. CumulativeBucket(context, local) \in Buckets
    BY BucketsAre DEF CumulativeBucket
  <2>2. QED
    BY <2>1 DEF Marks
<1>4. new = SetPrevious(timed, mark)
  BY <1>1, <1>2, <1>3 DEF Advance
<1>5. reading.ns \in 0 .. MaxNs
  BY ReadingFacts
<1>6. CASE context \in ClockContexts
  <2>1. context.kind = "clock"
    BY <1>6 DEF ClockContexts
  <2>2. counted \in ClockContexts
    BY <1>1, <1>6 DEF ClockContexts
  <2>3. /\ timed \in ClockContexts /\ timed.kind = "clock" /\ timed.last = reading.ns
        /\ timed.cumulative = CumulativeNs(context, local)
        /\ timed.metadata = context.metadata
    BY <1>1, <1>2, <1>5, <1>6, <2>1, <2>2 DEF ClockContexts
  <2>4. /\ RegistryCookie(timed) = RegistryCookie(context)
        /\ StartedFrozen(timed) <=> StartedFrozen(context)
    BY <2>1, <2>3 DEF RegistryCookie, StartedFrozen
  <2>5. QED
    BY <1>3, <1>4, <2>1, <2>3, <2>4, SetPreviousIs
<1>7. CASE context \in ManualContexts
  <2>1. context.kind = "manual"
    BY <1>7 DEF ManualContexts
  <2>2. /\ timed \in ManualContexts /\ timed.kind = "manual"
        /\ timed.cumulative = CumulativeNs(context, local)
        /\ timed.cookie = context.cookie /\ timed.frozen = context.frozen
    BY <1>1, <1>2, <1>7, <2>1 DEF ManualContexts
  <2>3. /\ RegistryCookie(timed) = RegistryCookie(context)
        /\ StartedFrozen(timed) <=> StartedFrozen(context)
    BY <2>1, <2>2 DEF RegistryCookie, StartedFrozen
  <2>4. QED
    BY <1>3, <1>4, <2>1, <2>2, <2>3, SetPreviousIs
<1>8. QED
  BY <1>6, <1>7

\* The cells a mark increments: one of each distribution, and one of each
\* matrix when there was a mark before.
LEMMA MarkCellsAre ==
    ASSUME NEW context, NEW s \in Stages, NEW reading,
           NEW outcome \in Outcomes \cup {None},
           NEW local, local = LocalNs(context, reading),
           NEW previous, previous = Previous(context),
           previous \in Marks \cup {None}, previous # None => s # 0,
           NEW after, after = CumulativeBucket(context, local),
           NEW cells, cells = MarkCells(context, s, reading, outcome)
    PROVE  /\ cells \in SUBSET Cells
           /\ \A t, b : <<"local", t, b>> \in cells <=> t = s /\ b = Bucketize(local)
           /\ \A t, b : <<"cumulative", t, b>> \in cells <=> t = s /\ b = after
           /\ \A t, p, b : <<"cause", t, p, b>> \in cells
                             <=> previous # None /\ t = s /\ p = previous.bucket
                                   /\ b = Bucketize(local)
           /\ \A t, p, b : <<"incoming", t, p, b>> \in cells
                             <=> previous # None /\ t = s /\ p = previous.bucket /\ b = after
           /\ \A d \in Rejections : <<"diagnostics", d>> \notin cells
<1>1. PICK first : first = {<<"local", s, Bucketize(local)>>, <<"cumulative", s, after>>}
  OBVIOUS
<1>2. PICK second : second = IF previous = None THEN {}
                             ELSE {<<"cause", s, previous.bucket, Bucketize(local)>>,
                                   <<"incoming", s, previous.bucket, after>>}
  OBVIOUS
<1>3. PICK third : third = OverflowCells(context, reading, local)
  OBVIOUS
<1>4. third \subseteq {<<"diagnostics", "LatencyOverflows">>,
                       <<"diagnostics", "CumulativeOverflows">>}
  BY <1>3 DEF OverflowCells
<1>5. PICK fourth : fourth = IF outcome = None THEN {} ELSE {<<"completion", s, outcome>>}
  OBVIOUS
<1>6. cells = first \cup second \cup third \cup fourth
  BY <1>1, <1>2, <1>3, <1>5 DEF MarkCells, TransitionCells
<1>7. Bucketize(local) \in Buckets /\ after \in Buckets
  BY BucketsAre DEF CumulativeBucket
<1>8. cells \in SUBSET Cells
  <2>1. first \subseteq Cells
    BY <1>1, <1>7 DEF Cells
  <2>2. second \subseteq Cells
    <3>1. previous # None => previous.bucket \in Buckets /\ s \in Stages \ {0}
      BY DEF Marks
    <3>2. QED
      BY <1>2, <1>7, <3>1 DEF Cells
  <2>3. third \subseteq Cells
    BY <1>4 DEF Cells, Diagnostics
  <2>4. fourth \subseteq Cells
    BY <1>5 DEF Cells
  <2>5. QED
    BY <1>6, <2>1, <2>2, <2>3, <2>4
<1>9. ASSUME NEW t, NEW b
      PROVE  /\ <<"local", t, b>> \in cells <=> t = s /\ b = Bucketize(local)
             /\ <<"cumulative", t, b>> \in cells <=> t = s /\ b = after
  BY <1>1, <1>2, <1>4, <1>5, <1>6
<1>10. ASSUME NEW t, NEW p, NEW b
       PROVE  /\ <<"cause", t, p, b>> \in cells
                   <=> previous # None /\ t = s /\ p = previous.bucket /\ b = Bucketize(local)
              /\ <<"incoming", t, p, b>> \in cells
                   <=> previous # None /\ t = s /\ p = previous.bucket /\ b = after
  BY <1>1, <1>2, <1>4, <1>5, <1>6
<1>11. ASSUME NEW d \in Rejections PROVE <<"diagnostics", d>> \notin cells
  BY <1>1, <1>2, <1>4, <1>5, <1>6 DEF Rejections
<1>12. QED
  BY <1>8, <1>9, <1>10, <1>11

LEMMA RejectedCellsAre ==
    ASSUME NEW reason \in Rejections, NEW cells, cells = {<<"diagnostics", reason>>}
    PROVE  /\ cells \in SUBSET Cells
           /\ \A t, b : <<"local", t, b>> \notin cells /\ <<"cumulative", t, b>> \notin cells
           /\ \A t, p, b : /\ <<"cause", t, p, b>> \notin cells
                           /\ <<"incoming", t, p, b>> \notin cells
           /\ \A d : <<"diagnostics", d>> \in cells <=> d = reason
BY DEF Cells, Diagnostics

LEMMA RejectionType ==
    ASSUME NEW r, NEW context, NEW id, NEW reading, Rejection(r, context, id, reading) # None
    PROVE  Rejection(r, context, id, reading) \in Rejections
BY DEF Rejection, Rejections

\* What the slot of a call holds afterwards is sound, and no other is touched.
LEMMA SlotType ==
    ASSUME Types, WordInv, NEW c \in Contexts,
           NEW new \in ClockContexts \cup ManualContexts \cup {None},
           new # None => /\ RegistryCookie(new) \in Recorders
                         /\ Previous(new) \in Marks \cup {None},
           ctx' = [ctx EXCEPT ![c] = new]
    PROVE  /\ ctx' \in [Contexts -> ClockContexts \cup ManualContexts \cup {None}]
           /\ WordInv'
<1>1. \A d \in Contexts : ctx'[d] = IF d = c THEN new ELSE ctx[d]
  BY DEF Types
<1>2. ctx' \in [Contexts -> ClockContexts \cup ManualContexts \cup {None}]
  BY DEF Types
<1>3. WordInv'
  <2>1. ASSUME NEW d \in Contexts, ctx'[d] # None
        PROVE  /\ RegistryCookie(ctx'[d]) \in Recorders
               /\ Previous(ctx'[d]) \in Marks \cup {None}
    BY <1>1, <2>1 DEF WordInv
  <2>2. QED
    BY <2>1 DEF WordInv
<1>4. QED
  BY <1>2, <1>3

LEMMA StartTypes ==
    ASSUME Types, WordInv, NEW c \in Contexts, NEW r \in Recorders,
           NEW reading \in Readings, Start(c, r, reading)
    PROVE  Types' /\ WordInv'
<1>1. PICK new : new = NewClocked(r, reading.ns, r \in FrozenRecorders)
  OBVIOUS
<1>2. reading.ns \in 0 .. MaxNs
  BY ReadingFacts
<1>3. new \in ClockContexts /\ RegistryCookie(new) = r /\ Previous(new) = None
  BY <1>1, <1>2, NewClockedIs
<1>4. ctx' = [ctx EXCEPT ![c] = new]
  BY <1>1 DEF Start
<1>5. ctx' \in [Contexts -> ClockContexts \cup ManualContexts \cup {None}] /\ WordInv'
  BY <1>3, <1>4, SlotType
<1>6. path' \in [Contexts -> Seq(Steps)] /\ started' \in [Contexts -> Starts]
  <2>1. path' \in [Contexts -> Seq(Steps)]
    BY DEF Start, Types
  <2>2. started' \in [Contexts -> Starts]
    BY <1>2 DEF Start, Types, Starts
  <2>3. QED
    BY <2>1, <2>2
<1>7. QED
  BY <1>5, <1>6 DEF Start, Types

LEMMA StartManualTypes ==
    ASSUME Types, WordInv, NEW c \in Contexts, NEW r \in Recorders, StartManual(c, r)
    PROVE  Types' /\ WordInv'
<1>1. PICK new : new = NewManual(r, r \in FrozenRecorders)
  OBVIOUS
<1>2. /\ new \in ManualContexts
      /\ RegistryCookie(new) = r /\ Previous(new) = None
  BY <1>1 DEF NewManual, ManualContexts, RegistryCookie, Previous
<1>3. ctx' = [ctx EXCEPT ![c] = new]
  BY <1>1 DEF StartManual
<1>4. ctx' \in [Contexts -> ClockContexts \cup ManualContexts \cup {None}] /\ WordInv'
  BY <1>2, <1>3, SlotType
<1>5. path' \in [Contexts -> Seq(Steps)] /\ started' \in [Contexts -> Starts]
  <2>1. path' \in [Contexts -> Seq(Steps)]
    BY DEF StartManual, Types
  <2>2. started' \in [Contexts -> Starts]
    <3>1. 0 \in 0 .. MaxNs
      BY LatencyAssumption
    <3>2. QED
      BY <3>1 DEF StartManual, Types, Starts
  <2>3. QED
    BY <2>1, <2>2
<1>6. QED
  BY <1>4, <1>5 DEF StartManual, Types

LEMMA RejectedTypes ==
    ASSUME Types, WordInv, NEW c \in Contexts, NEW r \in Recorders, NEW id \in StageIds,
           NEW reading \in Readings, NEW outcome \in Outcomes \cup {None},
           MarkRejected(c, r, id, reading, outcome)
    PROVE  Types' /\ WordInv'
<1>1. PICK new : new = IF outcome = None THEN ctx[c] ELSE None
  OBVIOUS
<1>2. ctx[c] # None /\ ctx' = [ctx EXCEPT ![c] = new]
  BY <1>1 DEF MarkRejected, Called
<1>3. /\ new \in ClockContexts \cup ManualContexts \cup {None}
      /\ new # None => /\ RegistryCookie(new) \in Recorders
                       /\ Previous(new) \in Marks \cup {None}
  BY <1>1, <1>2, LiveContext DEF WordInv
<1>4. ctx' \in [Contexts -> ClockContexts \cup ManualContexts \cup {None}] /\ WordInv'
  BY <1>2, <1>3, SlotType
<1>5. PICK reason \in Rejections : reason = Rejection(r, ctx[c], id, reading)
  BY RejectionType DEF MarkRejected
<1>6. PICK cells \in SUBSET Cells : cells = {<<"diagnostics", reason>>}
  BY <1>5, RejectedCellsAre, ZenonT(60)
<1>7. counters' \in [Recorders -> Tallies]
  <2>1. Increment(r, cells)
    BY <1>5, <1>6 DEF MarkRejected
  <2>2. QED
    BY <2>1, IncrementIs DEF Types
<1>8. /\ path' \in [Contexts -> Seq(Steps)]
      /\ calls' \in [Recorders -> Nat]
  BY DEF MarkRejected, Called, Types
<1>9. QED
  BY <1>4, <1>7, <1>8 DEF MarkRejected, Types

LEMMA AcceptedTypes ==
    ASSUME Types, WordInv, NEW c \in Contexts, NEW r \in Recorders, NEW id \in StageIds,
           NEW reading \in Readings, NEW outcome \in Outcomes \cup {None},
           MarkAccepted(c, r, id, reading, outcome)
    PROVE  Types' /\ WordInv'
<1>1. PICK context : context = ctx[c]
  OBVIOUS
<1>2. PICK local : local = LocalNs(context, reading)
  OBVIOUS
<1>3. ctx[c] # None /\ Rejection(r, ctx[c], id, reading) = None
  BY DEF MarkAccepted, Called
<1>4. /\ RegistryCookie(context) = r
      /\ id.index \in Stages
      /\ Previous(context) \in Marks \cup {None}
      /\ Previous(context) # None => id.index # 0
      /\ local \in 0 .. MaxNs
      /\ CumulativeNs(context, local) \in 0 .. MaxNs
  BY <1>1, <1>2, <1>3, AcceptedFacts
<1>5. context \in ClockContexts \cup ManualContexts
  BY <1>1, <1>3, LiveContext
<1>6. PICK new : new = IF outcome = None THEN Advance(context, id.index, reading) ELSE None
  OBVIOUS
<1>7. /\ new \in ClockContexts \cup ManualContexts \cup {None}
      /\ new # None => /\ RegistryCookie(new) \in Recorders
                       /\ Previous(new) \in Marks \cup {None}
  <2>1. CASE outcome = None
    <3>1. PICK s \in Stages : s = id.index
      BY <1>4
    <3>2. new = Advance(context, s, reading)
      BY <1>6, <2>1, <3>1
    <3>3. /\ new \in ClockContexts \cup ManualContexts
          /\ RegistryCookie(new) = RegistryCookie(context)
          /\ Previous(new) = [stage |-> s, bucket |-> CumulativeBucket(context, local)]
      BY <1>2, <1>4, <1>5, <3>2, AdvanceIs
    <3>4. CumulativeBucket(context, local) \in Buckets
      BY BucketsAre DEF CumulativeBucket
    <3>5. Previous(new) \in Marks
      BY <3>3, <3>4 DEF Marks
    <3>6. QED
      BY <1>4, <3>3, <3>5
  <2>2. CASE outcome # None
    BY <1>6, <2>2
  <2>3. QED
    BY <2>1, <2>2
<1>8. ctx' = [ctx EXCEPT ![c] = new]
  BY <1>1, <1>6 DEF MarkAccepted
<1>9. ctx' \in [Contexts -> ClockContexts \cup ManualContexts \cup {None}] /\ WordInv'
  BY <1>7, <1>8, SlotType
<1>10. PICK cells : cells = MarkCells(context, id.index, reading, outcome)
  OBVIOUS
<1>11. cells \in SUBSET Cells
  BY <1>2, <1>4, <1>10, MarkCellsAre
<1>12. counters' \in [Recorders -> Tallies]
  <2>1. Increment(r, cells)
    BY <1>1, <1>10 DEF MarkAccepted
  <2>2. QED
    BY <1>11, <2>1, IncrementIs DEF Types
<1>13. path' \in [Contexts -> Seq(Steps)]
  <2>1. PICK mark \in Steps : mark = [stage |-> id.index, local |-> local]
    BY <1>4 DEF Steps
  <2>2. path' = [path EXCEPT ![c] = IF outcome = None THEN Append(@, mark) ELSE <<>>]
    BY <1>1, <1>2, <2>1 DEF MarkAccepted
  <2>3. path[c] \in Seq(Steps)
    BY DEF Types
  <2>4. Append(path[c], mark) \in Seq(Steps) /\ <<>> \in Seq(Steps)
    BY <2>3
  <2>5. QED
    BY <2>2, <2>4 DEF Types
<1>14. calls' \in [Recorders -> Nat] /\ accepted' \in [Recorders -> Nat]
  BY <1>1, <1>4, SMTT(30) DEF MarkAccepted, Called, Types
<1>15. QED
  BY <1>9, <1>12, <1>13, <1>14 DEF MarkAccepted, Types

LEMMA StepTypes ==
    ASSUME Types, WordInv, [Next]_vars
    PROVE  Types' /\ WordInv'
<1>1. CASE UNCHANGED vars
  BY <1>1 DEF vars, Types, WordInv
<1>2. CASE Next
  BY <1>2, StartTypes, StartManualTypes, RejectedTypes, AcceptedTypes DEF Next
<1>3. QED
  BY <1>1, <1>2

LEMMA InitTypes == Init => Types /\ WordInv
<1> SUFFICES ASSUME Init PROVE Types /\ WordInv
  OBVIOUS
<1>1. EmptyBag \in Tallies
  <2>1. EmptyBag \in [{} -> Nat \ {0}]
    BY DEF EmptyBag, SetToBag
  <2>2. QED
    BY <2>1 DEF Tallies
<1>2. 0 \in 0 .. MaxNs /\ <<>> \in Seq(Steps)
  OBVIOUS
<1>3. [ns |-> 0, cookie |-> None, frozen |-> FALSE] \in Starts
  BY <1>2 DEF Starts
<1>4. Types
  BY <1>1, <1>2, <1>3 DEF Init, Types
<1>5. WordInv
  BY DEF Init, WordInv
<1>6. QED
  BY <1>4, <1>5

\* Every context, count and history keeps its type, through every packing.
THEOREM TypesInductive == Spec => [](Types /\ WordInv)
<1>1. Init => Types /\ WordInv
  BY InitTypes
<1>2. Types /\ WordInv /\ [Next]_vars => (Types /\ WordInv)'
  BY StepTypes
<1>3. QED
  BY <1>1, <1>2, PTL DEF Spec

\* For any recorders, contexts and calls: counters are bags of cells of their
\* recorder, and what a context says of itself is what was packed into it.
THEOREM TypeCorrect == Spec => []TypeOK
<1>1. Types /\ WordInv => TypeOK
  <2> SUFFICES ASSUME Types, WordInv PROVE TypeOK
    OBVIOUS
  <2>1. ASSUME NEW r \in Recorders
        PROVE  IsABag(counters[r]) /\ BagToSet(counters[r]) \subseteq Cells
    <3>1. PICK D \in SUBSET Cells : counters[r] \in [D -> Nat \ {0}]
      BY DEF Types, Tallies
    <3>2. DOMAIN counters[r] = D /\ Nat \ {0} = {n \in Nat : n > 0}
      BY <3>1
    <3>3. QED
      BY <3>1, <3>2 DEF IsABag, BagToSet
  <2>2. ASSUME NEW c \in Contexts, ctx[c] # None
        PROVE  /\ RegistryCookie(ctx[c]) \in Recorders
               /\ ctx[c].cumulative \in 0 .. MaxNs
               /\ Previous(ctx[c]) \in Marks \cup {None}
    <3>1. ctx[c].cumulative \in 0 .. MaxNs
      BY <2>2, LiveContext
    <3>2. QED
      BY <2>2, <3>1 DEF WordInv
  <2>3. QED
    BY <2>1, <2>2 DEF TypeOK, Marks
<1>2. QED
  BY <1>1, TypesInductive, PTL

-----------------------------------------------------------------------------
(* Sums of counters.                                                       *)

LEMMA CountType ==
    ASSUME Types, NEW q \in Recorders, NEW cell
    PROVE  Count(q, cell) \in Nat
<1>1. PICK D \in SUBSET Cells : counters[q] \in [D -> Nat \ {0}]
  BY DEF Types, Tallies
<1>2. QED
  BY <1>1 DEF Count, BagIn, BagToSet

\* Function g has one more than f at x, and the same elsewhere.
OneMore(f, g, S, x) ==
    \A y \in S : f[y] \in Int /\ g[y] = f[y] + IF y = x THEN 1 ELSE 0
Same(f, g, S) == \A y \in S : f[y] \in Int /\ g[y] = f[y]

LEMMA SumGains ==
    ASSUME NEW S, IsFiniteSet(S), NEW f, NEW g, DOMAIN f = S, DOMAIN g = S, NEW x \in S,
           OneMore(f, g, S, x)
    PROVE  SumFunction(f) \in Int /\ SumFunction(g) = SumFunction(f) + 1
<1>1. SumFunction(f) = SumFunctionOnSet(f, S) /\ SumFunction(g) = SumFunctionOnSet(g, S)
  BY DEF SumFunction
<1>2. \A y \in S : f[y] \in Int /\ g[y] \in Int
  BY DEF OneMore
<1>3. \A y \in S : y # x => g[y] = f[y]
  BY DEF OneMore
<1>4. SumFunctionOnSet(g, S) = SumFunctionOnSet(f, S) + (g[x] - f[x])
  BY <1>2, <1>3, SumChange
<1>5. SumFunctionOnSet(f, S) \in Int
  BY <1>2, SumType
<1>6. f[x] \in Int /\ g[x] = f[x] + 1
  BY DEF OneMore
<1>7. QED
  BY <1>1, <1>4, <1>5, <1>6

LEMMA SumStays ==
    ASSUME NEW S, IsFiniteSet(S), NEW f, NEW g, DOMAIN f = S, DOMAIN g = S,
           Same(f, g, S)
    PROVE  SumFunction(f) \in Int /\ SumFunction(g) = SumFunction(f)
<1>1. SumFunction(f) = SumFunctionOnSet(f, S) /\ SumFunction(g) = SumFunctionOnSet(g, S)
  BY DEF SumFunction
<1>2. \A y \in S : f[y] \in Int /\ f[y] = g[y]
  BY DEF Same
<1>3. SumFunctionOnSet(f, S) = SumFunctionOnSet(g, S)
  BY <1>2, SumEqual
<1>4. QED
  BY <1>1, <1>2, <1>3, SumType

\* What the cells of a family have counted.
Tally(q, cellOf) == SumFunction([x \in DOMAIN cellOf |-> Count(q, cellOf[x])])

LEMMA TallyStep ==
    ASSUME Types, NEW r \in Recorders, NEW cells \in SUBSET Cells, Increment(r, cells),
           NEW q \in Recorders, NEW S, IsFiniteSet(S), NEW cellOf \in [S -> Cells]
    PROVE  /\ Tally(q, cellOf) \in Int
           /\ \A x \in S : q = r /\ (\A y \in S : cellOf[y] \in cells <=> y = x)
                => Tally(q, cellOf)' = Tally(q, cellOf) + 1
           /\ q # r \/ (\A y \in S : cellOf[y] \notin cells)
                => Tally(q, cellOf)' = Tally(q, cellOf)
<1>1. PICK f : f = [x \in S |-> Count(q, cellOf[x])]
  OBVIOUS
<1>2. PICK g : g = [x \in S |-> Copies(cellOf[x], counters'[q])]
  OBVIOUS
<1>3. Tally(q, cellOf) = SumFunction(f) /\ Tally(q, cellOf)' = SumFunction(g)
  <2>1. Tally(q, cellOf) = SumFunction(f)
    BY <1>1 DEF Tally
  <2>2. Tally(q, cellOf)' = SumFunction(g)
    BY <1>2 DEF Tally, Count, Copies
  <2>3. QED
    BY <2>1, <2>2
<1>4. ASSUME NEW y \in S
      PROVE  /\ f[y] \in Int
             /\ g[y] = f[y] + IF q = r /\ cellOf[y] \in cells THEN 1 ELSE 0
  <2>1. PICK cell \in Cells : cell = cellOf[y]
    OBVIOUS
  <2>2. /\ Count(q, cell) \in Nat
        /\ Copies(cell, counters'[q])
             = Count(q, cell) + IF q = r /\ cell \in cells THEN 1 ELSE 0
    <3>1. counters \in [Recorders -> Tallies]
      BY DEF Types
    <3>2. \A p \in Recorders, d \in Cells :
             /\ Count(p, d) \in Nat
             /\ Copies(d, counters'[p])
                  = Count(p, d) + IF p = r /\ d \in cells THEN 1 ELSE 0
      BY <3>1, IncrementIs
    <3>3. QED
      BY <3>2
  <2>3. f[y] = Count(q, cell)
    BY <1>1, <2>1
  <2>4. g[y] = Copies(cell, counters'[q])
    BY <1>2, <2>1
  <2>5. QED
    BY <2>1, <2>2, <2>3, <2>4
<1>5. DOMAIN f = S /\ DOMAIN g = S
  BY <1>1, <1>2
<1>6. ASSUME NEW x \in S, q = r, \A y \in S : cellOf[y] \in cells <=> y = x
      PROVE  SumFunction(g) = SumFunction(f) + 1
  <2>1. OneMore(f, g, S, x)
    BY <1>4, <1>6 DEF OneMore
  <2>2. QED
    BY <1>5, <2>1, SumGains
<1>7. ASSUME q # r \/ (\A y \in S : cellOf[y] \notin cells)
      PROVE  SumFunction(g) = SumFunction(f)
  <2>1. Same(f, g, S)
    BY <1>4, <1>7 DEF Same
  <2>2. QED
    BY <1>5, <2>1, SumStays
<1>8. SumFunction(f) \in Int
  BY <1>4, <1>5, SumStays DEF Same
<1>9. QED
  BY <1>3, <1>6, <1>7, <1>8

-----------------------------------------------------------------------------
(* Every call is accounted for.                                            *)

Intervals(r, segment) ==
    SumFunction([cell \in {segment} \X Stages \X Buckets |-> Count(r, cell)])
Rejected(r) == SumFunction([d \in Rejections |-> Count(r, <<"diagnostics", d>>)])

\* The families of cells these sums are over.
IntervalCells(segment) == [cell \in {segment} \X Stages \X Buckets |-> cell]
RejectedCells == [d \in Rejections |-> <<"diagnostics", d>>]

LEMMA CallSums ==
    /\ IsFiniteSet(Rejections) /\ RejectedCells \in [Rejections -> Cells]
    /\ \A segment \in {"local", "cumulative"} :
          /\ IsFiniteSet({segment} \X Stages \X Buckets)
          /\ IntervalCells(segment) \in [{segment} \X Stages \X Buckets -> Cells]
    /\ \A r \in Recorders :
          /\ Rejected(r) = Tally(r, RejectedCells)
          /\ Rejected(r)' = Tally(r, RejectedCells)'
          /\ \A segment \in {"local", "cumulative"} :
                /\ Intervals(r, segment) = Tally(r, IntervalCells(segment))
                /\ Intervals(r, segment)' = Tally(r, IntervalCells(segment))'
<1>1. IsFiniteSet(Rejections)
  <2>1. IsFiniteSet({"InvalidContextMarks"})
    BY FS_Singleton
  <2>2. IsFiniteSet({"InvalidContextMarks"} \cup {"InvalidStageMarks"})
    BY <2>1, FS_AddElement
  <2>3. IsFiniteSet({"InvalidContextMarks"} \cup {"InvalidStageMarks"}
                      \cup {"NonMonotonicMarks"})
    BY <2>2, FS_AddElement
  <2>4. IsFiniteSet({"InvalidContextMarks"} \cup {"InvalidStageMarks"}
                      \cup {"NonMonotonicMarks"} \cup {"ClockRegressions"})
    BY <2>3, FS_AddElement
  <2>5. Rejections = {"InvalidContextMarks"} \cup {"InvalidStageMarks"}
                       \cup {"NonMonotonicMarks"} \cup {"ClockRegressions"}
    BY DEF Rejections
  <2>6. QED
    BY <2>4, <2>5
<1>2. RejectedCells \in [Rejections -> Cells]
  BY DEF RejectedCells, Cells, Diagnostics
<1>3. ASSUME NEW segment \in {"local", "cumulative"}
      PROVE  /\ IsFiniteSet({segment} \X Stages \X Buckets)
             /\ IntervalCells(segment) \in [{segment} \X Stages \X Buckets -> Cells]
  <2>1. IntervalCells(segment) \in [{segment} \X Stages \X Buckets -> Cells]
    BY DEF IntervalCells, Cells
  <2> DEFINE T == {segment} \X Stages \X Buckets
             onto == [pair \in Stages \X Buckets |-> <<segment, pair[1], pair[2]>>]
  <2>2. onto \in Surjection(Stages \X Buckets, T)
    <3>1. onto \in [Stages \X Buckets -> T]
      OBVIOUS
    <3>2. ASSUME NEW cell \in T
          PROVE  \E pair \in Stages \X Buckets : onto[pair] = cell
      <4>1. <<cell[2], cell[3]>> \in Stages \X Buckets
        OBVIOUS
      <4>2. onto[<<cell[2], cell[3]>>] = cell
        OBVIOUS
      <4>3. QED
        BY <4>1, <4>2
    <3> HIDE DEF onto, T
    <3>3. QED
      BY <3>1, <3>2 DEF Surjection
  <2>3. IsFiniteSet(Stages \X Buckets)
    BY StagesAre, BucketsAre, FS_Product
  <2>4. IsFiniteSet(T)
    <3> HIDE DEF onto, T
    <3> QED
      BY <2>2, <2>3, FS_Surjection
  <2>5. QED
    BY <2>1, <2>4
<1>4. ASSUME NEW r \in Recorders
      PROVE  Rejected(r) = Tally(r, RejectedCells) /\ Rejected(r)' = Tally(r, RejectedCells)'
  BY DEF Rejected, Tally, RejectedCells
<1>5. ASSUME NEW r \in Recorders, NEW segment \in {"local", "cumulative"}
      PROVE  /\ Intervals(r, segment) = Tally(r, IntervalCells(segment))
             /\ Intervals(r, segment)' = Tally(r, IntervalCells(segment))'
  BY DEF Intervals, Tally, IntervalCells
<1>6. QED
  BY <1>1, <1>2, <1>3, <1>4, <1>5

LEMMA RejectedAccounts ==
    ASSUME Types, WordInv, NEW c \in Contexts, NEW r \in Recorders, NEW id \in StageIds,
           NEW reading \in Readings, NEW outcome \in Outcomes \cup {None},
           MarkRejected(c, r, id, reading, outcome), NEW q \in Recorders
    PROVE  /\ Rejected(q) \in Int
           /\ Rejected(q)' = Rejected(q) + IF q = r THEN 1 ELSE 0
           /\ \A segment \in {"local", "cumulative"} :
                Intervals(q, segment)' = Intervals(q, segment)
<1>1. PICK reason \in Rejections : reason = Rejection(r, ctx[c], id, reading)
  BY RejectionType DEF MarkRejected
<1>2. PICK cells : cells = {<<"diagnostics", reason>>}
  OBVIOUS
<1>3. /\ cells \in SUBSET Cells
      /\ \A t, b : <<"local", t, b>> \notin cells /\ <<"cumulative", t, b>> \notin cells
      /\ \A d : <<"diagnostics", d>> \in cells <=> d = reason
  BY <1>2, RejectedCellsAre
<1>4. Increment(r, cells)
  BY <1>1, <1>2 DEF MarkRejected
<1>5. /\ Tally(q, RejectedCells) \in Int
      /\ \A x \in Rejections :
            q = r /\ (\A y \in Rejections : RejectedCells[y] \in cells <=> y = x)
              => Tally(q, RejectedCells)' = Tally(q, RejectedCells) + 1
      /\ q # r \/ (\A y \in Rejections : RejectedCells[y] \notin cells)
           => Tally(q, RejectedCells)' = Tally(q, RejectedCells)
  BY <1>3, <1>4, TallyStep, CallSums
<1>6. \A y \in Rejections : RejectedCells[y] \in cells <=> y = reason
  BY <1>3 DEF RejectedCells
<1>7. ASSUME NEW segment \in {"local", "cumulative"}
      PROVE  Intervals(q, segment)' = Intervals(q, segment)
  <2>1. \A y \in {segment} \X Stages \X Buckets : IntervalCells(segment)[y] \notin cells
    BY <1>2 DEF IntervalCells
  <2>2. Tally(q, IntervalCells(segment))' = Tally(q, IntervalCells(segment))
    BY <1>3, <1>4, <2>1, TallyStep, CallSums
  <2>3. QED
    BY <2>2, CallSums
<1>8. QED
  BY <1>5, <1>6, <1>7, CallSums

LEMMA AcceptedAccounts ==
    ASSUME Types, NEW r \in Recorders, NEW cells \in SUBSET Cells, Increment(r, cells),
           NEW s \in Stages, NEW lb \in Buckets, NEW cb \in Buckets,
           \A t, b : <<"local", t, b>> \in cells <=> t = s /\ b = lb,
           \A t, b : <<"cumulative", t, b>> \in cells <=> t = s /\ b = cb,
           \A d \in Rejections : <<"diagnostics", d>> \notin cells,
           NEW q \in Recorders
    PROVE  /\ Rejected(q)' = Rejected(q)
           /\ \A segment \in {"local", "cumulative"} :
                /\ Intervals(q, segment) \in Int
                /\ Intervals(q, segment)' = Intervals(q, segment) + IF q = r THEN 1 ELSE 0
<1>1. Rejected(q)' = Rejected(q)
  <2>1. \A y \in Rejections : RejectedCells[y] \notin cells
    BY DEF RejectedCells
  <2>2. Tally(q, RejectedCells)' = Tally(q, RejectedCells)
    BY <2>1, TallyStep, CallSums
  <2>3. QED
    BY <2>2, CallSums
<1>2. ASSUME NEW segment \in {"local", "cumulative"}
      PROVE  /\ Intervals(q, segment) \in Int
             /\ Intervals(q, segment)' = Intervals(q, segment) + IF q = r THEN 1 ELSE 0
  <2>1. PICK S : S = {segment} \X Stages \X Buckets
    OBVIOUS
  <2>2. PICK x \in S : x = <<segment, s, IF segment = "local" THEN lb ELSE cb>>
    <3>1. PICK b \in Buckets : b = IF segment = "local" THEN lb ELSE cb
      OBVIOUS
    <3>2. <<segment, s, b>> \in S
      BY <2>1
    <3>3. QED
      BY <3>1, <3>2
  <2>3. ASSUME NEW y \in S PROVE IntervalCells(segment)[y] \in cells <=> y = x
    <3>1. PICK t \in Stages, b \in Buckets : y = <<segment, t, b>>
      BY <2>1, <2>3
    <3>2. IntervalCells(segment)[y] = y
      BY <2>1 DEF IntervalCells
    <3>3. CASE segment = "local"
      BY <2>2, <3>1, <3>2, <3>3
    <3>4. CASE segment = "cumulative"
      BY <2>2, <3>1, <3>2, <3>4
    <3>5. QED
      BY <3>3, <3>4
  <2>4. PICK cellOf \in [S -> Cells] : cellOf = IntervalCells(segment)
    BY <2>1, CallSums
  <2>5. IsFiniteSet(S)
    BY <2>1, CallSums
  <2>6. /\ Tally(q, cellOf) \in Int
        /\ q = r => Tally(q, cellOf)' = Tally(q, cellOf) + 1
        /\ q # r => Tally(q, cellOf)' = Tally(q, cellOf)
    BY <2>3, <2>4, <2>5, TallyStep
  <2>7. QED
    BY <2>4, <2>6, CallSums
<1>3. QED
  BY <1>1, <1>2

\* The property, recorder by recorder.
Accounts(r) ==
    /\ Intervals(r, "local") = accepted[r]
    /\ Intervals(r, "cumulative") = accepted[r]
    /\ accepted[r] + Rejected(r) = calls[r]

LEMMA AccountsAreProperty == EveryCallAccounted <=> \A r \in Recorders : Accounts(r)
BY DEF EveryCallAccounted, Accounts, Intervals, Rejected

LEMMA AccountsStep ==
    ASSUME Types, WordInv, [Next]_vars, NEW q \in Recorders, Accounts(q)
    PROVE  Accounts(q)'
<1>1. ASSUME UNCHANGED <<counters, calls, accepted>>
      PROVE  Accounts(q)'
  BY <1>1 DEF Accounts, Intervals, Rejected, Count
<1>2. ASSUME NEW c \in Contexts, NEW r \in Recorders, NEW id \in StageIds,
             NEW reading \in Readings, NEW outcome \in Outcomes \cup {None},
             MarkRejected(c, r, id, reading, outcome)
      PROVE  Accounts(q)'
  <2>1. /\ Rejected(q) \in Int
        /\ Rejected(q)' = Rejected(q) + IF q = r THEN 1 ELSE 0
        /\ Intervals(q, "local")' = Intervals(q, "local")
        /\ Intervals(q, "cumulative")' = Intervals(q, "cumulative")
    BY <1>2, RejectedAccounts
  <2>2. /\ calls'[q] = calls[q] + IF q = r THEN 1 ELSE 0
        /\ accepted'[q] = accepted[q]
        /\ calls[q] \in Nat /\ accepted[q] \in Nat
    BY <1>2 DEF MarkRejected, Called, Types
  <2>3. QED
    BY <2>1, <2>2 DEF Accounts
<1>3. ASSUME NEW c \in Contexts, NEW r \in Recorders, NEW id \in StageIds,
             NEW reading \in Readings, NEW outcome \in Outcomes \cup {None},
             MarkAccepted(c, r, id, reading, outcome)
      PROVE  Accounts(q)'
  <2>1. PICK context : context = ctx[c]
    OBVIOUS
  <2>2. PICK local : local = LocalNs(context, reading)
    OBVIOUS
  <2>3. ctx[c] # None /\ Rejection(r, ctx[c], id, reading) = None
    BY <1>3 DEF MarkAccepted, Called
  <2>4. /\ RegistryCookie(context) = r
        /\ id.index \in Stages
        /\ Previous(context) \in Marks \cup {None}
        /\ Previous(context) # None => id.index # 0
    BY <2>1, <2>2, <2>3, AcceptedFacts
  <2>5. PICK s \in Stages : s = id.index
    BY <2>4
  <2>6. PICK cells : cells = MarkCells(context, s, reading, outcome)
    OBVIOUS
  <2>7. PICK lb \in Buckets : lb = Bucketize(local)
    BY BucketsAre
  <2>8. PICK cb \in Buckets : cb = CumulativeBucket(context, local)
    BY BucketsAre DEF CumulativeBucket
  <2>9. /\ cells \in SUBSET Cells
        /\ \A t, b : <<"local", t, b>> \in cells <=> t = s /\ b = lb
        /\ \A t, b : <<"cumulative", t, b>> \in cells <=> t = s /\ b = cb
        /\ \A d \in Rejections : <<"diagnostics", d>> \notin cells
    BY <2>2, <2>4, <2>5, <2>6, <2>7, <2>8, MarkCellsAre
  <2>10. Increment(r, cells)
    BY <1>3, <2>1, <2>5, <2>6 DEF MarkAccepted
  <2>11. /\ Rejected(q)' = Rejected(q)
         /\ \A segment \in {"local", "cumulative"} :
              /\ Intervals(q, segment) \in Int
              /\ Intervals(q, segment)' = Intervals(q, segment) + IF q = r THEN 1 ELSE 0
    BY <2>9, <2>10, AcceptedAccounts
  <2>12. /\ calls'[q] = calls[q] + IF q = r THEN 1 ELSE 0
         /\ accepted'[q] = accepted[q] + IF q = r THEN 1 ELSE 0
         /\ calls[q] \in Nat /\ accepted[q] \in Nat
    BY <1>3, <2>1, <2>4 DEF MarkAccepted, Called, Types
  <2>13. Rejected(q) \in Int
    BY <2>9, <2>10, TallyStep, CallSums
  <2>14. QED
    BY <2>11, <2>12, <2>13 DEF Accounts
<1>4. CASE UNCHANGED vars
  BY <1>1, <1>4 DEF vars
<1>5. CASE Next
  BY <1>1, <1>2, <1>3, <1>5 DEF Next, Start, StartManual
<1>6. QED
  BY <1>4, <1>5

LEMMA AccountsInit == Init => \A r \in Recorders : Accounts(r)
<1> SUFFICES ASSUME Init, NEW r \in Recorders PROVE Accounts(r)
  OBVIOUS
<1>1. ASSUME NEW cell PROVE Count(r, cell) = 0
  BY DEF Init, Count, BagIn, BagToSet, EmptyBag, SetToBag
<1>2. ASSUME NEW segment \in {"local", "cumulative"} PROVE Intervals(r, segment) = 0
  <2>1. PICK S : S = {segment} \X Stages \X Buckets
    OBVIOUS
  <2>2. PICK f : f = [cell \in S |-> Count(r, cell)]
    OBVIOUS
  <2>3. DOMAIN f = S /\ (\A x \in S : f[x] = 0) /\ IsFiniteSet(S)
    BY <1>1, <2>1, <2>2, CallSums
  <2>4. SumFunctionOnSet(f, S) = 0
    BY <2>3, SumZero
  <2>5. QED
    BY <2>1, <2>2, <2>3, <2>4 DEF Intervals, SumFunction
<1>3. Rejected(r) = 0
  <2>1. PICK f : f = [d \in Rejections |-> Count(r, <<"diagnostics", d>>)]
    OBVIOUS
  <2>2. DOMAIN f = Rejections /\ (\A x \in Rejections : f[x] = 0) /\ IsFiniteSet(Rejections)
    BY <1>1, <2>1, CallSums
  <2>3. SumFunctionOnSet(f, Rejections) = 0
    BY <2>2, SumZero
  <2>4. QED
    BY <2>1, <2>2, <2>3 DEF Rejected, SumFunction
<1>4. QED
  BY <1>2, <1>3 DEF Init, Accounts

\* For any recorders, contexts and calls: a recording call is one interval in
\* the distributions of its recorder or one rejection in its diagnostics
\* (record_clocked_mark, record_manual_mark), and nothing else is.
THEOREM EveryCallAccountedHolds == Spec => []EveryCallAccounted
<1>1. Init => EveryCallAccounted
  BY AccountsInit, AccountsAreProperty
<1>2. Types /\ WordInv /\ EveryCallAccounted /\ [Next]_vars => EveryCallAccounted'
  <2> SUFFICES ASSUME Types, WordInv, EveryCallAccounted, [Next]_vars
               PROVE  EveryCallAccounted'
    OBVIOUS
  <2>1. \A r \in Recorders : Accounts(r)'
    BY AccountsAreProperty, AccountsStep
  <2>2. QED
    BY <2>1 DEF EveryCallAccounted, Accounts, Intervals, Rejected
<1>3. QED
  BY <1>1, <1>2, TypesInductive, PTL DEF Spec

-----------------------------------------------------------------------------
(* What a step does to one slot.                                           *)

Untouched(d) ==
    ctx'[d] = ctx[d] /\ path'[d] = path[d] /\ started'[d] = started[d]

Begun(d) ==
    /\ ctx'[d].cumulative = 0
    /\ ctx'[d].kind = "clock" => /\ ctx'[d].last = started'[d].ns
                                 /\ started'[d].ns \in 0 .. MaxNs
    /\ RegistryCookie(ctx'[d]) = started'[d].cookie
    /\ StartedFrozen(ctx'[d]) <=> started'[d].frozen
    /\ Previous(ctx'[d]) = None
    /\ path'[d] = <<>>

Marked(d, s, local) ==
    /\ ctx[d] # None
    /\ ctx'[d].kind = ctx[d].kind
    /\ ctx'[d].cumulative = CumulativeNs(ctx[d], local)
    /\ ctx[d].kind = "clock" => /\ ctx'[d].last \in 0 .. MaxNs
                                /\ local = MaxNs \/ local = ctx'[d].last - ctx[d].last
    /\ Previous(ctx'[d]) = [stage |-> s, bucket |-> CumulativeBucket(ctx[d], local)]
    /\ path'[d] = Append(path[d], [stage |-> s, local |-> local])
    /\ started'[d] = started[d]
    /\ RegistryCookie(ctx'[d]) = RegistryCookie(ctx[d])
    /\ StartedFrozen(ctx'[d]) <=> StartedFrozen(ctx[d])

LEMMA BeginSlot ==
    ASSUME Types, NEW c \in Contexts, NEW r \in Recorders, NEW d \in Contexts,
           StartManual(c, r) \/ \E reading \in Readings : Start(c, r, reading)
    PROVE  Untouched(d) \/ Begun(d)
<1>1. CASE d # c
  BY <1>1 DEF Untouched, Start, StartManual, Types
<1>2. ASSUME d = c, NEW reading \in Readings, Start(c, r, reading)
      PROVE  Begun(d)
  <2>1. PICK frozen, new : /\ frozen = (r \in FrozenRecorders)
                           /\ new = NewClocked(r, reading.ns, frozen)
    OBVIOUS
  <2>2. reading.ns \in 0 .. MaxNs
    BY ReadingFacts
  <2>3. new \in ClockContexts /\ new.cumulative = 0 /\ new.last = reading.ns
        /\ Previous(new) = None /\ RegistryCookie(new) = r
        /\ (StartedFrozen(new) <=> frozen)
    BY <2>1, <2>2, NewClockedIs
  <2>4. ctx'[d] = new /\ path'[d] = <<>>
    BY <1>2, <2>1, Zenon DEF Start, Types
  <2>5. /\ started'[d].ns = reading.ns /\ started'[d].cookie = r
        /\ (started'[d].frozen <=> r \in FrozenRecorders)
    BY <1>2 DEF Start, Types
  <2>6. QED
    BY <2>1, <2>2, <2>3, <2>4, <2>5, Zenon DEF Begun
<1>3. ASSUME d = c, StartManual(c, r)
      PROVE  Begun(d)
  <2>1. PICK new : new = NewManual(r, r \in FrozenRecorders)
    OBVIOUS
  <2>2. ctx'[d] = new /\ path'[d] = <<>>
    BY <1>3, <2>1 DEF StartManual, Types
  <2>3. /\ started'[d].cookie = r
        /\ (started'[d].frozen <=> r \in FrozenRecorders)
    BY <1>3 DEF StartManual, Types
  <2>4. /\ new.kind # "clock" /\ new.cumulative = 0 /\ Previous(new) = None
        /\ RegistryCookie(new) = r
    BY <2>1 DEF NewManual, Previous, RegistryCookie
  <2>5. StartedFrozen(new) <=> r \in FrozenRecorders
    BY <2>1 DEF NewManual, StartedFrozen
  <2>6. QED
    BY <2>2, <2>3, <2>4, <2>5, Zenon DEF Begun
<1>4. QED
  BY <1>1, <1>2, <1>3

LEMMA RejectSlot ==
    ASSUME Types, NEW c \in Contexts, NEW r \in Recorders, NEW id, NEW reading,
           NEW outcome \in Outcomes \cup {None},
           MarkRejected(c, r, id, reading, outcome), NEW d \in Contexts, ctx'[d] # None
    PROVE  Untouched(d)
BY DEF Untouched, MarkRejected, Types

LEMMA AcceptSlot ==
    ASSUME Types, WordInv, NEW c \in Contexts, NEW r \in Recorders, NEW id \in StageIds,
           NEW reading \in Readings, NEW outcome \in Outcomes \cup {None},
           MarkAccepted(c, r, id, reading, outcome), NEW d \in Contexts, ctx'[d] # None
    PROVE  Untouched(d) \/ \E s \in Stages, local \in 0 .. MaxNs : Marked(d, s, local)
<1>1. CASE d # c
  BY <1>1 DEF Untouched, MarkAccepted, Types
<1>2. CASE d = c
  <2>1. PICK context : context = ctx[d]
    OBVIOUS
  <2>2. PICK local : local = LocalNs(context, reading)
    OBVIOUS
  <2>3. ctx[d] # None /\ Rejection(r, ctx[d], id, reading) = None
    BY <1>2 DEF MarkAccepted, Called
  <2>4. /\ id.index \in Stages
        /\ local \in 0 .. MaxNs
        /\ reading.ns \in 0 .. MaxNs
        /\ reading.overflowed => local = MaxNs
        /\ context.kind = "clock" /\ ~reading.overflowed => local = reading.ns - context.last
        /\ CumulativeNs(context, local) \in 0 .. MaxNs
    BY <2>1, <2>2, <2>3, AcceptedFacts
  <2>5. PICK s \in Stages : s = id.index
    BY <2>4
  <2>6. outcome = None
    BY <1>2 DEF MarkAccepted, Types
  <2>7. PICK new : new = Advance(context, s, reading)
    OBVIOUS
  <2>8. context \in ClockContexts \cup ManualContexts
    BY <2>1, <2>3, LiveContext
  <2>9. /\ new.kind = context.kind
        /\ new.kind = "clock" => new.last = reading.ns
        /\ new.cumulative = CumulativeNs(context, local)
        /\ Previous(new) = [stage |-> s, bucket |-> CumulativeBucket(context, local)]
        /\ RegistryCookie(new) = RegistryCookie(context)
        /\ (StartedFrozen(new) <=> StartedFrozen(context))
    BY <2>2, <2>4, <2>7, <2>8, AdvanceIs
  <2>10. /\ ctx'[d] = new /\ started'[d] = started[d]
         /\ path'[d] = Append(path[d], [stage |-> s, local |-> local])
    BY <1>2, <2>1, <2>2, <2>5, <2>6, <2>7 DEF MarkAccepted, Types
  <2>11. Marked(d, s, local)
    BY <2>1, <2>3, <2>4, <2>9, <2>10 DEF Marked
  <2>12. QED
    BY <2>4, <2>11
<1>3. QED
  BY <1>1, <1>2

\* A slot that is live after a step is as it was, holds a context that has
\* just begun, or has taken one more mark.
LEMMA SlotStep ==
    ASSUME Types, WordInv, [Next]_vars, NEW d \in Contexts, ctx'[d] # None
    PROVE  \/ Untouched(d)
           \/ Begun(d)
           \/ \E s \in Stages, local \in 0 .. MaxNs : Marked(d, s, local)
<1>1. CASE UNCHANGED vars
  BY <1>1 DEF vars, Untouched
<1>2. CASE Next
  <2>1. PICK c \in Contexts, r \in Recorders :
          \/ \E reading \in Readings : Start(c, r, reading)
          \/ StartManual(c, r)
          \/ \E id \in StageIds, reading \in Readings, outcome \in Outcomes \cup {None} :
                \/ MarkRejected(c, r, id, reading, outcome)
                \/ MarkAccepted(c, r, id, reading, outcome)
    BY <1>2 DEF Next
  <2>2. CASE StartManual(c, r) \/ \E reading \in Readings : Start(c, r, reading)
    BY <2>2, BeginSlot
  <2>3. ASSUME NEW id \in StageIds, NEW reading \in Readings,
               NEW outcome \in Outcomes \cup {None},
               MarkRejected(c, r, id, reading, outcome)
        PROVE  Untouched(d)
    BY <2>3, RejectSlot
  <2>4. ASSUME NEW id \in StageIds, NEW reading \in Readings,
               NEW outcome \in Outcomes \cup {None},
               MarkAccepted(c, r, id, reading, outcome)
        PROVE  Untouched(d) \/ \E s \in Stages, local \in 0 .. MaxNs : Marked(d, s, local)
    BY <2>4, AcceptSlot
  <2>5. QED
    BY <2>1, <2>2, <2>3, <2>4
<1>3. QED
  BY <1>1, <1>2

-----------------------------------------------------------------------------
(* The latencies of a request add up to its elapsed time.                  *)

Telescopes(c) ==
    ctx[c] # None /\ ctx[c].kind = "clock" =>
        \/ ctx[c].cumulative = ctx[c].last - started[c].ns
        \/ ctx[c].cumulative = MaxNs
           /\ \E i \in DOMAIN path[c] : path[c][i].local = MaxNs

LEMMA TelescopesStep ==
    ASSUME Types, WordInv, [Next]_vars, NEW d \in Contexts, Telescopes(d)
    PROVE  Telescopes(d)'
<1> SUFFICES ASSUME ctx'[d] # None, ctx'[d].kind = "clock"
             PROVE  \/ ctx'[d].cumulative = ctx'[d].last - started'[d].ns
                    \/ ctx'[d].cumulative = MaxNs
                       /\ \E i \in DOMAIN path'[d] : path'[d][i].local = MaxNs
  BY DEF Telescopes
<1>1. CASE Untouched(d)
  BY <1>1 DEF Untouched, Telescopes
<1>2. CASE Begun(d)
  BY <1>2 DEF Begun
<1>3. ASSUME NEW s \in Stages, NEW local \in 0 .. MaxNs, Marked(d, s, local)
      PROVE  \/ ctx'[d].cumulative = ctx'[d].last - started'[d].ns
             \/ ctx'[d].cumulative = MaxNs
                /\ \E i \in DOMAIN path'[d] : path'[d][i].local = MaxNs
  <2>1. ctx[d] # None /\ ctx[d].kind = "clock"
    BY <1>3 DEF Marked
  <2>2. PICK before \in ClockContexts : before = ctx[d]
    BY <2>1, LiveContext
  <2>3. PICK last \in 0 .. MaxNs, sum \in 0 .. MaxNs, from \in 0 .. MaxNs :
          last = before.last /\ sum = before.cumulative /\ from = started[d].ns
    <3>1. started[d].ns \in 0 .. MaxNs
      BY DEF Types, Starts
    <3>2. QED
      BY <3>1 DEF ClockContexts
  <2>4. PICK now \in 0 .. MaxNs : now = ctx'[d].last
    BY <1>3, <2>1 DEF Marked
  <2>5. local = MaxNs \/ local = now - last
    BY <1>3, <2>1, <2>2, <2>3, <2>4 DEF Marked
  <2>6. ctx'[d].cumulative = IF sum + local > MaxNs THEN MaxNs ELSE sum + local
    BY <1>3, <2>2, <2>3 DEF Marked, CumulativeNs, Overflows
  <2>7. started'[d].ns = from
    BY <1>3, <2>3 DEF Marked
  <2>8. PICK p \in Seq(Steps) : p = path[d]
    BY DEF Types
  <2>9. path'[d] = Append(p, [stage |-> s, local |-> local])
    BY <1>3, <2>8 DEF Marked
  <2>10. /\ DOMAIN p = 1 .. Len(p) /\ Len(p) \in Nat
         /\ DOMAIN path'[d] = 1 .. Len(p) + 1
         /\ \A i \in DOMAIN p : path'[d][i] = p[i]
         /\ path'[d][Len(p) + 1] = [stage |-> s, local |-> local]
    BY <2>9
  <2>11. CASE local = MaxNs
    <3>1. PICK n \in Nat : n = Len(p) + 1
      BY <2>10
    <3>2. n \in DOMAIN path'[d] /\ path'[d][n].local = MaxNs
      <4>1. path'[d][n] = [stage |-> s, local |-> local]
        BY <2>10, <3>1
      <4>2. DOMAIN path'[d] = 1 .. n
        BY <2>10, <3>1
      <4>3. n \in 1 .. n
        BY <2>10, <3>1
      <4>4. QED
        BY <2>11, <4>1, <4>2, <4>3
    <3>3. ctx'[d].cumulative = MaxNs
      BY <2>3, <2>6, <2>11
    <3>4. QED
      BY <3>2, <3>3
  <2>12. CASE sum = last - from /\ local = now - last
    <3>1. sum + local = now - from /\ now - from =< MaxNs
      BY <2>12
    <3>2. ctx'[d].cumulative = now - from
      BY <2>6, <3>1
    <3>3. QED
      BY <2>4, <2>7, <3>2
  <2>13. CASE sum = MaxNs /\ \E i \in DOMAIN path[d] : path[d][i].local = MaxNs
    <3>1. PICK i \in DOMAIN p : p[i].local = MaxNs
      BY <2>8, <2>13
    <3>2. i \in DOMAIN path'[d] /\ path'[d][i].local = MaxNs
      BY <2>10, <3>1
    <3>3. ctx'[d].cumulative = MaxNs
      BY <2>6, <2>13
    <3>4. QED
      BY <3>2, <3>3
  <2>14. QED
    BY <2>1, <2>2, <2>3, <2>5, <2>11, <2>12, <2>13 DEF Telescopes
<1>4. QED
  BY <1>1, <1>2, <1>3, SlotStep

\* For any contexts and clock readings: the latencies a clocked request has
\* accumulated (record_clocked_mark) add up to the time since its start, unless
\* an interval that did not fit a u64 has saturated them.
THEOREM ElapsedTelescopesHolds == Spec => []ElapsedTelescopes
<1>1. Init => ElapsedTelescopes
  BY DEF Init, ElapsedTelescopes
<1>2. Types /\ WordInv /\ ElapsedTelescopes /\ [Next]_vars => ElapsedTelescopes'
  <2> SUFFICES ASSUME Types, WordInv, ElapsedTelescopes, [Next]_vars
               PROVE  ElapsedTelescopes'
    OBVIOUS
  <2>1. \A d \in Contexts : Telescopes(d)
    BY DEF ElapsedTelescopes, Telescopes
  <2>2. \A d \in Contexts : Telescopes(d)'
    BY <2>1, TelescopesStep
  <2>3. QED
    BY <2>2 DEF ElapsedTelescopes, Telescopes
<1>3. QED
  BY <1>1, <1>2, TypesInductive, PTL DEF Spec

-----------------------------------------------------------------------------
(* A context is a function of its marks.                                   *)

PathSum(p) == SumFunction([i \in DOMAIN p |-> p[i].local])

LEMMA PathSumEmpty == PathSum(<<>>) = 0
<1>1. PICK f : f = [i \in DOMAIN <<>> |-> <<>>[i].local]
  OBVIOUS
<1>2. DOMAIN f = {}
  BY <1>1
<1>3. QED
  BY <1>1, <1>2, SumEmpty DEF PathSum, SumFunction

LEMMA PathSumAppend ==
    ASSUME NEW p \in Seq(Steps), NEW e \in Steps
    PROVE  PathSum(p) \in Nat /\ PathSum(Append(p, e)) = PathSum(p) + e.local
<1>1. PICK n \in Nat : n = Len(p)
  OBVIOUS
<1>2. PICK q : q = Append(p, e)
  OBVIOUS
<1>3. /\ DOMAIN p = 1 .. n /\ DOMAIN q = 1 .. n + 1
      /\ \A i \in 1 .. n : q[i] = p[i] /\ p[i] \in Steps
      /\ q[n + 1] = e
  BY <1>1, <1>2
<1>4. PICK f : f = [i \in DOMAIN p |-> p[i].local]
  OBVIOUS
<1>5. PICK g : g = [i \in DOMAIN q |-> q[i].local]
  OBVIOUS
<1>6. /\ DOMAIN f = 1 .. n /\ DOMAIN g = (1 .. n) \cup {n + 1}
      /\ \A i \in 1 .. n : f[i] \in Nat /\ g[i] = f[i]
      /\ g[n + 1] = e.local /\ e.local \in Nat
  <2>1. DOMAIN f = 1 .. n /\ DOMAIN g = (1 .. n) \cup {n + 1}
    BY <1>3, <1>4, <1>5
  <2>2. \A i \in 1 .. n : f[i] \in Nat /\ g[i] = f[i]
    BY <1>3, <1>4, <1>5 DEF Steps
  <2>3. g[n + 1] = e.local /\ e.local \in Nat
    <3>1. n + 1 \in DOMAIN q
      BY <1>3
    <3>2. QED
      BY <1>3, <1>5, <3>1 DEF Steps
  <2>4. QED
    BY <2>1, <2>2, <2>3
<1>7. IsFiniteSet(1 .. n) /\ n + 1 \notin 1 .. n
  BY FS_Interval
<1>8. SumFunctionOnSet(g, (1 .. n) \cup {n + 1}) = g[n + 1] + SumFunctionOnSet(g, 1 .. n)
  <2>1. PICK S, x : S = 1 .. n /\ x = n + 1
    OBVIOUS
  <2>2. \A y \in S \cup {x} : g[y] \in Int
    BY <1>6, <2>1
  <2>3. SumFunctionOnSet(g, S \cup {x}) = g[x] + SumFunctionOnSet(g, S)
    BY <1>7, <2>1, <2>2, SumAdd
  <2>4. QED
    BY <2>1, <2>3
<1>9. SumFunctionOnSet(f, 1 .. n) = SumFunctionOnSet(g, 1 .. n)
      /\ SumFunctionOnSet(f, 1 .. n) \in Nat
  <2>1. PICK S : S = 1 .. n
    OBVIOUS
  <2>2. IsFiniteSet(S) /\ \A y \in S : f[y] \in Nat /\ f[y] = g[y]
    BY <1>6, <1>7, <2>1
  <2>3. SumFunctionOnSet(f, S) = SumFunctionOnSet(g, S)
    <3>1. \A y \in S : f[y] \in Int /\ f[y] = g[y]
      BY <2>2
    <3>2. QED
      BY <2>2, <3>1, SumEqual
  <2>4. SumFunctionOnSet(f, S) \in Nat
    <3>1. \A y \in S : f[y] \in Nat
      BY <2>2
    <3>2. QED
      BY <2>2, <3>1, SumNat
  <2>5. QED
    BY <2>1, <2>3, <2>4
<1>10. PathSum(p) = SumFunctionOnSet(f, 1 .. n)
  BY <1>4, <1>6 DEF PathSum, SumFunction
<1>11. PathSum(q) = SumFunctionOnSet(g, (1 .. n) \cup {n + 1})
  BY <1>5, <1>6 DEF PathSum, SumFunction
<1>12. QED
  BY <1>2, <1>6, <1>8, <1>9, <1>10, <1>11

FollowsPath(c) ==
    ctx[c] # None =>
        /\ ctx[c].cumulative = Least(PathSum(path[c]), MaxNs)
        /\ Previous(ctx[c]) =
             IF path[c] = <<>> THEN None
             ELSE [stage |-> path[c][Len(path[c])].stage,
                   bucket |-> Bucketize(ctx[c].cumulative)]
        /\ RegistryCookie(ctx[c]) = started[c].cookie
        /\ StartedFrozen(ctx[c]) <=> started[c].frozen

LEMMA FollowsPathStep ==
    ASSUME Types, WordInv, [Next]_vars, NEW d \in Contexts, FollowsPath(d)
    PROVE  FollowsPath(d)'
<1> SUFFICES ASSUME ctx'[d] # None
             PROVE  /\ ctx'[d].cumulative = Least(PathSum(path'[d]), MaxNs)
                    /\ Previous(ctx'[d]) =
                         IF path'[d] = <<>> THEN None
                         ELSE [stage |-> path'[d][Len(path'[d])].stage,
                               bucket |-> Bucketize(ctx'[d].cumulative)]
                    /\ RegistryCookie(ctx'[d]) = started'[d].cookie
                    /\ StartedFrozen(ctx'[d]) <=> started'[d].frozen
  BY DEF FollowsPath, PathSum
<1> DEFINE Goal == /\ ctx'[d].cumulative = Least(PathSum(path'[d]), MaxNs)
                   /\ Previous(ctx'[d]) =
                        IF path'[d] = <<>> THEN None
                        ELSE [stage |-> path'[d][Len(path'[d])].stage,
                              bucket |-> Bucketize(ctx'[d].cumulative)]
                   /\ RegistryCookie(ctx'[d]) = started'[d].cookie
                   /\ StartedFrozen(ctx'[d]) <=> started'[d].frozen
<1>1. CASE Untouched(d)
  BY <1>1 DEF Untouched, FollowsPath
<1>2. CASE Begun(d)
  BY <1>2, PathSumEmpty DEF Begun, Least
<1>3. ASSUME NEW s \in Stages, NEW local \in 0 .. MaxNs, Marked(d, s, local)
      PROVE  Goal
  <2>1. PICK p \in Seq(Steps) : p = path[d]
    BY DEF Types
  <2>2. PICK e \in Steps : e = [stage |-> s, local |-> local]
    BY DEF Steps
  <2>3. PICK total \in Nat : total = PathSum(p)
    BY <2>2, PathSumAppend
  <2>4. PICK sum \in 0 .. MaxNs : sum = ctx[d].cumulative
    BY <1>3, LiveContext DEF Marked
  <2>5. sum = IF total < MaxNs THEN total ELSE MaxNs
    BY <1>3, <2>1, <2>3, <2>4 DEF Marked, FollowsPath, Least
  <2>6. path'[d] = Append(p, e)
    BY <1>3, <2>1, <2>2 DEF Marked
  <2>7. PathSum(path'[d]) = total + local
    BY <2>2, <2>3, <2>6, PathSumAppend
  <2>8. ctx'[d].cumulative = IF sum + local > MaxNs THEN MaxNs ELSE sum + local
    BY <1>3, <2>4 DEF Marked, CumulativeNs, Overflows
  <2>9. ctx'[d].cumulative = Least(PathSum(path'[d]), MaxNs)
    BY <2>5, <2>7, <2>8 DEF Least
  <2>10. path'[d] # <<>> /\ path'[d][Len(path'[d])].stage = s
    BY <2>2, <2>6
  <2>11. CumulativeBucket(ctx[d], local) = Bucketize(ctx'[d].cumulative)
    <3>1. CASE Previous(ctx[d]) = None
      <4>1. p = <<>>
        <5>1. ASSUME p # <<>> PROVE FALSE
          <6>1. p[Len(p)].stage \in Stages
            <7>1. Len(p) \in 1 .. Len(p)
              BY <5>1
            <7>2. p[Len(p)] \in Steps
              BY <7>1
            <7>3. QED
              BY <7>2 DEF Steps
          <6>2. Bucketize(sum) \in Buckets
            BY BucketsAre
          <6>3. None = [stage |-> p[Len(p)].stage, bucket |-> Bucketize(sum)]
            BY <1>3, <2>1, <2>4, <3>1, <5>1 DEF Marked, FollowsPath
          <6>4. QED
            BY <6>1, <6>2, <6>3, NoneAssumption
        <5>2. QED
          BY <5>1
      <4>2. total = 0
        BY <2>3, <4>1, PathSumEmpty
      <4>3. ctx'[d].cumulative = local
        BY <2>5, <2>8, <4>2
      <4>4. QED
        BY <3>1, <4>3 DEF CumulativeBucket
    <3>2. CASE Previous(ctx[d]) # None
      BY <1>3, <3>2 DEF CumulativeBucket, Marked
    <3>3. QED
      BY <3>1, <3>2
  <2>12. Previous(ctx'[d]) = [stage |-> s, bucket |-> Bucketize(ctx'[d].cumulative)]
    BY <1>3, <2>11 DEF Marked
  <2>13. /\ RegistryCookie(ctx'[d]) = started'[d].cookie
         /\ StartedFrozen(ctx'[d]) <=> started'[d].frozen
    BY <1>3 DEF Marked, FollowsPath
  <2>14. QED
    BY <2>9, <2>10, <2>12, <2>13
<1>4. QED
  BY <1>1, <1>2, <1>3, SlotStep

\* For any contexts, calls and latencies: what a context carries to its next
\* mark (Ctx, ManualCtx) is the saturating sum of the latencies it had accepted
\* and the bucket of that sum, with the cookie and the started-frozen bit it
\* began with, through every packing of the word.
THEOREM ContextFollowsPathHolds == Spec => []ContextFollowsPath
<1>1. Init => ContextFollowsPath
  BY DEF Init, ContextFollowsPath
<1>2. Types /\ WordInv /\ ContextFollowsPath /\ [Next]_vars => ContextFollowsPath'
  <2> SUFFICES ASSUME Types, WordInv, ContextFollowsPath, [Next]_vars
               PROVE  ContextFollowsPath'
    OBVIOUS
  <2>1. \A d \in Contexts : FollowsPath(d)
    BY DEF ContextFollowsPath, FollowsPath, PathSum, PathNs
  <2>2. \A d \in Contexts : FollowsPath(d)'
    BY <2>1, FollowsPathStep
  <2>3. QED
    BY <2>2 DEF ContextFollowsPath, FollowsPath, PathSum, PathNs
<1>3. QED
  BY <1>1, <1>2, TypesInductive, PTL DEF Spec

-----------------------------------------------------------------------------
(* Flow through the matrices, first as a property of one recorder's bag.   *)

RowOf(bag, matrix, s, p) ==
    SumFunction([b \in Buckets |-> Copies(<<matrix, s, p, b>>, bag)])
ColumnOf(bag, matrix, s, b) ==
    SumFunction([p \in Buckets |-> Copies(<<matrix, s, p, b>>, bag)])
LeftOf(bag, b) == SumFunction([s \in Stages |-> RowOf(bag, "cause", s, b)])
EnteredOf(bag, b) == SumFunction([s \in Stages |-> Copies(<<"cumulative", s, b>>, bag)])

Matrices(bag, b) ==
    /\ \A s \in Stages \ {0} :
          /\ RowOf(bag, "cause", s, b) = RowOf(bag, "incoming", s, b)
          /\ Copies(<<"local", s, b>>, bag) - ColumnOf(bag, "cause", s, b)
               = Copies(<<"cumulative", s, b>>, bag) - ColumnOf(bag, "incoming", s, b)
          /\ Copies(<<"local", s, b>>, bag) - ColumnOf(bag, "cause", s, b) >= 0
    /\ Copies(<<"local", 0, b>>, bag) = Copies(<<"cumulative", 0, b>>, bag)
    /\ \A p \in Buckets : Copies(<<"cause", 0, p, b>>, bag) = 0

\* The contexts of recorder q whose next mark leaves bucket b.
CarryingOf(contexts, q, b) ==
    {c \in Contexts : /\ contexts[c] # None
                      /\ RegistryCookie(contexts[c]) = q
                      /\ Previous(contexts[c]) # None
                      /\ Previous(contexts[c]).bucket = b}

\* The strengthening: what has left a bucket of cumulative latency, and what
\* may still leave it, has entered it.
Covered(bag, contexts, q, b) ==
    LeftOf(bag, b) + Cardinality(CarryingOf(contexts, q, b)) =< EnteredOf(bag, b)

FlowInv ==
    \A q \in Recorders, b \in Buckets :
        Matrices(counters[q], b) /\ Covered(counters[q], ctx, q, b)

\* After is before with one more of each of the cells.
Adds(before, after, cells) ==
    \A cell \in Cells :
        /\ Copies(cell, before) \in Nat
        /\ Copies(cell, after) = Copies(cell, before) + IF cell \in cells THEN 1 ELSE 0

\* The cells of a mark at stage s with these buckets; when s is no stage, none.
FlowCells(cells, s, previous, lb, cb) ==
    /\ \A t \in Stages, b \in Buckets :
          /\ <<"local", t, b>> \in cells <=> t = s /\ b = lb
          /\ <<"cumulative", t, b>> \in cells <=> t = s /\ b = cb
    /\ \A t \in Stages, p \in Buckets, b \in Buckets :
          /\ <<"cause", t, p, b>> \in cells
               <=> previous # None /\ t = s /\ p = previous.bucket /\ b = lb
          /\ <<"incoming", t, p, b>> \in cells
               <=> previous # None /\ t = s /\ p = previous.bucket /\ b = cb

Moves(before, after, s, previous, lb, cb) ==
    \E cells : Adds(before, after, cells) /\ FlowCells(cells, s, previous, lb, cb)

LEMMA FamilyStep ==
    ASSUME NEW before, NEW after, NEW cells, Adds(before, after, cells),
           NEW S, IsFiniteSet(S), NEW cellOf \in [S -> Cells],
           NEW f, f = [x \in S |-> Copies(cellOf[x], before)],
           NEW g, g = [x \in S |-> Copies(cellOf[x], after)]
    PROVE  /\ SumFunction(f) \in Int
           /\ \A x \in S : (\A y \in S : cellOf[y] \in cells <=> y = x)
                => SumFunction(g) = SumFunction(f) + 1
           /\ (\A y \in S : cellOf[y] \notin cells) => SumFunction(g) = SumFunction(f)
<1>1. ASSUME NEW y \in S
      PROVE  f[y] \in Int /\ g[y] = f[y] + IF cellOf[y] \in cells THEN 1 ELSE 0
  <2>1. PICK cell \in Cells : cell = cellOf[y]
    OBVIOUS
  <2>2. QED
    BY <2>1 DEF Adds
<1>2. DOMAIN f = S /\ DOMAIN g = S
  OBVIOUS
<1>3. ASSUME NEW x \in S, \A y \in S : cellOf[y] \in cells <=> y = x
      PROVE  SumFunction(g) = SumFunction(f) + 1
  <2>1. OneMore(f, g, S, x)
    BY <1>1, <1>3 DEF OneMore
  <2>2. QED
    BY <1>2, <2>1, SumGains
<1>4. ASSUME \A y \in S : cellOf[y] \notin cells
      PROVE  SumFunction(g) = SumFunction(f)
  <2>1. Same(f, g, S)
    BY <1>1, <1>4 DEF Same
  <2>2. QED
    BY <1>2, <2>1, SumStays
<1>5. SumFunction(f) \in Int
  BY <1>1, <1>2, SumStays DEF Same
<1>6. QED
  BY <1>3, <1>4, <1>5

LEMMA RowStep ==
    ASSUME NEW before, NEW after, NEW s, NEW previous \in Marks \cup {None},
           NEW lb \in Buckets, NEW cb \in Buckets, Moves(before, after, s, previous, lb, cb),
           NEW matrix \in {"cause", "incoming"}, NEW t \in Stages,
           matrix = "incoming" => t # 0, NEW p \in Buckets
    PROVE  /\ RowOf(before, matrix, t, p) \in Int
           /\ RowOf(after, matrix, t, p) = RowOf(before, matrix, t, p)
                + IF previous # None /\ t = s /\ p = previous.bucket THEN 1 ELSE 0
<1>1. PICK cells : Adds(before, after, cells) /\ FlowCells(cells, s, previous, lb, cb)
  BY DEF Moves
<1>2. PICK cellOf : cellOf = [b \in Buckets |-> <<matrix, t, p, b>>]
  OBVIOUS
<1>3. cellOf \in [Buckets -> Cells]
  BY <1>2 DEF Cells
<1>4. PICK f : f = [b \in Buckets |-> Copies(cellOf[b], before)]
  OBVIOUS
<1>5. PICK g : g = [b \in Buckets |-> Copies(cellOf[b], after)]
  OBVIOUS
<1>6. f = [b \in Buckets |-> Copies(<<matrix, t, p, b>>, before)]
  BY <1>2, <1>4
<1>7. g = [b \in Buckets |-> Copies(<<matrix, t, p, b>>, after)]
  BY <1>2, <1>5
<1>8. RowOf(before, matrix, t, p) = SumFunction(f) /\ RowOf(after, matrix, t, p) = SumFunction(g)
  BY <1>6, <1>7 DEF RowOf
<1>9. PICK x \in Buckets : x = IF matrix = "cause" THEN lb ELSE cb
  OBVIOUS
<1>10. \A b \in Buckets : cellOf[b] \in cells
          <=> previous # None /\ t = s /\ p = previous.bucket /\ b = x
  BY <1>1, <1>2, <1>9, ZenonT(60) DEF FlowCells
<1>11. IsFiniteSet(Buckets)
  BY BucketsAre
<1>12. /\ SumFunction(f) \in Int
       /\ \A z \in Buckets : (\A y \in Buckets : cellOf[y] \in cells <=> y = z)
            => SumFunction(g) = SumFunction(f) + 1
       /\ (\A y \in Buckets : cellOf[y] \notin cells) => SumFunction(g) = SumFunction(f)
  BY <1>1, <1>3, <1>4, <1>5, <1>11, FamilyStep
<1>13. CASE previous # None /\ t = s /\ p = previous.bucket
  <2>1. \A y \in Buckets : cellOf[y] \in cells <=> y = x
    BY <1>10, <1>13
  <2>2. QED
    BY <1>8, <1>12, <1>13, <2>1
<1>14. CASE ~(previous # None /\ t = s /\ p = previous.bucket)
  <2>1. \A y \in Buckets : cellOf[y] \notin cells
    BY <1>10, <1>14
  <2>2. QED
    BY <1>8, <1>12, <1>14, <2>1
<1>15. QED
  BY <1>13, <1>14

LEMMA ColumnStep ==
    ASSUME NEW before, NEW after, NEW s, NEW previous \in Marks \cup {None},
           NEW lb \in Buckets, NEW cb \in Buckets, Moves(before, after, s, previous, lb, cb),
           NEW matrix \in {"cause", "incoming"}, NEW t \in Stages,
           matrix = "incoming" => t # 0, NEW b \in Buckets
    PROVE  /\ ColumnOf(before, matrix, t, b) \in Int
           /\ ColumnOf(after, matrix, t, b) = ColumnOf(before, matrix, t, b)
                + IF /\ previous # None /\ t = s
                     /\ b = IF matrix = "cause" THEN lb ELSE cb
                  THEN 1 ELSE 0
<1>1. PICK cells : Adds(before, after, cells) /\ FlowCells(cells, s, previous, lb, cb)
  BY DEF Moves
<1>2. PICK cellOf : cellOf = [p \in Buckets |-> <<matrix, t, p, b>>]
  OBVIOUS
<1>3. cellOf \in [Buckets -> Cells]
  BY <1>2 DEF Cells
<1>4. PICK f : f = [p \in Buckets |-> Copies(cellOf[p], before)]
  OBVIOUS
<1>5. PICK g : g = [p \in Buckets |-> Copies(cellOf[p], after)]
  OBVIOUS
<1>6. f = [p \in Buckets |-> Copies(<<matrix, t, p, b>>, before)]
  BY <1>2, <1>4
<1>7. g = [p \in Buckets |-> Copies(<<matrix, t, p, b>>, after)]
  BY <1>2, <1>5
<1>8. ColumnOf(before, matrix, t, b) = SumFunction(f)
      /\ ColumnOf(after, matrix, t, b) = SumFunction(g)
  BY <1>6, <1>7 DEF ColumnOf
<1>9. PICK to \in Buckets : to = IF matrix = "cause" THEN lb ELSE cb
  OBVIOUS
<1>10. \A p \in Buckets : cellOf[p] \in cells
          <=> previous # None /\ t = s /\ p = previous.bucket /\ b = to
  BY <1>1, <1>2, <1>9, ZenonT(60) DEF FlowCells
<1>11. IsFiniteSet(Buckets)
  BY BucketsAre
<1>12. /\ SumFunction(f) \in Int
       /\ \A z \in Buckets : (\A y \in Buckets : cellOf[y] \in cells <=> y = z)
            => SumFunction(g) = SumFunction(f) + 1
       /\ (\A y \in Buckets : cellOf[y] \notin cells) => SumFunction(g) = SumFunction(f)
  BY <1>1, <1>3, <1>4, <1>5, <1>11, FamilyStep
<1>13. CASE previous # None /\ t = s /\ b = to
  <2>1. PICK x \in Buckets : x = previous.bucket
    BY <1>13 DEF Marks
  <2>2. \A y \in Buckets : cellOf[y] \in cells <=> y = x
    BY <1>10, <1>13, <2>1
  <2>3. QED
    BY <1>8, <1>9, <1>12, <1>13, <2>2
<1>14. CASE ~(previous # None /\ t = s /\ b = to)
  <2>1. \A y \in Buckets : cellOf[y] \notin cells
    BY <1>10, <1>14
  <2>2. QED
    BY <1>8, <1>9, <1>12, <1>14, <2>1
<1>15. QED
  BY <1>13, <1>14

LEMMA CopiesStep ==
    ASSUME NEW before, NEW after, NEW s, NEW previous \in Marks \cup {None},
           NEW lb \in Buckets, NEW cb \in Buckets, Moves(before, after, s, previous, lb, cb),
           NEW t \in Stages, NEW b \in Buckets
    PROVE  /\ Copies(<<"local", t, b>>, before) \in Int
           /\ Copies(<<"local", t, b>>, after) = Copies(<<"local", t, b>>, before)
                + IF t = s /\ b = lb THEN 1 ELSE 0
           /\ Copies(<<"cumulative", t, b>>, before) \in Int
           /\ Copies(<<"cumulative", t, b>>, after) = Copies(<<"cumulative", t, b>>, before)
                + IF t = s /\ b = cb THEN 1 ELSE 0
<1>1. PICK cells : Adds(before, after, cells) /\ FlowCells(cells, s, previous, lb, cb)
  BY DEF Moves
<1>2. PICK one \in Cells, two \in Cells :
        one = <<"local", t, b>> /\ two = <<"cumulative", t, b>>
  BY DEF Cells
<1>3. /\ one \in cells <=> t = s /\ b = lb
      /\ two \in cells <=> t = s /\ b = cb
  BY <1>1, <1>2 DEF FlowCells
<1>4. /\ Copies(one, before) \in Int /\ Copies(two, before) \in Int
      /\ Copies(one, after) = Copies(one, before) + IF one \in cells THEN 1 ELSE 0
      /\ Copies(two, after) = Copies(two, before) + IF two \in cells THEN 1 ELSE 0
  BY <1>1 DEF Adds
<1>5. QED
  BY <1>2, <1>3, <1>4

\* A mark keeps the two matrices of every stage in agreement.
LEMMA MatricesStep ==
    ASSUME NEW before, NEW after, NEW s, NEW previous \in Marks \cup {None},
           NEW lb \in Buckets, NEW cb \in Buckets, Moves(before, after, s, previous, lb, cb),
           previous # None => s # 0, previous = None => lb = cb,
           NEW b \in Buckets, Matrices(before, b)
    PROVE  Matrices(after, b)
<1>1. ASSUME NEW t \in Stages \ {0}
      PROVE  /\ RowOf(after, "cause", t, b) = RowOf(after, "incoming", t, b)
             /\ Copies(<<"local", t, b>>, after) - ColumnOf(after, "cause", t, b)
                  = Copies(<<"cumulative", t, b>>, after) - ColumnOf(after, "incoming", t, b)
             /\ Copies(<<"local", t, b>>, after) - ColumnOf(after, "cause", t, b) >= 0
  <2>1. t \in Stages /\ t # 0
    OBVIOUS
  <2>2. RowOf(after, "cause", t, b) = RowOf(after, "incoming", t, b)
    <3>1. RowOf(before, "cause", t, b) = RowOf(before, "incoming", t, b)
      BY DEF Matrices
    <3>2. RowOf(after, "cause", t, b) = RowOf(before, "cause", t, b)
            + IF previous # None /\ t = s /\ b = previous.bucket THEN 1 ELSE 0
      BY <2>1, RowStep
    <3>3. RowOf(after, "incoming", t, b) = RowOf(before, "incoming", t, b)
            + IF previous # None /\ t = s /\ b = previous.bucket THEN 1 ELSE 0
      BY <2>1, RowStep
    <3>4. QED
      BY <3>1, <3>2, <3>3
  <2>3. PICK l \in Int, u \in Int : l = Copies(<<"local", t, b>>, before)
                                    /\ u = Copies(<<"cumulative", t, b>>, before)
    BY CopiesStep
  <2>4. PICK x \in Int, y \in Int : x = ColumnOf(before, "cause", t, b)
                                    /\ y = ColumnOf(before, "incoming", t, b)
    BY <2>1, ColumnStep
  <2>5. l - x = u - y /\ l - x >= 0
    BY <2>3, <2>4 DEF Matrices
  <2>6. /\ Copies(<<"local", t, b>>, after) = l + IF t = s /\ b = lb THEN 1 ELSE 0
        /\ Copies(<<"cumulative", t, b>>, after) = u + IF t = s /\ b = cb THEN 1 ELSE 0
    BY <2>3, CopiesStep
  <2>7. ColumnOf(after, "cause", t, b)
          = x + IF previous # None /\ t = s /\ b = lb THEN 1 ELSE 0
    BY <2>1, <2>4, ColumnStep
  <2>8. ColumnOf(after, "incoming", t, b)
          = y + IF previous # None /\ t = s /\ b = cb THEN 1 ELSE 0
    BY <2>1, <2>4, ColumnStep
  <2>9. /\ Copies(<<"local", t, b>>, after) - ColumnOf(after, "cause", t, b)
             = Copies(<<"cumulative", t, b>>, after) - ColumnOf(after, "incoming", t, b)
        /\ Copies(<<"local", t, b>>, after) - ColumnOf(after, "cause", t, b) >= 0
    <3>1. CASE previous = None
      BY <2>5, <2>6, <2>7, <2>8, <3>1
    <3>2. CASE previous # None
      BY <2>5, <2>6, <2>7, <2>8, <3>2
    <3>3. QED
      BY <3>1, <3>2
  <2>10. QED
    BY <2>2, <2>9
<1>2. Copies(<<"local", 0, b>>, after) = Copies(<<"cumulative", 0, b>>, after)
  <2>1. PICK t \in Stages : t = 0
    BY StagesAre
  <2>2. Copies(<<"local", t, b>>, before) = Copies(<<"cumulative", t, b>>, before)
    BY <2>1 DEF Matrices
  <2>3. /\ Copies(<<"local", t, b>>, after) = Copies(<<"local", t, b>>, before)
             + IF t = s /\ b = lb THEN 1 ELSE 0
        /\ Copies(<<"cumulative", t, b>>, after) = Copies(<<"cumulative", t, b>>, before)
             + IF t = s /\ b = cb THEN 1 ELSE 0
    BY CopiesStep
  <2>4. t = s => lb = cb
    BY <2>1
  <2>5. QED
    BY <2>1, <2>2, <2>3, <2>4
<1>3. ASSUME NEW p \in Buckets
      PROVE  Copies(<<"cause", 0, p, b>>, after) = 0
  <2>1. PICK cells : Adds(before, after, cells) /\ FlowCells(cells, s, previous, lb, cb)
    BY DEF Moves
  <2>2. 0 \in Stages
    BY StagesAre
  <2>3. PICK cell \in Cells : cell = <<"cause", 0, p, b>>
    BY <2>2 DEF Cells
  <2>4. cell \notin cells
    BY <2>1, <2>2, <2>3 DEF FlowCells
  <2>5. Copies(cell, before) = 0
    BY <2>3 DEF Matrices
  <2>6. Copies(cell, after) = Copies(cell, before) + 0
    BY <2>1, <2>4 DEF Adds
  <2>7. QED
    BY <2>3, <2>5, <2>6
<1>4. QED
  BY <1>1, <1>2, <1>3 DEF Matrices

LEMMA LeftStep ==
    ASSUME NEW before, NEW after, NEW s, NEW previous \in Marks \cup {None},
           NEW lb \in Buckets, NEW cb \in Buckets, Moves(before, after, s, previous, lb, cb),
           NEW b \in Buckets
    PROVE  /\ LeftOf(before, b) \in Int
           /\ LeftOf(after, b) = LeftOf(before, b)
                + IF previous # None /\ s \in Stages /\ b = previous.bucket THEN 1 ELSE 0
<1>1. PICK f : f = [t \in Stages |-> RowOf(before, "cause", t, b)]
  OBVIOUS
<1>2. PICK g : g = [t \in Stages |-> RowOf(after, "cause", t, b)]
  OBVIOUS
<1>3. ASSUME NEW t \in Stages
      PROVE  f[t] \in Int
             /\ g[t] = f[t] + IF previous # None /\ t = s /\ b = previous.bucket THEN 1 ELSE 0
  <2>1. f[t] = RowOf(before, "cause", t, b) /\ g[t] = RowOf(after, "cause", t, b)
    BY <1>1, <1>2
  <2>2. PICK matrix \in {"cause", "incoming"} : matrix = "cause"
    OBVIOUS
  <2>3. matrix = "incoming" => t # 0
    BY <2>2
  <2>4. PICK x \in Int : x = RowOf(before, matrix, t, b)
    BY <2>3, RowStep
  <2>5. RowOf(after, matrix, t, b)
          = x + IF previous # None /\ t = s /\ b = previous.bucket THEN 1 ELSE 0
    BY <2>3, <2>4, RowStep
  <2>6. QED
    BY <2>1, <2>2, <2>4, <2>5
<1>4. DOMAIN f = Stages /\ DOMAIN g = Stages /\ IsFiniteSet(Stages)
  BY <1>1, <1>2, StagesAre
<1>5. LeftOf(before, b) = SumFunction(f) /\ LeftOf(after, b) = SumFunction(g)
  BY <1>1, <1>2 DEF LeftOf
<1>6. CASE previous # None /\ s \in Stages /\ b = previous.bucket
  <2>1. PICK x \in Stages : x = s
    BY <1>6
  <2>2. OneMore(f, g, Stages, x)
    BY <1>3, <1>6, <2>1 DEF OneMore
  <2>3. SumFunction(f) \in Int /\ SumFunction(g) = SumFunction(f) + 1
    BY <1>4, <2>2, SumGains
  <2>4. QED
    BY <1>5, <1>6, <2>3
<1>7. CASE ~(previous # None /\ s \in Stages /\ b = previous.bucket)
  <2>1. Same(f, g, Stages)
    BY <1>3, <1>7 DEF Same
  <2>2. SumFunction(f) \in Int /\ SumFunction(g) = SumFunction(f)
    BY <1>4, <2>1, SumStays
  <2>3. QED
    BY <1>5, <1>7, <2>2
<1>8. QED
  BY <1>6, <1>7

LEMMA EnteredStep ==
    ASSUME NEW before, NEW after, NEW s, NEW previous \in Marks \cup {None},
           NEW lb \in Buckets, NEW cb \in Buckets, Moves(before, after, s, previous, lb, cb),
           NEW b \in Buckets
    PROVE  /\ EnteredOf(before, b) \in Int
           /\ EnteredOf(after, b) = EnteredOf(before, b)
                + IF s \in Stages /\ b = cb THEN 1 ELSE 0
<1>1. PICK f : f = [t \in Stages |-> Copies(<<"cumulative", t, b>>, before)]
  OBVIOUS
<1>2. PICK g : g = [t \in Stages |-> Copies(<<"cumulative", t, b>>, after)]
  OBVIOUS
<1>3. ASSUME NEW t \in Stages
      PROVE  f[t] \in Int /\ g[t] = f[t] + IF t = s /\ b = cb THEN 1 ELSE 0
  <2>1. /\ f[t] = Copies(<<"cumulative", t, b>>, before)
        /\ g[t] = Copies(<<"cumulative", t, b>>, after)
    BY <1>1, <1>2
  <2>2. PICK l \in Int, u \in Int : l = Copies(<<"local", t, b>>, before)
                                    /\ u = Copies(<<"cumulative", t, b>>, before)
    BY CopiesStep
  <2>3. /\ Copies(<<"local", t, b>>, after) = l + IF t = s /\ b = lb THEN 1 ELSE 0
        /\ Copies(<<"cumulative", t, b>>, after) = u + IF t = s /\ b = cb THEN 1 ELSE 0
    BY <2>2, CopiesStep
  <2>4. QED
    BY <2>1, <2>2, <2>3
<1>4. DOMAIN f = Stages /\ DOMAIN g = Stages /\ IsFiniteSet(Stages)
  BY <1>1, <1>2, StagesAre
<1>5. EnteredOf(before, b) = SumFunction(f) /\ EnteredOf(after, b) = SumFunction(g)
  BY <1>1, <1>2 DEF EnteredOf
<1>6. CASE s \in Stages /\ b = cb
  <2>1. PICK x \in Stages : x = s
    BY <1>6
  <2>2. OneMore(f, g, Stages, x)
    BY <1>3, <1>6, <2>1 DEF OneMore
  <2>3. SumFunction(f) \in Int /\ SumFunction(g) = SumFunction(f) + 1
    BY <1>4, <2>2, SumGains
  <2>4. QED
    BY <1>5, <1>6, <2>3
<1>7. CASE ~(s \in Stages /\ b = cb)
  <2>1. Same(f, g, Stages)
    BY <1>3, <1>7 DEF Same
  <2>2. SumFunction(f) \in Int /\ SumFunction(g) = SumFunction(f)
    BY <1>4, <2>1, SumStays
  <2>3. QED
    BY <1>5, <1>7, <2>2
<1>8. QED
  BY <1>6, <1>7

\* What one element more or less does to a count.
LEMMA CountChange ==
    ASSUME NEW A, IsFiniteSet(A), NEW B, NEW c, B \ {c} \subseteq A \ {c}
    PROVE  /\ Cardinality(A) \in Nat /\ Cardinality(B) \in Nat
           /\ Cardinality(B) + (IF c \in A THEN 1 ELSE 0)
                =< Cardinality(A) + (IF c \in B THEN 1 ELSE 0)
<1> PICK C : C = A \ {c}
  OBVIOUS
<1> PICK D : D = B \ {c}
  OBVIOUS
<1>1. IsFiniteSet(C) /\ IsFiniteSet(D) /\ Cardinality(D) =< Cardinality(C)
  <2>1. IsFiniteSet(C)
    BY FS_Subset, C \subseteq A
  <2>2. QED
    BY <2>1, FS_Subset
<1>2. PICK m \in Nat, n \in Nat : m = Cardinality(C) /\ n = Cardinality(D)
  BY <1>1, FS_CardinalityType
<1>3. m + (IF c \in A THEN 1 ELSE 0) = Cardinality(A)
  <2>1. CASE c \in A
    <3>1. C \cup {c} = A /\ c \notin C
      BY <2>1
    <3>2. Cardinality(A) = m + 1
      BY <1>1, <1>2, <3>1, FS_AddElement
    <3>3. QED
      BY <2>1, <3>2
  <2>2. CASE c \notin A
    <3>1. C = A
      BY <2>2
    <3>2. Cardinality(A) = m
      BY <1>2, <3>1
    <3>3. QED
      BY <2>2, <3>2
  <2>3. QED
    BY <2>1, <2>2
<1>4. n + (IF c \in B THEN 1 ELSE 0) = Cardinality(B)
  <2>1. CASE c \in B
    <3>1. D \cup {c} = B /\ c \notin D
      BY <2>1
    <3>2. Cardinality(B) = n + 1
      BY <1>1, <1>2, <3>1, FS_AddElement
    <3>3. QED
      BY <2>1, <3>2
  <2>2. CASE c \notin B
    <3>1. D = B
      BY <2>2
    <3>2. Cardinality(B) = n
      BY <1>2, <3>1
    <3>3. QED
      BY <2>2, <3>2
  <2>3. QED
    BY <2>1, <2>2
<1>5. n =< m
  BY <1>1, <1>2
<1>6. QED
  BY <1>2, <1>3, <1>4, <1>5

\* A mark at slot c leaves one bucket and enters another.
LEMMA CoveredMark ==
    ASSUME NEW before, NEW after, NEW s \in Stages, NEW previous \in Marks \cup {None},
           NEW lb \in Buckets, NEW cb \in Buckets, Moves(before, after, s, previous, lb, cb),
           NEW was, NEW now, NEW q, NEW b \in Buckets, NEW c \in Contexts,
           Covered(before, was, q, b),
           c \in CarryingOf(was, q, b) <=> previous # None /\ b = previous.bucket,
           c \in CarryingOf(now, q, b) => b = cb,
           CarryingOf(now, q, b) \ {c} \subseteq CarryingOf(was, q, b) \ {c}
    PROVE  Covered(after, now, q, b)
<1>1. PICK A : A = CarryingOf(was, q, b)
  OBVIOUS
<1>2. PICK B : B = CarryingOf(now, q, b)
  OBVIOUS
<1>3. IsFiniteSet(A)
  BY <1>1, FS_Subset DEF CarryingOf
<1>4. /\ Cardinality(A) \in Nat /\ Cardinality(B) \in Nat
      /\ Cardinality(B) + (IF c \in A THEN 1 ELSE 0)
           =< Cardinality(A) + (IF c \in B THEN 1 ELSE 0)
  BY <1>1, <1>2, <1>3, CountChange
<1>5. PICK gone \in Int, come \in Int :
        gone = LeftOf(before, b) /\ come = EnteredOf(before, b)
  BY LeftStep, EnteredStep
<1>6. gone + Cardinality(A) =< come
  BY <1>1, <1>5 DEF Covered
<1>7. LeftOf(after, b) = gone + IF c \in A THEN 1 ELSE 0
  <2>1. LeftOf(after, b) = gone
          + IF previous # None /\ s \in Stages /\ b = previous.bucket THEN 1 ELSE 0
    BY <1>5, LeftStep
  <2>2. QED
    BY <1>1, <2>1
<1>8. EnteredOf(after, b) = come + IF b = cb THEN 1 ELSE 0
  <2>1. EnteredOf(after, b) = come + IF s \in Stages /\ b = cb THEN 1 ELSE 0
    BY <1>5, EnteredStep
  <2>2. QED
    BY <2>1
<1>9. LeftOf(after, b) + Cardinality(B) =< EnteredOf(after, b)
  BY <1>2, <1>4, <1>6, <1>7, <1>8
<1>10. QED
  BY <1>2, <1>9 DEF Covered

LEMMA CoveredQuiet ==
    ASSUME NEW before, NEW after, NEW s, s \notin Stages,
           NEW lb \in Buckets, NEW cb \in Buckets, Moves(before, after, s, None, lb, cb),
           NEW was, NEW now, NEW q, NEW b \in Buckets, Covered(before, was, q, b),
           CarryingOf(now, q, b) \subseteq CarryingOf(was, q, b)
    PROVE  Covered(after, now, q, b)
<1>1. PICK A : A = CarryingOf(was, q, b)
  OBVIOUS
<1>2. PICK B : B = CarryingOf(now, q, b)
  OBVIOUS
<1>3. IsFiniteSet(A)
  BY <1>1, FS_Subset DEF CarryingOf
<1>4. Cardinality(A) \in Nat /\ Cardinality(B) \in Nat /\ Cardinality(B) =< Cardinality(A)
  <2>1. IsFiniteSet(B) /\ Cardinality(B) =< Cardinality(A)
    BY <1>1, <1>2, <1>3, FS_Subset
  <2>2. QED
    BY <1>3, <2>1, FS_CardinalityType
<1>5. PICK gone \in Int, come \in Int :
        gone = LeftOf(before, b) /\ come = EnteredOf(before, b)
  BY LeftStep, EnteredStep
<1>6. gone + Cardinality(A) =< come
  BY <1>1, <1>5 DEF Covered
<1>7. LeftOf(after, b) = gone /\ EnteredOf(after, b) = come
  BY <1>5, LeftStep, EnteredStep
<1>8. LeftOf(after, b) + Cardinality(B) =< EnteredOf(after, b)
  BY <1>4, <1>6, <1>7
<1>9. QED
  BY <1>2, <1>8 DEF Covered

\* The invariant, for one recorder and one bucket.
FlowAt(bag, contexts, q, b) == Matrices(bag, b) /\ Covered(bag, contexts, q, b)

LEMMA IncrementAdds ==
    ASSUME Types, NEW r \in Recorders, NEW cells \in SUBSET Cells, Increment(r, cells),
           NEW q \in Recorders
    PROVE  Adds(counters[q], counters'[q], IF q = r THEN cells ELSE {})
<1>1. counters \in [Recorders -> Tallies]
  BY DEF Types
<1>2. ASSUME NEW cell \in Cells
      PROVE  /\ Copies(cell, counters[q]) \in Nat
             /\ Copies(cell, counters'[q]) = Copies(cell, counters[q])
                  + IF cell \in (IF q = r THEN cells ELSE {}) THEN 1 ELSE 0
  <2>1. /\ Count(q, cell) \in Nat
        /\ Copies(cell, counters'[q])
             = Count(q, cell) + IF q = r /\ cell \in cells THEN 1 ELSE 0
    BY <1>1, IncrementIs
  <2>2. Count(q, cell) = Copies(cell, counters[q])
    BY DEF Count, Copies
  <2>3. QED
    BY <2>1, <2>2
<1>3. QED
  BY <1>2 DEF Adds

LEMMA SameAdds ==
    ASSUME Types, NEW q \in Recorders
    PROVE  Adds(counters[q], counters[q], {})
<1>1. ASSUME NEW cell \in Cells PROVE Copies(cell, counters[q]) \in Nat
  BY CountType DEF Count, Copies
<1>2. QED
  BY <1>1 DEF Adds

\* A call that neither marks recorder q nor gives it a context.
LEMMA QuietStep ==
    ASSUME NEW before, NEW after, NEW cells, Adds(before, after, cells),
           \A t, b : <<"local", t, b>> \notin cells /\ <<"cumulative", t, b>> \notin cells,
           \A t, p, b : /\ <<"cause", t, p, b>> \notin cells
                        /\ <<"incoming", t, p, b>> \notin cells,
           NEW was, NEW now, NEW q, NEW b \in Buckets, FlowAt(before, was, q, b),
           CarryingOf(now, q, b) \subseteq CarryingOf(was, q, b)
    PROVE  FlowAt(after, now, q, b)
<1>1. PICK s : s = NumStages
  OBVIOUS
<1>2. s \notin Stages /\ s # 0
  BY <1>1, StagesAssumption DEF Stages
<1>3. FlowCells(cells, s, None, b, b)
  BY <1>2 DEF FlowCells
<1>4. Moves(before, after, s, None, b, b)
  BY <1>3 DEF Moves
<1>5. Matrices(after, b)
  BY <1>2, <1>4, MatricesStep DEF FlowAt
<1>6. Covered(after, now, q, b)
  BY <1>2, <1>4, CoveredQuiet DEF FlowAt
<1>7. QED
  BY <1>5, <1>6 DEF FlowAt

LEMMA StartFlow ==
    ASSUME Types, WordInv, NEW c \in Contexts, NEW r \in Recorders,
           StartManual(c, r) \/ \E reading \in Readings : Start(c, r, reading),
           NEW q \in Recorders, NEW b \in Buckets, FlowAt(counters[q], ctx, q, b)
    PROVE  FlowAt(counters'[q], ctx', q, b)
<1>1. counters' = counters
  BY DEF Start, StartManual
<1>2. CarryingOf(ctx', q, b) \subseteq CarryingOf(ctx, q, b)
  <2>1. ASSUME NEW d \in CarryingOf(ctx', q, b)
        PROVE  d \in CarryingOf(ctx, q, b)
    <3>1. d \in Contexts /\ Previous(ctx'[d]) # None
      BY DEF CarryingOf
    <3>2. ctx'[d] = ctx[d]
      BY <3>1, BeginSlot DEF Untouched, Begun
    <3>3. QED
      BY <3>2 DEF CarryingOf
  <2>2. QED
    BY <2>1
<1>3. Adds(counters[q], counters'[q], {})
  BY <1>1, SameAdds
<1>4. QED
  BY <1>2, <1>3, QuietStep

LEMMA RejectFlow ==
    ASSUME Types, WordInv, NEW c \in Contexts, NEW r \in Recorders, NEW id \in StageIds,
           NEW reading \in Readings, NEW outcome \in Outcomes \cup {None},
           MarkRejected(c, r, id, reading, outcome),
           NEW q \in Recorders, NEW b \in Buckets, FlowAt(counters[q], ctx, q, b)
    PROVE  FlowAt(counters'[q], ctx', q, b)
<1>1. PICK reason \in Rejections : reason = Rejection(r, ctx[c], id, reading)
  BY RejectionType DEF MarkRejected
<1>2. PICK cells : cells = {<<"diagnostics", reason>>}
  OBVIOUS
<1>3. /\ cells \in SUBSET Cells
      /\ \A t, k : <<"local", t, k>> \notin cells /\ <<"cumulative", t, k>> \notin cells
      /\ \A t, p, k : <<"cause", t, p, k>> \notin cells /\ <<"incoming", t, p, k>> \notin cells
  BY <1>2, RejectedCellsAre
<1>4. Increment(r, cells)
  BY <1>1, <1>2 DEF MarkRejected
<1>5. PICK some : some = IF q = r THEN cells ELSE {}
  OBVIOUS
<1>6. Adds(counters[q], counters'[q], some)
  BY <1>3, <1>4, <1>5, IncrementAdds
<1>7. /\ \A t, k : <<"local", t, k>> \notin some /\ <<"cumulative", t, k>> \notin some
      /\ \A t, p, k : <<"cause", t, p, k>> \notin some /\ <<"incoming", t, p, k>> \notin some
  BY <1>3, <1>5
<1>8. CarryingOf(ctx', q, b) \subseteq CarryingOf(ctx, q, b)
  <2>1. ASSUME NEW d \in CarryingOf(ctx', q, b)
        PROVE  d \in CarryingOf(ctx, q, b)
    <3>1. d \in Contexts /\ ctx'[d] # None
      BY DEF CarryingOf
    <3>2. ctx'[d] = ctx[d]
      BY <3>1, RejectSlot DEF Untouched
    <3>3. QED
      BY <3>2 DEF CarryingOf
  <2>2. QED
    BY <2>1
<1>9. QED
  BY <1>6, <1>7, <1>8, QuietStep

LEMMA AcceptFlow ==
    ASSUME Types, WordInv, NEW c \in Contexts, NEW r \in Recorders, NEW id \in StageIds,
           NEW reading \in Readings, NEW outcome \in Outcomes \cup {None},
           MarkAccepted(c, r, id, reading, outcome),
           NEW q \in Recorders, NEW b \in Buckets, FlowAt(counters[q], ctx, q, b)
    PROVE  FlowAt(counters'[q], ctx', q, b)
<1>1. PICK context : context = ctx[c]
  OBVIOUS
<1>2. PICK local : local = LocalNs(context, reading)
  OBVIOUS
<1>3. ctx[c] # None /\ Rejection(r, ctx[c], id, reading) = None
  BY DEF MarkAccepted, Called
<1>4. /\ RegistryCookie(context) = r
      /\ id.index \in Stages
      /\ Previous(context) \in Marks \cup {None}
      /\ Previous(context) # None => id.index # 0
      /\ CumulativeNs(context, local) \in 0 .. MaxNs
  BY <1>1, <1>2, <1>3, AcceptedFacts
<1>5. PICK s \in Stages : s = id.index
  BY <1>4
<1>6. PICK previous \in Marks \cup {None} : previous = Previous(context)
  BY <1>4
<1>7. PICK lb \in Buckets : lb = Bucketize(local)
  BY BucketsAre
<1>8. PICK cb \in Buckets : cb = CumulativeBucket(context, local)
  BY BucketsAre DEF CumulativeBucket
<1>9. (previous # None => s # 0) /\ (previous = None => lb = cb)
  BY <1>4, <1>5, <1>6, <1>7, <1>8 DEF CumulativeBucket
<1>10. PICK cells : cells = MarkCells(context, s, reading, outcome)
  OBVIOUS
<1>11. /\ cells \in SUBSET Cells
       /\ \A t, k : <<"local", t, k>> \in cells <=> t = s /\ k = lb
       /\ \A t, k : <<"cumulative", t, k>> \in cells <=> t = s /\ k = cb
       /\ \A t, p, k : <<"cause", t, p, k>> \in cells
                         <=> previous # None /\ t = s /\ p = previous.bucket /\ k = lb
       /\ \A t, p, k : <<"incoming", t, p, k>> \in cells
                         <=> previous # None /\ t = s /\ p = previous.bucket /\ k = cb
  BY <1>2, <1>6, <1>7, <1>8, <1>9, <1>10, MarkCellsAre
<1>12. Increment(r, cells)
  BY <1>1, <1>5, <1>10 DEF MarkAccepted
<1>13. \A d \in Contexts : d # c => ctx'[d] = ctx[d]
  BY DEF MarkAccepted, Types
<1>14. ctx'[c] # None => /\ RegistryCookie(ctx'[c]) = r
                         /\ Previous(ctx'[c]).bucket = cb
  <2> SUFFICES ASSUME ctx'[c] # None
               PROVE  RegistryCookie(ctx'[c]) = r /\ Previous(ctx'[c]).bucket = cb
    OBVIOUS
  <2>1. PICK new : new = Advance(context, s, reading)
    OBVIOUS
  <2>2. ctx'[c] = new
    BY <1>1, <1>5, <2>1 DEF MarkAccepted, Types
  <2>3. context \in ClockContexts \cup ManualContexts
    BY <1>1, <1>3, LiveContext
  <2>4. /\ RegistryCookie(new) = RegistryCookie(context)
        /\ Previous(new) = [stage |-> s, bucket |-> CumulativeBucket(context, local)]
    BY <1>2, <1>4, <2>1, <2>3, AdvanceIs
  <2>5. QED
    BY <1>4, <1>8, <2>2, <2>4
<1>15. CarryingOf(ctx', q, b) \ {c} \subseteq CarryingOf(ctx, q, b) \ {c}
  BY <1>13 DEF CarryingOf
<1>16. CASE q # r
  <2>1. Adds(counters[q], counters'[q], {})
    BY <1>11, <1>12, <1>16, IncrementAdds
  <2>2. c \notin CarryingOf(ctx', q, b)
    BY <1>14, <1>16 DEF CarryingOf
  <2>3. CarryingOf(ctx', q, b) \subseteq CarryingOf(ctx, q, b)
    BY <1>15, <2>2
  <2>4. QED
    BY <2>1, <2>3, QuietStep
<1>17. CASE q = r
  <2>1. PICK before, after : before = counters[q] /\ after = counters'[q]
    OBVIOUS
  <2>2. Adds(before, after, cells)
    BY <1>11, <1>12, <1>17, <2>1, IncrementAdds
  <2>3. FlowCells(cells, s, previous, lb, cb)
    BY <1>11 DEF FlowCells
  <2>4. Moves(before, after, s, previous, lb, cb)
    BY <2>2, <2>3 DEF Moves
  <2>5. Matrices(after, b)
    BY <1>9, <2>1, <2>4, MatricesStep DEF FlowAt
  <2>6. Covered(after, ctx', q, b)
    <3>1. c \in CarryingOf(ctx, q, b) <=> previous # None /\ b = previous.bucket
      BY <1>1, <1>3, <1>4, <1>6, <1>17 DEF CarryingOf
    <3>2. c \in CarryingOf(ctx', q, b) => b = cb
      BY <1>14 DEF CarryingOf
    <3>3. PICK was, now : was = ctx /\ now = ctx'
      OBVIOUS
    <3>4. Covered(before, was, q, b)
      BY <2>1, <3>3 DEF FlowAt
    <3>5. Covered(after, now, q, b)
      BY <1>15, <2>4, <3>1, <3>2, <3>3, <3>4, CoveredMark
    <3>6. QED
      BY <3>3, <3>5
  <2>7. QED
    BY <2>1, <2>5, <2>6 DEF FlowAt
<1>18. QED
  BY <1>16, <1>17

LEMMA FlowStep ==
    ASSUME Types, WordInv, [Next]_vars,
           NEW q \in Recorders, NEW b \in Buckets, FlowAt(counters[q], ctx, q, b)
    PROVE  FlowAt(counters'[q], ctx', q, b)
<1>1. CASE UNCHANGED vars
  BY <1>1 DEF vars
<1>2. CASE Next
  <2>1. PICK c \in Contexts, r \in Recorders :
          \/ \E reading \in Readings : Start(c, r, reading)
          \/ StartManual(c, r)
          \/ \E id \in StageIds, reading \in Readings, outcome \in Outcomes \cup {None} :
                \/ MarkRejected(c, r, id, reading, outcome)
                \/ MarkAccepted(c, r, id, reading, outcome)
    BY <1>2 DEF Next
  <2>2. CASE StartManual(c, r) \/ \E reading \in Readings : Start(c, r, reading)
    BY <2>2, StartFlow
  <2>3. ASSUME NEW id \in StageIds, NEW reading \in Readings,
               NEW outcome \in Outcomes \cup {None},
               \/ MarkRejected(c, r, id, reading, outcome)
               \/ MarkAccepted(c, r, id, reading, outcome)
        PROVE  FlowAt(counters'[q], ctx', q, b)
    BY <2>3, RejectFlow, AcceptFlow
  <2>4. QED
    BY <2>1, <2>2, <2>3
<1>3. QED
  BY <1>1, <1>2

LEMMA SumOfNothing ==
    ASSUME NEW S, IsFiniteSet(S), NEW f, DOMAIN f = S, \A x \in S : f[x] = 0
    PROVE  SumFunction(f) = 0
BY SumZero DEF SumFunction

LEMMA FlowInit ==
    ASSUME Init, NEW q \in Recorders, NEW b \in Buckets
    PROVE  FlowAt(counters[q], ctx, q, b)
<1>1. PICK bag : bag = counters[q]
  OBVIOUS
<1>2. ASSUME NEW cell PROVE Copies(cell, bag) = 0
  BY <1>1 DEF Init, Copies, BagIn, BagToSet, EmptyBag, SetToBag
<1>3. IsFiniteSet(Buckets) /\ IsFiniteSet(Stages)
  BY BucketsAre, StagesAre
<1>4. ASSUME NEW matrix, NEW s, NEW p PROVE RowOf(bag, matrix, s, p) = 0
  <2>1. PICK f : f = [k \in Buckets |-> Copies(<<matrix, s, p, k>>, bag)]
    OBVIOUS
  <2>2. DOMAIN f = Buckets /\ \A x \in Buckets : f[x] = 0
    BY <1>2, <2>1
  <2>3. QED
    BY <1>3, <2>1, <2>2, SumOfNothing DEF RowOf
<1>5. ASSUME NEW matrix, NEW s, NEW k PROVE ColumnOf(bag, matrix, s, k) = 0
  <2>1. PICK f : f = [p \in Buckets |-> Copies(<<matrix, s, p, k>>, bag)]
    OBVIOUS
  <2>2. DOMAIN f = Buckets /\ \A x \in Buckets : f[x] = 0
    BY <1>2, <2>1
  <2>3. QED
    BY <1>3, <2>1, <2>2, SumOfNothing DEF ColumnOf
<1>6. LeftOf(bag, b) = 0
  <2>1. PICK f : f = [s \in Stages |-> RowOf(bag, "cause", s, b)]
    OBVIOUS
  <2>2. DOMAIN f = Stages /\ \A x \in Stages : f[x] = 0
    BY <1>4, <2>1
  <2>3. QED
    BY <1>3, <2>1, <2>2, SumOfNothing DEF LeftOf
<1>7. EnteredOf(bag, b) = 0
  <2>1. PICK f : f = [s \in Stages |-> Copies(<<"cumulative", s, b>>, bag)]
    OBVIOUS
  <2>2. DOMAIN f = Stages /\ \A x \in Stages : f[x] = 0
    BY <1>2, <2>1
  <2>3. QED
    BY <1>3, <2>1, <2>2, SumOfNothing DEF EnteredOf
<1>8. Matrices(bag, b)
  BY <1>2, <1>4, <1>5 DEF Matrices
<1>9. Cardinality(CarryingOf(ctx, q, b)) = 0
  <2>1. CarryingOf(ctx, q, b) = {}
    BY DEF Init, CarryingOf
  <2>2. QED
    BY <2>1, FS_EmptySet
<1>10. Covered(bag, ctx, q, b)
  BY <1>6, <1>7, <1>9 DEF Covered
<1>11. QED
  BY <1>1, <1>8, <1>10 DEF FlowAt

LEMMA FlowIsConserved ==
    ASSUME Types, FlowInv
    PROVE  FlowConserved
<1>1. ASSUME NEW q \in Recorders, NEW b \in Buckets
      PROVE  Matrices(counters[q], b) /\ LeftOf(counters[q], b) =< EnteredOf(counters[q], b)
  <2>1. Matrices(counters[q], b) /\ Covered(counters[q], ctx, q, b)
    BY DEF FlowInv
  <2>2. PICK s : s = NumStages
    OBVIOUS
  <2>3. s \notin Stages
    BY <2>2, StagesAssumption DEF Stages
  <2>4. FlowCells({}, s, None, b, b)
    BY <2>3 DEF FlowCells
  <2>5. PICK bag : bag = counters[q]
    OBVIOUS
  <2>6. Moves(bag, bag, s, None, b, b)
    BY <2>4, <2>5, SameAdds DEF Moves
  <2>7. PICK gone \in Int, come \in Int : gone = LeftOf(bag, b) /\ come = EnteredOf(bag, b)
    BY <2>6, LeftStep, EnteredStep
  <2>8. PICK A : A = CarryingOf(ctx, q, b)
    OBVIOUS
  <2>9. Cardinality(A) \in Nat
    BY <2>8, FS_Subset, FS_CardinalityType DEF CarryingOf
  <2>10. gone + Cardinality(A) =< come
    BY <2>1, <2>5, <2>7, <2>8 DEF Covered
  <2>11. gone =< come
    BY <2>9, <2>10
  <2>12. QED
    BY <2>1, <2>5, <2>7, <2>11
<1>2. ASSUME NEW q \in Recorders, NEW matrix, NEW s, NEW k
      PROVE  /\ Row(q, matrix, s, k) = RowOf(counters[q], matrix, s, k)
             /\ Column(q, matrix, s, k) = ColumnOf(counters[q], matrix, s, k)
  BY DEF Row, Column, RowOf, ColumnOf, Count, Copies
<1>3. ASSUME NEW q \in Recorders, NEW b \in Buckets
      PROVE  /\ SumFunction([s \in Stages |-> Row(q, "cause", s, b)]) = LeftOf(counters[q], b)
             /\ SumFunction([s \in Stages |-> Count(q, <<"cumulative", s, b>>)])
                  = EnteredOf(counters[q], b)
  BY DEF LeftOf, EnteredOf, Row, RowOf, Count, Copies
<1>4. ASSUME NEW q \in Recorders, NEW cell
      PROVE  Count(q, cell) = Copies(cell, counters[q])
  BY DEF Count, Copies
<1>5. ASSUME NEW q \in Recorders, NEW b \in Buckets
      PROVE  /\ \A s \in Stages \ {0} :
                  /\ Row(q, "cause", s, b) = Row(q, "incoming", s, b)
                  /\ Count(q, <<"local", s, b>>) - Column(q, "cause", s, b)
                       = Count(q, <<"cumulative", s, b>>) - Column(q, "incoming", s, b)
                  /\ Count(q, <<"local", s, b>>) - Column(q, "cause", s, b) >= 0
             /\ Count(q, <<"local", 0, b>>) = Count(q, <<"cumulative", 0, b>>)
             /\ \A p \in Buckets : Count(q, <<"cause", 0, p, b>>) = 0
  BY <1>1, <1>2, <1>4 DEF Matrices
<1>6. QED
  BY <1>1, <1>3, <1>5 DEF FlowConserved

\* For any recorders, contexts, stages and bounds: what leaves a bucket of
\* cumulative latency, counted with the contexts that may still leave it
\* (record_valid_mark), never exceeds what has entered it, and the two matrices
\* of a stage agree.
THEOREM FlowInductive == Spec => []FlowInv
<1>1. Init => FlowInv
  BY FlowInit DEF FlowInv, FlowAt
<1>2. Types /\ WordInv /\ FlowInv /\ [Next]_vars => FlowInv'
  <2> SUFFICES ASSUME Types, WordInv, FlowInv, [Next]_vars
               PROVE  FlowInv'
    OBVIOUS
  <2>1. ASSUME NEW q \in Recorders, NEW b \in Buckets
        PROVE  Matrices(counters'[q], b) /\ Covered(counters'[q], ctx', q, b)
    <3>1. FlowAt(counters[q], ctx, q, b)
      BY DEF FlowInv, FlowAt
    <3>2. FlowAt(counters'[q], ctx', q, b)
      BY <3>1, FlowStep
    <3>3. QED
      BY <3>2 DEF FlowAt
  <2>2. QED
    BY <2>1 DEF FlowInv
<1>3. QED
  BY <1>1, <1>2, TypesInductive, PTL DEF Spec

\* For any recorders, contexts, stages and bounds: the flow of requests through
\* the transition matrices of a recorder (record_valid_mark) is conserved,
\* whatever was rejected, dropped or has saturated.
THEOREM FlowConservedHolds == Spec => []FlowConserved
<1>1. Types /\ FlowInv => FlowConserved
  BY FlowIsConserved
<1>2. QED
  BY <1>1, TypesInductive, FlowInductive, PTL
=============================================================================

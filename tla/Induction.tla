------------------------------ MODULE Induction ------------------------------
(***************************************************************************)
(* Facts about numbers that the proofs share: least and greatest elements, *)
(* induction stated with a set instead of a predicate, functions defined   *)
(* by iteration, and sums over finite sets, which the modules write with   *)
(* the folds of the community modules.                                     *)
(***************************************************************************)
EXTENDS Integers, FiniteSetsExt, WellFoundedInduction, FiniteSetTheorems, TLAPS

LessThan == {pair \in Nat \X Nat : pair[1] < pair[2]}

LEMMA LessThanWellFounded == IsWellFoundedOn(LessThan, Nat)
BY NatLessThanWellFounded DEF OpToRel, LessThan

LEMMA LeastExists ==
    ASSUME NEW T \in SUBSET Nat, T # {}
    PROVE  \E x \in T : \A y \in T : x =< y
<1>1. PICK x \in T : \A y \in T : ~(<<y, x>> \in LessThan)
  BY LessThanWellFounded, WFMin
<1>2. \A y \in T : y < x => <<y, x>> \in LessThan
  BY DEF LessThan
<1>3. \A y \in T : ~(y < x)
  BY <1>1, <1>2
<1>4. QED
  BY <1>3

LEMMA GreatestExists ==
    ASSUME NEW T \in SUBSET Nat, T # {}, NEW n \in Nat, \A x \in T : x =< n
    PROVE  \E x \in T : \A y \in T : y =< x
<1> DEFINE U == {u \in Nat : n - u \in T}
<1>1. U # {}
  <2>1. PICK x \in T : TRUE
    OBVIOUS
  <2>2. n - x \in Nat /\ n - (n - x) = x
    OBVIOUS
  <2>3. QED
    BY <2>1, <2>2
<1>2. PICK u \in U : \A v \in U : u =< v
  <2> U \in SUBSET Nat
    OBVIOUS
  <2> HIDE DEF U
  <2> QED
    BY <1>1, LeastExists
<1>3. ASSUME NEW y \in T PROVE y =< n - u
  <2>1. n - y \in Nat /\ n - (n - y) = y
    OBVIOUS
  <2>2. u =< n - y
    BY <1>2, <2>1
  <2>3. QED
    BY <2>2
<1>4. QED
  BY <1>2, <1>3

\* What holds of zero and passes to successors holds of every number.
LEMMA InductionOnNat ==
    ASSUME NEW T, 0 \in T, \A n \in Nat : n \in T => n + 1 \in T
    PROVE  Nat \subseteq T
<1> DEFINE U == Nat \ T
<1> SUFFICES ASSUME U # {} PROVE FALSE
  OBVIOUS
<1>1. PICK x \in U : \A y \in U : x =< y
  <2> U \in SUBSET Nat
    OBVIOUS
  <2> HIDE DEF U
  <2> QED
    BY LeastExists
<1>2. x # 0 /\ x - 1 \in Nat
  BY <1>1
<1>3. x - 1 \in T
  BY <1>1, <1>2
<1>4. QED
  BY <1>1, <1>2, <1>3

-----------------------------------------------------------------------------
(* A function may be defined on the naturals by what it makes of its value *)
(* at the number before.                                                   *)

Iterations(V, base, step, n) ==
    {g \in [0 .. n -> V] : g[0] = base /\ \A k \in 0 .. n - 1 : g[k + 1] = step[g[k]]}

LEMMA IterationsAgree ==
    ASSUME NEW V, NEW base \in V, NEW step \in [V -> V], NEW m \in Nat, NEW n \in Nat,
           NEW g \in Iterations(V, base, step, m), NEW h \in Iterations(V, base, step, n)
    PROVE  \A k \in Nat : k =< m /\ k =< n => g[k] = h[k]
<1> DEFINE T == {k \in Nat : k =< m /\ k =< n => g[k] = h[k]}
<1>1. 0 \in T
  BY DEF Iterations
<1>2. ASSUME NEW k \in Nat, k \in T PROVE k + 1 \in T
  <2> SUFFICES ASSUME k + 1 =< m, k + 1 =< n PROVE g[k + 1] = h[k + 1]
    OBVIOUS
  <2>1. k \in 0 .. m - 1 /\ k \in 0 .. n - 1 /\ g[k] = h[k]
    BY <1>2
  <2>2. g[k + 1] = step[g[k]] /\ h[k + 1] = step[h[k]]
    BY <2>1 DEF Iterations
  <2>3. QED
    BY <2>1, <2>2
<1>3. Nat \subseteq T
  <2> HIDE DEF T
  <2> QED
    BY <1>1, <1>2, InductionOnNat
<1>4. QED
  BY <1>3

LEMMA IterationsExist ==
    ASSUME NEW V, NEW base \in V, NEW step \in [V -> V]
    PROVE  \A n \in Nat : Iterations(V, base, step, n) # {}
<1> DEFINE T == {n \in Nat : Iterations(V, base, step, n) # {}}
<1>1. 0 \in T
  <2>1. PICK g : g = [k \in 0 .. 0 |-> base]
    OBVIOUS
  <2>2. g \in [0 .. 0 -> V] /\ g[0] = base
    BY <2>1
  <2>3. g \in Iterations(V, base, step, 0)
    BY <2>2 DEF Iterations
  <2>4. QED
    BY <2>3
<1>2. ASSUME NEW n \in Nat, n \in T PROVE n + 1 \in T
  <2>1. PICK g : g \in Iterations(V, base, step, n)
    BY <1>2
  <2>2. /\ g \in [0 .. n -> V] /\ g[0] = base
        /\ \A k \in 0 .. n - 1 : g[k + 1] = step[g[k]]
    BY <2>1 DEF Iterations
  <2>3. PICK h : h = [k \in 0 .. n + 1 |-> IF k = n + 1 THEN step[g[n]] ELSE g[k]]
    OBVIOUS
  <2>4. h \in [0 .. n + 1 -> V] /\ h[0] = base
    BY <2>2, <2>3
  <2>5. ASSUME NEW k \in 0 .. (n + 1) - 1 PROVE h[k + 1] = step[h[k]]
    <3>1. CASE k = n
      BY <2>3, <3>1
    <3>2. CASE k # n
      <4>1. k \in 0 .. n - 1 /\ k + 1 \in 0 .. n + 1 /\ k \in 0 .. n + 1
            /\ k + 1 # n + 1 /\ k # n + 1
        BY <3>2
      <4>2. h[k + 1] = g[k + 1] /\ h[k] = g[k]
        BY <2>3, <4>1
      <4>3. QED
        BY <2>2, <4>1, <4>2
    <3>3. QED
      BY <3>1, <3>2
  <2>6. h \in Iterations(V, base, step, n + 1)
    BY <2>4, <2>5 DEF Iterations
  <2>7. QED
    BY <2>6
<1>3. Nat \subseteq T
  <2> HIDE DEF T
  <2> QED
    BY <1>1, <1>2, InductionOnNat
<1>4. QED
  BY <1>3

IsIteration(f, V, base, step) ==
    f \in [Nat -> V] /\ f[0] = base /\ \A k \in Nat : f[k + 1] = step[f[k]]

LEMMA IterateExists ==
    ASSUME NEW V, NEW base, base \in V, NEW step, step \in [V -> V]
    PROVE  \E f : IsIteration(f, V, base, step)
<1> DEFINE some(n) == CHOOSE g : g \in Iterations(V, base, step, n)
<1>1. ASSUME NEW n \in Nat PROVE some(n) \in Iterations(V, base, step, n)
  BY IterationsExist
<1> HIDE DEF some
<1>2. PICK f : f = [n \in Nat |-> some(n)[n]]
  OBVIOUS
<1>3. ASSUME NEW n \in Nat PROVE f[n] = some(n)[n] /\ f[n] \in V
  BY <1>1, <1>2 DEF Iterations
<1>4. f[0] = base
  BY <1>1, <1>3 DEF Iterations
<1>5. ASSUME NEW k \in Nat PROVE f[k + 1] = step[f[k]]
  <2>1. PICK m \in Nat : m = k + 1
    OBVIOUS
  <2>2. PICK g, h : g = some(m) /\ h = some(k)
    OBVIOUS
  <2>3. g \in Iterations(V, base, step, m) /\ h \in Iterations(V, base, step, k)
    BY <1>1, <2>2
  <2>4. g[k] = h[k]
    <3>1. k =< m /\ k =< k
      BY <2>1
    <3>2. QED
      BY <2>3, <3>1, IterationsAgree
  <2>5. g[k + 1] = step[g[k]]
    BY <2>1, <2>3 DEF Iterations
  <2>6. f[k + 1] = g[k + 1] /\ f[k] = h[k]
    BY <1>3, <2>1, <2>2
  <2>7. QED
    BY <2>4, <2>5, <2>6
<1>6. f \in [Nat -> V]
  BY <1>2, <1>3
<1>7. QED
  BY <1>4, <1>5, <1>6 DEF IsIteration

-----------------------------------------------------------------------------
(* Products.                                                               *)

LEMMA ProductNat ==
    ASSUME NEW a \in Nat, NEW b \in Nat
    PROVE  a * b \in Nat
OBVIOUS

LEMMA ProductMonotonic ==
    ASSUME NEW a \in Nat, NEW b \in Nat, NEW w \in Nat, a =< b
    PROVE  a * w =< b * w
<1>1. PICK d \in Nat : b = a + d
  <2>1. b - a \in Nat /\ b = a + (b - a)
    OBVIOUS
  <2>2. QED
    BY <2>1
<1>2. b * w = a * w + d * w
  BY <1>1
<1>3. d * w \in Nat /\ a * w \in Nat
  BY ProductNat
<1>4. QED
  BY <1>2, <1>3

-----------------------------------------------------------------------------
(* Max and Min are elements.                                               *)

LEMMA MaxOf ==
    ASSUME NEW T \in SUBSET Nat, T # {}, NEW n \in Nat, \A x \in T : x =< n
    PROVE  Max(T) \in T /\ \A y \in T : y =< Max(T)
<1>1. \E x \in T : \A y \in T : x >= y
  BY GreatestExists
<1>2. QED
  BY <1>1 DEF Max

LEMMA MaxOfTwo ==
    ASSUME NEW a \in Int, NEW b \in Int
    PROVE  Max({a, b}) = IF a >= b THEN a ELSE b
<1>1. \E x \in {a, b} : \A y \in {a, b} : x >= y
  OBVIOUS
<1>2. Max({a, b}) \in {a, b} /\ \A y \in {a, b} : Max({a, b}) >= y
  BY <1>1 DEF Max
<1>3. QED
  BY <1>2

LEMMA MinOf ==
    ASSUME NEW T \in SUBSET Nat, T # {}
    PROVE  Min(T) \in T /\ \A y \in T : Min(T) =< y
<1>1. \E x \in T : \A y \in T : x =< y
  BY LeastExists
<1>2. QED
  BY <1>1 DEF Min

-----------------------------------------------------------------------------
(* Finite sets.                                                            *)

\* What holds of the empty set and of a set with an element more holds of
\* every subset of a finite set.
LEMMA InductionOnSubsets ==
    ASSUME NEW S, IsFiniteSet(S), NEW P, {} \in P,
           \A T \in SUBSET S : \A x \in S \ T : T \in P => T \cup {x} \in P
    PROVE  S \in P
<1> DEFINE U == {n \in Nat : \A T \in SUBSET S : Cardinality(T) = n => T \in P}
<1>1. ASSUME NEW T \in SUBSET S
      PROVE  IsFiniteSet(T) /\ Cardinality(T) \in Nat
  BY FS_Subset, FS_CardinalityType
<1>2. 0 \in U
  <2>1. ASSUME NEW T \in SUBSET S, Cardinality(T) = 0 PROVE T = {}
    BY <1>1, <2>1, FS_EmptySet
  <2>2. QED
    BY <2>1
<1>3. ASSUME NEW n \in Nat, n \in U PROVE n + 1 \in U
  <2>1. ASSUME NEW T \in SUBSET S, Cardinality(T) = n + 1 PROVE T \in P
    <3>1. T # {}
      <4>1. Cardinality(T) # 0
        BY <2>1
      <4>2. QED
        BY <4>1, FS_EmptySet
    <3>2. PICK x \in T : TRUE
      BY <3>1
    <3>3. T \ {x} \in SUBSET S /\ Cardinality(T \ {x}) = n
      <4>1. Cardinality(T \ {x}) = Cardinality(T) - 1
        BY <1>1, <3>2, FS_RemoveElement
      <4>2. n + 1 - 1 = n
        OBVIOUS
      <4>3. QED
        BY <2>1, <4>1, <4>2
    <3>4. T \ {x} \in P
      BY <1>3, <3>3
    <3>5. (T \ {x}) \cup {x} \in P
      BY <3>2, <3>3, <3>4
    <3>6. (T \ {x}) \cup {x} = T
      BY <3>2
    <3>7. QED
      BY <3>5, <3>6
  <2>2. QED
    BY <2>1
<1> HIDE DEF U
<1>4. Nat \subseteq U
  BY <1>2, <1>3, InductionOnNat
<1>5. Cardinality(S) \in U
  BY <1>1, <1>4
<1>6. QED
  BY <1>5 DEF U

-----------------------------------------------------------------------------
(* Sums over finite sets: SumFunctionOnSet of the module Functions.        *)

\* The recursion behind SumFunctionOnSet.
Chosen(s) == CHOOSE x \in s : TRUE
SumStep(f, g, s) == IF s = {} THEN 0 ELSE f[Chosen(s)] + g[s \ {Chosen(s)}]
SumTable(f, S) == CHOOSE g : g = [s \in SUBSET S |-> SumStep(f, g, s)]

LEMMA SumByFunction ==
    ASSUME NEW f, NEW S
    PROVE  SumFunctionOnSet(f, S) = SumTable(f, S)[S]
BY Zenon DEF SumFunctionOnSet, FoldFunctionOnSet, MapThenFoldSet, SumTable, SumStep, Chosen

\* The recursive function exists: it is built up by the size of its arguments.
LEMMA SumRecursion ==
    ASSUME NEW f, NEW S, IsFiniteSet(S)
    PROVE  \A s \in SUBSET S :
              SumTable(f, S)[s] = SumStep(f, SumTable(f, S), s)
<1> DEFINE Upto(n) == {s \in SUBSET S : Cardinality(s) =< n}
           U == {n \in Nat : \E g : g = [s \in Upto(n) |-> SumStep(f, g, s)]}
<1>1. ASSUME NEW s \in SUBSET S
      PROVE  /\ IsFiniteSet(s) /\ Cardinality(s) \in Nat
             /\ Cardinality(s) =< Cardinality(S)
             /\ s # {} => /\ Chosen(s) \in s
                          /\ Cardinality(s \ {Chosen(s)}) = Cardinality(s) - 1
                          /\ s \ {Chosen(s)} \in SUBSET S
             /\ Cardinality(s) = 0 <=> s = {}
  <2>1. IsFiniteSet(s) /\ Cardinality(s) \in Nat /\ Cardinality(s) =< Cardinality(S)
    BY FS_Subset, FS_CardinalityType
  <2>2. ASSUME s # {} PROVE Chosen(s) \in s
    BY <2>2 DEF Chosen
  <2>3. ASSUME s # {} PROVE Cardinality(s \ {Chosen(s)}) = Cardinality(s) - 1
    BY <2>1, <2>2, <2>3, FS_RemoveElement
  <2>4. QED
    BY <2>1, <2>2, <2>3, FS_EmptySet
<1>2. 0 \in U
  <2> DEFINE g == [s \in Upto(0) |-> 0]
  <2>1. ASSUME NEW s \in Upto(0) PROVE s = {}
    <3>1. s \in SUBSET S /\ Cardinality(s) =< 0
      OBVIOUS
    <3>2. Cardinality(s) = 0
      <4>1. PICK c \in Nat : c = Cardinality(s)
        BY <1>1, <3>1
      <4>2. QED
        BY <3>1, <4>1
    <3>3. QED
      BY <1>1, <3>1, <3>2
  <2>2. \A s \in Upto(0) : SumStep(f, g, s) = 0
    BY <2>1 DEF SumStep
  <2>3. g = [s \in Upto(0) |-> SumStep(f, g, s)]
    BY <2>2
  <2>4. QED
    BY <2>3
<1>3. ASSUME NEW n \in Nat, n \in U PROVE n + 1 \in U
  <2>1. PICK g : g = [s \in Upto(n) |-> SumStep(f, g, s)]
    BY <1>3
  <2> DEFINE h == [s \in Upto(n + 1) |-> SumStep(f, g, s)]
  <2>2. ASSUME NEW s \in Upto(n + 1), s # {}
        PROVE  s \ {Chosen(s)} \in Upto(n)
    BY <1>1, <2>2
  <2>3. ASSUME NEW s \in Upto(n) PROVE s \in Upto(n + 1)
    <3>1. s \in SUBSET S /\ Cardinality(s) =< n
      OBVIOUS
    <3>2. Cardinality(s) =< n + 1
      <4>1. PICK c \in Nat : c = Cardinality(s)
        BY <1>1, <3>1
      <4>2. QED
        BY <3>1, <4>1
    <3>3. QED
      BY <3>1, <3>2
  <2>4. ASSUME NEW s \in Upto(n) PROVE h[s] = g[s]
    <3>1. s \in Upto(n + 1)
      BY <2>3
    <3>2. h[s] = SumStep(f, g, s)
      BY <3>1
    <3>3. g[s] = SumStep(f, g, s)
      BY <2>1
    <3>4. QED
      BY <3>2, <3>3
  <2>5. ASSUME NEW s \in Upto(n + 1) PROVE SumStep(f, g, s) = SumStep(f, h, s)
    <3>1. s # {} => h[s \ {Chosen(s)}] = g[s \ {Chosen(s)}]
      BY <2>2, <2>4
    <3> HIDE DEF h
    <3>2. QED
      BY <3>1 DEF SumStep
  <2>6. h = [s \in Upto(n + 1) |-> SumStep(f, h, s)]
    <3> DEFINE k == [s \in Upto(n + 1) |-> SumStep(f, h, s)]
    <3>1. \A s \in Upto(n + 1) : h[s] = k[s]
      BY <2>5
    <3>2. DOMAIN h = Upto(n + 1) /\ DOMAIN k = Upto(n + 1)
          /\ h = [s \in Upto(n + 1) |-> h[s]] /\ k = [s \in Upto(n + 1) |-> k[s]]
      OBVIOUS
    <3> HIDE DEF h, k
    <3>3. h = k
      BY <3>1, <3>2
    <3>4. QED
      BY <3>3 DEF k
  <2> HIDE DEF h, Upto
  <2>7. \E x : x = [s \in Upto(n + 1) |-> SumStep(f, x, s)]
    BY <2>6
  <2>8. QED
    BY <2>7
<1> HIDE DEF U
<1>4. Cardinality(S) \in U
  <2>1. Nat \subseteq U
    BY <1>2, <1>3, InductionOnNat
  <2>2. QED
    BY <2>1, FS_CardinalityType
<1>5. Upto(Cardinality(S)) = SUBSET S
  BY <1>1
<1>6. \E g : g = [s \in SUBSET S |-> SumStep(f, g, s)]
  BY <1>4, <1>5, Zenon DEF U
<1>7. SumTable(f, S) = [s \in SUBSET S |-> SumStep(f, SumTable(f, S), s)]
  BY <1>6, Zenon DEF SumTable
<1>8. QED
  BY <1>7, Zenon

LEMMA SumEmpty ==
    ASSUME NEW f
    PROVE  SumFunctionOnSet(f, {}) = 0
<1>1. IsFiniteSet({})
  BY FS_EmptySet
<1>2. SumTable(f, {})[{}] = SumStep(f, SumTable(f, {}), {})
  BY <1>1, SumRecursion
<1>3. QED
  BY <1>2, SumByFunction DEF SumStep

\* Subsets of a finite set that are smaller by an element.
LEMMA Smaller ==
    ASSUME NEW S, IsFiniteSet(S), NEW n \in Nat, NEW T \in SUBSET S,
           Cardinality(T) =< n + 1, NEW x \in T
    PROVE  T \ {x} \in SUBSET S /\ Cardinality(T \ {x}) =< n
<1>1. IsFiniteSet(T)
  BY FS_Subset
<1>2. PICK c \in Nat : c = Cardinality(T)
  BY <1>1, FS_CardinalityType
<1>3. Cardinality(T \ {x}) = c - 1
  BY <1>1, <1>2, FS_RemoveElement
<1>4. c - 1 =< n
  BY <1>2
<1>5. QED
  BY <1>3, <1>4

\* The sum over a set does not depend on the set it is a subset of.
LEMMA SumLocal ==
    ASSUME NEW f, NEW S, IsFiniteSet(S), NEW T \in SUBSET S
    PROVE  SumTable(f, S)[T] = SumFunctionOnSet(f, T)
<1> DEFINE Agree(R) == SumTable(f, S)[R] = SumTable(f, R)[R]
           U == {n \in Nat : \A Q \in SUBSET S : \A R \in SUBSET Q :
                    Cardinality(R) =< n =>
                       SumTable(f, Q)[R] = SumTable(f, R)[R]}
<1>1. ASSUME NEW Q \in SUBSET S, NEW R \in SUBSET Q
      PROVE  /\ IsFiniteSet(R) /\ Cardinality(R) \in Nat
             /\ R \in SUBSET S
             /\ SumTable(f, Q)[R] = SumStep(f, SumTable(f, Q), R)
             /\ SumTable(f, R)[R] = SumStep(f, SumTable(f, R), R)
  <2>1. R \in SUBSET S
    OBVIOUS
  <2>2. IsFiniteSet(R) /\ Cardinality(R) \in Nat /\ IsFiniteSet(Q)
    BY <2>1, FS_Subset, FS_CardinalityType
  <2>3. SumTable(f, Q)[R] = SumStep(f, SumTable(f, Q), R)
    BY <2>2, SumRecursion
  <2>4. R \in SUBSET R
    OBVIOUS
  <2>5. SumTable(f, R)[R] = SumStep(f, SumTable(f, R), R)
    BY <2>2, <2>4, SumRecursion
  <2>6. QED
    BY <2>1, <2>2, <2>3, <2>5
<1>2. 0 \in U
  <2>1. ASSUME NEW Q \in SUBSET S, NEW R \in SUBSET Q, Cardinality(R) =< 0
        PROVE  SumTable(f, Q)[R] = SumTable(f, R)[R]
    <3>1. Cardinality(R) = 0
      BY <1>1, <2>1
    <3>2. R = {}
      BY <1>1, <3>1, FS_EmptySet
    <3>3. QED
      BY <1>1, <3>2 DEF SumStep
  <2>2. QED
    BY <2>1
<1>3. ASSUME NEW n \in Nat, n \in U PROVE n + 1 \in U
  <2>1. ASSUME NEW Q \in SUBSET S, NEW R \in SUBSET Q, Cardinality(R) =< n + 1
        PROVE  SumTable(f, Q)[R] = SumTable(f, R)[R]
    <3>1. CASE R = {}
      BY <1>1, <3>1 DEF SumStep
    <3>2. CASE R # {}
      <4>1. PICK c : c = Chosen(R)
        OBVIOUS
      <4>2. c \in R
        BY <3>2, <4>1 DEF Chosen
      <4>3. R \ {c} \in SUBSET S /\ Cardinality(R \ {c}) =< n
        BY <2>1, <4>2, Smaller
      <4>4. PICK less \in SUBSET R : less = R \ {c}
        OBVIOUS
      <4>5. /\ SumTable(f, Q)[less] = SumTable(f, less)[less]
            /\ SumTable(f, R)[less] = SumTable(f, less)[less]
        BY <1>3, <4>3, <4>4
      <4>6. /\ SumTable(f, Q)[R] = f[c] + SumTable(f, Q)[less]
            /\ SumTable(f, R)[R] = f[c] + SumTable(f, R)[less]
        BY <1>1, <3>2, <4>1, <4>4 DEF SumStep
      <4>7. QED
        BY <4>5, <4>6
    <3>3. QED
      BY <3>1, <3>2
  <2>2. QED
    BY <2>1
<1> HIDE DEF U
<1>4. Cardinality(T) \in U
  <2>1. Nat \subseteq U
    BY <1>2, <1>3, InductionOnNat
  <2>2. QED
    BY <1>1, <2>1
<1>5. S \in SUBSET S /\ Cardinality(T) =< Cardinality(T)
  BY <1>1
<1>6. SumTable(f, S)[T] = SumTable(f, T)[T]
  BY <1>4, <1>5 DEF U
<1>7. QED
  BY <1>6, SumByFunction

\* The sum takes any of the elements out.
LEMMA SumRemove ==
    ASSUME NEW f, NEW S, IsFiniteSet(S), \A x \in S : f[x] \in Int
    PROVE  /\ SumFunctionOnSet(f, S) \in Int
           /\ \A x \in S : SumFunctionOnSet(f, S) = f[x] + SumFunctionOnSet(f, S \ {x})
<1> DEFINE Fine(T) == /\ SumFunctionOnSet(f, T) \in Int
                      /\ \A x \in T : SumFunctionOnSet(f, T) = f[x] + SumFunctionOnSet(f, T \ {x})
           U == {n \in Nat : \A T \in SUBSET S : Cardinality(T) =< n => Fine(T)}
<1>1. ASSUME NEW T \in SUBSET S
      PROVE  IsFiniteSet(T) /\ Cardinality(T) \in Nat
  BY FS_Subset, FS_CardinalityType
<1>2. ASSUME NEW T \in SUBSET S, T # {}
      PROVE  /\ Chosen(T) \in T
             /\ SumFunctionOnSet(f, T) = f[Chosen(T)] + SumFunctionOnSet(f, T \ {Chosen(T)})
  <2>1. Chosen(T) \in T
    BY <1>2 DEF Chosen
  <2>2. T \in SUBSET T
    OBVIOUS
  <2>3. SumTable(f, T)[T] = SumStep(f, SumTable(f, T), T)
    BY <1>1, <2>2, SumRecursion
  <2>4. SumFunctionOnSet(f, T) = f[Chosen(T)] + SumTable(f, T)[T \ {Chosen(T)}]
    BY <1>2, <2>3, SumByFunction DEF SumStep
  <2>5. SumTable(f, T)[T \ {Chosen(T)}] = SumFunctionOnSet(f, T \ {Chosen(T)})
    BY <1>1, SumLocal
  <2>6. QED
    BY <2>1, <2>4, <2>5
<1>3. Fine({})
  BY SumEmpty
<1>4. 0 \in U
  <2>1. ASSUME NEW T \in SUBSET S, Cardinality(T) =< 0 PROVE T = {}
    <3>1. Cardinality(T) = 0
      BY <1>1, <2>1
    <3>2. QED
      BY <1>1, <3>1, FS_EmptySet
  <2> HIDE DEF Fine
  <2>2. QED
    BY <1>3, <2>1
<1>5. ASSUME NEW n \in Nat, n \in U PROVE n + 1 \in U
  <2>1. ASSUME NEW T \in SUBSET S, Cardinality(T) =< n + 1 PROVE Fine(T)
    <3>1. ASSUME NEW x \in T PROVE T \ {x} \in SUBSET S /\ Fine(T \ {x})
      <4>1. T \ {x} \in SUBSET S /\ Cardinality(T \ {x}) =< n
        BY <2>1, Smaller
      <4> HIDE DEF Fine
      <4>2. QED
        BY <1>5, <4>1
    <3>2. CASE T = {}
      BY <1>3, <3>2
    <3>3. CASE T # {}
      <4>1. PICK c \in T : SumFunctionOnSet(f, T) = f[c] + SumFunctionOnSet(f, T \ {c})
        BY <1>2, <3>3
      <4>2. SumFunctionOnSet(f, T) \in Int
        BY <3>1, <4>1
      <4>3. ASSUME NEW x \in T, x # c
            PROVE  SumFunctionOnSet(f, T) = f[x] + SumFunctionOnSet(f, T \ {x})
        <5>1. PICK rest : rest = (T \ {c}) \ {x}
          OBVIOUS
        <5>2. rest = (T \ {x}) \ {c} /\ x \in T \ {c} /\ c \in T \ {x}
          BY <4>3, <5>1
        <5>3. SumFunctionOnSet(f, T \ {c}) = f[x] + SumFunctionOnSet(f, rest)
          BY <3>1, <5>1, <5>2
        <5>4. SumFunctionOnSet(f, T \ {x}) = f[c] + SumFunctionOnSet(f, rest)
          BY <3>1, <5>2
        <5>5. SumFunctionOnSet(f, rest) \in Int
          <6>1. T \ {c} \in SUBSET S /\ Cardinality(T \ {c}) =< n
            BY <2>1, Smaller
          <6>2. rest \in SUBSET S /\ IsFiniteSet(T \ {c}) /\ rest \in SUBSET (T \ {c})
            BY <1>1, <5>1, <6>1
          <6>3. Cardinality(rest) =< Cardinality(T \ {c})
            BY <6>2, FS_Subset
          <6>4. Cardinality(rest) =< n
            BY <1>1, <6>1, <6>2, <6>3
          <6>5. QED
            BY <1>5, <6>2, <6>4
        <5>6. QED
          BY <4>1, <5>3, <5>4, <5>5
      <4>4. QED
        BY <4>1, <4>2, <4>3
    <3>4. QED
      BY <3>2, <3>3
  <2> HIDE DEF Fine
  <2>2. QED
    BY <2>1
<1> HIDE DEF U, Fine
<1>6. Cardinality(S) \in U
  <2>1. Nat \subseteq U
    BY <1>4, <1>5, InductionOnNat
  <2>2. QED
    BY <1>1, <2>1
<1>7. S \in SUBSET S /\ Cardinality(S) =< Cardinality(S)
  BY <1>1
<1>8. QED
  BY <1>6, <1>7 DEF U, Fine

LEMMA SumType ==
    ASSUME NEW f, NEW S, IsFiniteSet(S), \A x \in S : f[x] \in Int
    PROVE  SumFunctionOnSet(f, S) \in Int
BY SumRemove

LEMMA SumAdd ==
    ASSUME NEW f, NEW S, IsFiniteSet(S), NEW x, x \notin S,
           \A y \in S \cup {x} : f[y] \in Int
    PROVE  SumFunctionOnSet(f, S \cup {x}) = f[x] + SumFunctionOnSet(f, S)
<1>1. IsFiniteSet(S \cup {x}) /\ (S \cup {x}) \ {x} = S /\ x \in S \cup {x}
  BY FS_AddElement
<1>2. SumFunctionOnSet(f, S \cup {x}) = f[x] + SumFunctionOnSet(f, (S \cup {x}) \ {x})
  BY <1>1, SumRemove
<1>3. QED
  BY <1>1, <1>2

\* Sums of numbers that are not negative, each of which is at most the sum.
LEMMA SumNat ==
    ASSUME NEW f, NEW S, IsFiniteSet(S), \A x \in S : f[x] \in Nat
    PROVE  /\ SumFunctionOnSet(f, S) \in Nat
           /\ \A x \in S : f[x] =< SumFunctionOnSet(f, S)
<1> DEFINE P == {T \in SUBSET S : SumFunctionOnSet(f, T) \in Nat}
<1>1. {} \in P
  BY SumEmpty
<1>2. ASSUME NEW T \in SUBSET S, NEW x \in S \ T, T \in P
      PROVE  T \cup {x} \in P
  <2>1. IsFiniteSet(T)
    BY FS_Subset
  <2>2. \A y \in T \cup {x} : f[y] \in Int
    OBVIOUS
  <2>3. SumFunctionOnSet(f, T \cup {x}) = f[x] + SumFunctionOnSet(f, T)
    BY <2>1, <2>2, SumAdd
  <2>4. QED
    BY <1>2, <2>3
<1> HIDE DEF P
<1>3. ASSUME NEW T \in SUBSET S PROVE SumFunctionOnSet(f, T) \in Nat
  <2>1. IsFiniteSet(T)
    BY FS_Subset
  <2>2. T \in P
    BY <1>1, <1>2, <2>1, InductionOnSubsets
  <2>3. QED
    BY <2>2 DEF P
<1>4. ASSUME NEW x \in S PROVE f[x] =< SumFunctionOnSet(f, S)
  <2>1. SumFunctionOnSet(f, S) = f[x] + SumFunctionOnSet(f, S \ {x})
    BY SumRemove
  <2>2. SumFunctionOnSet(f, S \ {x}) \in Nat
    BY <1>3
  <2>3. PICK a \in Nat, b \in Nat : a = f[x] /\ b = SumFunctionOnSet(f, S \ {x})
    BY <2>2
  <2>4. QED
    BY <2>1, <2>3
<1>5. QED
  BY <1>3, <1>4

\* Sums compare as their terms do.
LEMMA SumLeq ==
    ASSUME NEW f, NEW g, NEW S, IsFiniteSet(S),
           \A x \in S : f[x] \in Int /\ g[x] \in Int /\ f[x] =< g[x]
    PROVE  SumFunctionOnSet(f, S) =< SumFunctionOnSet(g, S)
<1> DEFINE P == {T \in SUBSET S : SumFunctionOnSet(f, T) =< SumFunctionOnSet(g, T)}
<1>1. {} \in P
  BY SumEmpty
<1>2. ASSUME NEW T \in SUBSET S, NEW x \in S \ T, T \in P
      PROVE  T \cup {x} \in P
  <2>1. IsFiniteSet(T)
    BY FS_Subset
  <2>2. \A y \in T \cup {x} : f[y] \in Int /\ g[y] \in Int
    OBVIOUS
  <2>3. /\ SumFunctionOnSet(f, T \cup {x}) = f[x] + SumFunctionOnSet(f, T)
        /\ SumFunctionOnSet(g, T \cup {x}) = g[x] + SumFunctionOnSet(g, T)
        /\ SumFunctionOnSet(f, T) \in Int /\ SumFunctionOnSet(g, T) \in Int
    BY <2>1, <2>2, SumAdd, SumType
  <2>4. QED
    BY <1>2, <2>3
<1> HIDE DEF P
<1>3. S \in P
  BY <1>1, <1>2, InductionOnSubsets
<1>4. QED
  BY <1>3 DEF P

LEMMA SumEqual ==
    ASSUME NEW f, NEW g, NEW S, IsFiniteSet(S),
           \A x \in S : f[x] \in Int /\ f[x] = g[x]
    PROVE  SumFunctionOnSet(f, S) = SumFunctionOnSet(g, S)
<1>1. SumFunctionOnSet(f, S) =< SumFunctionOnSet(g, S) /\ SumFunctionOnSet(g, S) =< SumFunctionOnSet(f, S)
  BY SumLeq
<1>2. SumFunctionOnSet(f, S) \in Int /\ SumFunctionOnSet(g, S) \in Int
  BY SumType
<1>3. QED
  BY <1>1, <1>2

LEMMA SumZero ==
    ASSUME NEW f, NEW S, IsFiniteSet(S), \A x \in S : f[x] = 0
    PROVE  SumFunctionOnSet(f, S) = 0
<1> DEFINE P == {T \in SUBSET S : SumFunctionOnSet(f, T) = 0}
<1>1. {} \in P
  BY SumEmpty
<1>2. ASSUME NEW T \in SUBSET S, NEW x \in S \ T, T \in P
      PROVE  T \cup {x} \in P
  <2>1. IsFiniteSet(T)
    BY FS_Subset
  <2>2. \A y \in T \cup {x} : f[y] \in Int
    OBVIOUS
  <2>3. SumFunctionOnSet(f, T \cup {x}) = f[x] + SumFunctionOnSet(f, T)
    BY <2>1, <2>2, SumAdd
  <2>4. QED
    BY <1>2, <2>3
<1> HIDE DEF P
<1>3. S \in P
  BY <1>1, <1>2, InductionOnSubsets
<1>4. QED
  BY <1>3 DEF P

\* A sum is that of a part and that of the rest.
LEMMA SumSplit ==
    ASSUME NEW f, NEW S, IsFiniteSet(S), NEW R \in SUBSET S, \A x \in S : f[x] \in Int
    PROVE  SumFunctionOnSet(f, S) = SumFunctionOnSet(f, R) + SumFunctionOnSet(f, S \ R)
<1> DEFINE rest == S \ R
           P == {T \in SUBSET rest : SumFunctionOnSet(f, R \cup T) = SumFunctionOnSet(f, R) + SumFunctionOnSet(f, T)}
<1>1. IsFiniteSet(R) /\ IsFiniteSet(rest)
  BY FS_Subset
<1>2. {} \in P
  <2>1. R \cup {} = R /\ SumFunctionOnSet(f, R) \in Int
    BY <1>1, SumType
  <2>2. QED
    BY <2>1, SumEmpty
<1>3. ASSUME NEW T \in SUBSET rest, NEW x \in rest \ T, T \in P
      PROVE  T \cup {x} \in P
  <2>1. R \cup (T \cup {x}) = (R \cup T) \cup {x} /\ x \notin R \cup T
    OBVIOUS
  <2>2. IsFiniteSet(T) /\ IsFiniteSet(R \cup T)
    <3>1. R \cup T \in SUBSET S /\ T \in SUBSET S
      OBVIOUS
    <3>2. QED
      BY <3>1, FS_Subset
  <2>3. \A y \in (R \cup T) \cup {x} : f[y] \in Int
    OBVIOUS
  <2>4. /\ SumFunctionOnSet(f, (R \cup T) \cup {x}) = f[x] + SumFunctionOnSet(f, R \cup T)
        /\ SumFunctionOnSet(f, T \cup {x}) = f[x] + SumFunctionOnSet(f, T)
        /\ SumFunctionOnSet(f, R) \in Int /\ SumFunctionOnSet(f, T) \in Int /\ f[x] \in Int
    BY <1>1, <2>1, <2>2, <2>3, SumAdd, SumType
  <2>5. SumFunctionOnSet(f, R \cup T) = SumFunctionOnSet(f, R) + SumFunctionOnSet(f, T)
    BY <1>3
  <2>6. SumFunctionOnSet(f, R \cup (T \cup {x})) = SumFunctionOnSet(f, R) + SumFunctionOnSet(f, T \cup {x})
    <3>1. PICK a \in Int, b \in Int, c \in Int :
            a = SumFunctionOnSet(f, R) /\ b = SumFunctionOnSet(f, T) /\ c = f[x]
      BY <2>4
    <3>2. SumFunctionOnSet(f, (R \cup T) \cup {x}) = c + (a + b)
      BY <2>4, <2>5, <3>1
    <3>3. SumFunctionOnSet(f, T \cup {x}) = c + b
      BY <2>4, <3>1
    <3>4. c + (a + b) = a + (c + b)
      OBVIOUS
    <3>5. QED
      BY <2>1, <3>1, <3>2, <3>3, <3>4
  <2>7. QED
    BY <2>6
<1>4. R \cup rest = S
  OBVIOUS
<1> HIDE DEF P, rest
<1>5. rest \in P
  BY <1>1, <1>2, <1>3, InductionOnSubsets
<1>6. QED
  BY <1>4, <1>5 DEF P, rest

\* A part of a sum of numbers that are not negative is at most the sum.
LEMMA SumSubset ==
    ASSUME NEW f, NEW S, IsFiniteSet(S), NEW R \in SUBSET S, \A x \in S : f[x] \in Nat
    PROVE  SumFunctionOnSet(f, R) =< SumFunctionOnSet(f, S)
<1>1. IsFiniteSet(R) /\ IsFiniteSet(S \ R)
  BY FS_Subset
<1>2. SumFunctionOnSet(f, R) \in Nat /\ SumFunctionOnSet(f, S \ R) \in Nat
  BY <1>1, SumNat
<1>3. SumFunctionOnSet(f, S) = SumFunctionOnSet(f, R) + SumFunctionOnSet(f, S \ R)
  BY SumSplit
<1>4. QED
  BY <1>2, <1>3

\* A change of one term changes the sum as much.
LEMMA SumChange ==
    ASSUME NEW f, NEW g, NEW S, IsFiniteSet(S), NEW x \in S,
           \A y \in S : f[y] \in Int /\ g[y] \in Int,
           \A y \in S : y # x => g[y] = f[y]
    PROVE  SumFunctionOnSet(g, S) = SumFunctionOnSet(f, S) + (g[x] - f[x])
<1>1. IsFiniteSet(S \ {x})
  BY FS_Subset
<1>2. SumFunctionOnSet(g, S \ {x}) = SumFunctionOnSet(f, S \ {x})
  BY <1>1, SumEqual
<1>3. PICK rest : rest = SumFunctionOnSet(f, S \ {x})
  OBVIOUS
<1>4. /\ SumFunctionOnSet(f, S) = f[x] + rest /\ SumFunctionOnSet(g, S) = g[x] + rest
      /\ rest \in Int
  BY <1>1, <1>2, <1>3, SumRemove, SumType
<1>5. PICK a \in Int, b \in Int : a = f[x] /\ b = g[x]
  OBVIOUS
<1>6. QED
  BY <1>4, <1>5

LEMMA SumPlus ==
    ASSUME NEW f, NEW g, NEW h, NEW S, IsFiniteSet(S),
           \A x \in S : f[x] \in Int /\ g[x] \in Int /\ h[x] = f[x] + g[x]
    PROVE  SumFunctionOnSet(h, S) = SumFunctionOnSet(f, S) + SumFunctionOnSet(g, S)
<1> DEFINE P == {T \in SUBSET S : SumFunctionOnSet(h, T) = SumFunctionOnSet(f, T) + SumFunctionOnSet(g, T)}
<1>1. {} \in P
  BY SumEmpty
<1>2. ASSUME NEW T \in SUBSET S, NEW x \in S \ T, T \in P
      PROVE  T \cup {x} \in P
  <2>1. IsFiniteSet(T)
    BY FS_Subset
  <2>2. \A y \in T \cup {x} : f[y] \in Int /\ g[y] \in Int /\ h[y] \in Int
    OBVIOUS
  <2>3. /\ SumFunctionOnSet(f, T \cup {x}) = f[x] + SumFunctionOnSet(f, T)
        /\ SumFunctionOnSet(g, T \cup {x}) = g[x] + SumFunctionOnSet(g, T)
        /\ SumFunctionOnSet(h, T \cup {x}) = h[x] + SumFunctionOnSet(h, T)
        /\ SumFunctionOnSet(f, T) \in Int /\ SumFunctionOnSet(g, T) \in Int
    BY <2>1, <2>2, SumAdd, SumType
  <2>4. SumFunctionOnSet(h, T \cup {x}) = SumFunctionOnSet(f, T \cup {x}) + SumFunctionOnSet(g, T \cup {x})
    BY <1>2, <2>3
  <2>5. QED
    BY <2>4
<1> HIDE DEF P
<1>3. S \in P
  BY <1>1, <1>2, InductionOnSubsets
<1>4. QED
  BY <1>3 DEF P

\* The sum of an indicator counts.
LEMMA SumCounts ==
    ASSUME NEW f, NEW S, IsFiniteSet(S), NEW R \in SUBSET S,
           \A x \in S : f[x] = IF x \in R THEN 1 ELSE 0
    PROVE  SumFunctionOnSet(f, S) = Cardinality(R)
<1> DEFINE P == {T \in SUBSET S : SumFunctionOnSet(f, T) = Cardinality(T \cap R)}
<1>1. {} \in P
  BY SumEmpty, FS_EmptySet
<1>2. ASSUME NEW T \in SUBSET S, NEW x \in S \ T, T \in P
      PROVE  T \cup {x} \in P
  <2>1. IsFiniteSet(T) /\ IsFiniteSet(T \cap R)
    <3>1. T \cap R \in SUBSET S
      OBVIOUS
    <3>2. QED
      BY <3>1, FS_Subset
  <2>2. \A y \in T \cup {x} : f[y] \in Int
    OBVIOUS
  <2>3. SumFunctionOnSet(f, T \cup {x}) = f[x] + Cardinality(T \cap R)
    BY <1>2, <2>1, <2>2, SumAdd
  <2>4. PICK n \in Nat : n = Cardinality(T \cap R)
    BY <2>1, FS_CardinalityType
  <2>5. CASE x \in R
    <3>1. (T \cup {x}) \cap R = (T \cap R) \cup {x} /\ x \notin T \cap R
      BY <2>5
    <3>2. Cardinality((T \cup {x}) \cap R) = n + 1
      BY <2>1, <2>4, <3>1, FS_AddElement
    <3>3. QED
      BY <2>3, <2>4, <2>5, <3>2
  <2>6. CASE x \notin R
    <3>1. (T \cup {x}) \cap R = T \cap R
      BY <2>6
    <3>2. f[x] = 0
      BY <2>6
    <3>3. SumFunctionOnSet(f, T \cup {x}) = n
      BY <2>3, <2>4, <3>2
    <3>4. QED
      BY <2>4, <3>1, <3>3
  <2>7. QED
    BY <2>5, <2>6
<1> HIDE DEF P
<1>3. S \in P
  BY <1>1, <1>2, InductionOnSubsets
<1>4. S \cap R = R
  OBVIOUS
<1>5. QED
  BY <1>3, <1>4 DEF P

\* Disjoint parts of a finite set do not hold more than the set.
LEMMA SumDisjoint ==
    ASSUME NEW f, NEW S, IsFiniteSet(S), NEW M, IsFiniteSet(M), NEW part,
           \A x \in S : part[x] \subseteq M /\ f[x] = Cardinality(part[x]),
           \A x, y \in S : x # y => part[x] \cap part[y] = {}
    PROVE  SumFunctionOnSet(f, S) =< Cardinality(M)
<1> DEFINE Parts(T) == {m \in M : \E x \in T : m \in part[x]}
           P == {T \in SUBSET S : SumFunctionOnSet(f, T) = Cardinality(Parts(T))}
<1>1. ASSUME NEW T PROVE IsFiniteSet(Parts(T)) /\ Cardinality(Parts(T)) \in Nat
  <2>1. Parts(T) \in SUBSET M
    OBVIOUS
  <2> HIDE DEF Parts
  <2>2. IsFiniteSet(Parts(T))
    BY <2>1, FS_Subset
  <2>3. QED
    BY <2>2, FS_CardinalityType
<1>2. ASSUME NEW x \in S
      PROVE  IsFiniteSet(part[x]) /\ Cardinality(part[x]) \in Nat /\ f[x] \in Int
  <2>1. IsFiniteSet(part[x])
    BY FS_Subset
  <2>2. Cardinality(part[x]) \in Nat
    BY <2>1, FS_CardinalityType
  <2>3. QED
    BY <2>1, <2>2
<1>3. {} \in P
  <2>1. Parts({}) = {}
    OBVIOUS
  <2>2. SumFunctionOnSet(f, {}) = 0 /\ Cardinality({}) = 0
    BY SumEmpty, FS_EmptySet
  <2>3. QED
    BY <2>1, <2>2
<1>4. ASSUME NEW T \in SUBSET S, NEW x \in S \ T, T \in P
      PROVE  T \cup {x} \in P
  <2>1. IsFiniteSet(T) /\ \A y \in T \cup {x} : f[y] \in Int
    BY <1>2, FS_Subset
  <2>2. SumFunctionOnSet(f, T \cup {x}) = f[x] + SumFunctionOnSet(f, T)
    BY <2>1, SumAdd
  <2>3. Parts(T \cup {x}) = Parts(T) \cup part[x] /\ Parts(T) \cap part[x] = {}
    OBVIOUS
  <2>4. SumFunctionOnSet(f, T) = Cardinality(Parts(T)) /\ f[x] = Cardinality(part[x])
    BY <1>4
  <2> HIDE DEF Parts
  <2>5. Cardinality(Parts(T) \cup part[x])
           = Cardinality(Parts(T)) + Cardinality(part[x]) - Cardinality({})
    BY <1>1, <1>2, <2>3, FS_Union
  <2>6. Cardinality({}) = 0 /\ Cardinality(Parts(T)) \in Nat /\ Cardinality(part[x]) \in Nat
    BY <1>1, <1>2, FS_EmptySet
  <2>7. SumFunctionOnSet(f, T \cup {x}) = Cardinality(Parts(T \cup {x}))
    <3>1. PICK a \in Nat, b \in Nat : a = Cardinality(Parts(T)) /\ b = Cardinality(part[x])
      BY <2>6
    <3>2. SumFunctionOnSet(f, T \cup {x}) = b + a
      BY <2>2, <2>4, <3>1
    <3>3. Cardinality(Parts(T) \cup part[x]) = a + b
      BY <2>5, <2>6, <3>1
    <3>4. Cardinality(Parts(T \cup {x})) = a + b
      BY <2>3, <3>3
    <3>5. QED
      BY <3>2, <3>4
  <2>8. QED
    BY <2>7
<1>5. S \in P
  <2> HIDE DEF P
  <2>1. QED
    BY <1>3, <1>4, InductionOnSubsets
<1>6. Cardinality(Parts(S)) =< Cardinality(M)
  <2>1. Parts(S) \in SUBSET M
    OBVIOUS
  <2> HIDE DEF Parts
  <2>2. QED
    BY <2>1, FS_Subset
<1>7. QED
  BY <1>5, <1>6

\* What is counted by key adds up to what is counted.
Fibre(S, key, b) == {x \in S : key[x] = b}
Over(S, key, T) == {x \in S : key[x] \in T}
CountsByKey(g, B, f, S, key) ==
    \A b \in B : g[b] = SumFunctionOnSet(f, Fibre(S, key, b))

LEMMA SumFibres ==
    ASSUME NEW f, NEW S, IsFiniteSet(S), \A x \in S : f[x] \in Int, NEW key,
           NEW B, IsFiniteSet(B), NEW g, CountsByKey(g, B, f, S, key)
    PROVE  SumFunctionOnSet(g, B) = SumFunctionOnSet(f, Over(S, key, B))
<1>0. \A b \in B : g[b] = SumFunctionOnSet(f, Fibre(S, key, b))
  BY DEF CountsByKey
<1>1. PICK P : P = {T \in SUBSET B : SumFunctionOnSet(g, T) = SumFunctionOnSet(f, Over(S, key, T))}
  OBVIOUS
<1>2. {} \in P
  <2>1. Over(S, key, {}) = {}
    BY DEF Over
  <2>2. SumFunctionOnSet(g, {}) = SumFunctionOnSet(f, Over(S, key, {}))
    BY <2>1, SumEmpty
  <2>3. QED
    BY <1>1, <2>2
<1>3. ASSUME NEW T \in SUBSET B, NEW b \in B \ T, T \in P
      PROVE  T \cup {b} \in P
  <2>1. PICK U : U = T \cup {b}
    OBVIOUS
  <2>2. PICK X, Y, Z : /\ X = Over(S, key, U) /\ Y = Over(S, key, T)
                       /\ Z = Fibre(S, key, b)
    OBVIOUS
  <2>3. X \in SUBSET S /\ Y \in SUBSET X /\ Z = X \ Y
    BY <1>3, <2>1, <2>2 DEF Over, Fibre
  <2>4. IsFiniteSet(X) /\ \A x \in X : f[x] \in Int
    BY <2>3, FS_Subset
  <2>5. SumFunctionOnSet(f, X) = SumFunctionOnSet(f, Y) + SumFunctionOnSet(f, Z)
    BY <2>3, <2>4, SumSplit
  <2>6. IsFiniteSet(T)
    BY FS_Subset
  <2>7. \A a \in B : g[a] \in Int
    <3>1. ASSUME NEW a \in B PROVE g[a] \in Int
      <4>1. PICK W : W = Fibre(S, key, a)
        OBVIOUS
      <4>2. W \in SUBSET S
        BY <4>1 DEF Fibre
      <4>3. IsFiniteSet(W) /\ \A x \in W : f[x] \in Int
        BY <4>2, FS_Subset
      <4>4. QED
        BY <1>0, <4>1, <4>3, SumType
    <3>2. QED
      BY <3>1
  <2>8. SumFunctionOnSet(g, U) = g[b] + SumFunctionOnSet(g, T)
    <3>1. b \notin T /\ \A y \in T \cup {b} : g[y] \in Int
      BY <1>3, <2>7
    <3>2. QED
      BY <2>1, <2>6, <3>1, SumAdd
  <2>9. SumFunctionOnSet(g, T) = SumFunctionOnSet(f, Y) /\ g[b] = SumFunctionOnSet(f, Z)
    BY <1>0, <1>1, <1>3, <2>2
  <2>10. SumFunctionOnSet(g, T) \in Int /\ g[b] \in Int
    <3>1. \A y \in T : g[y] \in Int
      BY <2>7
    <3>2. QED
      BY <2>6, <2>7, <3>1, SumType
  <2>11. SumFunctionOnSet(g, U) = SumFunctionOnSet(f, X)
    BY <2>5, <2>8, <2>9, <2>10
  <2>12. U \in SUBSET B
    BY <2>1
  <2>13. QED
    BY <1>1, <2>1, <2>2, <2>11, <2>12
<1>4. B \in P
  BY <1>2, <1>3, InductionOnSubsets
<1>5. QED
  BY <1>1, <1>4
=============================================================================

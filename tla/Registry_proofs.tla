--------------------------- MODULE Registry_proofs ---------------------------
(***************************************************************************)
(* Proofs about Registry, for any number of builders, cookies, stages and  *)
(* names: registry cookies are unique and never wrap, and a StageId that   *)
(* carries a recorder's cookie names one of its stages.                    *)
(***************************************************************************)
EXTENDS Registry, TLAPS

USE DEF Become, Answer, ClaimOnly, claimVars

-----------------------------------------------------------------------------
(* The operators of the model.                                             *)

\* The conversion to u32 loses nothing: the guard of the loop precedes it.
LEMMA NoTruncation ==
    ASSUME NEW value \in 0 .. MaxCookie
    PROVE  AsU32(value) = value
  BY CookieAssumption DEF AsU32

\* The four checks of TracegramsBuilder::stage.
LEMMA StageGuard ==
    ASSUME NEW b \in Builders, NEW name, StageRefusal(b, name) = None
    PROVE  /\ cookie[b] # None
           /\ name # EmptyName
           /\ ~(Len(stage_names[b]) >= MaxStages)
           /\ name \notin NamesOf(b)
  BY AbsentAssumption DEF StageRefusal

\* The two checks of build.
LEMMA BuildGuard ==
    ASSUME NEW b \in Builders, BuildRefusal(b) = None
    PROVE  cookie[b] # None /\ stage_names[b] # <<>>
  BY AbsentAssumption DEF BuildRefusal

-----------------------------------------------------------------------------
(* The inductive invariant.                                                *)

THEOREM InitEstablishes == Init => IInv
<1> SUFFICES ASSUME Init PROVE IInv
  OBVIOUS
<1> USE DEF Init
<1>1. TypeOK
  BY CookieAssumption DEF TypeOK
<1>2. CookiesUnique
  BY DEF CookiesUnique
<1>3. ClaimInv
  BY CookieAssumption DEF ClaimInv, Holding
<1>4. NamesInv
  BY StageAssumption, QuantilesAssumption DEF NamesInv
<1>5. IssuedInv
  BY DEF IssuedInv
<1> QED BY <1>1, <1>2, <1>3, <1>4, <1>5 DEF IInv

\* Steps of the loop that neither claim nor give up.
LEMMA WaitingStep ==
    ASSUME IInv, NEW b \in Builders, LoadCookie(b) \/ ClaimFails(b)
    PROVE  IInv'
<1> USE DEF IInv
<1>1. /\ UNCHANGED <<next_cookie, cookie, stage_names, tail_quantile, issued>>
      /\ current' = [current EXCEPT ![b] = next_cookie]
      /\ bpc' = [bpc EXCEPT ![b] = "claiming"]
      /\ bpc[b] \in {"new", "claiming"}
  BY DEF LoadCookie, ClaimFails, TypeOK
<1>2. TypeOK'
  BY <1>1, CookieAssumption DEF TypeOK
<1>3. CookiesUnique'
  BY <1>1 DEF CookiesUnique
<1>4. ClaimInv'
  BY <1>1, CookieAssumption DEF ClaimInv, TypeOK, Holding
<1>5. NamesInv'
  BY <1>1 DEF NamesInv, TypeOK
<1>6. IssuedInv'
  BY <1>1 DEF IssuedInv, Holding
<1> QED BY <1>2, <1>3, <1>4, <1>5, <1>6

\* The error is reported only when no cookie is left.
LEMMA ExhaustedStep ==
    ASSUME IInv, NEW b \in Builders, ClaimExhausted(b)
    PROVE  IInv'
<1> USE DEF IInv, ClaimExhausted
<1>1. TypeOK'
  BY DEF TypeOK
<1>2. CookiesUnique'
  BY DEF CookiesUnique
<1>3. ClaimInv'
  <2>1. next_cookie = MaxCookie + 1
    BY CookieAssumption DEF ClaimInv, TypeOK
  <2> QED BY <2>1 DEF ClaimInv, TypeOK, Holding
<1>4. NamesInv'
  BY DEF NamesInv, TypeOK
<1>5. IssuedInv'
  BY DEF IssuedInv, Holding
<1> QED BY <1>1, <1>2, <1>3, <1>4, <1>5

\* The claimed cookie is larger than any held one.
LEMMA SuccessStep ==
    ASSUME IInv, NEW b \in Builders, ClaimSucceeds(b)
    PROVE  IInv'
<1> USE DEF IInv
<1>1. /\ bpc[b] = "claiming" /\ next_cookie \in 1 .. MaxCookie
      /\ next_cookie' = next_cookie + 1
      /\ cookie' = [cookie EXCEPT ![b] = next_cookie]
      /\ bpc' = [bpc EXCEPT ![b] = "open"]
      /\ UNCHANGED <<current, stage_names, tail_quantile, issued>>
  <2>1. current[b] \in 0 .. MaxCookie /\ next_cookie = current[b]
    BY CookieAssumption DEF ClaimSucceeds, TypeOK
  <2>2. AsU32(current[b]) = current[b]
    BY <2>1, NoTruncation
  <2> QED BY <2>1, <2>2, CookieAssumption DEF ClaimSucceeds, TypeOK
<1>2. TypeOK'
  BY <1>1, CookieAssumption DEF TypeOK
<1>3. \A a \in Builders : cookie[a] # None => cookie[a] # next_cookie
  BY CookieAssumption DEF ClaimInv, TypeOK
<1>4. CookiesUnique'
  BY <1>1, <1>3 DEF CookiesUnique, TypeOK
<1>5. ClaimInv'
  <2>1. \A a \in Builders :
           /\ bpc'[a] \in {"new", "claiming"} => cookie'[a] = None
           /\ cookie'[a] # None => cookie'[a] < next_cookie'
           /\ current'[a] =< next_cookie'
           /\ bpc'[a] = "claiming" => current'[a] > 0
           /\ bpc'[a] \in {"open", "built", "consumed"} /\ cookie'[a] = None =>
                next_cookie' = MaxCookie + 1
    BY <1>1, CookieAssumption, AbsentAssumption, SMTT(30) DEF ClaimInv, TypeOK
  <2>2. \A c \in 1 .. next_cookie' - 1 : \E a \in Builders : cookie'[a] = c
    <3> SUFFICES ASSUME NEW c \in 1 .. next_cookie' - 1
                 PROVE  \E a \in Builders : cookie'[a] = c
      OBVIOUS
    <3>1. CASE c = next_cookie
      BY <1>1, <3>1 DEF TypeOK
    <3>2. CASE c # next_cookie
      <4>1. PICK a \in Builders : cookie[a] = c
        BY <1>1, <3>2 DEF ClaimInv, Holding
      <4>2. a # b
        BY <1>1, <4>1, AbsentAssumption DEF ClaimInv
      <4> QED BY <1>1, <4>1, <4>2 DEF TypeOK
    <3> QED BY <3>1, <3>2
  <2> QED BY <2>1, <2>2 DEF ClaimInv, Holding
<1>6. stage_names[b] = <<>> /\ cookie[b] = None
  BY <1>1 DEF NamesInv, ClaimInv
<1>7. NamesInv'
  BY <1>1, <1>6 DEF NamesInv, TypeOK
<1>8. IssuedInv'
  <2>1. \A a \in Builders \ {b} : cookie'[a] = cookie[a]
    BY <1>1 DEF TypeOK
  <2>2. \A id \in issued' : \E a \in Builders :
          /\ cookie'[a] = id.cookie
          /\ id.index < Len(stage_names'[a])
          /\ stage_names'[a][id.index + 1] = id.name
    <3> SUFFICES ASSUME NEW id \in issued
                 PROVE  \E a \in Builders :
                          /\ cookie'[a] = id.cookie
                          /\ id.index < Len(stage_names[a])
                          /\ stage_names[a][id.index + 1] = id.name
      BY <1>1
    <3>1. PICK a \in Builders :
             /\ cookie[a] = id.cookie
             /\ id.index < Len(stage_names[a])
             /\ stage_names[a][id.index + 1] = id.name
      BY DEF IssuedInv, Holding
    <3>2. a # b
      BY <1>6, <3>1, AbsentAssumption DEF TypeOK, StageIdentifiers
    <3> QED BY <2>1, <3>1, <3>2
  <2>3. \A a \in Builders : \A i \in DOMAIN stage_names'[a] :
          \E id \in issued' : cookie'[a] = id.cookie /\ id.index + 1 = i
    <3> SUFFICES ASSUME NEW a \in Builders, NEW i \in DOMAIN stage_names[a]
                 PROVE  \E id \in issued : cookie'[a] = id.cookie /\ id.index + 1 = i
      BY <1>1
    <3>1. a # b
      BY <1>6
    <3> QED BY <2>1, <3>1 DEF IssuedInv, Holding
  <2> QED BY <2>2, <2>3 DEF IssuedInv, Holding
<1> QED BY <1>2, <1>4, <1>5, <1>7, <1>8

\* Calls that are refused, and quantiles.
LEMMA QuietStep ==
    ASSUME IInv, NEW b \in Builders,
           \/ \E name \in Names \cup {EmptyName} : StageRefused(b, name)
           \/ \E quantile \in Quantiles : TailQuantile(b, quantile)
    PROVE  IInv'
<1> USE DEF IInv
<1>1. /\ UNCHANGED <<next_cookie, bpc, current, cookie, stage_names, issued>>
      /\ \/ UNCHANGED tail_quantile
         \/ \E quantile \in Quantiles \cap ValidQuantiles :
               tail_quantile' = [tail_quantile EXCEPT ![b] = quantile]
  BY DEF StageRefused, TailQuantile
<1>2. TypeOK'
  BY <1>1 DEF TypeOK
<1>3. CookiesUnique'
  BY <1>1 DEF CookiesUnique
<1>4. ClaimInv'
  BY <1>1 DEF ClaimInv, Holding
<1>5. NamesInv'
  BY <1>1, ZenonT(60) DEF NamesInv, TypeOK
<1>6. IssuedInv'
  BY <1>1 DEF IssuedInv, Holding
<1> QED BY <1>2, <1>3, <1>4, <1>5, <1>6

\* A new identifier and a new name appear together.
LEMMA AcceptedStep ==
    ASSUME IInv, NEW b \in Builders, NEW name \in Names \cup {EmptyName},
           StageAccepted(b, name)
    PROVE  IInv'
<1> DEFINE length == Len(stage_names[b])
           new == [cookie |-> cookie[b], index |-> length, name |-> name]
<1> USE DEF IInv
<1>1. /\ UNCHANGED <<next_cookie, bpc, current, cookie, tail_quantile>>
      /\ stage_names' = [stage_names EXCEPT ![b] = Append(@, name)]
      /\ issued' = issued \cup {new}
      /\ StageRefusal(b, name) = None
  BY DEF StageAccepted
<1>2. /\ cookie[b] \in 1 .. MaxCookie /\ name # EmptyName
      /\ length \in 0 .. MaxStages - 1 /\ name \notin NamesOf(b)
      /\ stage_names[b] \in Seq(Names \cup {EmptyName})
  <2>1. stage_names[b] \in Seq(Names \cup {EmptyName}) /\ length \in Nat
    BY DEF TypeOK
  <2> QED BY <1>1, <2>1, StageGuard, StageAssumption DEF TypeOK
<1>3. /\ Len(stage_names'[b]) = length + 1
      /\ stage_names'[b][length + 1] = name
      /\ \A i \in 1 .. length : stage_names'[b][i] = stage_names[b][i]
      /\ DOMAIN stage_names'[b] = 1 .. length + 1
      /\ DOMAIN stage_names[b] = 1 .. length
      /\ stage_names'[b] \in Seq(Names \cup {EmptyName})
      /\ stage_names'[b] # <<>>
      /\ \A a \in Builders \ {b} : stage_names'[a] = stage_names[a]
  BY <1>1, <1>2, SMTT(30) DEF TypeOK
<1>4. TypeOK'
  <2>1. new \in StageIdentifiers
    BY <1>2 DEF StageIdentifiers
  <2> QED BY <1>1, <1>3, <2>1 DEF TypeOK
<1>5. CookiesUnique'
  BY <1>1 DEF CookiesUnique
<1>6. ClaimInv'
  BY <1>1 DEF ClaimInv, Holding
<1>7. NamesInv'
  <2> SUFFICES ASSUME NEW a \in Builders
               PROVE  /\ Len(stage_names'[a]) =< MaxStages
                      /\ \A i \in DOMAIN stage_names'[a] :
                            stage_names'[a][i] # EmptyName
                      /\ \A i, j \in DOMAIN stage_names'[a] :
                            stage_names'[a][i] = stage_names'[a][j] => i = j
                      /\ tail_quantile'[a] \in ValidQuantiles
                      /\ cookie'[a] = None => stage_names'[a] = <<>>
                      /\ bpc'[a] = "built" =>
                            cookie'[a] # None /\ stage_names'[a] # <<>>
    BY DEF NamesInv
  <2>1. CASE a # b
    BY <1>1, <1>3, <2>1 DEF NamesInv
  <2>2. CASE a = b
    <3>1. \A i \in 1 .. length : stage_names[b][i] # name
      BY <1>2, <1>3 DEF NamesOf
    <3> QED BY <1>1, <1>2, <1>3, <2>2, <3>1, StageAssumption, AbsentAssumption
            DEF NamesInv
  <2> QED BY <2>1, <2>2
<1>8. IssuedInv'
  <2>1. ASSUME NEW id \in issued'
        PROVE  \E a \in Builders :
                 /\ cookie[a] = id.cookie
                 /\ id.index < Len(stage_names'[a])
                 /\ stage_names'[a][id.index + 1] = id.name
    <3>1. CASE id = new
      BY <1>2, <1>3, <3>1
    <3>2. CASE id \in issued
      <4>1. PICK a \in Builders :
               /\ cookie[a] = id.cookie
               /\ id.index < Len(stage_names[a])
               /\ stage_names[a][id.index + 1] = id.name
        BY <3>2 DEF IssuedInv, Holding
      <4>2. id.index \in Nat
        BY <3>2, StageAssumption DEF TypeOK, StageIdentifiers
      <4>3. CASE a = b
        <5>1. id.index + 1 \in 1 .. length /\ id.index < length + 1
          BY <1>2, <4>1, <4>2, <4>3
        <5> QED BY <1>3, <4>1, <4>3, <5>1
      <4>4. CASE a # b
        BY <1>3, <4>1, <4>4
      <4> QED BY <4>3, <4>4
    <3> QED BY <1>1, <2>1, <3>1, <3>2
  <2>2. ASSUME NEW a \in Builders, NEW i \in DOMAIN stage_names'[a]
        PROVE  \E id \in issued' : cookie[a] = id.cookie /\ id.index + 1 = i
    <3>1. CASE a = b /\ i = length + 1
      <4>1. new \in issued' /\ new.cookie = cookie[b] /\ new.index + 1 = i
        BY <1>1, <3>1
      <4> QED BY <3>1, <4>1
    <3>2. CASE ~(a = b /\ i = length + 1)
      <4>1. i \in DOMAIN stage_names[a]
        BY <1>2, <1>3, <2>2, <3>2
      <4>2. PICK id \in issued : cookie[a] = id.cookie /\ id.index + 1 = i
        BY <4>1 DEF IssuedInv, Holding
      <4> QED BY <1>1, <4>2
    <3> QED BY <3>1, <3>2
  <2>3. \A id \in issued' : \E a \in Builders :
          /\ cookie'[a] = id.cookie
          /\ id.index < Len(stage_names'[a])
          /\ stage_names'[a][id.index + 1] = id.name
    BY <1>1, <2>1
  <2>4. \A a \in Builders : \A i \in DOMAIN stage_names'[a] :
          \E id \in issued' : cookie'[a] = id.cookie /\ id.index + 1 = i
    BY <1>1, <2>2
  <2> QED BY <2>3, <2>4 DEF IssuedInv, Holding
<1> QED BY <1>4, <1>5, <1>6, <1>7, <1>8

\* A built recorder keeps what was registered.
LEMMA BuildStep ==
    ASSUME IInv, NEW b \in Builders, Build(b)
    PROVE  IInv'
<1> USE DEF IInv
<1>1. /\ UNCHANGED <<next_cookie, current, cookie, stage_names,
                     tail_quantile, issued>>
      /\ bpc[b] = "open"
      /\ \/ bpc' = [bpc EXCEPT ![b] = "consumed"]
         \/ /\ bpc' = [bpc EXCEPT ![b] = "built"]
            /\ cookie[b] # None /\ stage_names[b] # <<>>
  BY BuildGuard DEF Build
<1>2. TypeOK'
  BY <1>1 DEF TypeOK
<1>3. CookiesUnique'
  BY <1>1 DEF CookiesUnique
<1>4. ClaimInv'
  BY <1>1 DEF ClaimInv, TypeOK, Holding
<1>5. NamesInv'
  BY <1>1 DEF NamesInv, TypeOK
<1>6. IssuedInv'
  BY <1>1 DEF IssuedInv, Holding
<1> QED BY <1>2, <1>3, <1>4, <1>5, <1>6

THEOREM NextPreserves == IInv /\ [Next]_vars => IInv'
<1> SUFFICES ASSUME IInv, [Next]_vars PROVE IInv'
  OBVIOUS
<1>1. ASSUME NEW b \in Builders, BuilderStep(b) PROVE IInv'
  <2>1. CASE LoadCookie(b) \/ ClaimFails(b)
    BY <2>1, WaitingStep
  <2>2. CASE ClaimExhausted(b)
    BY <2>2, ExhaustedStep
  <2>3. CASE ClaimSucceeds(b)
    BY <2>3, SuccessStep
  <2>4. CASE \/ \E name \in Names \cup {EmptyName} : StageRefused(b, name)
             \/ \E quantile \in Quantiles : TailQuantile(b, quantile)
    BY <2>4, QuietStep
  <2>5. ASSUME NEW name \in Names \cup {EmptyName}, StageAccepted(b, name)
        PROVE  IInv'
    BY <2>5, AcceptedStep
  <2>6. CASE Build(b)
    BY <2>6, BuildStep
  <2> QED BY <1>1, <2>1, <2>2, <2>3, <2>4, <2>5, <2>6 DEF BuilderStep
<1>2. CASE UNCHANGED vars
  BY <1>2 DEF IInv, vars, TypeOK, CookiesUnique, ClaimInv, NamesInv,
              IssuedInv, Holding
<1> QED BY <1>1, <1>2 DEF Next

\* The invariant holds of every reachable state.
THEOREM Inductive == Spec => []IInv
  BY InitEstablishes, NextPreserves, PTL DEF Spec

\* Every variable keeps its type: the u64 source stops one past the largest
\* u32 and no index reaches MaxStages.
THEOREM TypeCorrect == Spec => []TypeOK
<1>1. IInv => TypeOK
  BY DEF IInv
<1> QED BY <1>1, Inductive, PTL

\* However many builders race in claim_registry_cookie, their cookies differ.
THEOREM CookiesUniqueHolds == Spec => []CookiesUnique
<1>1. IInv => CookiesUnique
  BY DEF IInv
<1> QED BY <1>1, Inductive, PTL

\* RegistryCookieExhausted is reported only when all cookies are handed out.
THEOREM ExhaustionHonestHolds == Spec => []ExhaustionHonest
<1>1. IInv => ExhaustionHonest
  BY CookieAssumption DEF IInv, ExhaustionHonest, ClaimInv, Holding
<1> QED BY <1>1, Inductive, PTL

\* A StageId with a recorder's cookie is an index into that recorder's stages
\* and names the stage it was issued for.
THEOREM IdentifiersResolveHolds == Spec => []IdentifiersResolve
<1>1. ASSUME IInv PROVE IdentifiersResolve
  <2> USE DEF IInv
  <2> SUFFICES ASSUME NEW b \in Builders, bpc[b] = "built"
      PROVE  LET own == {id \in issued : id.cookie = cookie[b]}
             IN  /\ \A id \in own :
                      /\ id.index < Len(stage_names[b])
                      /\ stage_names[b][id.index + 1] = id.name
                 /\ {id.index : id \in own} = 0 .. Len(stage_names[b]) - 1
    BY DEF IdentifiersResolve
  <2> DEFINE own == {id \in issued : id.cookie = cookie[b]}
  <2>1. cookie[b] # None
    BY <1>1 DEF NamesInv
  <2>2. stage_names[b] \in Seq(Names \cup {EmptyName})
    BY <1>1 DEF TypeOK
  <2>3. \A id \in own : id.index \in Nat
    BY <1>1, StageAssumption DEF TypeOK, StageIdentifiers
  <2>4. \A id \in own : /\ id.index < Len(stage_names[b])
                        /\ stage_names[b][id.index + 1] = id.name
    BY <1>1, <2>1 DEF IssuedInv, CookiesUnique, Holding
  <2>5. \A n \in 0 .. Len(stage_names[b]) - 1 : \E id \in own : id.index = n
    <3> SUFFICES ASSUME NEW n \in 0 .. Len(stage_names[b]) - 1
                 PROVE  \E id \in own : id.index = n
      OBVIOUS
    <3>1. n + 1 \in DOMAIN stage_names[b]
      BY <2>2
    <3>2. PICK id \in issued : cookie[b] = id.cookie /\ id.index + 1 = n + 1
      BY <1>1, <3>1 DEF IssuedInv, Holding
    <3> QED BY <2>3, <3>2
  <2>6. {id.index : id \in own} = 0 .. Len(stage_names[b]) - 1
    BY <2>2, <2>3, <2>4, <2>5
  <2> QED BY <2>4, <2>6
<1> QED BY <1>1, Inductive, PTL

\* No sequence of failed calls leads to a recorder without stages, with too
\* many, with equal or empty names or with a quantile outside (0, 1].
THEOREM BuiltRegistrySoundHolds == Spec => []BuiltRegistrySound
<1>1. ASSUME IInv PROVE BuiltRegistrySound
  <2> SUFFICES ASSUME NEW b \in Builders, bpc[b] = "built"
      PROVE  /\ Len(stage_names[b]) \in 1 .. MaxStages
             /\ \A i, j \in DOMAIN stage_names[b] :
                   stage_names[b][i] = stage_names[b][j] => i = j
             /\ EmptyName \notin NamesOf(b)
             /\ tail_quantile[b] \in ValidQuantiles
    BY DEF BuiltRegistrySound
  <2>1. stage_names[b] \in Seq(Names \cup {EmptyName}) /\ stage_names[b] # <<>>
    BY <1>1 DEF IInv, TypeOK, NamesInv
  <2>2. Len(stage_names[b]) \in Nat \ {0}
    BY <2>1
  <2> QED BY <1>1, <2>2, StageAssumption DEF IInv, NamesInv, NamesOf
<1> QED BY <1>1, Inductive, PTL
=============================================================================

------------------------------ MODULE Registry ------------------------------
(***************************************************************************)
(* Runtime registration (init.rs).  Every builder claims a process-wide    *)
(* registry cookie in a compare-exchange loop that may fail spuriously,    *)
(* registers stages, and is consumed by build.  Builders belong to threads *)
(* of their own; the next cookie is all they share.  Names are model       *)
(* values, of which EmptyName is the empty one; quantiles outside (0, 1]   *)
(* and NaN are the ones not in ValidQuantiles.                             *)
(***************************************************************************)
EXTENDS Integers, Sequences, FiniteSets

CONSTANTS
    Builders,       \* every builder the process creates
    MaxCookie,      \* MAX_REGISTRY_COOKIE, the largest u32
    MaxStages,      \* MAX_STAGES
    Names, EmptyName,
    Quantiles, ValidQuantiles, DefaultQuantile,
    None

ASSUME CookieAssumption == MaxCookie \in Nat \ {0}
ASSUME StageAssumption == MaxStages \in Nat \ {0}
ASSUME QuantilesAssumption == DefaultQuantile \in ValidQuantiles
ASSUME AbsentAssumption ==
    /\ None \notin Nat
    /\ None \notin {"RegistryCookieExhausted", "EmptyStageName",
                    "TooManyStages", "DuplicateStageName", "NoStages"}

VARIABLES
    next_cookie,    \* NEXT_REGISTRY_COOKIE, a u64
    bpc,            \* where each builder is: "new", "claiming", "open",
                    \* "built" or "consumed" by a build that failed
    current,        \* the value its compare-exchange expects
    cookie,         \* the claimed cookie, or None when exhausted
    stage_names,    \* registered names; the recorder's once it is built
    tail_quantile,
    issued,         \* history: every StageId handed out, with its name
    answer          \* what the builder's last operation returned

claimVars == <<next_cookie, bpc, current, cookie>>
vars == <<claimVars, stage_names, tail_quantile, issued, answer>>

Init ==
    /\ next_cookie = 1
    /\ bpc = [b \in Builders |-> "new"]
    /\ current = [b \in Builders |-> 0]
    /\ cookie = [b \in Builders |-> None]
    /\ stage_names = [b \in Builders |-> <<>>]
    /\ tail_quantile = [b \in Builders |-> DefaultQuantile]
    /\ issued = {}
    /\ answer = [b \in Builders |-> None]

-----------------------------------------------------------------------------
(* claim_registry_cookie.                                                  *)

Become(b, place) == bpc' = [bpc EXCEPT ![b] = place]
ClaimOnly == UNCHANGED <<stage_names, tail_quantile, issued, answer>>

\* The cookie is cut down to a u32.
AsU32(value) == value % (MaxCookie + 1)

LoadCookie(b) ==
    /\ bpc[b] = "new"
    /\ current' = [current EXCEPT ![b] = next_cookie]
    /\ Become(b, "claiming")
    /\ UNCHANGED <<next_cookie, cookie>> /\ ClaimOnly

\* Mutant: the largest cookie is never handed out.
ClaimExhaustedEarly(b) ==
    /\ bpc[b] = "claiming"
    /\ current[b] >= MaxCookie
    /\ Become(b, "open")
    /\ UNCHANGED <<next_cookie, current, cookie>> /\ ClaimOnly

ClaimExhausted(b) ==
    /\ bpc[b] = "claiming"
    /\ current[b] > MaxCookie
    /\ Become(b, "open")
    /\ UNCHANGED <<next_cookie, current, cookie>> /\ ClaimOnly

\* Mutant: the exchange does not compare.
ClaimStores(b) ==
    /\ bpc[b] = "claiming"
    /\ current[b] =< MaxCookie
    /\ next_cookie' = current[b] + 1
    /\ cookie' = [cookie EXCEPT ![b] = AsU32(current[b])]
    /\ Become(b, "open")
    /\ UNCHANGED current /\ ClaimOnly

ClaimSucceeds(b) ==
    /\ bpc[b] = "claiming"
    /\ current[b] =< MaxCookie
    /\ next_cookie = current[b]
    /\ next_cookie' = current[b] + 1
    /\ cookie' = [cookie EXCEPT ![b] = AsU32(current[b])]
    /\ Become(b, "open")
    /\ UNCHANGED current /\ ClaimOnly

\* Mutant: a failed exchange does not take the value it observed.
ClaimFailsBlindly(b) ==
    /\ bpc[b] = "claiming"
    /\ current[b] =< MaxCookie
    /\ UNCHANGED <<next_cookie, bpc, current, cookie>> /\ ClaimOnly

\* compare_exchange_weak may also fail when the values are equal.
ClaimFails(b) ==
    /\ bpc[b] = "claiming"
    /\ current[b] =< MaxCookie
    /\ current' = [current EXCEPT ![b] = next_cookie]
    /\ UNCHANGED <<next_cookie, bpc, cookie>> /\ ClaimOnly

-----------------------------------------------------------------------------
(* The builder's operations.                                               *)

Answer(b, a) == answer' = [answer EXCEPT ![b] = a]
NamesOf(b) == {stage_names[b][i] : i \in DOMAIN stage_names[b]}

\* The first check that fails decides the error.
StageRefusal(b, name) ==
    IF cookie[b] = None THEN "RegistryCookieExhausted"
    ELSE IF name = EmptyName THEN "EmptyStageName"
    ELSE IF Len(stage_names[b]) >= MaxStages THEN "TooManyStages"
    ELSE IF name \in NamesOf(b) THEN "DuplicateStageName"
    ELSE None

StageRefused(b, name) ==
    /\ bpc[b] = "open"
    /\ StageRefusal(b, name) # None
    /\ Answer(b, StageRefusal(b, name))
    /\ UNCHANGED <<claimVars, stage_names, tail_quantile, issued>>

\* Mutant: the index is taken after the name was pushed.
StageAcceptedLate(b, name) ==
    /\ bpc[b] = "open"
    /\ StageRefusal(b, name) = None
    /\ stage_names' = [stage_names EXCEPT ![b] = Append(@, name)]
    /\ issued' = issued \cup
         {[cookie |-> cookie[b], index |-> Len(stage_names[b]) + 1, name |-> name]}
    /\ Answer(b, "Ok")
    /\ UNCHANGED <<claimVars, tail_quantile>>

\* The new identifier is the position of the name, branded with the cookie.
StageAccepted(b, name) ==
    /\ bpc[b] = "open"
    /\ StageRefusal(b, name) = None
    /\ stage_names' = [stage_names EXCEPT ![b] = Append(@, name)]
    /\ issued' = issued \cup
         {[cookie |-> cookie[b], index |-> Len(stage_names[b]), name |-> name]}
    /\ Answer(b, "Ok")
    /\ UNCHANGED <<claimVars, tail_quantile>>

\* Mutant: the quantile is stored before it is checked.
TailQuantileStoredFirst(b, quantile) ==
    /\ bpc[b] = "open"
    /\ tail_quantile' = [tail_quantile EXCEPT ![b] = quantile]
    /\ Answer(b, IF quantile \in ValidQuantiles THEN "Ok" ELSE "InvalidTailQuantile")
    /\ UNCHANGED <<claimVars, stage_names, issued>>

TailQuantile(b, quantile) ==
    /\ bpc[b] = "open"
    /\ IF quantile \in ValidQuantiles
       THEN /\ tail_quantile' = [tail_quantile EXCEPT ![b] = quantile]
            /\ Answer(b, "Ok")
       ELSE /\ Answer(b, "InvalidTailQuantile")
            /\ UNCHANGED tail_quantile
    /\ UNCHANGED <<claimVars, stage_names, issued>>

BuildRefusal(b) ==
    IF cookie[b] = None THEN "RegistryCookieExhausted"
    ELSE IF stage_names[b] = <<>> THEN "NoStages"
    ELSE None

\* build consumes the builder whether it succeeds or not.
Build(b) ==
    /\ bpc[b] = "open"
    /\ Become(b, IF BuildRefusal(b) = None THEN "built" ELSE "consumed")
    /\ Answer(b, IF BuildRefusal(b) = None THEN "Ok" ELSE BuildRefusal(b))
    /\ UNCHANGED <<next_cookie, current, cookie,
                   stage_names, tail_quantile, issued>>

BuilderStep(b) ==
    \/ LoadCookie(b) \/ ClaimExhausted(b) \/ ClaimSucceeds(b) \/ ClaimFails(b)
    \/ \E name \in Names \cup {EmptyName} :
          StageRefused(b, name) \/ StageAccepted(b, name)
    \/ \E quantile \in Quantiles : TailQuantile(b, quantile)
    \/ Build(b)

Next == \E b \in Builders : BuilderStep(b)

Spec == Init /\ [][Next]_vars

\* A thread that has begun to claim goes on, and a compare-exchange that could
\* succeed again and again is not failed spuriously for ever.
FairSpec ==
    /\ Spec
    /\ \A b \in Builders :
        /\ WF_vars(ClaimExhausted(b)) /\ WF_vars(ClaimFails(b))
        /\ SF_vars(ClaimSucceeds(b))

-----------------------------------------------------------------------------
(* Properties.                                                             *)

StageIdentifiers ==
    [cookie : 1 .. MaxCookie, index : 0 .. MaxStages - 1,
     name : Names \cup {EmptyName}]

TypeOK ==
    /\ next_cookie \in 1 .. MaxCookie + 1
    /\ bpc \in [Builders -> {"new", "claiming", "open", "built", "consumed"}]
    /\ current \in [Builders -> 0 .. MaxCookie + 1]
    /\ cookie \in [Builders -> (1 .. MaxCookie) \cup {None}]
    /\ stage_names \in [Builders -> Seq(Names \cup {EmptyName})]
    /\ tail_quantile \in [Builders -> Quantiles \cup {DefaultQuantile}]
    /\ issued \in SUBSET StageIdentifiers

\* No two builders of the process ever hold the same cookie, however their
\* compare-exchange loops interleave and however often they fail.
CookiesUnique ==
    \A a, b \in Builders : cookie[a] = cookie[b] /\ cookie[a] # None => a = b

\* Exhaustion is reported only when every cookie has been handed out: none is
\* skipped, and the last one is usable.  That none is handed out again after a
\* wrap is CookiesUnique.
ExhaustionHonest ==
    \A b \in Builders :
        bpc[b] \in {"open", "built", "consumed"} /\ cookie[b] = None =>
            \A c \in 1 .. MaxCookie : \E a \in Builders : cookie[a] = c

\* A StageId whose cookie matches a recorder's has an index below its stage
\* count and names the stage it was issued for: the check of the cookie in
\* validate_mark is all the bounds check a mark needs.  The identifiers of a
\* recorder are dense.
IdentifiersResolve ==
    \A b \in Builders : bpc[b] = "built" =>
        LET own == {id \in issued : id.cookie = cookie[b]}
        IN  /\ \A id \in own :
                 /\ id.index < Len(stage_names[b])
                 /\ stage_names[b][id.index + 1] = id.name
            /\ {id.index : id \in own} = 0 .. Len(stage_names[b]) - 1

\* Whatever calls failed on the way, a recorder is built with one to MaxStages
\* distinct non-empty names and a quantile in (0, 1].
BuiltRegistrySound ==
    \A b \in Builders : bpc[b] = "built" =>
        /\ Len(stage_names[b]) \in 1 .. MaxStages
        /\ \A i, j \in DOMAIN stage_names[b] :
              stage_names[b][i] = stage_names[b][j] => i = j
        /\ EmptyName \notin NamesOf(b)
        /\ tail_quantile[b] \in ValidQuantiles

\* Every builder gets a cookie or learns that they are exhausted, although
\* compare-exchanges of others make its own fail.
ClaimTerminates ==
    \A b \in Builders : bpc[b] = "claiming" ~> bpc[b] = "open"

-----------------------------------------------------------------------------
(* The inductive invariant behind the safety properties.                   *)

Holding(b, c) == cookie[b] = c

\* The cookies below the next one, and no others, are held by builders that
\* have finished claiming; nobody expects a value that is still to come.
ClaimInv ==
    /\ \A b \in Builders :
        /\ bpc[b] \in {"new", "claiming"} => cookie[b] = None
        /\ cookie[b] # None => cookie[b] < next_cookie
        /\ current[b] =< next_cookie
        /\ bpc[b] = "claiming" => current[b] > 0
        /\ bpc[b] \in {"open", "built", "consumed"} /\ cookie[b] = None =>
              next_cookie = MaxCookie + 1
    /\ \A c \in 1 .. next_cookie - 1 : \E b \in Builders : Holding(b, c)

\* Registered names are acceptable, and need a cookie.
NamesInv ==
    \A b \in Builders :
        /\ Len(stage_names[b]) =< MaxStages
        /\ \A i \in DOMAIN stage_names[b] : stage_names[b][i] # EmptyName
        /\ \A i, j \in DOMAIN stage_names[b] :
              stage_names[b][i] = stage_names[b][j] => i = j
        /\ tail_quantile[b] \in ValidQuantiles
        /\ cookie[b] = None => stage_names[b] = <<>>
        /\ bpc[b] = "built" => cookie[b] # None /\ stage_names[b] # <<>>

\* Issued identifiers and registered names correspond.
IssuedInv ==
    /\ \A id \in issued : \E b \in Builders :
        /\ Holding(b, id.cookie)
        /\ id.index < Len(stage_names[b])
        /\ stage_names[b][id.index + 1] = id.name
    /\ \A b \in Builders : \A i \in DOMAIN stage_names[b] :
        \E id \in issued : Holding(b, id.cookie) /\ id.index + 1 = i

IInv == TypeOK /\ CookiesUnique /\ ClaimInv /\ NamesInv /\ IssuedInv
=============================================================================

--------------------------- MODULE Orderings_proofs ---------------------------
(***************************************************************************)
(* Proofs about the freeze under its memory orderings (module Orderings),  *)
(* for any threads, stages and bounds.  The argument is one about views:   *)
(* whoever knows a value of the calibration state knows what was released  *)
(* with it, because every load of the state acquires.                      *)
(***************************************************************************)
EXTENDS Orderings, Induction

USE SizeAssumption

-----------------------------------------------------------------------------
(* Views.                                                                  *)

\* Whoever knows w knows v.
Within(v, w) ==
    /\ v.state =< w.state
    /\ \A s \in Stages : v.counted[s] =< w.counted[s]
    /\ v.published \subseteq w.published

\* A view of what exists, which has followed the state no further than it
\* knows what came with it.
Sound(v) ==
    /\ v \in Views
    /\ v.state \in 1 .. Len(history)
    /\ \A s \in Stages : v.counted[s] =< counts[s]
    /\ \A s \in v.published : published[s] # None
    /\ Within(history[v.state].view, v)

Entries == [value : StateValues, view : Views]
Places == {"idle", "claim", "rescan", "restore", "publish", "report"}

Types ==
    /\ history \in Seq(Entries)
    /\ Len(history) > 0
    /\ counts \in [Stages -> Nat]
    /\ published \in [Stages -> Publications \cup {None}]
    /\ view \in [Threads -> Views]
    /\ pc \in [Threads -> Places]
    /\ report \in [Threads -> [Stages -> Nat] \cup {None}]
    /\ snapshot \in [Threads -> Snapshots \cup {None}]
    /\ claims \in Seq([Stages -> Nat])

\* Everything released, and everything known, is sound.  Before Frozen nothing
\* is released about publications.
ViewInv ==
    /\ \A i \in 1 .. Len(history) :
          /\ Sound(history[i].view)
          /\ history[i].view.state = i
          /\ history[i].value = "Frozen" => i = Len(history)
          /\ history[i].value # "Frozen" => history[i].view.published = {}
    /\ \A t \in Threads : Sound(view[t])
    /\ \A s \in Stages : published[s] # None =>
          /\ Sound(published[s].view)
          /\ history[published[s].view.state].value # "Frozen"

Claimant(t) == pc[t] \in {"rescan", "restore", "publish"}

\* At most one claim is held, exactly while the state is Freezing, and its
\* holder knows it.  Only a publisher publishes; once Frozen, all is published
\* and was released with Frozen.
ClaimInv ==
    /\ \A t, u \in Threads : Claimant(t) /\ Claimant(u) => t = u
    /\ Latest.value = "Freezing" <=> \E t \in Threads : Claimant(t)
    /\ \A t \in Threads : Claimant(t) => view[t].state = Len(history)
    /\ (\E s \in Stages : published[s] # None) =>
          Latest.value = "Frozen" \/ \E t \in Threads : pc[t] = "publish"
    /\ \A t \in Threads : pc[t] = "publish" =>
          /\ report[t] \in [Stages -> Nat]
          /\ \A s \in Stages :
                /\ report[t][s] =< view[t].counted[s]
                /\ published[s] # None =>
                      published[s].samples = report[t][s] /\ s \in view[t].published
    /\ Latest.value = "Frozen" =>
          \A s \in Stages :
              /\ published[s] # None
              /\ s \in Latest.view.published
              /\ published[s].samples =< Latest.view.counted[s]

\* A claim starts from what the claims before it had seen.
ClaimsInv ==
    /\ ClaimsAccumulate
    /\ Latest.value = "Collecting" =>
          \A k \in 1 .. Len(claims) : \A s \in Stages :
              claims[k][s] =< Latest.view.counted[s]
    /\ \A t \in Threads : Claimant(t) =>
          \A k \in 1 .. Len(claims) : \A s \in Stages :
              claims[k][s] =< view[t].counted[s]

\* A snapshot that read Frozen has the published samples, and one of a thread
\* that had been told of Frozen before counted what was released with it.
SnapshotInv ==
    \A t \in Threads :
        /\ pc[t] = "report" => Informed(t) /\ snapshot[t] \in Snapshots
        /\ snapshot[t] # None =>
              /\ snapshot[t].informed =>
                    /\ Latest.value = "Frozen"
                    /\ \A s \in Stages :
                          Latest.view.counted[s] =< snapshot[t].counted[s]
              /\ (pc[t] # "report" /\ snapshot[t].state = "Frozen") =>
                    snapshot[t].report # None
              /\ snapshot[t].report # None =>
                    /\ Latest.value = "Frozen"
                    /\ snapshot[t].report = [s \in Stages |-> published[s].samples]

IInv == Types /\ ViewInv /\ ClaimInv /\ ClaimsInv /\ SnapshotInv /\ dropped = FALSE

-----------------------------------------------------------------------------
(* What the operators on views do.                                         *)

LEMMA JoinFacts ==
    ASSUME NEW v \in Views, NEW w \in Views
    PROVE  /\ Join(v, w) \in Views
           /\ Join(v, w).state = IF v.state >= w.state THEN v.state ELSE w.state
           /\ \A s \in Stages : Join(v, w).counted[s] =
                 IF v.counted[s] >= w.counted[s] THEN v.counted[s] ELSE w.counted[s]
           /\ Join(v, w).published = v.published \cup w.published
           /\ Within(v, Join(v, w)) /\ Within(w, Join(v, w))
<1>1. /\ v.state \in Nat /\ w.state \in Nat
      /\ v.counted \in [Stages -> Nat] /\ w.counted \in [Stages -> Nat]
      /\ v.published \subseteq Stages /\ w.published \subseteq Stages
  BY DEF Views
<1>2. Max({v.state, w.state}) = IF v.state >= w.state THEN v.state ELSE w.state
  BY <1>1, MaxOfTwo
<1>3. ASSUME NEW s \in Stages
      PROVE  Max({v.counted[s], w.counted[s]}) =
               IF v.counted[s] >= w.counted[s] THEN v.counted[s] ELSE w.counted[s]
  <2>1. v.counted[s] \in Int /\ w.counted[s] \in Int
    BY <1>1
  <2>2. QED
    BY <2>1, MaxOfTwo
<1> DEFINE state == Max({v.state, w.state})
           counted == [s \in Stages |-> Max({v.counted[s], w.counted[s]})]
<1>4. state \in Nat /\ counted \in [Stages -> Nat]
  BY <1>1, <1>2, <1>3
<1>5. /\ Join(v, w).state = state /\ Join(v, w).counted = counted
      /\ Join(v, w).published = v.published \cup w.published
      /\ Join(v, w) = [state |-> state, counted |-> counted,
                       published |-> v.published \cup w.published]
  BY DEF Join
<1>6. Join(v, w) \in Views
  BY <1>1, <1>4, <1>5 DEF Views
<1>7. \A s \in Stages : counted[s] =
          IF v.counted[s] >= w.counted[s] THEN v.counted[s] ELSE w.counted[s]
  BY <1>3
<1>8. Within(v, Join(v, w)) /\ Within(w, Join(v, w))
  <2> HIDE DEF state, counted
  <2>1. \A s \in Stages : v.counted[s] \in Nat /\ w.counted[s] \in Nat
    BY <1>1
  <2>2. state = IF v.state >= w.state THEN v.state ELSE w.state
    BY <1>2 DEF state
  <2>3. QED
    BY <1>1, <1>5, <1>7, <2>1, <2>2 DEF Within
<1>9. QED
  BY <1>2, <1>5, <1>6, <1>7, <1>8

LEMMA WithinTransitive ==
    ASSUME NEW u \in Views, NEW v \in Views, NEW w \in Views, Within(u, v), Within(v, w)
    PROVE  Within(u, w)
<1>1. u.state \in Nat /\ v.state \in Nat /\ w.state \in Nat
  BY DEF Views
<1>2. \A s \in Stages :
          u.counted[s] \in Nat /\ v.counted[s] \in Nat /\ w.counted[s] \in Nat
  BY DEF Views
<1>3. ASSUME NEW s \in Stages PROVE u.counted[s] =< w.counted[s]
  BY <1>2 DEF Within
<1>4. QED
  BY <1>1, <1>3 DEF Within

\* Entries of the history.
LEMMA HistoryEntry ==
    ASSUME Types, NEW i \in 1 .. Len(history)
    PROVE  history[i].value \in StateValues /\ history[i].view \in Views
<1>1. history[i] \in Entries
  BY DEF Types
<1>2. QED
  BY <1>1 DEF Entries

\* What two threads know together is sound.
LEMMA SoundJoin ==
    ASSUME Types, NEW v, NEW w, Sound(v), Sound(w)
    PROVE  Sound(Join(v, w)) /\ Within(v, Join(v, w)) /\ Within(w, Join(v, w))
<1>1. v \in Views /\ w \in Views
  BY DEF Sound
<1>2. /\ v.state \in 1 .. Len(history) /\ w.state \in 1 .. Len(history)
      /\ history[v.state].view \in Views /\ history[w.state].view \in Views
  BY HistoryEntry DEF Sound
<1> DEFINE j == Join(v, w)
<1>3. j \in Views /\ Within(v, j) /\ Within(w, j)
  BY <1>1, JoinFacts
<1>4. j.state = v.state \/ j.state = w.state
  BY <1>1, JoinFacts
<1>5. \A s \in Stages : j.counted[s] =< counts[s]
  BY <1>1, JoinFacts DEF Sound
<1>6. \A s \in j.published : published[s] # None
  BY <1>1, JoinFacts DEF Sound
<1> HIDE DEF j
<1>7. Within(history[j.state].view, j)
  BY <1>1, <1>2, <1>3, <1>4, WithinTransitive DEF Sound
<1>8. Sound(j)
  BY <1>2, <1>3, <1>4, <1>5, <1>6, <1>7 DEF Sound
<1>9. QED
  BY <1>3, <1>8 DEF j

\* An acquire load.
LEMMA AcquiredSound ==
    ASSUME Types, ViewInv, NEW t \in Threads, NEW i \in Loadable(t)
    PROVE  /\ i \in 1 .. Len(history)
           /\ Sound(Acquired(t, i))
           /\ Acquired(t, i).state = i
           /\ Acquired(t, i).published = view[t].published \cup history[i].view.published
           /\ Within(view[t], Acquired(t, i))
           /\ Within(history[i].view, Acquired(t, i))
<1>1. /\ view[t] \in Views /\ Sound(view[t])
      /\ view[t].state \in 1 .. Len(history) /\ Len(history) \in Nat
  BY DEF Types, ViewInv, Sound
<1>2. i \in 1 .. Len(history) /\ view[t].state =< i
  BY <1>1 DEF Loadable
<1>3. /\ history[i].view \in Views /\ Sound(history[i].view)
      /\ history[i].view.state = i
  BY <1>2, HistoryEntry DEF ViewInv
<1> DEFINE v == [view[t] EXCEPT !.state = i]
           w == history[i].view
           a == Acquired(t, i)
<1>4. /\ v \in Views /\ v.state = i /\ v.counted = view[t].counted
      /\ v.published = view[t].published
  BY <1>1, <1>2 DEF Views
<1>5. a = Join(v, w)
  BY DEF Acquired
<1> HIDE DEF v, a
<1>6. /\ a \in Views /\ a.state = i
      /\ a.published = view[t].published \cup w.published
      /\ \A s \in Stages : a.counted[s] =
            IF v.counted[s] >= w.counted[s] THEN v.counted[s] ELSE w.counted[s]
      /\ Within(v, a) /\ Within(w, a)
  BY <1>3, <1>4, <1>5, JoinFacts
<1>7. Within(view[t], a)
  BY <1>1, <1>2, <1>4, <1>6 DEF Within, Views
<1>8. \A s \in Stages : a.counted[s] =< counts[s]
  BY <1>1, <1>3, <1>4, <1>6 DEF Sound
<1>9. \A s \in a.published : published[s] # None
  BY <1>1, <1>3, <1>6 DEF Sound
<1>10. Sound(a)
  BY <1>2, <1>6, <1>8, <1>9 DEF Sound
<1>11. QED
  BY <1>2, <1>6, <1>7, <1>10 DEF a

\* A run of relaxed loads of the counters.
LEMMA ScannedSound ==
    ASSUME Types, NEW v, Sound(v), NEW scan \in Scans(v)
    PROVE  /\ scan \in [Stages -> Nat]
           /\ Sound(Scanned(v, scan)) /\ Within(v, Scanned(v, scan))
           /\ Scanned(v, scan).state = v.state
           /\ Scanned(v, scan).counted = scan
           /\ Scanned(v, scan).published = v.published
           /\ \A s \in Stages : v.counted[s] =< scan[s]
<1>1. v \in Views /\ v.state \in 1 .. Len(history) /\ history[v.state].view \in Views
  BY HistoryEntry DEF Sound
<1>2. \A s \in Stages : v.counted[s] \in Nat /\ counts[s] \in Nat
  BY <1>1 DEF Views, Types
<1>3. \A s \in Stages : scan[s] \in v.counted[s] .. counts[s]
  BY DEF Scans
<1>4. DOMAIN scan = Stages /\ scan = [s \in Stages |-> scan[s]]
  BY DEF Scans
<1>5. \A s \in Stages : /\ scan[s] \in Nat /\ v.counted[s] =< scan[s]
                        /\ scan[s] =< counts[s]
  BY <1>2, <1>3
<1>6. scan \in [Stages -> Nat]
  BY <1>4, <1>5
<1> DEFINE w == Scanned(v, scan)
<1>7. /\ w \in Views /\ w.state = v.state /\ w.counted = scan
      /\ w.published = v.published
  BY <1>1, <1>6 DEF Scanned, Views
<1> HIDE DEF w
<1>8. Within(v, w)
  BY <1>1, <1>5, <1>7 DEF Within, Views
<1>9. Within(history[w.state].view, w)
  BY <1>1, <1>7, <1>8, WithinTransitive DEF Sound
<1>10. Sound(w)
  BY <1>1, <1>5, <1>7, <1>9 DEF Sound
<1>11. QED
  BY <1>5, <1>6, <1>7, <1>8, <1>10 DEF w

\* What OnceLock::get of some published stages releases.
LEMMA GotSound ==
    ASSUME Types, ViewInv, NEW v, Sound(v),
           NEW found \in SUBSET {s \in Stages : published[s] # None}
    PROVE  /\ Sound(Got(v, found)) /\ Within(v, Got(v, found))
           /\ Got(v, found).published = v.published \cup found
<1> DEFINE states == {v.state} \cup {published[f].view.state : f \in found}
           seen(s) == {v.counted[s]} \cup {published[f].view.counted[s] : f \in found}
           w == Got(v, found)
<1>1. /\ v \in Views /\ v.state \in 1 .. Len(history) /\ Len(history) \in Nat
      /\ history[v.state].view \in Views /\ Within(history[v.state].view, v)
  BY HistoryEntry DEF Sound, Types
<1>2. ASSUME NEW f \in found
      PROVE  /\ published[f].view \in Views
             /\ Sound(published[f].view)
             /\ history[published[f].view.state].value # "Frozen"
  BY <1>2 DEF Types, ViewInv, Sound
<1>3. ASSUME NEW f \in found
      PROVE  /\ published[f].view.state \in 1 .. Len(history)
             /\ \A s \in Stages : /\ published[f].view.counted[s] \in Nat
                                  /\ published[f].view.counted[s] =< counts[s]
  BY <1>2, <1>3 DEF Sound, Views
<1>4. Max(states) \in states /\ \A x \in states : x =< Max(states)
  <2>1. states \in SUBSET Nat /\ states # {} /\ \A x \in states : x =< Len(history)
    BY <1>1, <1>3
  <2>2. QED
    BY <1>1, <2>1, MaxOf
<1>5. ASSUME NEW s \in Stages
      PROVE  Max(seen(s)) \in seen(s) /\ \A x \in seen(s) : x =< Max(seen(s))
  <2>1. counts[s] \in Nat /\ v.counted[s] \in Nat /\ v.counted[s] =< counts[s]
    BY <1>1 DEF Types, Sound, Views
  <2>2. /\ seen(s) \in SUBSET Nat /\ seen(s) # {}
        /\ \A x \in seen(s) : x =< counts[s]
    BY <1>3, <2>1, SMTT(30)
  <2> HIDE DEF seen
  <2>3. QED
    BY <2>1, <2>2, MaxOf
<1>6. w = [state |-> Max(states), counted |-> [s \in Stages |-> Max(seen(s))],
           published |-> v.published \cup found]
  BY DEF Got
<1>7. /\ w.state = Max(states) /\ w.published = v.published \cup found
      /\ w.counted = [s \in Stages |-> Max(seen(s))]
  BY <1>6
<1>8. \A x \in states : x \in 1 .. Len(history)
  BY <1>1, <1>3
<1>9. ASSUME NEW s \in Stages
      PROVE  \A x \in seen(s) : x \in Nat /\ x =< counts[s]
  BY <1>1, <1>3 DEF Sound, Views
<1>10. \A s \in Stages : w.counted[s] = Max(seen(s))
  BY <1>7
<1>11. \A s \in Stages : w.counted[s] \in Nat /\ w.counted[s] =< counts[s]
  BY <1>5, <1>9, <1>10
<1>12. \A s \in Stages : v.counted[s] =< w.counted[s]
  BY <1>5, <1>10
<1>13. ASSUME NEW f \in found
       PROVE  \A s \in Stages : published[f].view.counted[s] =< w.counted[s]
  BY <1>5, <1>10
<1>14. w.state \in 1 .. Len(history) /\ v.state =< w.state
  BY <1>4, <1>7, <1>8
<1>15. w.state = v.state \/ \E f \in found : w.state = published[f].view.state
  BY <1>4, <1>7
<1>16. w \in Views
  <2>1. Max(states) \in Nat
    <3>1. \A x \in states : x \in Nat
      <4> HIDE DEF states
      <4>1. QED
        BY <1>8
    <3> HIDE DEF states
    <3>2. QED
      BY <1>4, <3>1
  <2>2. [s \in Stages |-> Max(seen(s))] \in [Stages -> Nat]
    BY <1>10, <1>11
  <2>3. v.published \cup found \in SUBSET Stages
    BY <1>1 DEF Views
  <2> HIDE DEF states, seen
  <2>4. QED
    BY <1>6, <2>1, <2>2, <2>3 DEF Views
<1>17. \A s \in w.published : published[s] # None
  BY <1>7 DEF Sound
<1> HIDE DEF w, states, seen
<1>18. Within(v, w)
  BY <1>7, <1>12, <1>14 DEF Within
<1>19. Within(history[w.state].view, w)
  <2>1. CASE w.state = v.state
    BY <1>1, <1>16, <1>18, <2>1, WithinTransitive
  <2>2. CASE \E f \in found : w.state = published[f].view.state
    <3>1. PICK f \in found : w.state = published[f].view.state
      BY <2>2
    <3>2. /\ Within(history[w.state].view, published[f].view)
          /\ history[w.state].view.published = {}
          /\ history[w.state].view \in Views
          /\ history[w.state].view.state = w.state
      BY <1>2, <1>14, <3>1, HistoryEntry DEF Sound, ViewInv
    <3>3. ASSUME NEW s \in Stages
          PROVE  history[w.state].view.counted[s] =< w.counted[s]
      <4>1. /\ history[w.state].view.counted[s] \in Nat
            /\ published[f].view.counted[s] \in Nat /\ w.counted[s] \in Nat
        BY <1>3, <1>11, <3>2 DEF Views
      <4>2. /\ history[w.state].view.counted[s] =< published[f].view.counted[s]
            /\ published[f].view.counted[s] =< w.counted[s]
        BY <1>13, <3>2 DEF Within
      <4>3. QED
        BY <4>1, <4>2
    <3>4. QED
      BY <1>14, <3>2, <3>3 DEF Within
  <2>3. QED
    BY <1>15, <2>1, <2>2
<1>20. Sound(w)
  BY <1>11, <1>14, <1>16, <1>17, <1>19 DEF Sound
<1>21. QED
  BY <1>7, <1>18, <1>20 DEF w

-----------------------------------------------------------------------------
(* Soundness is stable.                                                    *)

\* A sound view stays sound when only counters grow and stages are published,
\* and when the history is extended.
LEMMA SoundStable ==
    ASSUME Types, NEW v, Sound(v),
           Len(history') \in Nat, Len(history) =< Len(history'),
           \A i \in 1 .. Len(history) : history'[i] = history[i],
           \A s \in Stages : counts'[s] \in Nat /\ counts[s] =< counts'[s],
           \A s \in Stages : published[s] # None => published'[s] # None
    PROVE  Sound(v)'
<1>1. v \in Views /\ v.state \in 1 .. Len(history) /\ Len(history) \in Nat
  BY DEF Sound, Types
<1>2. v.state \in 1 .. Len(history') /\ history'[v.state] = history[v.state]
  BY <1>1
<1>3. ASSUME NEW s \in Stages PROVE v.counted[s] =< counts'[s]
  <2>1. v.counted[s] \in Nat /\ counts[s] \in Nat /\ v.counted[s] =< counts[s]
    BY <1>1 DEF Views, Types, Sound
  <2>2. QED
    BY <2>1
<1>4. \A s \in v.published : published'[s] # None
  BY <1>1 DEF Sound, Views
<1>5. Within(history'[v.state].view, v)
  BY <1>2 DEF Sound
<1>6. QED
  BY <1>1, <1>2, <1>3, <1>4, <1>5 DEF Sound

\* A step of a thread that holds no claim, that changes neither the state nor
\* what is published: it may have learned something, and counted.
LEMMA QuietStep ==
    ASSUME Types, ViewInv, ClaimInv, ClaimsInv,
           UNCHANGED <<history, published, report, claims>>,
           counts' \in [Stages -> Nat], \A s \in Stages : counts[s] =< counts'[s],
           NEW t \in Threads, ~Claimant(t),
           NEW place \in {"idle", "claim", "report"},
           pc' = [pc EXCEPT ![t] = place],
           NEW v, Sound(v)',
           view' = [view EXCEPT ![t] = v],
           snapshot' \in [Threads -> Snapshots \cup {None}]
    PROVE  Types' /\ ViewInv' /\ ClaimInv' /\ ClaimsInv'
<1>1. v \in Views
  BY DEF Sound
<1>2. /\ view'[t] = v
      /\ \A u \in Threads : u # t => view'[u] = view[u]
      /\ view' \in [Threads -> Views]
  BY <1>1 DEF Types
<1>3. /\ pc' \in [Threads -> Places]
      /\ pc'[t] = place /\ \A u \in Threads : u # t => pc'[u] = pc[u]
  BY DEF Types, Places
<1>4. Types'
  BY <1>2, <1>3 DEF Types
<1>5. ASSUME NEW w, Sound(w) PROVE Sound(w)'
  <2>1. Len(history') \in Nat /\ Len(history) =< Len(history')
    BY DEF Types
  <2>2. \A i \in 1 .. Len(history) : history'[i] = history[i]
    OBVIOUS
  <2>3. \A s \in Stages : counts'[s] \in Nat /\ counts[s] =< counts'[s]
    OBVIOUS
  <2>4. \A s \in Stages : published[s] # None => published'[s] # None
    OBVIOUS
  <2>5. QED
    BY <1>5, <2>1, <2>2, <2>3, <2>4, SoundStable
<1>6. ViewInv'
  <2>1. \A i \in 1 .. Len(history) : Sound(history[i].view)'
    BY <1>5 DEF ViewInv
  <2>2. \A s \in Stages : published[s] # None => Sound(published[s].view)'
    BY <1>5 DEF ViewInv
  <2>3. ASSUME NEW u \in Threads PROVE Sound(view[u])'
    <3>1. CASE u = t
      BY <1>2, <3>1 DEF Sound
    <3>2. CASE u # t
      <4>1. Sound(view[u])
        BY DEF ViewInv
      <4>2. view'[u] = view[u]
        BY <1>2, <3>2
      <4>3. QED
        BY <4>1, <4>2, <1>5 DEF Sound
    <3>3. QED
      BY <3>1, <3>2
  <2>4. QED
    BY <2>1, <2>2, <2>3 DEF ViewInv, Sound
<1>7. \A u \in Threads : Claimant(u)' <=> Claimant(u)
  BY <1>3 DEF Claimant
<1>8. \A u \in Threads : Claimant(u) => view'[u] = view[u] /\ pc'[u] = pc[u] /\ u # t
  BY <1>2, <1>3
<1>9. ClaimInv'
  <2>1. pc[t] # "publish" /\ pc'[t] # "publish"
    BY <1>3 DEF Claimant
  <2>2. \A u \in Threads : pc'[u] = "publish" <=> pc[u] = "publish"
    BY <1>3, <2>1
  <2>3. \A u \in Threads : pc[u] = "publish" => view'[u] = view[u]
    BY <1>8 DEF Claimant
  <2>4. Latest' = Latest
    BY DEF Latest
  <2>5. QED
    BY <1>7, <1>8, <2>2, <2>3, <2>4 DEF ClaimInv
<1>10. ClaimsInv'
  BY <1>7, <1>8 DEF ClaimsInv, ClaimsAccumulate, Latest
<1>11. QED
  BY <1>4, <1>6, <1>9, <1>10

\* Whoever is informed knows the latest value of the state.
LEMMA InformedLatest ==
    ASSUME Types, ViewInv, NEW t \in Threads, Informed(t)
    PROVE  view[t].state = Len(history) /\ Latest.value = "Frozen"
<1>1. view[t].state \in 1 .. Len(history)
  BY DEF ViewInv, Sound
<1>2. QED
  BY <1>1 DEF ViewInv, Informed, Latest

\* Snapshots are unaffected by a step that learns and counts.
LEMMA SnapshotKept ==
    ASSUME Types, ViewInv, ViewInv', SnapshotInv,
           UNCHANGED <<history, published, snapshot>>,
           \A t \in Threads : Within(view[t], view'[t]),
           \A t \in Threads : pc'[t] = "report" <=> pc[t] = "report"
    PROVE  SnapshotInv'
<1>1. ASSUME NEW t \in Threads, pc[t] = "report" PROVE Informed(t)'
  <2>1. /\ view[t].state = Len(history) /\ Latest.value = "Frozen"
        /\ Len(history) \in Nat
    <3>1. Informed(t)
      BY <1>1 DEF SnapshotInv
    <3>2. QED
      BY <3>1, InformedLatest DEF Types
  <2>2. view'[t].state \in 1 .. Len(history)
    BY DEF ViewInv, Sound
  <2>3. view[t].state =< view'[t].state
    BY DEF Within
  <2>4. view'[t].state = Len(history)
    BY <2>1, <2>2, <2>3
  <2>5. QED
    BY <2>1, <2>4 DEF Informed, Latest
<1>2. Latest' = Latest
  BY DEF Latest
<1>3. QED
  BY <1>1, <1>2 DEF SnapshotInv

\* Before Frozen, nobody has seen it.
LEMMA NothingFrozen ==
    ASSUME Types, ViewInv, SnapshotInv, Latest.value # "Frozen"
    PROVE  \A t \in Threads :
             /\ pc[t] # "report"
             /\ snapshot[t] # None =>
                   /\ ~snapshot[t].informed
                   /\ snapshot[t].state # "Frozen"
                   /\ snapshot[t].report = None
BY InformedLatest DEF SnapshotInv

LEMMA StillNothingFrozen ==
    ASSUME Types, ViewInv, SnapshotInv, Latest.value # "Frozen",
           UNCHANGED snapshot, \A t \in Threads : pc'[t] # "report" \/ pc'[t] = pc[t]
    PROVE  SnapshotInv'
BY NothingFrozen DEF SnapshotInv

-----------------------------------------------------------------------------
(* The steps of threads that hold no claim.                                *)

\* The facts every action starts from.
LEMMA Standing ==
    ASSUME IInv
    PROVE  /\ Types /\ ViewInv /\ ClaimInv /\ ClaimsInv /\ SnapshotInv /\ dropped = FALSE
           /\ Len(history) \in Nat \ {0}
           /\ pc \in [Threads -> Places] /\ view \in [Threads -> Views]
           /\ counts \in [Stages -> Nat] /\ snapshot \in [Threads -> Snapshots \cup {None}]
           /\ \A s \in Stages : counts[s] =< counts[s]
           /\ \A t \in Threads : Within(view[t], view[t]) /\ Sound(view[t])
<1>1. /\ Len(history) \in Nat \ {0} /\ view \in [Threads -> Views]
      /\ pc \in [Threads -> Places] /\ counts \in [Stages -> Nat]
      /\ snapshot \in [Threads -> Snapshots \cup {None}]
  BY DEF IInv, Types
<1>2. \A t \in Threads : Within(view[t], view[t])
  BY <1>1 DEF Within, Views
<1>3. \A s \in Stages : counts[s] =< counts[s]
  BY <1>1
<1>4. \A t \in Threads : Sound(view[t])
  BY DEF IInv, ViewInv
<1>5. QED
  BY <1>1, <1>2, <1>3, <1>4 DEF IInv

\* A quiet step of t that leaves snapshots alone.
LEMMA QuietInv ==
    ASSUME IInv, UNCHANGED <<history, published, report, claims, snapshot, dropped>>,
           counts' \in [Stages -> Nat], \A s \in Stages : counts[s] =< counts'[s],
           NEW t \in Threads, ~Claimant(t), pc[t] # "report",
           NEW place \in {"idle", "claim"}, pc' = [pc EXCEPT ![t] = place],
           NEW v, Sound(v)', Within(view[t], v), view' = [view EXCEPT ![t] = v]
    PROVE  IInv'
<1>1. Types' /\ ViewInv' /\ ClaimInv' /\ ClaimsInv'
  BY Standing, QuietStep
<1>2. \A u \in Threads : Within(view[u], view'[u])
  BY Standing
<1>3. \A u \in Threads : pc'[u] = "report" <=> pc[u] = "report"
  BY Standing
<1>4. SnapshotInv'
  BY <1>1, <1>2, <1>3, Standing, SnapshotKept
<1>5. QED
  BY <1>1, <1>4 DEF IInv

\* What is sound before a step that only counts is sound after it.
LEMMA SoundCounting ==
    ASSUME Types, UNCHANGED <<history, published>>,
           counts' \in [Stages -> Nat], \A s \in Stages : counts[s] =< counts'[s],
           NEW v, Sound(v)
    PROVE  Sound(v)'
<1>1. Len(history') \in Nat /\ Len(history) =< Len(history')
  BY DEF Types
<1>2. \A i \in 1 .. Len(history) : history'[i] = history[i]
  OBVIOUS
<1>3. QED
  BY <1>1, <1>2, SoundStable

LEMMA StartStep ==
    ASSUME IInv, NEW t \in Threads, Start(t)
    PROVE  IInv'
<1>1. PICK i \in Loadable(t) : view' = [view EXCEPT ![t] = Acquired(t, i)]
  BY DEF Start, Knows
<1>2. /\ pc[t] = "idle" /\ ~Claimant(t)
      /\ UNCHANGED <<shared, pc, report, snapshot, claims, dropped>>
      /\ pc' = [pc EXCEPT ![t] = "idle"]
  BY Standing DEF Start, Claimant
<1>3. Sound(Acquired(t, i)) /\ Within(view[t], Acquired(t, i))
  BY Standing, AcquiredSound
<1> DEFINE v == Acquired(t, i)
<1>4. \A w : Sound(w) => Sound(w)'
  BY <1>2, Standing, SoundCounting DEF shared
<1>5. PICK w : w = v
  OBVIOUS
<1> HIDE DEF v
<1>6. QED
  BY <1>1, <1>2, <1>3, <1>4, <1>5, Standing, QuietInv DEF v, shared

\* Whoever has loaded Frozen knows of every stage.
LEMMA FrozenKnown ==
    ASSUME IInv, NEW t \in Threads, NEW i \in Loadable(t), history[i].value = "Frozen"
    PROVE  /\ Latest.value = "Frozen" /\ i = Len(history)
           /\ Stages \subseteq Acquired(t, i).published
<1>1. i \in 1 .. Len(history) /\ Within(history[i].view, Acquired(t, i))
  BY Standing, AcquiredSound
<1>2. i = Len(history)
  BY <1>1, Standing DEF ViewInv
<1>3. Latest.value = "Frozen" /\ Stages \subseteq Latest.view.published
  BY <1>2, Standing DEF Latest, ClaimInv
<1>4. QED
  BY <1>1, <1>2, <1>3 DEF Within, Latest

LEMMA MarkStep ==
    ASSUME IInv, NEW t \in Threads, NEW s \in Stages, Mark(t, s)
    PROVE  IInv'
<1>1. PICK i \in Loadable(t) :
        \/ history[i].value = "Collecting" /\ Collect(t, s, Acquired(t, i))
        \/ history[i].value = "Frozen" /\ Classify(t, s, Acquired(t, i))
        \/ Knows(t, Acquired(t, i)) /\ UNCHANGED <<counts, dropped>>
  BY DEF Mark
<1>2. /\ pc[t] = "idle" /\ ~Claimant(t)
      /\ UNCHANGED <<history, published, pc, report, snapshot, claims>>
      /\ pc' = [pc EXCEPT ![t] = "idle"]
  BY Standing DEF Mark, Claimant
<1>3. PICK v : v = Acquired(t, i)
  OBVIOUS
<1>4. Sound(v) /\ Within(view[t], v) /\ v \in Views
  BY <1>3, Standing, AcquiredSound DEF Sound
<1>5. CASE Collect(t, s, v)
  <2>1. /\ counts' = [counts EXCEPT ![s] = @ + 1]
        /\ view' = [view EXCEPT ![t] = [v EXCEPT !.counted[s] = counts[s] + 1]]
        /\ dropped' = dropped
    BY <1>5 DEF Collect, Knows
  <2>2. /\ counts' \in [Stages -> Nat]
        /\ \A p \in Stages : counts[p] =< counts'[p]
        /\ counts'[s] = counts[s] + 1
    BY <2>1, Standing
  <2>3. PICK w : w = [v EXCEPT !.counted[s] = counts[s] + 1]
    OBVIOUS
  <2>4. /\ w \in Views /\ w.state = v.state /\ w.published = v.published
        /\ w.counted[s] = counts[s] + 1
        /\ \A p \in Stages : p # s => w.counted[p] = v.counted[p]
    <3>1. v.counted \in [Stages -> Nat] /\ counts[s] + 1 \in Nat
      BY <1>4, Standing DEF Views
    <3>2. [v.counted EXCEPT ![s] = counts[s] + 1] \in [Stages -> Nat]
      BY <3>1
    <3>3. w = [v EXCEPT !.counted = [v.counted EXCEPT ![s] = counts[s] + 1]]
      BY <1>4, <2>3 DEF Views
    <3>4. /\ w.counted = [v.counted EXCEPT ![s] = counts[s] + 1]
          /\ w.state = v.state /\ w.published = v.published /\ w \in Views
      BY <1>4, <3>2, <3>3 DEF Views
    <3>5. QED
      BY <3>1, <3>4
  <2>5. Sound(v)'
    BY <1>2, <1>4, <2>2, Standing, SoundCounting
  <2>6. \A p \in Stages : v.counted[p] \in Nat /\ counts[p] \in Nat
                          /\ v.counted[p] =< counts[p]
    BY <1>4, Standing DEF Views, Sound
  <2>7. Within(v, w)
    <3>1. \A p \in Stages : v.counted[p] =< w.counted[p]
      BY <2>4, <2>6
    <3>2. v.state \in Nat
      BY <1>4 DEF Views
    <3>3. QED
      BY <2>4, <3>1, <3>2 DEF Within
  <2>8. Sound(w)'
    <3>1. \A p \in Stages : w.counted[p] =< counts'[p]
      BY <2>2, <2>4, <2>5 DEF Sound
    <3>2. Within(history'[w.state].view, w)
      <4>1. history'[v.state].view \in Views
        BY <1>2, <1>4, HistoryEntry, Standing DEF Sound
      <4>2. QED
        BY <1>4, <2>4, <2>5, <2>7, <4>1, WithinTransitive DEF Sound
    <3>3. QED
      BY <2>4, <2>5, <3>1, <3>2 DEF Sound
  <2>9. Within(view[t], w)
    BY <1>4, <2>4, <2>7, Standing, WithinTransitive
  <2>10. QED
    BY <1>2, <2>1, <2>2, <2>3, <2>8, <2>9, Standing, QuietInv
<1>6. CASE history[i].value = "Frozen" /\ Classify(t, s, v)
  <2>1. PICK found \in Gets(v) :
            LET own == IF s \in found THEN {s} ELSE {}
            IN  /\ Knows(t, Got(v, own))
                /\ dropped' = (dropped \/ own = {})
    BY <1>6 DEF Classify
  <2>2. s \in found
    BY <1>3, <1>6, FrozenKnown DEF Gets
  <2>3. /\ view' = [view EXCEPT ![t] = Got(v, {s})]
        /\ dropped' = dropped /\ counts' = counts
    <3>1. /\ Knows(t, Got(v, {s})) /\ dropped' = (dropped \/ {s} = {})
      BY <2>1, <2>2
    <3>2. counts' = counts
      BY <1>6 DEF Classify
    <3>3. {s} # {} /\ dropped = FALSE
      BY Standing
    <3>4. QED
      BY <3>1, <3>2, <3>3 DEF Knows
  <2>4. {s} \in SUBSET {p \in Stages : published[p] # None}
    BY <2>2 DEF Gets
  <2>5. PICK w : w = Got(v, {s})
    OBVIOUS
  <2>6. Sound(w) /\ Within(v, w) /\ w \in Views
    BY <1>4, <2>4, <2>5, GotSound, Standing DEF Sound
  <2>7. Sound(w)' /\ Within(view[t], w)
    BY <1>2, <1>4, <2>3, <2>6, Standing, SoundCounting, WithinTransitive
  <2>8. QED
    BY <1>2, <2>3, <2>5, <2>7, Standing, QuietInv
<1>7. CASE Knows(t, v) /\ UNCHANGED <<counts, dropped>>
  <2>1. Sound(v)'
    BY <1>2, <1>4, <1>7, Standing, SoundCounting
  <2>2. QED
    BY <1>2, <1>4, <1>7, <2>1, Standing, QuietInv DEF Knows
<1>8. QED
  BY <1>1, <1>3, <1>5, <1>6, <1>7

LEMMA HandOverStep ==
    ASSUME IInv, NEW t \in Threads, NEW u \in Threads, HandOver(t, u)
    PROVE  IInv'
<1>1. /\ pc[u] = "idle" /\ ~Claimant(u)
      /\ UNCHANGED <<shared, pc, report, snapshot, claims, dropped>>
      /\ pc' = [pc EXCEPT ![u] = "idle"]
      /\ view' = [view EXCEPT ![u] = Join(view[u], view[t])]
  BY Standing DEF HandOver, Claimant
<1>2. PICK v : v = Join(view[u], view[t])
  OBVIOUS
<1>3. Sound(v) /\ Within(view[u], v)
  BY <1>2, Standing, SoundJoin
<1>4. Sound(v)'
  BY <1>1, <1>3, Standing, SoundCounting DEF shared
<1>5. QED
  BY <1>1, <1>2, <1>3, <1>4, Standing, QuietInv DEF shared

LEMMA EnterStep ==
    ASSUME IInv, NEW t \in Threads, Enter(t)
    PROVE  IInv'
<1>1. /\ pc[t] = "idle" /\ ~Claimant(t)
      /\ UNCHANGED <<shared, report, snapshot, claims, dropped>>
  BY DEF Enter, Claimant
<1>2. PICK i \in Loadable(t) :
          LET v == Acquired(t, i)
          IN  IF history[i].value # "Collecting"
              THEN Knows(t, v) /\ UNCHANGED pc
              ELSE \E scan \in Scans(v) :
                      /\ Knows(t, Scanned(v, scan))
                      /\ Move(t, IF Ready(scan) THEN "claim" ELSE "idle")
  BY DEF Enter
<1>3. PICK v : v = Acquired(t, i)
  OBVIOUS
<1>4. Sound(v) /\ Within(view[t], v) /\ v \in Views
  BY <1>3, Standing, AcquiredSound DEF Sound
<1>5. CASE history[i].value # "Collecting"
  <2>1. /\ view' = [view EXCEPT ![t] = v]
        /\ pc' = [pc EXCEPT ![t] = "idle"]
    BY <1>1, <1>2, <1>3, <1>5, Standing DEF Knows
  <2>2. Sound(v)'
    BY <1>1, <1>4, Standing, SoundCounting DEF shared
  <2>3. QED
    BY <1>1, <1>4, <2>1, <2>2, Standing, QuietInv DEF shared
<1>6. CASE history[i].value = "Collecting"
  <2>1. PICK scan \in Scans(v) :
            /\ Knows(t, Scanned(v, scan))
            /\ Move(t, IF Ready(scan) THEN "claim" ELSE "idle")
    BY <1>2, <1>3, <1>6
  <2>2. PICK w : w = Scanned(v, scan)
    OBVIOUS
  <2>3. Sound(w) /\ Within(v, w) /\ w \in Views
    BY <1>4, <2>2, Standing, ScannedSound DEF Sound
  <2>4. Sound(w)' /\ Within(view[t], w)
    BY <1>1, <1>4, <2>3, Standing, SoundCounting, WithinTransitive DEF shared
  <2>5. PICK place \in {"idle", "claim"} : pc' = [pc EXCEPT ![t] = place]
    BY <2>1 DEF Move
  <2>6. view' = [view EXCEPT ![t] = w]
    BY <2>1, <2>2 DEF Knows
  <2>7. QED
    BY <1>1, <2>4, <2>5, <2>6, Standing, QuietInv DEF shared
<1>7. QED
  BY <1>5, <1>6

LEMMA ClaimFailsStep ==
    ASSUME IInv, NEW t \in Threads, Claim(t), ClaimFails(t)
    PROVE  IInv'
<1>1. /\ pc[t] = "claim" /\ ~Claimant(t)
      /\ UNCHANGED <<history, counts, published, report, snapshot, claims, dropped>>
      /\ pc' = [pc EXCEPT ![t] = "idle"]
  BY DEF Claim, ClaimFails, Claimant, Move
<1>2. PICK i \in Loadable(t) : view' = [view EXCEPT ![t] = Acquired(t, i)]
  BY DEF ClaimFails, Knows
<1>3. PICK v : v = Acquired(t, i)
  OBVIOUS
<1>4. Sound(v) /\ Within(view[t], v)
  BY <1>3, Standing, AcquiredSound
<1>5. Sound(v)'
  BY <1>1, <1>4, Standing, SoundCounting
<1>6. QED
  BY <1>1, <1>2, <1>3, <1>4, <1>5, Standing, QuietInv

\* The scan of a snapshot counts at least what its thread knew, and with it
\* what was released with Frozen if the thread knew of that.
LEMMA ScanSnapshotStep ==
    ASSUME IInv, NEW t \in Threads, Scan(t)
    PROVE  IInv'
<1>1. PICK i \in Loadable(t), scan \in Scans(view[t]) :
          /\ Knows(t, Join(Scanned(view[t], scan), Acquired(t, i)))
          /\ snapshot' = [snapshot EXCEPT ![t] =
                            [counted |-> scan, state |-> history[i].value,
                             report |-> None, informed |-> Informed(t)]]
          /\ Move(t, IF history[i].value = "Frozen" THEN "report" ELSE "idle")
  BY DEF Scan
<1>2. /\ pc[t] = "idle" /\ ~Claimant(t)
      /\ UNCHANGED <<shared, report, claims, dropped>>
  BY DEF Scan, Claimant
<1>3. PICK a : a = Acquired(t, i)
  OBVIOUS
<1>4. PICK w : w = Join(Scanned(view[t], scan), a)
  OBVIOUS
<1>5. /\ Sound(a) /\ a \in Views /\ a.state = i /\ i \in 1 .. Len(history)
      /\ Within(view[t], a)
  BY <1>3, Standing, AcquiredSound DEF Sound
<1>6. /\ Sound(Scanned(view[t], scan)) /\ scan \in [Stages -> Nat]
      /\ \A s \in Stages : view[t].counted[s] =< scan[s]
  BY Standing, ScannedSound
<1>7. Sound(w) /\ Within(a, w) /\ w \in Views
  BY <1>4, <1>5, <1>6, Standing, SoundJoin DEF Sound
<1>8. Within(view[t], w)
  BY <1>5, <1>7, Standing, WithinTransitive
<1>9. Sound(w)'
  BY <1>2, <1>7, Standing, SoundCounting DEF shared
<1> DEFINE taken == [counted |-> scan, state |-> history[i].value,
                     report |-> None, informed |-> Informed(t)]
<1>10. taken \in Snapshots
  <2>1. history[i].value \in StateValues
    BY <1>5, Standing, HistoryEntry
  <2>2. Informed(t) \in BOOLEAN
    BY DEF Informed
  <2>3. QED
    BY <1>6, <2>1, <2>2 DEF Snapshots
<1>11. /\ taken.counted = scan /\ taken.state = history[i].value
       /\ taken.report = None /\ taken.informed = Informed(t)
  OBVIOUS
<1> HIDE DEF taken
<1>12. /\ snapshot' = [snapshot EXCEPT ![t] = taken]
       /\ view' = [view EXCEPT ![t] = w]
  BY <1>1, <1>3, <1>4 DEF Knows, taken
<1>13. /\ snapshot' \in [Threads -> Snapshots \cup {None}]
       /\ snapshot'[t] = taken
       /\ \A u \in Threads : u # t => snapshot'[u] = snapshot[u]
  BY <1>10, <1>12, Standing
<1>14. PICK place \in {"idle", "report"} :
          /\ pc' = [pc EXCEPT ![t] = place]
          /\ place = "report" <=> history[i].value = "Frozen"
  BY <1>1 DEF Move
<1>15. Types' /\ ViewInv' /\ ClaimInv' /\ ClaimsInv'
  BY <1>2, <1>9, <1>12, <1>13, <1>14, Standing, QuietStep DEF shared
<1>16. /\ view'[t] = w /\ pc'[t] = place
       /\ \A u \in Threads : u # t => view'[u] = view[u] /\ pc'[u] = pc[u]
  BY <1>12, <1>14, Standing
<1>17. SnapshotInv'
  <2>1. place = "report" => Informed(t)'
    <3>1. SUFFICES ASSUME history[i].value = "Frozen"
                   PROVE  history[w.state].value = "Frozen"
      BY <1>2, <1>14, <1>16 DEF Informed, shared
    <3>2. i = Len(history)
      BY <1>5, <3>1, Standing DEF ViewInv
    <3>3. w.state \in 1 .. Len(history) /\ a.state =< w.state
      BY <1>7 DEF Sound, Within
    <3>4. w.state = i
      BY <1>5, <3>2, <3>3, Standing
    <3>5. QED
      BY <3>1, <3>4
  <2>2. Informed(t) =>
          /\ Latest.value = "Frozen"
          /\ \A s \in Stages : Latest.view.counted[s] =< scan[s]
    <3> SUFFICES ASSUME Informed(t), NEW s \in Stages
                 PROVE  /\ Latest.value = "Frozen"
                        /\ Latest.view.counted[s] =< scan[s]
      <4>1. Informed(t) => Latest.value = "Frozen"
        BY Standing, InformedLatest
      <4>2. QED
        BY <4>1
    <3>1. view[t].state = Len(history) /\ Latest.value = "Frozen"
      BY Standing, InformedLatest
    <3>2. Within(Latest.view, view[t]) /\ Latest.view \in Views
      BY <3>1, Standing, HistoryEntry DEF Sound, Latest
    <3>3. /\ Latest.view.counted[s] \in Nat /\ view[t].counted[s] \in Nat
          /\ scan[s] \in Nat
      BY <1>6, <3>2, Standing DEF Views
    <3>4. Latest.view.counted[s] =< view[t].counted[s]
      BY <3>2 DEF Within
    <3>5. QED
      BY <1>6, <3>1, <3>3, <3>4
  <2>3. Latest' = Latest /\ published' = published
    BY <1>2 DEF Latest, shared
  <2>4. ASSUME NEW u \in Threads, u # t
        PROVE  Informed(u)' <=> Informed(u)
    BY <1>2, <1>16, <2>4 DEF Informed, shared
  <2>5. QED
    BY <1>10, <1>11, <1>13, <1>14, <1>16, <2>1, <2>2, <2>3, <2>4, Standing
       DEF SnapshotInv
<1>18. QED
  BY <1>2, <1>15, <1>17, Standing DEF IInv

LEMMA ReadReportStep ==
    ASSUME IInv, NEW t \in Threads, ReadReport(t)
    PROVE  IInv'
<1>1. /\ pc[t] = "report" /\ ~Claimant(t)
      /\ UNCHANGED <<shared, report, claims, dropped>>
      /\ pc' = [pc EXCEPT ![t] = "idle"]
  BY DEF ReadReport, Claimant, Move
<1>2. Informed(t) /\ snapshot[t] \in Snapshots
  BY <1>1, Standing DEF SnapshotInv
<1>3. PICK i \in Loadable(t) :
          LET v == Acquired(t, i)
          IN  IF history[i].value # "Frozen"
              THEN Knows(t, v) /\ UNCHANGED snapshot
              ELSE \E found \in Gets(v) :
                     /\ Knows(t, Got(v, found))
                     /\ snapshot' =
                          [snapshot EXCEPT ![t].report =
                             [s \in found |-> published[s].samples]]
  BY DEF ReadReport
<1>4. PICK v : v = Acquired(t, i)
  OBVIOUS
<1>5. Sound(v) /\ Within(view[t], v) /\ v \in Views
  BY <1>4, Standing, AcquiredSound DEF Sound
<1>6. history[i].value = "Frozen"
  <2>1. view[t].state = Len(history) /\ Latest.value = "Frozen"
    BY <1>2, Standing, InformedLatest
  <2>2. i = Len(history)
    BY <2>1, Standing DEF Loadable
  <2>3. QED
    BY <2>1, <2>2 DEF Latest
<1>7. PICK found \in Gets(v) :
          /\ view' = [view EXCEPT ![t] = Got(v, found)]
          /\ snapshot' = [snapshot EXCEPT ![t].report =
                             [s \in found |-> published[s].samples]]
  BY <1>3, <1>4, <1>6 DEF Knows
<1>8. found = Stages /\ Latest.value = "Frozen"
  BY <1>4, <1>6, FrozenKnown DEF Gets
<1> DEFINE samples == [s \in Stages |-> published[s].samples]
<1>9. samples \in [Stages -> Nat]
  <2>1. \A s \in Stages : published[s] \in Publications
    BY <1>8, Standing DEF ClaimInv, Types
  <2>2. QED
    BY <2>1 DEF Publications
<1> HIDE DEF samples
<1>10. PICK w : w = Got(v, found)
  OBVIOUS
<1>11. Sound(w) /\ Within(v, w) /\ w \in Views
  BY <1>5, <1>10, Standing, GotSound DEF Gets, Sound
<1>12. Sound(w)' /\ Within(view[t], w)
  BY <1>1, <1>5, <1>11, Standing, SoundCounting, WithinTransitive DEF shared
<1>13. /\ snapshot' = [snapshot EXCEPT ![t] = [@ EXCEPT !.report = samples]]
       /\ view' = [view EXCEPT ![t] = w]
  BY <1>7, <1>8, <1>10 DEF samples
<1>14. /\ snapshot'[t] = [snapshot[t] EXCEPT !.report = samples]
       /\ \A u \in Threads : u # t => snapshot'[u] = snapshot[u]
  BY <1>13, Standing
<1>15. /\ snapshot'[t] \in Snapshots
       /\ snapshot'[t].report = samples
       /\ snapshot'[t].counted = snapshot[t].counted
       /\ snapshot'[t].informed = snapshot[t].informed
       /\ snapshot'[t].state = snapshot[t].state
  BY <1>2, <1>9, <1>14 DEF Snapshots
<1>16. snapshot' \in [Threads -> Snapshots \cup {None}]
  BY <1>13, <1>14, <1>15, Standing
<1>17. Types' /\ ViewInv' /\ ClaimInv' /\ ClaimsInv'
  BY <1>1, <1>12, <1>13, <1>16, Standing, QuietStep DEF shared
<1>18. /\ pc'[t] = "idle"
       /\ \A u \in Threads : u # t => view'[u] = view[u] /\ pc'[u] = pc[u]
  BY <1>1, <1>13, Standing
<1>19. SnapshotInv'
  <2>1. Latest' = Latest /\ published' = published /\ samples' = samples
    BY <1>1 DEF Latest, shared, samples
  <2>2. ASSUME NEW u \in Threads, u # t
        PROVE  Informed(u)' <=> Informed(u)
    BY <1>1, <1>18, <2>2 DEF Informed, shared
  <2>3. samples # None
    BY <1>9, NoneAssumption
  <2>4. snapshot[t] # None =>
          /\ snapshot[t].informed =>
                \A s \in Stages : Latest.view.counted[s] =< snapshot[t].counted[s]
    BY Standing DEF SnapshotInv
  <2>5. snapshot[t] # None
    BY <1>1, <1>2, NoneAssumption
  <2>6. ASSUME NEW u \in Threads, u # t
        PROVE  /\ snapshot'[u] = snapshot[u] /\ pc'[u] = pc[u]
               /\ Informed(u)' <=> Informed(u)
    BY <1>14, <1>18, <2>2, <2>6
  <2>7. /\ pc'[t] # "report" /\ snapshot'[t].report = samples
        /\ snapshot'[t].informed =>
              \A s \in Stages : Latest.view.counted[s] =< snapshot'[t].counted[s]
    BY <1>15, <1>18, <2>4, <2>5
  <2>8. SnapshotInv
    BY Standing
  <2>9. samples = [s \in Stages |-> published[s].samples]
    BY DEF samples
  <2>10. QED
    BY <1>8, <2>1, <2>3, <2>6, <2>7, <2>8, <2>9 DEF SnapshotInv
<1>20. QED
  BY <1>1, <1>17, <1>19, Standing DEF IInv

-----------------------------------------------------------------------------
(* The steps of a claim.                                                   *)

LEMMA SoleClaimant ==
    ASSUME IInv, NEW t \in Threads, Claimant(t)
    PROVE  /\ Latest.value = "Freezing" /\ view[t].state = Len(history)
           /\ \A u \in Threads : u # t => ~Claimant(u)
           /\ pc[t] # "publish" => \A s \in Stages : published[s] = None
<1>1. ClaimInv
  BY Standing
<1>2. Latest.value = "Freezing" /\ view[t].state = Len(history)
  BY <1>1 DEF ClaimInv
<1>3. \A u \in Threads : u # t => ~Claimant(u)
  BY <1>1 DEF ClaimInv
<1>4. pc[t] # "publish" => \A u \in Threads : pc[u] # "publish"
  BY <1>3 DEF Claimant
<1>5. QED
  BY <1>1, <1>2, <1>3, <1>4 DEF ClaimInv

\* Knowing a value of the state, a thread knows as much of the rest.
LEMMA KnowingFacts ==
    ASSUME NEW v \in Views, NEW w, w = Knowing(v)
    PROVE  w.counted = v.counted /\ w.published = v.published
BY DEF Knowing, Views

\* A store of the state by t, which releases what t knows.
LEMMA StoreStep ==
    ASSUME Types, ViewInv, Latest.value # "Frozen", UNCHANGED <<counts, published>>,
           NEW t \in Threads, NEW value \in StateValues, NEW v, Sound(v),
           value # "Frozen" => v.published = {},
           NEW w, w = Knowing(v),
           history' = Append(history, [value |-> value, view |-> w]),
           view' = [view EXCEPT ![t] = w]
    PROVE  /\ w \in Views /\ w.counted = v.counted /\ w.published = v.published
           /\ w.state = Len(history)' /\ history' \in Seq(Entries) /\ Len(history') > 0
           /\ Latest'.value = value /\ Latest'.view = w
           /\ view' \in [Threads -> Views] /\ view'[t] = w
           /\ \A u \in Threads : u # t => view'[u] = view[u]
           /\ ViewInv'
<1> DEFINE entry == [value |-> value, view |-> w]
<1>1. Len(history) \in Nat \ {0} /\ history \in Seq(Entries)
  BY DEF Types
<1>2. v \in Views
  BY DEF Sound
<1>3. /\ w \in Views /\ w.state = Len(history) + 1
      /\ w.counted = v.counted /\ w.published = v.published
  <2>1. Len(history) + 1 \in Nat
    BY <1>1
  <2>2. w = [v EXCEPT !.state = Len(history) + 1]
    BY DEF Knowing
  <2>3. QED
    BY <1>2, <2>1, <2>2 DEF Views
<1>4. entry \in Entries /\ entry.value = value /\ entry.view = w
  BY <1>3 DEF Entries
<1> HIDE DEF entry
<1>5. history' = Append(history, entry)
  BY DEF entry
<1>6. /\ history' \in Seq(Entries) /\ Len(history') = Len(history) + 1
      /\ \A i \in 1 .. Len(history) : history'[i] = history[i]
      /\ history'[Len(history) + 1] = entry
  BY <1>1, <1>4, <1>5
<1>7. Latest'.value = value /\ Latest'.view = w
  BY <1>4, <1>6 DEF Latest
<1>8. /\ view' \in [Threads -> Views] /\ view'[t] = w
      /\ \A u \in Threads : u # t => view'[u] = view[u]
  BY <1>3 DEF Types
<1>9. ASSUME NEW x, Sound(x) PROVE Sound(x)'
  <2>1. Len(history') \in Nat /\ Len(history) =< Len(history')
    BY <1>1, <1>6
  <2>2. \A s \in Stages : counts'[s] \in Nat /\ counts[s] =< counts'[s]
    BY DEF Types
  <2>3. \A s \in Stages : published[s] # None => published'[s] # None
    OBVIOUS
  <2>4. QED
    BY <1>6, <1>9, <2>1, <2>2, <2>3, SoundStable
<1>10. Sound(w)'
  <2>1. Within(history'[w.state].view, w)
    BY <1>3, <1>4, <1>6 DEF Within, Views
  <2>2. w.state \in 1 .. Len(history')
    BY <1>1, <1>3, <1>6
  <2>3. Sound(v)'
    BY <1>9
  <2>4. QED
    BY <1>3, <2>1, <2>2, <2>3 DEF Sound
<1>11. ViewInv'
  <2>1. ASSUME NEW i \in 1 .. Len(history')
        PROVE  /\ Sound(history[i].view)'
               /\ history'[i].view.state = i
               /\ history'[i].value = "Frozen" => i = Len(history')
               /\ history'[i].value # "Frozen" => history'[i].view.published = {}
    <3>1. CASE i = Len(history) + 1
      BY <1>3, <1>4, <1>6, <1>10, <3>1 DEF Sound
    <3>2. CASE i # Len(history) + 1
      <4>1. i \in 1 .. Len(history) /\ history'[i] = history[i]
        BY <1>1, <1>6, <3>2
      <4>2. Sound(history[i].view)
        BY <4>1 DEF ViewInv
      <4>3. Sound(history[i].view)'
        <5>1. PICK x : x = history[i].view
          OBVIOUS
        <5>2. Sound(x)'
          BY <1>9, <4>2, <5>1
        <5>3. QED
          BY <4>1, <5>1, <5>2 DEF Sound
      <4>4. history[i].value # "Frozen"
        BY <4>1 DEF ViewInv, Latest
      <4>5. QED
        BY <4>1, <4>3, <4>4 DEF ViewInv
    <3>3. QED
      BY <3>1, <3>2
  <2>2. ASSUME NEW u \in Threads PROVE Sound(view[u])'
    <3>1. CASE u = t
      BY <1>8, <1>10, <3>1 DEF Sound
    <3>2. CASE u # t
      <4>1. PICK x : x = view[u]
        OBVIOUS
      <4>2. Sound(x)'
        BY <1>9, <4>1, SMTT(30) DEF ViewInv
      <4>3. QED
        BY <1>8, <3>2, <4>1, <4>2 DEF Sound
    <3>3. QED
      BY <3>1, <3>2
  <2>3. ASSUME NEW s \in Stages, published[s] # None
        PROVE  /\ Sound(published[s].view)'
               /\ history'[published[s].view.state].value # "Frozen"
    <3>1. /\ Sound(published[s].view)
          /\ history[published[s].view.state].value # "Frozen"
      BY <2>3 DEF ViewInv
    <3>2. PICK x : x = published[s].view
      OBVIOUS
    <3>3. Sound(x)' /\ x.state \in 1 .. Len(history)
      BY <1>9, <3>1, <3>2 DEF Sound
    <3>4. QED
      BY <1>6, <3>1, <3>2, <3>3 DEF Sound
  <2>4. QED
    BY <2>1, <2>2, <2>3 DEF ViewInv
<1>12. QED
  BY <1>1, <1>3, <1>6, <1>7, <1>8, <1>11

LEMMA ClaimSucceedsStep ==
    ASSUME IInv, NEW t \in Threads, Claim(t), ClaimSucceeds(t)
    PROVE  IInv'
<1>1. /\ Latest.value = "Collecting" /\ pc[t] = "claim"
      /\ UNCHANGED <<counts, published, report, snapshot, claims, dropped>>
      /\ pc' = [pc EXCEPT ![t] = "rescan"]
  BY DEF Claim, ClaimSucceeds, Move
<1>2. Len(history) \in Loadable(t)
  BY Standing DEF Loadable, Sound
<1>3. PICK v : v = Acquired(t, Len(history))
  OBVIOUS
<1>4. Sound(v) /\ Within(Latest.view, v) /\ v \in Views
  BY <1>2, <1>3, Standing, AcquiredSound DEF Sound, Latest
<1>5. PICK w : w = Knowing(v)
  OBVIOUS
<1>6. /\ history' = Append(history, [value |-> "Freezing", view |-> w])
      /\ view' = [view EXCEPT ![t] = w]
  BY <1>3, <1>5 DEF ClaimSucceeds, Knows
<1>7. /\ \A u \in Threads : ~Claimant(u)
      /\ \A s \in Stages : published[s] = None
  <2>1. \A u \in Threads : ~Claimant(u)
    BY <1>1, SoleClaimant
  <2>2. \A u \in Threads : pc[u] # "publish"
    BY <2>1 DEF Claimant
  <2>3. QED
    BY <1>1, <2>1, <2>2, Standing DEF ClaimInv
<1>8. v.published = {}
  BY <1>4, <1>7 DEF Sound, Views
<1>9. /\ w \in Views /\ w.counted = v.counted
      /\ w.state = Len(history)' /\ history' \in Seq(Entries) /\ Len(history') > 0
      /\ Latest'.value = "Freezing"
      /\ view' \in [Threads -> Views] /\ view'[t] = w
      /\ ViewInv'
  <2>1. Types /\ ViewInv /\ Latest.value # "Frozen"
    BY <1>1, Standing
  <2>2. "Freezing" \in StateValues
    BY DEF StateValues
  <2>3. UNCHANGED <<counts, published>>
    BY <1>1
  <2>4. "Freezing" # "Frozen" => v.published = {}
    BY <1>8
  <2>5. w = Knowing(v) /\ Sound(v)
    BY <1>4, <1>5
  <2>6. ViewInv'
    BY <1>6, <2>1, <2>2, <2>3, <2>4, <2>5, StoreStep
  <2>7. w.counted = v.counted /\ w.published = v.published
    BY <2>5, KnowingFacts DEF Sound
  <2>8. QED
    BY <1>6, <2>1, <2>2, <2>3, <2>4, <2>5, <2>6, <2>7, StoreStep, ZenonT(60)
<1>10. /\ pc' \in [Threads -> Places] /\ pc'[t] = "rescan"
       /\ \A u \in Threads : u # t => pc'[u] = pc[u]
  BY <1>1, Standing DEF Places
<1>11. Types'
  BY <1>1, <1>9, <1>10, Standing DEF Types
<1>12. \A u \in Threads : Claimant(u)' <=> u = t
  BY <1>7, <1>10 DEF Claimant
<1>13. ClaimInv'
  <2>1. \A u \in Threads : pc'[u] # "publish"
    BY <1>7, <1>10 DEF Claimant
  <2>2. QED
    BY <1>1, <1>7, <1>9, <1>12, <2>1 DEF ClaimInv
<1>14. ClaimsInv'
  <2>1. ASSUME NEW k \in 1 .. Len(claims), NEW s \in Stages
        PROVE  claims[k][s] =< w.counted[s]
    <3>1. claims[k][s] =< Latest.view.counted[s]
      BY <1>1, Standing DEF ClaimsInv
    <3>2. Latest.view.counted[s] =< w.counted[s]
      BY <1>4, <1>9 DEF Within
    <3>3. claims[k][s] \in Nat /\ w.counted[s] \in Nat
      BY <1>9, Standing DEF Types, Views
    <3>4. Latest.view.counted[s] \in Nat
      BY Standing, HistoryEntry DEF Latest, Views
    <3>5. QED
      BY <3>1, <3>2, <3>3, <3>4
  <2>2. ClaimsAccumulate'
    BY <1>1, Standing DEF ClaimsInv, ClaimsAccumulate
  <2>3. QED
    BY <1>1, <1>9, <1>12, <2>1, <2>2 DEF ClaimsInv
<1>15. SnapshotInv'
  BY <1>1, <1>10, Standing, StillNothingFrozen
<1>16. QED
  BY <1>1, <1>9, <1>11, <1>13, <1>14, <1>15, Standing DEF IInv

LEMMA RestoreStep ==
    ASSUME IInv, NEW t \in Threads, Restore(t)
    PROVE  IInv'
<1>1. /\ pc[t] = "restore" /\ Claimant(t)
      /\ UNCHANGED <<counts, published, report, snapshot, claims, dropped>>
      /\ pc' = [pc EXCEPT ![t] = "idle"]
  BY DEF Restore, Move, Claimant
<1>2. PICK v : v = view[t]
  OBVIOUS
<1>3. PICK w : w = Knowing(v)
  OBVIOUS
<1>4. /\ history' = Append(history, [value |-> "Collecting", view |-> w])
      /\ view' = [view EXCEPT ![t] = w]
  BY <1>2, <1>3, Standing DEF Restore, ReleaseStore
<1>5. /\ Latest.value = "Freezing"
      /\ \A u \in Threads : u # t => ~Claimant(u)
      /\ \A s \in Stages : published[s] = None
  BY <1>1, SoleClaimant
<1>6. Sound(v) /\ v.published = {}
  BY <1>2, <1>5, Standing DEF Sound, Views
<1>7. /\ w \in Views /\ w.counted = v.counted
      /\ history' \in Seq(Entries) /\ Len(history') > 0
      /\ Latest'.value = "Collecting" /\ Latest'.view = w
      /\ view' \in [Threads -> Views]
      /\ ViewInv'
  <2>1. Types /\ ViewInv /\ Latest.value # "Frozen"
    BY <1>5, Standing
  <2>2. "Collecting" \in StateValues
    BY DEF StateValues
  <2>3. UNCHANGED <<counts, published>>
    BY <1>1
  <2>4. "Collecting" # "Frozen" => v.published = {}
    BY <1>6
  <2>5. w = Knowing(v) /\ Sound(v)
    BY <1>3, <1>6
  <2>6. ViewInv'
    BY <1>4, <2>1, <2>2, <2>3, <2>4, <2>5, StoreStep
  <2>7. w.counted = v.counted /\ w.published = v.published
    BY <2>5, KnowingFacts DEF Sound
  <2>8. QED
    BY <1>4, <2>1, <2>2, <2>3, <2>4, <2>5, <2>6, <2>7, StoreStep, ZenonT(60)
<1>8. /\ pc' \in [Threads -> Places] /\ pc'[t] = "idle"
      /\ \A u \in Threads : u # t => pc'[u] = pc[u]
  BY <1>1, Standing DEF Places
<1>9. Types'
  BY <1>1, <1>7, <1>8, Standing DEF Types
<1>10. \A u \in Threads : ~Claimant(u)'
  BY <1>5, <1>8 DEF Claimant
<1>11. ClaimInv'
  <2>1. \A u \in Threads : pc'[u] # "publish"
    BY <1>10 DEF Claimant
  <2>2. QED
    BY <1>1, <1>5, <1>7, <1>10, <2>1 DEF ClaimInv
<1>12. ClaimsInv'
  <2>1. \A k \in 1 .. Len(claims) : \A s \in Stages : claims[k][s] =< w.counted[s]
    BY <1>1, <1>2, <1>7, Standing DEF ClaimsInv
  <2>2. ClaimsAccumulate'
    BY <1>1, Standing DEF ClaimsInv, ClaimsAccumulate
  <2>3. QED
    BY <1>1, <1>7, <1>10, <2>1, <2>2 DEF ClaimsInv
<1>13. SnapshotInv'
  BY <1>1, <1>5, <1>8, Standing, StillNothingFrozen
<1>14. QED
  BY <1>1, <1>7, <1>9, <1>11, <1>12, <1>13, Standing DEF IInv

LEMMA ReleaseStep ==
    ASSUME IInv, NEW t \in Threads, Release(t)
    PROVE  IInv'
<1>1. /\ pc[t] = "publish" /\ Claimant(t)
      /\ \A s \in Stages : published[s] # None
      /\ UNCHANGED <<counts, published, snapshot, claims, dropped>>
      /\ pc' = [pc EXCEPT ![t] = "idle"]
      /\ report' = [report EXCEPT ![t] = None]
  BY DEF Release, Move, Claimant
<1>2. PICK v : v = view[t]
  OBVIOUS
<1>3. PICK w : w = Knowing(v)
  OBVIOUS
<1>4. /\ history' = Append(history, [value |-> "Frozen", view |-> w])
      /\ view' = [view EXCEPT ![t] = w]
  BY <1>2, <1>3, Standing DEF Release, ReleaseStore
<1>5. /\ Latest.value = "Freezing"
      /\ \A u \in Threads : u # t => ~Claimant(u)
  BY <1>1, SoleClaimant
<1>6. Sound(v)
  BY <1>2, Standing
<1>7. /\ w \in Views /\ w.counted = v.counted /\ w.published = v.published
      /\ history' \in Seq(Entries) /\ Len(history') > 0
      /\ Latest'.value = "Frozen" /\ Latest'.view = w
      /\ view' \in [Threads -> Views]
      /\ ViewInv'
  <2>1. Types /\ ViewInv /\ Latest.value # "Frozen"
    BY <1>5, Standing
  <2>2. "Frozen" \in StateValues
    BY DEF StateValues
  <2>3. UNCHANGED <<counts, published>>
    BY <1>1
  <2>4. "Frozen" # "Frozen" => v.published = {}
    BY <1>6
  <2>5. w = Knowing(v) /\ Sound(v)
    BY <1>3, <1>6
  <2>6. ViewInv'
    BY <1>4, <2>1, <2>2, <2>3, <2>4, <2>5, StoreStep
  <2>7. w.counted = v.counted /\ w.published = v.published
    BY <2>5, KnowingFacts DEF Sound
  <2>8. QED
    BY <1>4, <2>1, <2>2, <2>3, <2>4, <2>5, <2>6, <2>7, StoreStep, ZenonT(60)
<1>8. /\ pc' \in [Threads -> Places] /\ pc'[t] = "idle"
      /\ \A u \in Threads : u # t => pc'[u] = pc[u]
  BY <1>1, Standing DEF Places
<1>9. Types'
  BY <1>1, <1>7, <1>8, Standing DEF Types
<1>10. \A u \in Threads : ~Claimant(u)'
  BY <1>5, <1>8 DEF Claimant
<1>11. ClaimInv'
  <2>1. \A u \in Threads : pc'[u] # "publish"
    BY <1>10 DEF Claimant
  <2>2. \A s \in Stages : /\ s \in w.published
                          /\ published[s].samples =< w.counted[s]
    BY <1>1, <1>2, <1>7, Standing DEF ClaimInv
  <2>3. QED
    BY <1>1, <1>7, <1>10, <2>1, <2>2 DEF ClaimInv
<1>12. ClaimsInv'
  BY <1>1, <1>7, <1>10, Standing DEF ClaimsInv, ClaimsAccumulate
<1>13. SnapshotInv'
  BY <1>1, <1>5, <1>8, Standing, StillNothingFrozen, SMTT(30)
<1>14. QED
  BY <1>1, <1>7, <1>9, <1>11, <1>12, <1>13, Standing DEF IInv

\* A thread learns, and some stages are published.
LEMMA LearnStep ==
    ASSUME Types, ViewInv, UNCHANGED <<history, counts>>,
           \A s \in Stages : published[s] # None => published'[s] = published[s],
           \A s \in Stages : published'[s] # None /\ published[s] = None =>
               /\ Sound(published[s].view)'
               /\ history[published'[s].view.state].value # "Frozen",
           NEW t \in Threads, NEW v, Sound(v)',
           view' = [view EXCEPT ![t] = v]
    PROVE  /\ view' \in [Threads -> Views] /\ view'[t] = v
           /\ \A u \in Threads : u # t => view'[u] = view[u]
           /\ ViewInv'
<1>1. /\ view' \in [Threads -> Views] /\ view'[t] = v
      /\ \A u \in Threads : u # t => view'[u] = view[u]
  BY DEF Types, Sound
<1>2. ASSUME NEW x, Sound(x) PROVE Sound(x)'
  <2>1. Len(history') \in Nat /\ Len(history) =< Len(history')
    BY DEF Types
  <2>2. \A i \in 1 .. Len(history) : history'[i] = history[i]
    OBVIOUS
  <2>3. \A s \in Stages : counts'[s] \in Nat /\ counts[s] =< counts'[s]
    BY DEF Types
  <2>4. \A s \in Stages : published[s] # None => published'[s] # None
    OBVIOUS
  <2>5. QED
    BY <1>2, <2>1, <2>2, <2>3, <2>4, SoundStable
<1>3. \A i \in 1 .. Len(history) : Sound(history[i].view)'
  BY <1>2 DEF ViewInv
<1>4. ASSUME NEW u \in Threads PROVE Sound(view[u])'
  <2>1. CASE u = t
    BY <1>1, <2>1 DEF Sound
  <2>2. CASE u # t
    <3>1. Sound(view[u])
      BY DEF ViewInv
    <3>2. view'[u] = view[u]
      BY <1>1, <2>2
    <3>3. QED
      BY <3>1, <3>2, <1>2 DEF Sound
  <2>3. QED
    BY <2>1, <2>2
<1>5. ASSUME NEW s \in Stages, published'[s] # None
      PROVE  /\ Sound(published[s].view)'
             /\ history[published'[s].view.state].value # "Frozen"
  <2>1. CASE published[s] = None
    BY <1>5, <2>1, SMTT(30) DEF Sound
  <2>2. CASE published[s] # None
    <3>1. published'[s] = published[s]
      BY <2>2
    <3>2. /\ Sound(published[s].view)
          /\ history[published[s].view.state].value # "Frozen"
      BY <2>2 DEF ViewInv
    <3>3. PICK x : x = published[s].view
      OBVIOUS
    <3>4. Sound(x)'
      BY <1>2, <3>2, <3>3
    <3>5. QED
      BY <3>1, <3>2, <3>3, <3>4 DEF Sound
  <2>3. QED
    BY <2>1, <2>2
<1>6. QED
  BY <1>1, <1>3, <1>4, <1>5 DEF ViewInv, Sound

LEMMA RescanStep ==
    ASSUME IInv, NEW t \in Threads, Rescan(t)
    PROVE  IInv'
<1>1. /\ pc[t] = "rescan" /\ Claimant(t)
      /\ UNCHANGED <<history, counts, published, snapshot, dropped>>
  BY DEF Rescan, Claimant, shared
<1>2. PICK scan \in Scans(view[t]) :
        /\ Knows(t, Scanned(view[t], scan))
        /\ claims' = Append(claims, scan)
        /\ \/ /\ Move(t, "restore")
              /\ UNCHANGED report
           \/ /\ Ready(scan)
              /\ Move(t, "publish")
              /\ report' = [report EXCEPT ![t] = scan]
  BY DEF Rescan
<1>3. PICK place \in {"restore", "publish"} :
        /\ pc' = [pc EXCEPT ![t] = place]
        /\ place = "restore" => report' = report
        /\ place = "publish" => report' = [report EXCEPT ![t] = scan]
  BY <1>2 DEF Move
<1>4. PICK v : v = view[t]
  OBVIOUS
<1>5. PICK w : w = Scanned(v, scan)
  OBVIOUS
<1>6. /\ Latest.value = "Freezing" /\ v.state = Len(history)
      /\ \A u \in Threads : u # t => ~Claimant(u)
      /\ \A s \in Stages : published[s] = None
  BY <1>1, <1>4, SoleClaimant
<1>7. /\ scan \in [Stages -> Nat] /\ Sound(w)
      /\ w.state = Len(history) /\ w.counted = scan
      /\ \A s \in Stages : v.counted[s] =< scan[s]
  BY <1>2, <1>4, <1>5, <1>6, Standing, ScannedSound
<1>8. Sound(w)'
  BY <1>1, <1>7, Standing, SoundCounting
<1>9. /\ view' \in [Threads -> Views] /\ view'[t] = w
      /\ \A u \in Threads : u # t => view'[u] = view[u]
      /\ ViewInv'
  <2>1. view' = [view EXCEPT ![t] = w]
    BY <1>2, <1>4, <1>5 DEF Knows
  <2>2. \A s \in Stages : published'[s] = None
    BY <1>1, <1>6
  <2>3. QED
    BY <1>1, <1>8, <2>1, <2>2, Standing, LearnStep
<1>10. /\ pc' \in [Threads -> Places] /\ pc'[t] = place
       /\ \A u \in Threads : u # t => pc'[u] = pc[u]
  BY <1>3, Standing DEF Places
<1>11. /\ report' \in [Threads -> [Stages -> Nat] \cup {None}]
       /\ place = "publish" => report'[t] = scan
  BY <1>3, <1>7, Standing DEF Types
<1>12. /\ claims' \in Seq([Stages -> Nat]) /\ Len(claims') = Len(claims) + 1
       /\ Len(claims) \in Nat
       /\ \A k \in 1 .. Len(claims) : claims'[k] = claims[k]
       /\ claims'[Len(claims) + 1] = scan
  BY <1>2, <1>7, Standing DEF Types
<1>13. Types'
  BY <1>1, <1>9, <1>10, <1>11, <1>12, Standing DEF Types
<1>14. \A u \in Threads : Claimant(u)' <=> u = t
  BY <1>6, <1>10 DEF Claimant
<1>15. Latest' = Latest
  BY <1>1 DEF Latest
<1>16. ClaimInv'
  <2>1. \A u \in Threads : pc'[u] = "publish" => u = t
    BY <1>14 DEF Claimant
  <2>2. pc'[t] = "publish" =>
          /\ report'[t] \in [Stages -> Nat]
          /\ \A s \in Stages : report'[t][s] =< view'[t].counted[s]
    BY <1>7, <1>9, <1>10, <1>11
  <2>3. \A s \in Stages : published'[s] = None
    BY <1>1, <1>6
  <2>4. view'[t].state = Len(history')
    BY <1>1, <1>7, <1>9
  <2>5. QED
    BY <1>6, <1>14, <1>15, <2>1, <2>2, <2>3, <2>4 DEF ClaimInv
<1>17. ClaimsInv'
  <2>1. ASSUME NEW k \in 1 .. Len(claims'), NEW s \in Stages
        PROVE  claims'[k][s] =< scan[s]
    <3>1. CASE k = Len(claims) + 1
      BY <1>7, <1>12, <3>1
    <3>2. CASE k # Len(claims) + 1
      <4>1. k \in 1 .. Len(claims) /\ claims'[k] = claims[k]
        BY <1>12, <3>2
      <4>2. claims[k][s] =< v.counted[s]
        BY <1>1, <1>4, <4>1, Standing DEF ClaimsInv
      <4>3. claims[k][s] \in Nat /\ v.counted[s] \in Nat /\ scan[s] \in Nat
        BY <1>4, <1>7, <4>1, Standing DEF Types, Views
      <4>4. QED
        BY <1>7, <4>1, <4>2, <4>3
    <3>3. QED
      BY <3>1, <3>2
  <2>2. ASSUME NEW i \in 1 .. Len(claims'), NEW j \in 1 .. Len(claims'), i < j,
               NEW s \in Stages
        PROVE  claims'[i][s] =< claims'[j][s]
    <3>1. CASE j = Len(claims) + 1
      BY <1>12, <2>1, <3>1
    <3>2. CASE j # Len(claims) + 1
      <4>1. i \in 1 .. Len(claims) /\ j \in 1 .. Len(claims)
        <5>1. PICK n \in Nat : n = Len(claims)
          BY <1>12
        <5>2. i \in 1 .. n + 1 /\ j \in 1 .. n + 1 /\ i < j /\ j # n + 1
          BY <1>12, <2>2, <3>2, <5>1
        <5>3. i \in 1 .. n /\ j \in 1 .. n
          BY <5>2
        <5>4. QED
          BY <5>1, <5>3
      <4>2. DOMAIN claims = 1 .. Len(claims)
        BY Standing DEF Types
      <4>3. QED
        BY <1>12, <2>2, <4>1, <4>2, Standing DEF ClaimsInv, ClaimsAccumulate
    <3>3. QED
      BY <3>1, <3>2
  <2>3. ClaimsAccumulate'
    <3>1. DOMAIN claims' = 1 .. Len(claims')
      BY <1>12
    <3>2. QED
      BY <2>2, <3>1 DEF ClaimsAccumulate
  <2>4. QED
    BY <1>6, <1>7, <1>9, <1>14, <1>15, <2>1, <2>3 DEF ClaimsInv
<1>18. SnapshotInv'
  BY <1>1, <1>6, <1>10, Standing, StillNothingFrozen
<1>19. QED
  BY <1>1, <1>9, <1>13, <1>16, <1>17, <1>18, Standing DEF IInv

LEMMA PublishStageStep ==
    ASSUME IInv, NEW t \in Threads, PublishStage(t)
    PROVE  IInv'
<1> DEFINE unpublished == {p \in Stages : published[p] = None}
<1>1. /\ pc[t] = "publish" /\ Claimant(t) /\ unpublished # {}
      /\ UNCHANGED <<history, counts, pc, report, snapshot, claims, dropped>>
  BY DEF PublishStage, Claimant
<1>2. PICK s : s = Min(unpublished)
  OBVIOUS
<1>3. s \in Stages /\ published[s] = None
  <2>1. unpublished \in SUBSET Nat
    BY DEF Stages
  <2> HIDE DEF unpublished
  <2>2. Min(unpublished) \in unpublished
    BY <1>1, <2>1, MinOf
  <2>3. QED
    BY <1>2, <2>2 DEF unpublished
<1>4. PICK x : x = view[t]
  OBVIOUS
<1>5. PICK v : v = [x EXCEPT !.published = @ \cup {s}]
  OBVIOUS
<1>6. PICK entry : entry = [samples |-> report[t][s], view |-> v]
  OBVIOUS
<1>7. /\ published' = [published EXCEPT ![s] = entry]
      /\ view' = [view EXCEPT ![t] = v]
  BY <1>2, <1>4, <1>5, <1>6 DEF PublishStage, Knows
<1>8. /\ Latest.value = "Freezing" /\ x.state = Len(history)
      /\ \A u \in Threads : u # t => ~Claimant(u)
      /\ x \in Views /\ Sound(x)
  BY <1>1, <1>4, SoleClaimant, Standing
<1>9. /\ v \in Views /\ v.state = x.state /\ v.counted = x.counted
      /\ v.published = x.published \cup {s}
  BY <1>3, <1>5, <1>8 DEF Views
<1>10. /\ report[t] \in [Stages -> Nat]
       /\ \A p \in Stages :
             /\ report[t][p] =< x.counted[p]
             /\ published[p] # None =>
                   published[p].samples = report[t][p] /\ p \in x.published
  BY <1>1, <1>4, Standing DEF ClaimInv
<1>11. /\ entry \in Publications /\ entry # None
       /\ entry.samples = report[t][s] /\ entry.view = v
  BY <1>3, <1>6, <1>9, <1>10, NoneAssumption DEF Publications
<1>12. /\ published' \in [Stages -> Publications \cup {None}]
       /\ published'[s] = entry
       /\ \A p \in Stages : p # s => published'[p] = published[p]
  BY <1>3, <1>7, <1>11, Standing DEF Types
<1>13. Sound(v)'
  <2>1. Sound(x)'
    <3>1. Len(history') \in Nat /\ Len(history) =< Len(history')
      BY <1>1, Standing
    <3>2. \A i \in 1 .. Len(history) : history'[i] = history[i]
      BY <1>1
    <3>3. \A p \in Stages : counts'[p] \in Nat /\ counts[p] =< counts'[p]
      BY <1>1, Standing
    <3>4. \A p \in Stages : published[p] # None => published'[p] # None
      BY <1>11, <1>12
    <3>5. QED
      BY <1>8, <3>1, <3>2, <3>3, <3>4, Standing, SoundStable
  <2>2. \A p \in v.published : published'[p] # None
    BY <1>9, <1>11, <1>12, <2>1 DEF Sound
  <2>3. Within(history'[v.state].view, v)
    BY <1>9, <2>1 DEF Within, Sound
  <2>4. QED
    BY <1>9, <2>1, <2>2, <2>3 DEF Sound
<1>14. /\ view' \in [Threads -> Views] /\ view'[t] = v
       /\ \A u \in Threads : u # t => view'[u] = view[u]
       /\ ViewInv'
  <2>1. ASSUME NEW p \in Stages, published'[p] # None, published[p] = None
        PROVE  /\ Sound(published[p].view)'
               /\ history[published'[p].view.state].value # "Frozen"
    <3>1. published'[p] = entry
      BY <1>12, <2>1
    <3>2. history[v.state].value # "Frozen"
      BY <1>8, <1>9 DEF Latest
    <3>3. QED
      BY <1>11, <1>13, <3>1, <3>2 DEF Sound
  <2>2. \A p \in Stages : published[p] # None => published'[p] = published[p]
    BY <1>3, <1>12
  <2>3. UNCHANGED <<history, counts>>
    BY <1>1
  <2>4. QED
    BY <1>7, <1>13, <2>1, <2>2, <2>3, Standing, LearnStep
<1>15. Types'
  BY <1>1, <1>12, <1>14, Standing DEF Types
<1>16. \A u \in Threads : Claimant(u)' <=> u = t
  BY <1>1, <1>8 DEF Claimant
<1>17. Latest' = Latest
  BY <1>1 DEF Latest
<1>18. ClaimInv'
  <2>1. \A u \in Threads : pc'[u] = "publish" => u = t
    BY <1>16 DEF Claimant
  <2>2. /\ report'[t] \in [Stages -> Nat] /\ pc'[t] = "publish"
        /\ \A p \in Stages :
              /\ report'[t][p] =< view'[t].counted[p]
              /\ published'[p] # None =>
                    published'[p].samples = report'[t][p] /\ p \in view'[t].published
    BY <1>1, <1>9, <1>10, <1>11, <1>12, <1>14
  <2>3. view'[t].state = Len(history')
    BY <1>1, <1>8, <1>9, <1>14
  <2>4. QED
    BY <1>8, <1>16, <1>17, <2>1, <2>2, <2>3 DEF ClaimInv
<1>19. ClaimsInv'
  <2>1. \A k \in 1 .. Len(claims) : \A p \in Stages : claims[k][p] =< v.counted[p]
    BY <1>1, <1>4, <1>9, Standing DEF ClaimsInv
  <2>2. ClaimsAccumulate'
    BY <1>1, Standing DEF ClaimsInv, ClaimsAccumulate
  <2>3. QED
    BY <1>1, <1>8, <1>14, <1>16, <1>17, <2>1, <2>2 DEF ClaimsInv
<1>20. SnapshotInv'
  BY <1>1, <1>8, Standing, StillNothingFrozen
<1>21. QED
  BY <1>1, <1>14, <1>15, <1>18, <1>19, <1>20, Standing DEF IInv

-----------------------------------------------------------------------------
(* The invariant.                                                          *)

LEMMA InitIInv == Init => IInv
<1> SUFFICES ASSUME Init PROVE IInv
  OBVIOUS
<1>1. Unaware \in Views /\ Unaware.state = 1 /\ Unaware.published = {}
      /\ \A s \in Stages : Unaware.counted[s] = 0
  BY DEF Unaware, Views
<1> DEFINE entry == [value |-> "Collecting", view |-> Unaware]
<1>2. entry \in Entries /\ entry.value = "Collecting" /\ entry.view = Unaware
  BY <1>1 DEF Entries, StateValues
<1>3. history = <<entry>>
  BY DEF Init
<1> HIDE DEF entry
<1>4. /\ history \in Seq(Entries) /\ Len(history) = 1 /\ history[1] = entry
      /\ Latest = entry
  BY <1>2, <1>3 DEF Latest
<1>5. \A s \in Stages : counts[s] = 0 /\ published[s] = None
  BY DEF Init
<1>6. \A t \in Threads : /\ view[t] = Unaware /\ pc[t] = "idle"
                         /\ snapshot[t] = None /\ ~Claimant(t)
  BY DEF Init, Claimant
<1>7. Within(Unaware, Unaware)
  BY <1>1 DEF Within
<1>8. Sound(Unaware)
  BY <1>1, <1>2, <1>4, <1>5, <1>7 DEF Sound
<1>9. Types
  BY <1>1, <1>4 DEF Init, Types, Places
<1>10. ViewInv
  <2>1. \A i \in 1 .. Len(history) : i = 1
    BY <1>4
  <2>2. QED
    BY <1>1, <1>2, <1>4, <1>5, <1>6, <1>8, <2>1 DEF ViewInv
<1>11. ClaimInv
  BY <1>2, <1>4, <1>5, <1>6 DEF ClaimInv
<1>12. ClaimsInv
  <2>1. claims = <<>> /\ Len(claims) = 0 /\ DOMAIN claims = {}
    BY DEF Init
  <2>2. \A k \in 1 .. Len(claims) : FALSE
    BY <2>1
  <2>3. QED
    BY <1>6, <2>1, <2>2 DEF ClaimsInv, ClaimsAccumulate
<1>13. SnapshotInv
  BY <1>6 DEF SnapshotInv
<1>14. QED
  BY <1>9, <1>10, <1>11, <1>12, <1>13 DEF IInv, Init

LEMMA StutterStep ==
    ASSUME IInv, UNCHANGED vars
    PROVE  IInv'
<1>1. UNCHANGED <<history, counts, published, view, pc, report, snapshot, claims, dropped>>
  BY DEF vars, shared
<1>2. Types' /\ ClaimInv' /\ dropped' = FALSE
  BY <1>1, Standing DEF Types, ClaimInv, Claimant, Latest
<1>3. ViewInv'
  BY <1>1, Standing DEF ViewInv, Sound
<1>4. ClaimsInv' /\ SnapshotInv'
  BY <1>1, Standing
     DEF ClaimsInv, ClaimsAccumulate, SnapshotInv, Informed, Claimant, Latest
<1>5. QED
  BY <1>2, <1>3, <1>4 DEF IInv

LEMMA NextStep ==
    ASSUME IInv, Next
    PROVE  IInv'
<1>1. PICK t \in Threads :
        \/ Start(t) \/ (\E s \in Stages : Mark(t, s))
        \/ \E u \in Threads : HandOver(t, u)
        \/ Enter(t) \/ Claim(t) \/ Rescan(t) \/ Restore(t)
        \/ PublishStage(t) \/ Release(t)
        \/ Scan(t) \/ ReadReport(t)
  BY DEF Next
<1>2. CASE Start(t)
  BY <1>2, StartStep
<1>3. CASE \E s \in Stages : Mark(t, s)
  BY <1>3, MarkStep
<1>4. CASE \E u \in Threads : HandOver(t, u)
  BY <1>4, HandOverStep
<1>5. CASE Enter(t)
  BY <1>5, EnterStep
<1>6. CASE Claim(t)
  <2>1. CASE ClaimSucceeds(t)
    BY <1>6, <2>1, ClaimSucceedsStep
  <2>2. CASE ClaimFails(t)
    BY <1>6, <2>2, ClaimFailsStep
  <2>3. QED
    BY <1>6, <2>1, <2>2 DEF Claim
<1>7. CASE Rescan(t)
  BY <1>7, RescanStep
<1>8. CASE Restore(t)
  BY <1>8, RestoreStep
<1>9. CASE PublishStage(t)
  BY <1>9, PublishStageStep
<1>10. CASE Release(t)
  BY <1>10, ReleaseStep
<1>11. CASE Scan(t)
  BY <1>11, ScanSnapshotStep
<1>12. CASE ReadReport(t)
  BY <1>12, ReadReportStep
<1>13. QED
  BY <1>1, <1>2, <1>3, <1>4, <1>5, <1>6, <1>7, <1>8, <1>9, <1>10, <1>11, <1>12

\* Whatever values the loads return, views stay closed under what was released
\* with the values in them, at most one thread holds the claim and knows of
\* everything before it, and what was released with Frozen is complete
\* (calibration.rs try_freeze_with_hook, and the loads of the state).
THEOREM Inductive == Spec => []IInv
<1>1. IInv /\ [Next]_vars => IInv'
  BY NextStep, StutterStep
<1>2. QED
  BY InitIInv, <1>1, PTL DEF Spec

\* For any number of threads and stages: no mark of a context that started
\* frozen is dropped for want of a threshold, and a snapshot that says Frozen
\* reports every stage.
THEOREM FrozenMeansPublishedHolds == Spec => []FrozenMeansPublished
<1>1. ASSUME IInv PROVE FrozenMeansPublished
  <2>1. ASSUME NEW t \in Threads, pc[t] # "report", snapshot[t] # None,
               snapshot[t].state = "Frozen"
        PROVE  snapshot[t].report # None /\ DOMAIN snapshot[t].report = Stages
    <3>1. SnapshotInv
      BY <1>1 DEF IInv
    <3>2. snapshot[t].report # None
      BY <2>1, <3>1 DEF SnapshotInv
    <3>3. snapshot[t].report = [s \in Stages |-> published[s].samples]
      BY <2>1, <3>1, <3>2 DEF SnapshotInv
    <3>4. QED
      BY <3>2, <3>3
  <2>2. QED
    BY <1>1, <2>1 DEF FrozenMeansPublished, IInv
<1>2. QED
  BY Inductive, <1>1, PTL

\* For any number of threads and stages: a thread that had been told of the
\* freeze before it took a snapshot never sees fewer samples in the counters
\* than the report beside them says there were.
THEOREM ReportNeverAheadHolds == Spec => []ReportNeverAhead
<1>1. ASSUME IInv PROVE ReportNeverAhead
  <2>1. ASSUME NEW t \in Threads, snapshot[t] # None, snapshot[t].informed,
               snapshot[t].report # None, NEW s \in DOMAIN snapshot[t].report
        PROVE  snapshot[t].report[s] =< snapshot[t].counted[s]
    <3>1. SnapshotInv /\ ClaimInv /\ Types
      BY <1>1 DEF IInv
    <3>2. /\ Latest.value = "Frozen"
          /\ snapshot[t].report = [p \in Stages |-> published[p].samples]
          /\ \A p \in Stages : Latest.view.counted[p] =< snapshot[t].counted[p]
      BY <2>1, <3>1 DEF SnapshotInv
    <3>3. s \in Stages /\ snapshot[t].report[s] = published[s].samples
      BY <2>1, <3>2
    <3>4. published[s] # None /\ published[s].samples =< Latest.view.counted[s]
      BY <3>1, <3>2, <3>3 DEF ClaimInv
    <3>5. Latest.view.counted[s] \in Nat
      <4>1. Len(history) \in 1 .. Len(history)
        BY <3>1 DEF Types
      <4>2. Latest.view \in Views
        BY <3>1, <4>1, HistoryEntry DEF Latest
      <4>3. QED
        BY <3>3, <4>2 DEF Views
    <3>6. published[s].samples \in Nat
      BY <3>1, <3>3, <3>4 DEF Types, Publications
    <3>7. snapshot[t].counted[s] \in Nat
      BY <2>1, <3>1, <3>3 DEF Types, Snapshots
    <3>8. QED
      BY <3>2, <3>3, <3>4, <3>5, <3>6, <3>7
  <2>2. QED
    BY <2>1 DEF ReportNeverAhead
<1>2. QED
  BY Inductive, <1>1, PTL

\* For any number of threads, calls and stages: a claim never finds fewer
\* samples than a claim before it that was given back.
THEOREM ClaimsAccumulateHolds == Spec => []ClaimsAccumulate
<1>1. IInv => ClaimsAccumulate
  BY DEF IInv, ClaimsInv
<1>2. QED
  BY Inductive, <1>1, PTL
=============================================================================

------------------------------ MODULE Orderings ------------------------------
(***************************************************************************)
(* The freeze under the memory orderings the code asks for.  The other     *)
(* modules interleave steps that see the latest value of everything; here  *)
(* a load may return any value that is not older than what its thread      *)
(* knows.  What a thread knows is its view: how far it has followed the    *)
(* calibration state, how many increments of each counter it has seen, and *)
(* which stages it has seen published.  A release store attaches the view  *)
(* of its thread to the value, an acquire load takes that view over, and   *)
(* a relaxed access does neither.  A read-modify-write always acts on the  *)
(* latest value.                                                           *)
(*                                                                         *)
(* Counters are incremented relaxed and their values are never used for    *)
(* control by the incrementing thread, so a count identifies a value, and  *)
(* a run of relaxed loads or increments is one step: every interleaving of *)
(* its parts is a choice of what the readers see.  There is one counter    *)
(* per stage, the calibration samples of a population; counters that no    *)
(* freeze scans are left out.  Estimates are not computed: a claim whose   *)
(* populations are ready may still fail for a terminal estimate.           *)
(***************************************************************************)
EXTENDS Integers, Sequences, FiniteSets, FiniteSetsExt

CONSTANTS
    Threads,        \* each may record, freeze and take snapshots in turn
    NumStages,      \* registered stages, indexed from 0
    Minimum,        \* minimum_samples of every call
    MaxRequests,    \* bounds over all threads: contexts started,
    MaxCalls,       \*   calls of try_freeze_calibration,
    MaxSnapshots,   \*   and snapshots
    None

ASSUME SizeAssumption == NumStages \in Nat \ {0} /\ Minimum \in Nat \ {0}
ASSUME BoundAssumption == MaxRequests \in Nat /\ MaxCalls \in Nat /\ MaxSnapshots \in Nat

Stages == 0 .. NumStages - 1

\* What a thread may know, what a published stage holds, and what a snapshot is.
Views == [state : Nat, counted : [Stages -> Nat], published : SUBSET Stages]
Publications == [samples : Nat, view : Views]
StateValues == {"Collecting", "Freezing", "Frozen"}
Snapshots == [counted : [Stages -> Nat], state : StateValues,
              report : [Stages -> Nat] \cup {None}, informed : BOOLEAN]

ASSUME NoneAssumption ==
    None \notin [Stages -> Nat] \cup Publications \cup Snapshots

VARIABLES
    history,    \* every value of calibration_state, oldest first, with the
                \* view that was released with it
    counts,     \* increments of the calibration samples of each stage
    published,  \* per stage, None or the threshold and its released view
    view,       \* what each thread knows
    pc,         \* where each thread is in a call
    ctx,        \* the request context it owns, or None
    report,     \* samples of the claimant's second scan
    snapshot,   \* the thread's latest snapshot, or None
    used,       \* requests, calls and snapshots used up, for the bounds
    claims,     \* history: the second scan of every claim, in order
    dropped     \* history: a context started frozen met no threshold

shared == <<history, counts, published>>
vars == <<shared, view, pc, ctx, report, snapshot, used, claims, dropped>>

Unaware == [state |-> 1, counted |-> [s \in Stages |-> 0], published |-> {}]

Join(v, w) ==
    [state |-> Max({v.state, w.state}),
     counted |-> [s \in Stages |-> Max({v.counted[s], w.counted[s]})],
     published |-> v.published \cup w.published]

Init ==
    /\ history = <<[value |-> "Collecting", view |-> Unaware]>>
    /\ counts = [s \in Stages |-> 0]
    /\ published = [s \in Stages |-> None]
    /\ view = [t \in Threads |-> Unaware]
    /\ pc = [t \in Threads |-> "idle"]
    /\ ctx = [t \in Threads |-> None]
    /\ report = [t \in Threads |-> None]
    /\ snapshot = [t \in Threads |-> None]
    /\ used = [requests |-> 0, calls |-> 0, snapshots |-> 0]
    /\ claims = <<>>
    /\ dropped = FALSE

-----------------------------------------------------------------------------
(* Atomic accesses.                                                        *)

Latest == history[Len(history)]

\* The values a load of the state may return, and what the thread knows after
\* an acquire and after a relaxed load.
Loadable(t) == view[t].state .. Len(history)
Acquired(t, i) == Join([view[t] EXCEPT !.state = i], history[i].view)
Relaxed(t, i) == [view[t] EXCEPT !.state = i]

\* What relaxed loads of all calibration counters may return to a thread that
\* knows v, and what it knows then.
Scans(v) ==
    {scan \in [Stages -> 0 .. Max({counts[s] : s \in Stages})] :
        \A s \in Stages : scan[s] \in v.counted[s] .. counts[s]}
Scanned(v, scan) == [v EXCEPT !.counted = scan]

\* A store of the state by a thread that knows v, and one that releases
\* nothing.  Nobody else stores after a claim, so the store is the latest.
Knowing(v) == [v EXCEPT !.state = Len(history) + 1]
ReleaseStore(t, value) ==
    /\ history' = Append(history, [value |-> value, view |-> Knowing(view[t])])
    /\ view' = [view EXCEPT ![t] = Knowing(@)]
RelaxedStore(t, value) ==
    /\ history' = Append(history, [value |-> value, view |-> Knowing(Unaware)])
    /\ view' = [view EXCEPT ![t] = Knowing(@)]

\* OnceLock::get, per stage: a stage the thread knows of is found, another one
\* that is published may be.
Gets(v) ==
    {found \in SUBSET {s \in Stages : published[s] # None} :
        v.published \subseteq found}
Got(v, found) ==
    [state |-> Max({v.state} \cup {published[s].view.state : s \in found}),
     counted |-> [s \in Stages |->
        Max({v.counted[s]} \cup {published[f].view.counted[s] : f \in found})],
     published |-> v.published \cup found]

Knows(t, v) == view' = [view EXCEPT ![t] = v]
Move(t, place) == pc' = [pc EXCEPT ![t] = place]
Spend(kind, bound) ==
    /\ used[kind] < bound
    /\ used' = [used EXCEPT ![kind] = @ + 1]

-----------------------------------------------------------------------------
(* Contexts.                                                               *)

\* start: is_frozen is an acquire load.
Start(t) ==
    /\ pc[t] = "idle"
    /\ Spend("requests", MaxRequests)
    /\ \E i \in Loadable(t) :
          /\ Knows(t, Acquired(t, i))
          /\ ctx' = [ctx EXCEPT ![t] =
                       [startedFrozen |-> history[i].value = "Frozen", next |-> 0]]
    /\ UNCHANGED <<shared, pc, report, snapshot, claims, dropped>>

\* A mark of stage s: the acquire load of the state and what it decides.
Collect(t, s, v) ==
    /\ counts' = [counts EXCEPT ![s] = @ + 1]
    /\ Knows(t, [v EXCEPT !.counted[s] = counts[s] + 1])
    /\ UNCHANGED dropped

Classify(t, s, v) ==
    /\ \E found \in Gets(v) :
          LET own == IF s \in found THEN {s} ELSE {}
          IN  /\ Knows(t, Got(v, own))
              /\ dropped' = (dropped \/ own = {})
    /\ UNCHANGED counts

Mark(t, s) ==
    /\ pc[t] = "idle"
    /\ ctx[t] # None
    /\ ctx[t].next =< s
    /\ \E i \in Loadable(t) :
          LET v == Acquired(t, i)
          IN  \/ history[i].value = "Collecting" /\ Collect(t, s, v)
              \/ /\ history[i].value = "Frozen" /\ ctx[t].startedFrozen
                 /\ Classify(t, s, v)
              \/ /\ history[i].value # "Collecting"
                 /\ history[i].value = "Frozen" => ~ctx[t].startedFrozen
                 /\ Knows(t, v)
                 /\ UNCHANGED <<counts, dropped>>
    /\ ctx' = [ctx EXCEPT ![t].next = s + 1]
    /\ UNCHANGED <<history, published, pc, report, snapshot, used, claims>>

\* A context is moved to another thread, which knows then what its former
\* owner knew: safe Rust moves no value without synchronising.
HandOver(t, u) ==
    /\ t # u
    /\ pc[t] = "idle" /\ pc[u] = "idle"
    /\ ctx[t] # None /\ ctx[u] = None
    /\ ctx' = [ctx EXCEPT ![u] = ctx[t], ![t] = None]
    /\ view' = [view EXCEPT ![u] = Join(@, view[t])]
    /\ UNCHANGED <<shared, pc, report, snapshot, used, claims, dropped>>

-----------------------------------------------------------------------------
(* try_freeze_calibration.                                                 *)

Ready(scan) == \A s \in Stages : scan[s] >= Minimum

\* The acquire load on entry and the first scan: refused, not ready, or on to
\* the claim.
Enter(t) ==
    /\ pc[t] = "idle"
    /\ Spend("calls", MaxCalls)
    /\ \E i \in Loadable(t) :
          LET v == Acquired(t, i)
          IN  IF history[i].value # "Collecting"
              THEN Knows(t, v) /\ UNCHANGED pc
              ELSE \E scan \in Scans(v) :
                      /\ Knows(t, Scanned(v, scan))
                      /\ Move(t, IF Ready(scan) THEN "claim" ELSE "idle")
    /\ UNCHANGED <<shared, ctx, report, snapshot, claims, dropped>>

\* The exchange succeeds on the latest value only, acquires what came with it
\* and releases it together with its own.
ClaimSucceeds(t) ==
    LET v == Knowing(Acquired(t, Len(history)))
    IN  /\ Latest.value = "Collecting"
        /\ history' = Append(history, [value |-> "Freezing", view |-> v])
        /\ Knows(t, v)
        /\ Move(t, "rescan")

\* Mutant: an exchange that fails is relaxed.
ClaimFailsRelaxed(t) ==
    \E i \in Loadable(t) :
        /\ history[i].value # "Collecting"
        /\ Knows(t, Relaxed(t, i))
        /\ Move(t, "idle")
        /\ UNCHANGED history

\* An exchange that fails is an acquire load.
ClaimFails(t) ==
    \E i \in Loadable(t) :
        /\ history[i].value # "Collecting"
        /\ Knows(t, Acquired(t, i))
        /\ Move(t, "idle")
        /\ UNCHANGED history

Claim(t) ==
    /\ pc[t] = "claim"
    /\ ClaimSucceeds(t) \/ ClaimFails(t)
    /\ UNCHANGED <<counts, published, ctx, report, snapshot, used, claims, dropped>>

\* The second scan.  The attempt fails unless it is ready and finite.
Rescan(t) ==
    /\ pc[t] = "rescan"
    /\ \E scan \in Scans(view[t]) :
          /\ Knows(t, Scanned(view[t], scan))
          /\ claims' = Append(claims, scan)
          /\ \/ /\ Move(t, "restore")
                /\ UNCHANGED report
             \/ /\ Ready(scan)
                /\ Move(t, "publish")
                /\ report' = [report EXCEPT ![t] = scan]
    /\ UNCHANGED <<shared, ctx, snapshot, used, dropped>>

\* Mutant: the claim is given back with a relaxed store.
RestoreRelaxed(t) ==
    /\ pc[t] = "restore"
    /\ RelaxedStore(t, "Collecting")
    /\ Move(t, "idle")
    /\ UNCHANGED <<counts, published, ctx, report, snapshot, used, claims, dropped>>

\* restore_collecting.
Restore(t) ==
    /\ pc[t] = "restore"
    /\ ReleaseStore(t, "Collecting")
    /\ Move(t, "idle")
    /\ UNCHANGED <<counts, published, ctx, report, snapshot, used, claims, dropped>>

\* OnceLock::set of the next stage releases what the thread knows.
PublishStage(t) ==
    LET s == Min({p \in Stages : published[p] = None})
        v == [view[t] EXCEPT !.published = @ \cup {s}]
    IN  /\ pc[t] = "publish"
        /\ \E p \in Stages : published[p] = None
        /\ published' = [published EXCEPT ![s] =
                           [samples |-> report[t][s], view |-> v]]
        /\ Knows(t, v)
        /\ UNCHANGED <<history, counts, pc, ctx, report, snapshot, used, claims, dropped>>

\* Mutant: Frozen is stored relaxed.
ReleaseRelaxed(t) ==
    /\ pc[t] = "publish"
    /\ \A s \in Stages : published[s] # None
    /\ RelaxedStore(t, "Frozen")
    /\ Move(t, "idle")
    /\ report' = [report EXCEPT ![t] = None]
    /\ UNCHANGED <<counts, published, ctx, snapshot, used, claims, dropped>>

\* The release store of Frozen.
Release(t) ==
    /\ pc[t] = "publish"
    /\ \A s \in Stages : published[s] # None
    /\ ReleaseStore(t, "Frozen")
    /\ Move(t, "idle")
    /\ report' = [report EXCEPT ![t] = None]
    /\ UNCHANGED <<counts, published, ctx, snapshot, used, claims, dropped>>

-----------------------------------------------------------------------------
(* snapshot_relaxed.                                                       *)

Informed(t) == history[view[t].state].value = "Frozen"

\* The relaxed scan and the acquire load of the state after it.
Scan(t) ==
    /\ pc[t] = "idle"
    /\ Spend("snapshots", MaxSnapshots)
    /\ \E i \in Loadable(t), scan \in Scans(view[t]) :
          /\ Knows(t, Join(Scanned(view[t], scan), Acquired(t, i)))
          /\ snapshot' = [snapshot EXCEPT ![t] =
                            [counted |-> scan, state |-> history[i].value,
                             report |-> None, informed |-> Informed(t)]]
          /\ Move(t, IF history[i].value = "Frozen" THEN "report" ELSE "idle")
    /\ UNCHANGED <<shared, ctx, report, claims, dropped>>

\* frozen_calibration_report loads the state once more, and then every stage.
ReadReport(t) ==
    /\ pc[t] = "report"
    /\ \E i \in Loadable(t) :
          LET v == Acquired(t, i)
          IN  IF history[i].value # "Frozen"
              THEN Knows(t, v) /\ UNCHANGED snapshot
              ELSE \E found \in Gets(v) :
                     /\ Knows(t, Got(v, found))
                     /\ snapshot' =
                          [snapshot EXCEPT ![t].report =
                             [s \in found |-> published[s].samples]]
    /\ Move(t, "idle")
    /\ UNCHANGED <<shared, ctx, report, used, claims, dropped>>

Next ==
    \E t \in Threads :
        \/ Start(t) \/ (\E s \in Stages : Mark(t, s))
        \/ \E u \in Threads : HandOver(t, u)
        \/ Enter(t) \/ Claim(t) \/ Rescan(t) \/ Restore(t)
        \/ PublishStage(t) \/ Release(t)
        \/ Scan(t) \/ ReadReport(t)

Spec == Init /\ [][Next]_vars

-----------------------------------------------------------------------------
(* Properties.                                                             *)

\* Whoever has read Frozen, in whichever thread the context has ended up,
\* finds the thresholds: no mark of a context that started frozen is dropped
\* without a trace, and a snapshot that says Frozen reports every stage.
FrozenMeansPublished ==
    /\ ~dropped
    /\ \A t \in Threads :
          (pc[t] # "report" /\ snapshot[t] # None /\ snapshot[t].state = "Frozen") =>
             snapshot[t].report # None /\ DOMAIN snapshot[t].report = Stages

\* A thread that knew of the freeze before it took a snapshot, from any answer
\* of the recorder or with a context it was given, never sees fewer samples in
\* the calibration counters than the report beside them says there were.
ReportNeverAhead ==
    \A t \in Threads :
        (snapshot[t] # None /\ snapshot[t].informed /\ snapshot[t].report # None) =>
            \A s \in DOMAIN snapshot[t].report :
                snapshot[t].report[s] =< snapshot[t].counted[s]

\* However threads take turns, a claim never finds fewer samples than a claim
\* before it that was given back: retrying makes progress towards readiness.
ClaimsAccumulate ==
    \A i, j \in DOMAIN claims : i < j =>
        \A s \in Stages : claims[i][s] =< claims[j][s]
=============================================================================

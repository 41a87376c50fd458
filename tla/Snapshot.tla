------------------------------ MODULE Snapshot ------------------------------
(***************************************************************************)
(* Relaxed snapshots (snapshot.rs) taken while markers write and freezers  *)
(* run.  An observer loads every counter in storage order, one relaxed     *)
(* load at a time, then loads the calibration state, and reads the         *)
(* published report only if that state is Frozen.                          *)
(***************************************************************************)
EXTENDS Calibration

CONSTANTS
    Observers,      \* threads that take snapshots
    MaxSnapshots,   \* bound: snapshots each observer takes
    Scanned         \* the cells whose loads are steps: those the properties of
                    \* the instance look at, all of Cells in general

ASSUME MaxSnapshotsAssumption == MaxSnapshots \in Nat
ASSUME ScannedAssumption == Scanned \subseteq Cells
ASSUME NoReportAssumption == None \notin [Stages -> StageReports]

VARIABLES
    opc,        \* where each observer is in snapshot_relaxed
    reached,    \* places of the storage order each scan has passed
    copy,       \* the counters it has loaded so far, zero elsewhere
    began,      \* history: the state when the scan in progress began
    snapshots   \* completed snapshots, oldest first

observerVars == <<opc, reached, copy, began, snapshots>>
snapshotVars == <<vars, observerVars>>

PerStage(segment) == [i \in 1 .. NumStages |-> <<segment, i - 1>>]
PerStagePair(segment, first, second) ==
    [i \in 1 .. 2 * NumStages |->
        <<segment, (i - 1) \div 2, IF i % 2 = 1 THEN first ELSE second>>]

\* The flat order of the counters slice.
StorageOrder ==
    PerStage("local") \o PerStage("cumulative") \o PerStage("cause")
    \o [i \in 1 .. NumStages - 1 |-> <<"incoming", i>>]
    \o [i \in 1 .. ScanLength |-> ScanCell(i - 1)]
    \o PerStagePair("online", "First", "Predecessor")
    \o PerStagePair("completion", "Success", "Error")
    \o <<<<"diagnostics", "SkippedWhileFreezing">>,
         <<"diagnostics", "MissingPreviousThreshold">>>>

\* The places a scan that has passed the first n has still to load.
Left(n) == {i \in DOMAIN StorageOrder : i > n /\ StorageOrder[i] \in Scanned}

NothingCopied == [cell \in Cells |-> 0]

SnapshotInit ==
    /\ Init
    /\ opc = [o \in Observers |-> "idle"]
    /\ reached = [o \in Observers |-> 0]
    /\ copy = [o \in Observers |-> NothingCopied]
    /\ began = [o \in Observers |-> "Collecting"]
    /\ snapshots = [o \in Observers |-> <<>>]

-----------------------------------------------------------------------------
(* The steps of an observer.                                               *)

BeginSnapshot(o) ==
    /\ opc[o] = "idle"
    /\ Len(snapshots[o]) < MaxSnapshots
    /\ opc' = [opc EXCEPT ![o] = "counters"]
    /\ began' = [began EXCEPT ![o] = calibration_state]
    /\ UNCHANGED <<reached, copy, snapshots>>

\* One relaxed load of the scan.
LoadCounter(o) ==
    /\ opc[o] = "counters"
    /\ \E i \in Left(reached[o]) :
          /\ \A j \in Left(reached[o]) : i =< j
          /\ reached' = [reached EXCEPT ![o] = i]
          /\ copy' = [copy EXCEPT ![o][StorageOrder[i]] =
                         counters[StorageOrder[i]]]
    /\ UNCHANGED <<opc, began, snapshots>>

Complete(o, state, published) ==
    /\ snapshots' = [snapshots EXCEPT ![o] =
                       Append(@, [registry |-> "this",
                                  counters |-> copy[o],
                                  state |-> state,
                                  report |-> published,
                                  spansFreeze |-> FALSE])]
    /\ opc' = [opc EXCEPT ![o] = "idle"]
    /\ reached' = [reached EXCEPT ![o] = 0]
    /\ copy' = [copy EXCEPT ![o] = NothingCopied]
    /\ began' = [began EXCEPT ![o] = "Collecting"]

\* Mutant: the state is the one observed before the counters were loaded.
ObserveStateFirst(o) ==
    /\ opc[o] = "counters"
    /\ Left(reached[o]) = {}
    /\ IF began[o] = "Frozen"
       THEN /\ opc' = [opc EXCEPT ![o] = "report"]
            /\ UNCHANGED <<reached, copy, began, snapshots>>
       ELSE Complete(o, began[o], None)

\* The acquire load of the state, after every counter.
ObserveState(o) ==
    /\ opc[o] = "counters"
    /\ Left(reached[o]) = {}
    /\ IF calibration_state = "Frozen"
       THEN /\ opc' = [opc EXCEPT ![o] = "report"]
            /\ UNCHANGED <<reached, copy, began, snapshots>>
       ELSE Complete(o, calibration_state, None)

\* frozen_calibration_report: stages without published thresholds are dropped.
PublishedReport ==
    LET published == {s \in Stages : frozen_calibration[s] # None}
    IN  [s \in published |-> frozen_calibration[s]]

ReadReport(o) ==
    /\ opc[o] = "report"
    /\ Complete(o, "Frozen",
                IF calibration_state = "Frozen" THEN PublishedReport ELSE None)

ObserverStep(o) ==
    BeginSnapshot(o) \/ LoadCounter(o) \/ ObserveState(o) \/ ReadReport(o)

SnapshotNext ==
    \/ Next /\ UNCHANGED observerVars
    \/ \E o \in Observers : ObserverStep(o) /\ UNCHANGED vars

SnapshotSpec == SnapshotInit /\ [][SnapshotNext]_snapshotVars

-----------------------------------------------------------------------------
(* Properties.                                                             *)

Taken == UNION {{snapshots[o][i] : i \in DOMAIN snapshots[o]} : o \in Observers}

\* Online samples are never visible without the thresholds that classified
\* them: the counters are scanned before the state is loaded.
OnlineImpliesThresholds ==
    \A snapshot \in Taken :
        (\E s \in Stages, k \in {"First", "Predecessor"} :
            snapshot.counters[<<"online", s, k>>] > 0)
          => snapshot.report # None
=============================================================================

---------------------------- MODULE Windows_proofs ----------------------------
(***************************************************************************)
(* Proofs about the readers (modules Snapshot, Readers and Windows): what  *)
(* a torn scan may show, what diagnosis answers, and what a window counts, *)
(* for any markers, freezers, observers and stages.                        *)
(***************************************************************************)
EXTENDS Windows, Calibration_proofs

USE NumStagesAssumption

-----------------------------------------------------------------------------
(* What the readers rely on of the calibration.                            *)

\* Readers leave the recorder alone.
LEMMA SnapshotRefinesSpec == SnapshotSpec => Spec
<1>1. SnapshotInit => Init
  BY DEF SnapshotInit
<1>2. [SnapshotNext]_snapshotVars => [Next]_vars
  BY DEF SnapshotNext, snapshotVars
<1>3. QED
  BY <1>1, <1>2, PTL DEF SnapshotSpec, Spec

\* A counter never decreases.
LEMMA CountersGrow ==
    ASSUME TypeOK, [Next]_vars
    PROVE  \A cell \in Cells : counters[cell] =< counters'[cell]
<1>1. ASSUME NEW m \in Markers, MarkerStep(m)
      PROVE  \A cell \in Cells : counters[cell] =< counters'[cell]
  <2>1. CASE Increment(m)
    BY <2>1 DEF Increment, TypeOK
  <2>2. CASE ~Increment(m)
    <3>1. UNCHANGED counters
      BY <1>1, <2>2 DEF MarkerStep, Start, BeginMark, LoadState, ReadThresholds,
                        EndMark, recorderVars
    <3>2. QED
      BY <3>1 DEF TypeOK
  <2>3. QED
    BY <2>1, <2>2
<1>2. ASSUME UNCHANGED counters
      PROVE  \A cell \in Cells : counters[cell] =< counters'[cell]
  BY <1>2 DEF TypeOK
<1>3. ASSUME NEW f \in Freezers, FreezerStep(f)
      PROVE  UNCHANGED counters
  BY <1>3 DEF FreezerStep, Proceed, Call, LoadEntry, ScanStep, Judge, Claim,
              Decide, Restore, PublishStage, Release, recorderVars
<1>4. CASE UNCHANGED vars
  BY <1>2, <1>4 DEF vars, recorderVars
<1>5. QED
  BY <1>1, <1>2, <1>3, <1>4 DEF Next

\* Once Frozen, the thresholds are a whole and acceptable bundle.
FrozenBundle ==
    calibration_state = "Frozen" =>
        /\ frozen_calibration \in [Stages -> StageReports]
        /\ ReadyBundle(frozen_calibration, 0)

LEMMA FrozenBundleStep ==
    ASSUME TypeOK, TypeOK', IInv, FrozenBundle, [Next]_vars
    PROVE  FrozenBundle'
<1> SUFFICES ASSUME calibration_state' = "Frozen"
             PROVE  /\ frozen_calibration' \in [Stages -> StageReports]
                    /\ ReadyBundle(frozen_calibration', 0)
  BY DEF FrozenBundle, ReadyBundle
<1>1. CASE calibration_state = "Frozen"
  <2>1. frozen_calibration \in [Stages -> StageReports]
    BY <1>1 DEF FrozenBundle
  <2>2. \A s \in Stages : frozen_calibration[s] # None
    BY <1>1 DEF IInv, BundleInv
  <2>3. \A s \in Stages : frozen_calibration'[s] = frozen_calibration[s]
    BY <2>2, FinalStep
  <2>4. frozen_calibration' \in [Stages -> StageReports \cup {None}]
    BY DEF TypeOK
  <2>5. frozen_calibration' = frozen_calibration
    BY <2>1, <2>3, <2>4
  <2>6. QED
    BY <1>1, <2>1, <2>5 DEF FrozenBundle
<1>2. CASE calibration_state # "Frozen"
  <2>1. PICK f \in Freezers : Release(f)
    <3>1. ASSUME NEW m \in Markers, MarkerStep(m)
          PROVE  FALSE
      BY <1>2, <3>1, MarkerFrame
    <3>2. ASSUME NEW f \in Freezers, FreezerStep(f), ~Release(f)
          PROVE  FALSE
      BY <1>2, <3>2 DEF FreezerStep, Proceed, Call, LoadEntry, ScanStep, Judge,
                        Claim, Decide, Restore, PublishStage, recorderVars
    <3>3. QED
      BY <1>2, <3>1, <3>2 DEF Next, vars, recorderVars
  <2>2. /\ report[f] \in [Stages -> StageReports]
        /\ ReadyBundle(report[f], minimum[f])
        /\ \A s \in Stages : frozen_calibration[s] = report[f][s]
    BY <2>1 DEF Release, IInv, PublisherInv, Stages
  <2>3. frozen_calibration' = report[f]
    BY <2>1, <2>2 DEF Release, TypeOK
  <2>4. ReadyBundle(report[f], 0)
    <3>1. minimum[f] \in Nat
      BY DEF TypeOK
    <3>2. \A s \in Stages, p \in Populations : report[f][s][p].samples \in Nat
      BY <2>2 DEF StageReports
    <3>3. QED
      BY <2>2, <3>1, <3>2 DEF ReadyBundle
  <2>5. QED
    BY <2>2, <2>3, <2>4
<1>3. QED
  BY <1>1, <1>2

LEMMA FrozenBundleHolds == Spec => []FrozenBundle
<1>1. Init => FrozenBundle
  BY DEF Init, RecorderInit, FrozenBundle
<1>2. TypeOK /\ TypeOK' /\ IInv /\ FrozenBundle /\ [Next]_vars => FrozenBundle'
  BY FrozenBundleStep
<1>3. QED
  BY <1>1, <1>2, TypeCorrect, Inductive, PTL DEF Spec

-----------------------------------------------------------------------------
(* The storage order holds cells, and all of them.                         *)

Holds(sequence, x) == \E i \in 1 .. Len(sequence) : sequence[i] = x

\* A sequence over S that holds every element of part.
Lists(sequence, S, part) ==
    /\ sequence \in Seq(S)
    /\ \A x \in part : Holds(sequence, x)

LEMMA ListsConcat ==
    ASSUME NEW S, NEW s, NEW t, NEW P, NEW Q, Lists(s, S, P), Lists(t, S, Q)
    PROVE  Lists(s \o t, S, P \cup Q)
<1>1. /\ s \in Seq(S) /\ t \in Seq(S)
      /\ s \o t \in Seq(S)
      /\ Len(s \o t) = Len(s) + Len(t)
      /\ Len(s) \in Nat /\ Len(t) \in Nat
      /\ \A i \in 1 .. Len(s) + Len(t) :
            (s \o t)[i] = IF i <= Len(s) THEN s[i] ELSE t[i - Len(s)]
  BY DEF Lists
<1>2. ASSUME NEW x \in P PROVE Holds(s \o t, x)
  <2>1. PICK i \in 1 .. Len(s) : s[i] = x
    BY <1>2 DEF Lists, Holds
  <2>2. i \in 1 .. Len(s \o t) /\ (s \o t)[i] = x
    BY <1>1, <2>1
  <2>3. QED
    BY <2>2 DEF Holds
<1>3. ASSUME NEW x \in Q PROVE Holds(s \o t, x)
  <2>1. PICK i \in 1 .. Len(t) : t[i] = x
    BY <1>3 DEF Lists, Holds
  <2>2. i + Len(s) \in 1 .. Len(s \o t) /\ (s \o t)[i + Len(s)] = x
    BY <1>1, <2>1
  <2>3. QED
    BY <2>2 DEF Holds
<1>4. QED
  BY <1>1, <1>2, <1>3 DEF Lists

LEMMA PerStageLists ==
    ASSUME NEW segment \in {"local", "cumulative", "cause"}
    PROVE  Lists(PerStage(segment), Cells, {segment} \X Stages)
<1>1. \A i \in 1 .. NumStages : <<segment, i - 1>> \in Cells
  <2>1. \A i \in 1 .. NumStages : i - 1 \in Stages
    BY DEF Stages
  <2>2. \A s \in Stages : <<segment, s>> \in Cells
    BY DEF Cells
  <2>3. QED
    BY <2>1, <2>2
<1>2. PerStage(segment) \in Seq(Cells) /\ Len(PerStage(segment)) = NumStages
  BY <1>1 DEF PerStage
<1>3. ASSUME NEW x \in {segment} \X Stages PROVE Holds(PerStage(segment), x)
  <2>1. PICK s \in Stages : x = <<segment, s>>
    OBVIOUS
  <2>2. s + 1 \in 1 .. NumStages /\ (s + 1) - 1 = s
    BY DEF Stages
  <2>3. PerStage(segment)[s + 1] = x
    BY <2>1, <2>2 DEF PerStage
  <2>4. QED
    BY <1>2, <2>2, <2>3 DEF Holds
<1>4. QED
  BY <1>2, <1>3 DEF Lists

LEMMA PerStagePairLists ==
    ASSUME NEW segment, NEW first, NEW second,
           \A s \in Stages : <<segment, s, first>> \in Cells
                             /\ <<segment, s, second>> \in Cells
    PROVE  Lists(PerStagePair(segment, first, second), Cells,
                 {segment} \X Stages \X {first, second})
<1> DEFINE pairs == PerStagePair(segment, first, second)
           cell(i) == <<segment, (i - 1) \div 2, IF i % 2 = 1 THEN first ELSE second>>
<1>1. \A i \in 1 .. 2 * NumStages : cell(i) \in Cells
  <2> SUFFICES ASSUME NEW i \in 1 .. 2 * NumStages PROVE cell(i) \in Cells
    OBVIOUS
  <2>1. (i - 1) \div 2 \in Stages
    BY DEF Stages
  <2>2. QED
    BY <2>1
<1>2. pairs = [i \in 1 .. 2 * NumStages |-> cell(i)]
  BY DEF PerStagePair
<1> HIDE DEF cell
<1>3. pairs \in Seq(Cells) /\ Len(pairs) = 2 * NumStages
  BY <1>1, <1>2
<1>4. ASSUME NEW x \in {segment} \X Stages \X {first, second} PROVE Holds(pairs, x)
  <2>1. PICK s \in Stages, k \in {first, second} : x = <<segment, s, k>>
    OBVIOUS
  <2>2. PICK i \in 1 .. 2 * NumStages : i = 2 * s + 1
    BY DEF Stages
  <2>3. PICK j \in 1 .. 2 * NumStages : j = 2 * s + 2
    BY DEF Stages
  <2> s \in Nat
    BY DEF Stages
  <2>4. (i - 1) \div 2 = s /\ i % 2 = 1
    BY <2>2
  <2>5. (j - 1) \div 2 = s /\ j % 2 = 0
    BY <2>3
  <2>6. cell(i) = <<segment, s, first>>
    BY <2>4 DEF cell
  <2>7. cell(j) = <<segment, s, second>>
    BY <2>5 DEF cell
  <2>8. pairs[i] = <<segment, s, first>>
    BY <1>2, <2>6
  <2>9. pairs[j] = <<segment, s, second>>
    BY <1>2, <2>7
  <2>10. QED
    BY <1>3, <2>1, <2>8, <2>9 DEF Holds
<1>5. QED
  BY <1>3, <1>4 DEF Lists

LEMMA ScanCellsLists ==
    Lists([i \in 1 .. ScanLength |-> ScanCell(i - 1)], Cells, CalibrationCells)
<1> DEFINE scanned == [i \in 1 .. ScanLength |-> ScanCell(i - 1)]
<1>1. \A i \in 1 .. ScanLength : ScanCell(i - 1) \in CalibrationCells
  BY ScanCellType DEF ScanLength
<1>2. scanned \in Seq(Cells) /\ Len(scanned) = ScanLength
  BY <1>1, CellTypes DEF ScanLength
<1>3. ASSUME NEW x \in CalibrationCells PROVE Holds(scanned, x)
  <2>1. PICK s \in Stages, p \in Populations, c \in Classes :
            x = <<"calibration", s, p, c>>
    BY DEF CalibrationCells
  <2>2. PICK pi \in 0 .. 2 : PopulationOrder[pi + 1] = p
    <3>1. /\ PopulationOrder[0 + 1] = "Local"
          /\ PopulationOrder[1 + 1] = "CumulativeAfter"
          /\ PopulationOrder[2 + 1] = "PreviousCumulative"
      BY DEF PopulationOrder
    <3>2. p \in {"Local", "CumulativeAfter", "PreviousCumulative"}
      BY DEF Populations
    <3>3. 0 \in 0 .. 2 /\ 1 \in 0 .. 2 /\ 2 \in 0 .. 2
      OBVIOUS
    <3>4. QED
      BY <3>1, <3>2, <3>3
  <2>3. PICK ci \in 0 .. 2 : ClassOrder[ci + 1] = c
    <3>1. /\ ClassOrder[0 + 1] = "Lower"
          /\ ClassOrder[1 + 1] = "Finite"
          /\ ClassOrder[2 + 1] = "Upper"
      BY DEF ClassOrder
    <3>2. c \in {"Lower", "Finite", "Upper"}
      BY DEF Classes
    <3>3. 0 \in 0 .. 2 /\ 1 \in 0 .. 2 /\ 2 \in 0 .. 2
      OBVIOUS
    <3>4. QED
      BY <3>1, <3>2, <3>3
  <2> DEFINE n == 9 * s + 3 * pi + ci
  <2>4. /\ n + 1 \in 1 .. ScanLength
        /\ n \div 9 = s /\ (n \div 3) % 3 = pi /\ n % 3 = ci
    <3>1. s \in 0 .. NumStages - 1
      BY DEF Stages
    <3>2. n + 1 \in 1 .. ScanLength
      BY <3>1 DEF ScanLength
    <3>3. n \div 9 = s
      BY <3>1
    <3>4. n \div 3 = 3 * s + pi
      BY <3>1
    <3>5. (3 * s + pi) % 3 = pi
      BY <3>1
    <3>6. n % 3 = ci
      BY <3>1
    <3>7. QED
      BY <3>2, <3>3, <3>4, <3>5, <3>6
  <2>5. ScanCell(n) = x
    BY <2>1, <2>2, <2>3, <2>4 DEF ScanCell
  <2>6. (n + 1) - 1 = n
    BY DEF Stages
  <2> HIDE DEF n
  <2>7. scanned[n + 1] = x
    BY <2>4, <2>5, <2>6
  <2>8. QED
    BY <1>2, <2>4, <2>7 DEF Holds
<1>4. QED
  BY <1>2, <1>3 DEF Lists

LEMMA StorageOrderLists == Lists(StorageOrder, Cells, Cells)
<1> DEFINE incoming == [i \in 1 .. NumStages - 1 |-> <<"incoming", i>>]
           calibration == [i \in 1 .. ScanLength |-> ScanCell(i - 1)]
           online == PerStagePair("online", "First", "Predecessor")
           completion == PerStagePair("completion", "Success", "Error")
           diagnostics == <<<<"diagnostics", "SkippedWhileFreezing">>,
                            <<"diagnostics", "MissingPreviousThreshold">>>>
           online_cells == {"online"} \X Stages \X {"First", "Predecessor"}
           completion_cells == {"completion"} \X Stages \X {"Success", "Error"}
<1>1. Lists(PerStage("local"), Cells, {"local"} \X Stages)
  BY PerStageLists
<1>2. Lists(PerStage("cumulative"), Cells, {"cumulative"} \X Stages)
  BY PerStageLists
<1>3. Lists(PerStage("cause"), Cells, {"cause"} \X Stages)
  BY PerStageLists
<1>4. Lists(incoming, Cells, {"incoming"} \X (Stages \ {0}))
  <2>1. \A i \in 1 .. NumStages - 1 : <<"incoming", i>> \in Cells
    <3>1. \A i \in 1 .. NumStages - 1 : i \in Stages /\ i > 0
      BY DEF Stages
    <3>2. QED
      BY <3>1, CellTypes
  <2>2. incoming \in Seq(Cells) /\ Len(incoming) = NumStages - 1
    BY <2>1
  <2>3. ASSUME NEW x \in {"incoming"} \X (Stages \ {0}) PROVE Holds(incoming, x)
    <3>1. PICK s \in Stages \ {0} : x = <<"incoming", s>>
      OBVIOUS
    <3>2. s \in 1 .. NumStages - 1
      BY DEF Stages
    <3>3. QED
      BY <2>2, <3>1, <3>2 DEF Holds
  <2>4. QED
    BY <2>2, <2>3 DEF Lists
<1>5. Lists(calibration, Cells, CalibrationCells)
  BY ScanCellsLists
<1>6. Lists(online, Cells, online_cells)
  <2>1. \A s \in Stages : <<"online", s, "First">> \in Cells
                          /\ <<"online", s, "Predecessor">> \in Cells
    BY CellTypes
  <2>2. QED
    BY <2>1, PerStagePairLists
<1>7. Lists(completion, Cells, completion_cells)
  <2>1. \A s \in Stages : <<"completion", s, "Success">> \in Cells
                          /\ <<"completion", s, "Error">> \in Cells
    BY CellTypes DEF Outcomes
  <2>2. QED
    BY <2>1, PerStagePairLists
<1>8. Lists(diagnostics, Cells, {"diagnostics"} \X Diagnostics)
  <2>1. diagnostics \in Seq(Cells) /\ Len(diagnostics) = 2
    BY CellTypes DEF Diagnostics
  <2>2. /\ diagnostics[1] = <<"diagnostics", "SkippedWhileFreezing">>
        /\ diagnostics[2] = <<"diagnostics", "MissingPreviousThreshold">>
        /\ 1 \in 1 .. 2 /\ 2 \in 1 .. 2
    OBVIOUS
  <2>3. ASSUME NEW x \in {"diagnostics"} \X Diagnostics PROVE Holds(diagnostics, x)
    BY <2>1, <2>2 DEF Diagnostics, Holds
  <2>4. QED
    BY <2>1, <2>3 DEF Lists
<1> DEFINE named == ({"local"} \X Stages) \cup ({"cumulative"} \X Stages)
                    \cup ({"cause"} \X Stages)
                    \cup ({"incoming"} \X (Stages \ {0}))
                    \cup CalibrationCells
                    \cup online_cells
                    \cup completion_cells
                    \cup ({"diagnostics"} \X Diagnostics)
<1>9. Lists(StorageOrder, Cells, named)
  <2> HIDE DEF incoming, calibration, online, completion, diagnostics,
               online_cells, completion_cells
  <2>1. Lists(PerStage("local") \o PerStage("cumulative") \o PerStage("cause"),
              Cells, ({"local"} \X Stages) \cup ({"cumulative"} \X Stages)
                     \cup ({"cause"} \X Stages))
    BY <1>1, <1>2, <1>3, ListsConcat
  <2>2. Lists(PerStage("local") \o PerStage("cumulative") \o PerStage("cause")
              \o incoming \o calibration,
              Cells, ({"local"} \X Stages) \cup ({"cumulative"} \X Stages)
                     \cup ({"cause"} \X Stages)
                     \cup ({"incoming"} \X (Stages \ {0})) \cup CalibrationCells)
    BY <1>4, <1>5, <2>1, ListsConcat
  <2>3. Lists(PerStage("local") \o PerStage("cumulative") \o PerStage("cause")
              \o incoming \o calibration \o online \o completion \o diagnostics,
              Cells, named)
    BY <1>6, <1>7, <1>8, <2>2, ListsConcat, ZenonT(60)
  <2>4. StorageOrder = PerStage("local") \o PerStage("cumulative")
                       \o PerStage("cause") \o incoming \o calibration
                       \o online \o completion \o diagnostics
    BY DEF StorageOrder, incoming, calibration, online, completion, diagnostics
  <2>5. QED
    BY <2>3, <2>4
<1>10. Cells \subseteq named
  BY DEF Cells, Outcomes
<1>11. QED
  BY <1>9, <1>10 DEF Lists

LEMMA StorageOrderType ==
    /\ DOMAIN StorageOrder = 1 .. Len(StorageOrder) /\ Len(StorageOrder) \in Nat
    /\ \A i \in DOMAIN StorageOrder : StorageOrder[i] \in Cells
BY StorageOrderLists DEF Lists

\* Every cell has a place.
LEMMA EveryCellStored ==
    \A cell \in Cells : \E i \in DOMAIN StorageOrder : StorageOrder[i] = cell
BY StorageOrderLists, SMTT(30) DEF Lists, Holds

-----------------------------------------------------------------------------
(* Torn scans.                                                             *)

OnlineCell(s, k) == <<"online", s, k>>
OnlineKinds == {"First", "Predecessor"}

\* A completed snapshot: its report, if any, covers every stage.
SnapshotType ==
    [registry : {"this"}, counters : [Cells -> Nat],
     state : {"Collecting", "Freezing", "Frozen"},
     report : [Stages -> StageReports] \cup {None}, spansFreeze : {FALSE}]

ObserverTypes ==
    /\ opc \in [Observers -> {"idle", "counters", "report"}]
    /\ reached \in [Observers -> Nat]
    /\ copy \in [Observers -> [Cells -> Nat]]
    /\ snapshots \in [Observers -> Seq(SnapshotType)]

\* What a scan has copied of the online counters, before Frozen, is zero.
CopyInv ==
    \A o \in Observers :
        /\ opc[o] = "report" => calibration_state = "Frozen"
        /\ calibration_state # "Frozen" =>
              \A s \in Stages, k \in OnlineKinds : copy[o][OnlineCell(s, k)] = 0

\* A snapshot that says Frozen has the report of every stage; another has
\* none, and no online sample either.
Honest(snapshot) ==
    /\ snapshot.state = "Frozen" =>
          /\ calibration_state = "Frozen"
          /\ snapshot.report = frozen_calibration
    /\ snapshot.state # "Frozen" =>
          /\ snapshot.report = None
          /\ \A s \in Stages, k \in OnlineKinds :
                snapshot.counters[OnlineCell(s, k)] = 0

TakenInv ==
    \A o \in Observers : \A i \in 1 .. Len(snapshots[o]) : Honest(snapshots[o][i])

ReaderInv == ObserverTypes /\ CopyInv /\ TakenInv

LEMMA OnlineCellType ==
    ASSUME NEW s \in Stages, NEW k \in OnlineKinds
    PROVE  OnlineCell(s, k) \in Cells
BY CellTypes DEF OnlineCell, OnlineKinds

\* Once Frozen, the report of a recorder is its whole bundle.
LEMMA ReportWhole ==
    ASSUME IInv, FrozenBundle, calibration_state = "Frozen"
    PROVE  PublishedReport = frozen_calibration
<1>1. {s \in Stages : frozen_calibration[s] # None} = Stages
  BY DEF IInv, BundleInv
<1>2. frozen_calibration = [s \in Stages |-> frozen_calibration[s]]
  BY DEF FrozenBundle
<1>3. QED
  BY <1>1, <1>2 DEF PublishedReport

\* What is honest stays honest while the recorder goes on.
LEMMA HonestStep ==
    ASSUME TypeOK, IInv, FrozenBundle, FrozenBundle', [Next]_vars,
           NEW snapshot, Honest(snapshot)
    PROVE  Honest(snapshot)'
<1>1. calibration_state = "Frozen" =>
        calibration_state' = "Frozen" /\ frozen_calibration' = frozen_calibration
  <2> SUFFICES ASSUME calibration_state = "Frozen"
               PROVE  /\ calibration_state' = "Frozen"
                      /\ frozen_calibration' = frozen_calibration
    OBVIOUS
  <2>1. calibration_state' = "Frozen"
    BY FinalStep
  <2>2. \A s \in Stages : frozen_calibration'[s] = frozen_calibration[s]
    BY FinalStep DEF IInv, BundleInv
  <2>3. QED
    BY <2>1, <2>2 DEF FrozenBundle
<1>2. QED
  BY <1>1 DEF Honest

\* Steps of the recorder.
LEMMA ReaderWriterStep ==
    ASSUME TypeOK, IInv, FrozenBundle, FrozenBundle', ReaderInv,
           [Next]_vars, UNCHANGED observerVars
    PROVE  ReaderInv'
<1>1. ObserverTypes'
  BY DEF ReaderInv, ObserverTypes, observerVars
<1>2. CopyInv'
  BY FinalStep DEF ReaderInv, CopyInv, observerVars
<1>3. TakenInv'
  BY HonestStep DEF ReaderInv, TakenInv, observerVars, Honest
<1>4. QED
  BY <1>1, <1>2, <1>3 DEF ReaderInv

\* Completing a scan adds one snapshot, and it must be an honest one.
LEMMA CompleteStep ==
    ASSUME ReaderInv, UNCHANGED vars, NEW o \in Observers, NEW state, NEW published,
           Complete(o, state, published),
           state \in {"Collecting", "Freezing", "Frozen"},
           published \in [Stages -> StageReports] \cup {None},
           state = "Frozen" =>
               calibration_state = "Frozen" /\ published = frozen_calibration,
           state # "Frozen" =>
               published = None /\ calibration_state # "Frozen"
    PROVE  ReaderInv'
<1> DEFINE taken == [registry |-> "this", counters |-> copy[o], state |-> state,
                     report |-> published, spansFreeze |-> FALSE]
<1>1. taken \in SnapshotType
  BY DEF SnapshotType, ReaderInv, ObserverTypes
<1>2. Honest(taken)
  BY DEF Honest, ReaderInv, CopyInv
<1>3. snapshots' = [snapshots EXCEPT ![o] = Append(@, taken)]
  BY DEF Complete
<1>4. ObserverTypes'
  <2>1. Append(snapshots[o], taken) \in Seq(SnapshotType)
    BY <1>1 DEF ReaderInv, ObserverTypes
  <2>2. snapshots' \in [Observers -> Seq(SnapshotType)]
    BY <1>3, <2>1 DEF ReaderInv, ObserverTypes
  <2>3. NothingCopied \in [Cells -> Nat]
    BY DEF NothingCopied
  <2>4. QED
    BY <2>2, <2>3 DEF ReaderInv, ObserverTypes, Complete
<1>5. CopyInv'
  <2>1. \A s \in Stages, k \in OnlineKinds : NothingCopied[OnlineCell(s, k)] = 0
    BY OnlineCellType DEF NothingCopied
  <2>2. QED
    BY <2>1 DEF ReaderInv, CopyInv, ObserverTypes, Complete, vars, recorderVars
<1>6. TakenInv'
  <2> SUFFICES ASSUME NEW p \in Observers, NEW i \in 1 .. Len(snapshots'[p])
               PROVE  Honest(snapshots'[p][i])
    BY DEF TakenInv, Honest, vars, recorderVars
  <2>1. CASE p = o /\ i = Len(snapshots[o]) + 1
    BY <1>1, <1>2, <1>3, <2>1 DEF ReaderInv, ObserverTypes
  <2>2. CASE ~(p = o /\ i = Len(snapshots[o]) + 1)
    <3>1. i \in 1 .. Len(snapshots[p]) /\ snapshots'[p][i] = snapshots[p][i]
      BY <1>1, <1>3, <2>2 DEF ReaderInv, ObserverTypes
    <3>2. QED
      BY <3>1 DEF ReaderInv, TakenInv
  <2>3. QED
    BY <2>1, <2>2
<1>7. QED
  BY <1>4, <1>5, <1>6 DEF ReaderInv

LEMMA ReaderObserverStep ==
    ASSUME TypeOK, IInv, FrozenBundle, OnlineNeedsFrozen, ReaderInv,
           NEW o \in Observers, ObserverStep(o), UNCHANGED vars
    PROVE  ReaderInv'
<1> USE DEF vars, recorderVars
<1>1. CASE BeginSnapshot(o)
  BY <1>1 DEF BeginSnapshot, ReaderInv, ObserverTypes, CopyInv, TakenInv, Honest
<1>2. CASE LoadCounter(o)
  <2>1. PICK i \in Left(reached[o]) :
            /\ reached' = [reached EXCEPT ![o] = i]
            /\ copy' = [copy EXCEPT ![o][StorageOrder[i]] =
                          counters[StorageOrder[i]]]
    BY <1>2 DEF LoadCounter
  <2>2. StorageOrder[i] \in Cells /\ i \in Nat
    BY StorageOrderType, ScannedAssumption DEF Left
  <2>3. ObserverTypes'
    BY <1>2, <2>1, <2>2 DEF LoadCounter, ReaderInv, ObserverTypes, TypeOK
  <2>4. CopyInv'
    <3> SUFFICES ASSUME NEW p \in Observers, NEW s \in Stages, NEW k \in OnlineKinds,
                        calibration_state # "Frozen"
                 PROVE  copy'[p][OnlineCell(s, k)] = 0
      BY <1>2 DEF LoadCounter, CopyInv, ReaderInv
    <3>1. counters[OnlineCell(s, k)] = 0
      BY DEF OnlineNeedsFrozen, OnlineCell, OnlineKinds
    <3>2. copy[p][OnlineCell(s, k)] = 0
      BY DEF ReaderInv, CopyInv
    <3>3. QED
      BY <2>1, <2>2, <3>1, <3>2, OnlineCellType DEF ReaderInv, ObserverTypes
  <2>5. TakenInv'
    BY <1>2 DEF LoadCounter, ReaderInv, TakenInv, Honest
  <2>6. QED
    BY <2>3, <2>4, <2>5 DEF ReaderInv
<1>3. CASE ObserveState(o)
  <2>1. CASE calibration_state = "Frozen"
    <3>1. /\ opc' = [opc EXCEPT ![o] = "report"]
          /\ UNCHANGED <<reached, copy, began, snapshots>>
      BY <1>3, <2>1 DEF ObserveState
    <3>2. ObserverTypes'
      BY <3>1 DEF ReaderInv, ObserverTypes
    <3>3. CopyInv'
      BY <2>1, <3>1 DEF ReaderInv, CopyInv
    <3>4. TakenInv'
      BY <3>1 DEF ReaderInv, TakenInv, Honest
    <3>5. QED
      BY <3>2, <3>3, <3>4 DEF ReaderInv
  <2>2. CASE calibration_state # "Frozen"
    <3>1. Complete(o, calibration_state, None)
      BY <1>3, <2>2 DEF ObserveState
    <3>2. calibration_state \in {"Collecting", "Freezing", "Frozen"}
      BY DEF TypeOK
    <3>3. QED
      BY <2>2, <3>1, <3>2, CompleteStep
  <2>3. QED
    BY <2>1, <2>2
<1>4. CASE ReadReport(o)
  <2>1. calibration_state = "Frozen"
    BY <1>4 DEF ReadReport, ReaderInv, CopyInv
  <2>2. Complete(o, "Frozen", frozen_calibration)
    BY <1>4, <2>1, ReportWhole DEF ReadReport
  <2>3. frozen_calibration \in [Stages -> StageReports]
    BY <2>1 DEF FrozenBundle
  <2>4. QED
    BY <2>1, <2>2, <2>3, CompleteStep
<1>5. QED
  BY <1>1, <1>2, <1>3, <1>4 DEF ObserverStep

LEMMA InitReaderInv == SnapshotInit => ReaderInv
<1> SUFFICES ASSUME SnapshotInit PROVE ReaderInv
  OBVIOUS
<1>1. NothingCopied \in [Cells -> Nat]
  BY DEF NothingCopied
<1>2. \A s \in Stages, k \in OnlineKinds : NothingCopied[OnlineCell(s, k)] = 0
  BY OnlineCellType DEF NothingCopied
<1>3. <<>> \in Seq(SnapshotType) /\ Len(<<>>) = 0
  OBVIOUS
<1>4. ObserverTypes
  BY <1>1, <1>3 DEF SnapshotInit, ObserverTypes
<1>5. CopyInv
  BY <1>2 DEF SnapshotInit, CopyInv
<1>6. TakenInv
  BY <1>3 DEF SnapshotInit, TakenInv
<1>7. QED
  BY <1>4, <1>5, <1>6 DEF ReaderInv

\* What observers hold is sound, whatever the recorder does meanwhile.
THEOREM ReaderInductive == SnapshotSpec => []ReaderInv
<1>1. SnapshotInit => ReaderInv
  BY InitReaderInv
<1>2. /\ TypeOK /\ IInv /\ FrozenBundle /\ FrozenBundle' /\ OnlineNeedsFrozen
      /\ ReaderInv /\ [SnapshotNext]_snapshotVars
      => ReaderInv'
  <2> SUFFICES ASSUME TypeOK, IInv, FrozenBundle, FrozenBundle',
                      OnlineNeedsFrozen, ReaderInv, [SnapshotNext]_snapshotVars
               PROVE  ReaderInv'
    OBVIOUS
  <2>1. CASE Next /\ UNCHANGED observerVars
    BY <2>1, ReaderWriterStep
  <2>2. CASE \E o \in Observers : ObserverStep(o) /\ UNCHANGED vars
    BY <2>2, ReaderObserverStep
  <2>3. CASE UNCHANGED snapshotVars
    BY <2>3, ReaderWriterStep DEF snapshotVars
  <2>4. QED
    BY <2>1, <2>2, <2>3 DEF SnapshotNext
<1>3. QED
  BY <1>1, <1>2, SnapshotRefinesSpec, TypeCorrect, Inductive, FrozenBundleHolds,
     OnlineNeedsFrozenHolds, PTL DEF SnapshotSpec

LEMMA TakenSnapshot ==
    ASSUME ReaderInv, NEW snapshot \in Taken
    PROVE  snapshot \in SnapshotType /\ Honest(snapshot)
<1>1. PICK o \in Observers : \E i \in DOMAIN snapshots[o] : snapshot = snapshots[o][i]
  BY DEF Taken
<1>2. PICK i \in 1 .. Len(snapshots[o]) : snapshot = snapshots[o][i]
  BY <1>1 DEF ReaderInv, ObserverTypes
<1>3. QED
  BY <1>2 DEF ReaderInv, ObserverTypes, TakenInv

\* Online samples are never visible without the thresholds that classified
\* them, in the snapshots of any observers, markers and freezers (the counters
\* of snapshot_relaxed are scanned before the state is loaded).
THEOREM OnlineImpliesThresholdsHolds == SnapshotSpec => []OnlineImpliesThresholds
<1>1. ReaderInv /\ FrozenBundle => OnlineImpliesThresholds
  <2> SUFFICES ASSUME ReaderInv, FrozenBundle, NEW snapshot \in Taken,
                      NEW s \in Stages, NEW k \in {"First", "Predecessor"},
                      snapshot.counters[<<"online", s, k>>] > 0
               PROVE  snapshot.report # None
    BY DEF OnlineImpliesThresholds
  <2>1. Honest(snapshot)
    BY TakenSnapshot
  <2>2. snapshot.state = "Frozen"
    <3>1. k \in OnlineKinds /\ snapshot.counters[OnlineCell(s, k)] > 0
      BY DEF OnlineKinds, OnlineCell
    <3>2. snapshot.counters[OnlineCell(s, k)] # 0
      BY <3>1
    <3>3. QED
      BY <2>1, <3>1, <3>2 DEF Honest
  <2>3. snapshot.report \in [Stages -> StageReports]
    BY <2>1, <2>2 DEF Honest, FrozenBundle
  <2>4. QED
    BY <2>3, NoReportAssumption
<1>2. QED
  BY <1>1, ReaderInductive, SnapshotRefinesSpec, FrozenBundleHolds, PTL

-----------------------------------------------------------------------------
(* What diagnose answers.                                                  *)

\* A stage of this registry is answered exactly when Frozen was observed.
LEMMA SnapshotAnswer ==
    ASSUME ReaderInv, FrozenBundle, NEW snapshot \in Taken, NEW stage \in StageIds
    PROVE  Diagnose(snapshot, stage) =
               CASE stage.registry = "other" -> "ForeignStage"
                 [] stage.registry = "this" /\ snapshot.state = "Frozen" -> "Ok"
                 [] OTHER -> "NotCalibrated"
<1>1. snapshot \in SnapshotType /\ Honest(snapshot)
  BY TakenSnapshot
<1>2. snapshot.registry = "this" /\ snapshot.spansFreeze = FALSE
  BY <1>1 DEF SnapshotType
<1>3. CASE stage.registry = "other"
  BY <1>2, <1>3 DEF Diagnose, StageIndex
<1>4. CASE stage.registry = "this"
  <2>1. /\ StageIndex(snapshot, stage) = stage.index
        /\ stage.index \in Stages /\ stage.index # None
    BY <1>2, <1>4, NoStageAssumption DEF StageIndex, StageIds
  <2>2. CASE snapshot.state # "Frozen"
    BY <1>1, <1>2, <1>4, <2>1, <2>2 DEF Diagnose, Honest
  <2>3. CASE snapshot.state = "Frozen"
    <3>1. /\ snapshot.report \in [Stages -> StageReports]
          /\ ReadyBundle(snapshot.report, 0)
      BY <1>1, <2>3 DEF Honest, FrozenBundle
    <3>2. snapshot.report # None /\ DOMAIN snapshot.report = Stages
      BY <3>1, NoReportAssumption
    <3>3. ThresholdsUnwrap(snapshot.report[stage.index])
      BY <2>1, <3>1 DEF ReadyBundle, ThresholdsUnwrap, Populations
    <3>4. QED
      BY <1>2, <1>4, <2>1, <2>3, <3>2, <3>3 DEF Diagnose
  <2>4. QED
    BY <2>2, <2>3
<1>5. QED
  BY <1>3, <1>4 DEF StageIds

\* Whatever interleaves with a scan, a snapshot that observed Frozen can be
\* diagnosed for every stage, another is answered NotCalibrated, no answer of
\* diagnose unwraps a threshold that is not there, and a window that is
\* diagnosed has both its snapshots from the registry of the stage.
THEOREM DiagnosisAnsweredHolds == SnapshotSpec => []DiagnosisAnswered
<1>1. ReaderInv /\ FrozenBundle => DiagnosisAnswered
  <2> SUFFICES ASSUME ReaderInv, FrozenBundle PROVE DiagnosisAnswered
    OBVIOUS
  <2>1. ASSUME NEW later, NEW earlier, NEW stage \in StageIds,
               Delta(later, earlier).result = "Ok",
               Diagnose(Delta(later, earlier), stage) = "Ok"
        PROVE  {later.registry, earlier.registry} = {stage.registry}
    <3>1. /\ later.registry = earlier.registry
          /\ Delta(later, earlier).registry = later.registry
      BY <2>1 DEF Delta, Subtract, Refused
    <3>2. StageIndex(Delta(later, earlier), stage) # None
      BY <2>1 DEF Diagnose
    <3>3. stage.registry = Delta(later, earlier).registry
      BY <3>2 DEF StageIndex
    <3>4. QED
      BY <3>1, <3>3
  <2>2. QED
    BY <2>1, SnapshotAnswer DEF DiagnosisAnswered
<1>2. QED
  BY <1>1, ReaderInductive, SnapshotRefinesSpec, FrozenBundleHolds, PTL

-----------------------------------------------------------------------------
(* What a window counts.                                                   *)

AtMost(a, b) == \A cell \in Cells : a[cell] =< b[cell]

HistoryTypes ==
    /\ before \in [Observers -> Seq([Cells -> Nat])]
    /\ after \in [Observers -> Seq([Cells -> Nat])]
    /\ \A o \in Observers :
          /\ Len(after[o]) = Len(snapshots[o])
          /\ Len(before[o]) = IF opc[o] = "idle" THEN Len(snapshots[o])
                              ELSE Len(snapshots[o]) + 1

\* The counters of snapshot i lie between those its scan began and ended with.
Enclosed(o, i) ==
    /\ AtMost(snapshots[o][i].counters, after[o][i])
    /\ \A cell \in Scanned : before[o][i][cell] =< snapshots[o][i].counters[cell]
    /\ \A cell \in Cells \ Scanned : snapshots[o][i].counters[cell] = 0
    /\ snapshots[o][i].state = "Frozen" =>
          atFreeze # None /\ AtMost(atFreeze, after[o][i])

\* The moments the history remembers are ordered.
Ordered(o) ==
    /\ \A i \in 1 .. Len(before[o]) : AtMost(before[o][i], counters)
    /\ \A i \in 1 .. Len(after[o]) : AtMost(after[o][i], counters)
    /\ \A i \in 1 .. Len(after[o]) : \A j \in 1 .. Len(before[o]) :
          i < j => AtMost(after[o][i], before[o][j])

\* What a scan in progress has loaded is no older than its beginning.
Loading(o) ==
    /\ opc[o] = "idle" => reached[o] = 0
    /\ opc[o] = "report" => Left(reached[o]) = {}
    /\ AtMost(copy[o], counters)
    /\ \A cell \in Cells \ Scanned : copy[o][cell] = 0
    /\ opc[o] # "idle" =>
          \A i \in DOMAIN StorageOrder :
              (i =< reached[o] /\ StorageOrder[i] \in Scanned) =>
                  before[o][Len(snapshots[o]) + 1][StorageOrder[i]]
                      =< copy[o][StorageOrder[i]]

FreezeMoment ==
    IF calibration_state = "Frozen"
    THEN atFreeze \in [Cells -> Nat] /\ AtMost(atFreeze, counters)
    ELSE atFreeze = None

ObserverHistory(o) ==
    /\ Ordered(o)
    /\ Loading(o)
    /\ \A i \in 1 .. Len(snapshots[o]) : Enclosed(o, i)

HistoryInv ==
    /\ HistoryTypes
    /\ FreezeMoment
    /\ \A o \in Observers : ObserverHistory(o)

\* The relation is transitive on counters.
LEMMA AtMostTransitive ==
    ASSUME NEW a \in [Cells -> Nat], NEW b \in [Cells -> Nat], NEW c \in [Cells -> Nat],
           AtMost(a, b), AtMost(b, c)
    PROVE  AtMost(a, c)
<1> SUFFICES ASSUME NEW cell \in Cells PROVE a[cell] =< c[cell]
  BY DEF AtMost
<1>1. a[cell] \in Nat /\ b[cell] \in Nat /\ c[cell] \in Nat
  OBVIOUS
<1>2. a[cell] =< b[cell] /\ b[cell] =< c[cell]
  BY DEF AtMost
<1>3. QED
  BY <1>1, <1>2

\* An observer that does nothing keeps its history, whatever the others do.
LEMMA UntouchedHistory ==
    ASSUME TypeOK, TypeOK', ReaderInv, HistoryInv, NEW o \in Observers,
           AtMost(counters, counters'),
           atFreeze # None => atFreeze' = atFreeze,
           opc'[o] = opc[o], reached'[o] = reached[o], copy'[o] = copy[o],
           snapshots'[o] = snapshots[o], before'[o] = before[o], after'[o] = after[o]
    PROVE  ObserverHistory(o)'
<1>1. counters \in [Cells -> Nat] /\ counters' \in [Cells -> Nat]
  BY DEF TypeOK
<1>2. before[o] \in Seq([Cells -> Nat]) /\ after[o] \in Seq([Cells -> Nat])
  BY DEF HistoryInv, HistoryTypes
<1>3. copy[o] \in [Cells -> Nat]
  BY DEF ReaderInv, ObserverTypes
<1>4. ObserverHistory(o)
  BY DEF HistoryInv
<1>5. Ordered(o)'
  <2>1. ASSUME NEW i \in 1 .. Len(before[o]) PROVE AtMost(before[o][i], counters')
    <3>1. before[o][i] \in [Cells -> Nat]
      BY <1>2
    <3>2. AtMost(before[o][i], counters)
      BY <1>4 DEF ObserverHistory, Ordered
    <3>3. QED
      BY <1>1, <3>1, <3>2, AtMostTransitive
  <2>2. ASSUME NEW i \in 1 .. Len(after[o]) PROVE AtMost(after[o][i], counters')
    <3>1. after[o][i] \in [Cells -> Nat]
      BY <1>2
    <3>2. AtMost(after[o][i], counters)
      BY <1>4 DEF ObserverHistory, Ordered
    <3>3. QED
      BY <1>1, <3>1, <3>2, AtMostTransitive
  <2>3. QED
    BY <1>4, <2>1, <2>2 DEF ObserverHistory, Ordered, AtMost
<1>6. Loading(o)'
  <2>1. AtMost(copy[o], counters')
    BY <1>1, <1>3, <1>4, AtMostTransitive DEF ObserverHistory, Loading
  <2>2. QED
    BY <1>4, <2>1 DEF ObserverHistory, Loading, Left, AtMost
<1>7. \A i \in 1 .. Len(snapshots[o]) : Enclosed(o, i)'
  BY <1>4 DEF ObserverHistory, Enclosed, AtMost
<1>8. QED
  BY <1>5, <1>6, <1>7 DEF ObserverHistory

\* Steps of the recorder: counters grow, and the freeze may happen.
LEMMA HistoryWriterStep ==
    ASSUME TypeOK, TypeOK', IInv, ReaderInv, HistoryInv, [Next]_vars,
           UNCHANGED observerVars, UNCHANGED <<before, after>>,
           atFreeze' = IF atFreeze = None /\ calibration_state' = "Frozen"
                       THEN counters ELSE atFreeze
    PROVE  HistoryInv'
<1>1. AtMost(counters, counters')
  BY CountersGrow DEF AtMost
<1>2. HistoryTypes'
  BY DEF HistoryInv, HistoryTypes, observerVars
<1>3. FreezeMoment'
  <2>1. CASE calibration_state = "Frozen"
    <3>1. atFreeze \in [Cells -> Nat] /\ AtMost(atFreeze, counters)
      BY <2>1 DEF HistoryInv, FreezeMoment
    <3>2. calibration_state' = "Frozen" /\ atFreeze' = atFreeze
      <4>1. calibration_state' = "Frozen"
        BY <2>1, FinalStep
      <4>2. atFreeze # None
        BY <3>1, NoCountersAssumption
      <4>3. QED
        BY <4>1, <4>2
    <3>3. AtMost(atFreeze, counters')
      BY <1>1, <3>1, AtMostTransitive DEF TypeOK
    <3>4. QED
      BY <3>1, <3>2, <3>3 DEF FreezeMoment, AtMost
  <2>2. CASE calibration_state # "Frozen"
    <3>1. atFreeze = None
      BY <2>2 DEF HistoryInv, FreezeMoment
    <3>2. QED
      BY <1>1, <3>1 DEF FreezeMoment, AtMost, TypeOK
  <2>3. QED
    BY <2>1, <2>2
<1>4. ASSUME NEW o \in Observers PROVE ObserverHistory(o)'
  <2>1. /\ opc'[o] = opc[o] /\ reached'[o] = reached[o] /\ copy'[o] = copy[o]
        /\ snapshots'[o] = snapshots[o]
        /\ before'[o] = before[o] /\ after'[o] = after[o]
    BY DEF observerVars
  <2>2. QED
    BY <1>1, <2>1, UntouchedHistory
<1>5. QED
  BY <1>2, <1>3, <1>4 DEF HistoryInv

\* An observer leaves the other observers' history, and the freeze, alone.
LEMMA HistoryOthers ==
    ASSUME TypeOK, TypeOK', ReaderInv, HistoryInv, UNCHANGED vars,
           NEW o \in Observers, ObserverStep(o), WindowNext,
           HistoryTypes', ObserverHistory(o)'
    PROVE  HistoryInv'
<1> USE DEF vars, recorderVars
<1>1. atFreeze' = atFreeze
  BY NoCountersAssumption DEF HistoryInv, FreezeMoment, WindowNext
<1>2. FreezeMoment'
  BY <1>1 DEF HistoryInv, FreezeMoment, AtMost
<1>3. ASSUME NEW p \in Observers, p # o PROVE ObserverHistory(p)'
  <2>1. /\ opc'[p] = opc[p] /\ reached'[p] = reached[p] /\ copy'[p] = copy[p]
        /\ snapshots'[p] = snapshots[p]
    BY <1>3 DEF ObserverStep, BeginSnapshot, LoadCounter, ObserveState, ReadReport,
                Complete, ReaderInv, ObserverTypes
  <2>2. before'[p] = before[p] /\ after'[p] = after[p]
    BY <2>1 DEF WindowNext, Begins, Completes
  <2>3. AtMost(counters, counters')
    BY DEF AtMost, TypeOK
  <2>4. QED
    BY <1>1, <2>1, <2>2, <2>3, UntouchedHistory
<1>4. QED
  BY <1>2, <1>3 DEF HistoryInv

LEMMA HistoryBegin ==
    ASSUME TypeOK, TypeOK', ReaderInv, HistoryInv, UNCHANGED vars,
           NEW o \in Observers, BeginSnapshot(o), WindowNext
    PROVE  HistoryTypes' /\ ObserverHistory(o)'
<1> USE DEF vars, recorderVars
<1>1. /\ opc[o] = "idle" /\ opc' = [opc EXCEPT ![o] = "counters"]
      /\ UNCHANGED <<reached, copy, snapshots>>
  BY DEF BeginSnapshot
<1>2. /\ opc \in [Observers -> {"idle", "counters", "report"}]
      /\ snapshots \in [Observers -> Seq(SnapshotType)]
      /\ reached \in [Observers -> Nat]
  BY DEF ReaderInv, ObserverTypes
<1>3. /\ before' = [before EXCEPT ![o] = Append(@, counters)]
      /\ after' = after
  <2>1. \A p \in Observers : Begins(p) <=> p = o
    BY <1>1, <1>2 DEF Begins
  <2>2. \A p \in Observers : ~Completes(p)
    BY <1>1, <1>2 DEF Completes
  <2>3. QED
    BY <2>1, <2>2 DEF WindowNext, HistoryInv, HistoryTypes
<1>4. /\ before \in [Observers -> Seq([Cells -> Nat])]
      /\ after \in [Observers -> Seq([Cells -> Nat])]
      /\ before[o] \in Seq([Cells -> Nat])
      /\ counters \in [Cells -> Nat] /\ counters' = counters
      /\ Len(before[o]) = Len(snapshots[o]) /\ Len(after[o]) = Len(snapshots[o])
      /\ Len(snapshots[o]) \in Nat
  BY <1>1, <1>2 DEF HistoryInv, HistoryTypes, TypeOK
<1>5. /\ before'[o] = Append(before[o], counters)
      /\ Len(before'[o]) = Len(before[o]) + 1
      /\ before'[o][Len(before[o]) + 1] = counters
      /\ \A i \in 1 .. Len(before[o]) : before'[o][i] = before[o][i]
  BY <1>3, <1>4
<1>6. HistoryTypes'
  <2>1. Append(before[o], counters) \in Seq([Cells -> Nat])
    BY <1>4
  <2>2. before' \in [Observers -> Seq([Cells -> Nat])]
    BY <1>3, <1>4, <2>1
  <2>3. \A p \in Observers : Len(before'[p]) =
            IF opc'[p] = "idle" THEN Len(snapshots[p]) ELSE Len(snapshots[p]) + 1
    <3>1. ASSUME NEW p \in Observers, p = o
          PROVE  Len(before'[p]) = Len(snapshots[p]) + 1 /\ opc'[p] # "idle"
      BY <1>1, <1>2, <1>4, <1>5, <3>1
    <3>2. ASSUME NEW p \in Observers, p # o
          PROVE  before'[p] = before[p] /\ opc'[p] = opc[p]
      BY <1>1, <1>2, <1>3, <1>4, <3>2
    <3>3. QED
      BY <3>1, <3>2 DEF HistoryInv, HistoryTypes
  <2>4. QED
    BY <1>1, <1>3, <2>2, <2>3 DEF HistoryInv, HistoryTypes
<1>7. ObserverHistory(o)
  BY DEF HistoryInv
<1>8. Ordered(o)'
  <2>1. AtMost(counters, counters)
    BY <1>4 DEF AtMost
  <2>2. \A i \in 1 .. Len(before'[o]) : AtMost(before'[o][i], counters)
    BY <1>4, <1>5, <1>7, <2>1 DEF ObserverHistory, Ordered
  <2>3. \A i \in 1 .. Len(after[o]) : AtMost(after[o][i], counters)
    BY <1>7 DEF ObserverHistory, Ordered
  <2>4. \A i \in 1 .. Len(after[o]) : \A j \in 1 .. Len(before'[o]) :
            i < j => AtMost(after[o][i], before'[o][j])
    BY <1>4, <1>5, <1>7, <2>3 DEF ObserverHistory, Ordered
  <2>5. QED
    BY <1>3, <1>4, <2>2, <2>3, <2>4 DEF Ordered, AtMost
<1>9. Loading(o)'
  <2>1. \A i \in DOMAIN StorageOrder : ~(i =< reached[o])
    BY <1>1, <1>7, StorageOrderType DEF ObserverHistory, Loading
  <2>2. opc'[o] = "counters"
    BY <1>1, <1>2
  <2>3. QED
    BY <1>1, <1>4, <1>7, <2>1, <2>2 DEF ObserverHistory, Loading, AtMost
<1>10. ASSUME NEW i \in 1 .. Len(snapshots[o]) PROVE Enclosed(o, i)'
  <2>1. Enclosed(o, i)
    BY <1>7 DEF ObserverHistory
  <2>2. before'[o][i] = before[o][i] /\ after'[o][i] = after[o][i]
    BY <1>3, <1>4, <1>5
  <2>3. snapshots' = snapshots
    BY <1>1
  <2>4. atFreeze # None => atFreeze' = atFreeze
    BY DEF WindowNext
  <2>5. QED
    BY <2>1, <2>2, <2>3, <2>4 DEF Enclosed, AtMost
<1>11. QED
  BY <1>1, <1>6, <1>8, <1>9, <1>10 DEF ObserverHistory

LEMMA HistoryLoad ==
    ASSUME TypeOK, TypeOK', ReaderInv, HistoryInv, UNCHANGED vars,
           NEW o \in Observers, LoadCounter(o), WindowNext
    PROVE  HistoryTypes' /\ ObserverHistory(o)'
<1> USE DEF vars, recorderVars
<1>1. /\ opc[o] = "counters" /\ UNCHANGED <<opc, snapshots>>
  BY DEF LoadCounter
<1>2. PICK i \in Left(reached[o]) :
          /\ \A j \in Left(reached[o]) : i =< j
          /\ reached' = [reached EXCEPT ![o] = i]
          /\ copy' = [copy EXCEPT ![o][StorageOrder[i]] = counters[StorageOrder[i]]]
  BY DEF LoadCounter
<1>3. i \in DOMAIN StorageOrder /\ StorageOrder[i] \in Cells /\ StorageOrder[i] \in Scanned
  BY StorageOrderType DEF Left
<1>4. /\ before' = before /\ after' = after
  BY <1>1 DEF WindowNext, Begins, Completes, HistoryInv, HistoryTypes
<1>5. HistoryTypes'
  BY <1>1, <1>4 DEF HistoryInv, HistoryTypes
<1>6. ObserverHistory(o) /\ counters' = counters
  BY DEF HistoryInv
<1>7. Ordered(o)'
  BY <1>4, <1>6 DEF ObserverHistory, Ordered, AtMost
<1>8. /\ copy'[o] \in [Cells -> Nat] /\ reached'[o] = i
      /\ copy'[o][StorageOrder[i]] = counters[StorageOrder[i]]
      /\ \A cell \in Cells : cell # StorageOrder[i] => copy'[o][cell] = copy[o][cell]
  BY <1>2, <1>3 DEF ReaderInv, ObserverTypes, TypeOK
<1>9. Loading(o)'
  <2>1. AtMost(copy'[o], counters)
    <3> SUFFICES ASSUME NEW cell \in Cells PROVE copy'[o][cell] =< counters[cell]
      BY DEF AtMost
    <3>1. copy[o][cell] =< counters[cell] /\ counters[cell] \in Nat
      BY <1>6 DEF ObserverHistory, Loading, AtMost, TypeOK
    <3>2. QED
      BY <1>8, <3>1
  <2>2. \A cell \in Cells \ Scanned : copy'[o][cell] = 0
    BY <1>3, <1>6, <1>8 DEF ObserverHistory, Loading
  <2>3. ASSUME NEW j \in DOMAIN StorageOrder, j =< i, StorageOrder[j] \in Scanned
        PROVE  before[o][Len(snapshots[o]) + 1][StorageOrder[j]]
                   =< copy'[o][StorageOrder[j]]
    <3>1. CASE StorageOrder[j] = StorageOrder[i]
      <4>1. Len(snapshots[o]) + 1 \in 1 .. Len(before[o])
        BY <1>1 DEF HistoryInv, HistoryTypes, ReaderInv, ObserverTypes
      <4>2. before[o][Len(snapshots[o]) + 1][StorageOrder[i]]
                =< counters[StorageOrder[i]]
        BY <1>3, <1>6, <4>1 DEF ObserverHistory, Ordered, AtMost
      <4>3. QED
        BY <1>8, <3>1, <4>2
    <3>2. CASE StorageOrder[j] # StorageOrder[i]
      <4>1. j =< reached[o]
        <5>1. j # i /\ j \in Nat /\ i \in Nat /\ reached[o] \in Nat
          BY <1>3, <3>2, StorageOrderType DEF ReaderInv, ObserverTypes
        <5>2. j \notin Left(reached[o])
          BY <1>2, <2>3, <5>1
        <5>3. QED
          BY <2>3, <5>1, <5>2 DEF Left
      <4>2. StorageOrder[j] \in Cells
        BY StorageOrderType
      <4>3. QED
        BY <1>1, <1>6, <1>8, <2>3, <3>2, <4>1, <4>2 DEF ObserverHistory, Loading
    <3>3. QED
      BY <3>1, <3>2
  <2>4. QED
    BY <1>1, <1>4, <1>6, <1>8, <2>1, <2>2, <2>3 DEF Loading, AtMost
<1>10. ASSUME NEW k \in 1 .. Len(snapshots[o]) PROVE Enclosed(o, k)'
  <2>1. Enclosed(o, k)
    BY <1>6 DEF ObserverHistory
  <2>2. atFreeze # None => atFreeze' = atFreeze
    BY DEF WindowNext
  <2>3. QED
    BY <1>1, <1>4, <2>1, <2>2 DEF Enclosed, AtMost
<1>11. QED
  BY <1>1, <1>5, <1>7, <1>9, <1>10 DEF ObserverHistory

\* Frozen is seen: the scan is over, and only the report is still to be read.
LEMMA HistoryObserve ==
    ASSUME TypeOK, TypeOK', ReaderInv, HistoryInv, UNCHANGED vars,
           NEW o \in Observers, opc[o] = "counters", Left(reached[o]) = {},
           opc' = [opc EXCEPT ![o] = "report"],
           UNCHANGED <<reached, copy, snapshots>>, WindowNext
    PROVE  HistoryTypes' /\ ObserverHistory(o)'
<1> USE DEF vars, recorderVars
<1>1. opc \in [Observers -> {"idle", "counters", "report"}]
  BY DEF ReaderInv, ObserverTypes
<1>2. \A p \in Observers : ~Begins(p) /\ ~Completes(p)
  BY <1>1 DEF Begins, Completes
<1>3. before' = before /\ after' = after
  BY <1>2 DEF WindowNext, HistoryInv, HistoryTypes
<1>4. HistoryTypes'
  BY <1>1, <1>3 DEF HistoryInv, HistoryTypes
<1>5. ObserverHistory(o) /\ counters' = counters
  BY DEF HistoryInv
<1>6. Ordered(o)'
  BY <1>3, <1>5 DEF ObserverHistory, Ordered, AtMost
<1>7. Loading(o)'
  BY <1>1, <1>3, <1>5 DEF ObserverHistory, Loading, Left, AtMost
<1>8. ASSUME NEW k \in 1 .. Len(snapshots[o]) PROVE Enclosed(o, k)'
  <2>1. Enclosed(o, k)
    BY <1>5 DEF ObserverHistory
  <2>2. atFreeze # None => atFreeze' = atFreeze
    BY DEF WindowNext
  <2>3. QED
    BY <1>3, <2>1, <2>2 DEF Enclosed, AtMost
<1>9. QED
  BY <1>4, <1>6, <1>7, <1>8 DEF ObserverHistory

\* A scan ends: every scanned cell was loaded since it began.
LEMMA HistoryComplete ==
    ASSUME TypeOK, TypeOK', ReaderInv, ReaderInv', HistoryInv, UNCHANGED vars,
           NEW o \in Observers, opc[o] # "idle", Left(reached[o]) = {},
           NEW state, NEW published, Complete(o, state, published),
           state = "Frozen" => calibration_state = "Frozen", WindowNext
    PROVE  HistoryTypes' /\ ObserverHistory(o)'
<1> USE DEF vars, recorderVars
<1> DEFINE taken == [registry |-> "this", counters |-> copy[o], state |-> state,
                     report |-> published, spansFreeze |-> FALSE]
           n == Len(snapshots[o])
<1>1. /\ snapshots' = [snapshots EXCEPT ![o] = Append(@, taken)]
      /\ opc' = [opc EXCEPT ![o] = "idle"]
      /\ reached' = [reached EXCEPT ![o] = 0]
      /\ copy' = [copy EXCEPT ![o] = NothingCopied]
  BY DEF Complete
<1> HIDE DEF taken
<1>2. /\ opc \in [Observers -> {"idle", "counters", "report"}]
      /\ snapshots \in [Observers -> Seq(SnapshotType)]
      /\ snapshots[o] \in Seq(SnapshotType)
      /\ reached \in [Observers -> Nat]
      /\ copy \in [Observers -> [Cells -> Nat]]
      /\ n \in Nat
  BY DEF ReaderInv, ObserverTypes
<1>3. /\ after' = [after EXCEPT ![o] = Append(@, counters)]
      /\ before' = before
  <2>1. \A p \in Observers : Completes(p) <=> p = o
    BY <1>1, <1>2 DEF Completes
  <2>2. \A p \in Observers : ~Begins(p)
    BY <1>1, <1>2 DEF Begins
  <2>3. QED
    BY <2>1, <2>2 DEF WindowNext, HistoryInv, HistoryTypes
<1>4. /\ before \in [Observers -> Seq([Cells -> Nat])]
      /\ after \in [Observers -> Seq([Cells -> Nat])]
      /\ after[o] \in Seq([Cells -> Nat])
      /\ counters \in [Cells -> Nat] /\ counters' = counters
      /\ Len(before[o]) = n + 1 /\ Len(after[o]) = n
  BY <1>1, <1>2 DEF HistoryInv, HistoryTypes, TypeOK
<1>5. /\ after'[o] = Append(after[o], counters)
      /\ Len(after'[o]) = n + 1
      /\ after'[o][n + 1] = counters
      /\ \A i \in 1 .. n : after'[o][i] = after[o][i]
  BY <1>2, <1>3, <1>4
<1>6. /\ snapshots'[o] = Append(snapshots[o], taken)
      /\ Len(snapshots'[o]) = n + 1
      /\ snapshots'[o][n + 1] = taken
      /\ \A i \in 1 .. n : snapshots'[o][i] = snapshots[o][i]
  <2>1. snapshots'[o] = Append(snapshots[o], taken)
    BY <1>1, <1>2
  <2>2. QED
    BY <1>2, <2>1
<1>7. HistoryTypes'
  <2>1. Append(after[o], counters) \in Seq([Cells -> Nat])
    BY <1>4
  <2>2. after' \in [Observers -> Seq([Cells -> Nat])]
    BY <1>3, <1>4, <2>1
  <2>3. ASSUME NEW p \in Observers, p = o
        PROVE  /\ Len(after'[p]) = Len(snapshots'[p])
               /\ Len(before[p]) = Len(snapshots'[p]) /\ opc'[p] = "idle"
    BY <1>1, <1>2, <1>4, <1>5, <1>6, <2>3
  <2>4. ASSUME NEW p \in Observers, p # o
        PROVE  /\ after'[p] = after[p] /\ opc'[p] = opc[p]
               /\ snapshots'[p] = snapshots[p]
    BY <1>1, <1>2, <1>3, <1>4, <2>4
  <2>5. \A p \in Observers :
          /\ Len(after'[p]) = Len(snapshots'[p])
          /\ Len(before[p]) = IF opc'[p] = "idle" THEN Len(snapshots'[p])
                              ELSE Len(snapshots'[p]) + 1
    BY <2>3, <2>4 DEF HistoryInv, HistoryTypes
  <2>6. QED
    BY <1>3, <1>4, <2>2, <2>5 DEF HistoryTypes
<1>8. ObserverHistory(o)
  BY DEF HistoryInv
<1>9. Ordered(o)'
  <2>1. AtMost(counters, counters)
    BY <1>4 DEF AtMost
  <2>2. \A i \in 1 .. n + 1 : AtMost(after'[o][i], counters)
    BY <1>2, <1>4, <1>5, <1>8, <2>1 DEF ObserverHistory, Ordered
  <2>3. \A i \in 1 .. n + 1 : AtMost(before[o][i], counters)
    BY <1>4, <1>8 DEF ObserverHistory, Ordered
  <2>4. \A i \in 1 .. n + 1 : \A j \in 1 .. n + 1 :
            i < j => AtMost(after'[o][i], before[o][j])
    BY <1>2, <1>4, <1>5, <1>8 DEF ObserverHistory, Ordered
  <2>5. QED
    BY <1>3, <1>4, <1>5, <2>2, <2>3, <2>4 DEF Ordered, AtMost
<1>10. Loading(o)'
  <2>1. \A cell \in Cells : NothingCopied[cell] = 0
    BY DEF NothingCopied
  <2>2. copy'[o] = NothingCopied /\ reached'[o] = 0 /\ opc'[o] = "idle"
    BY <1>1, <1>2
  <2>3. QED
    BY <1>4, <2>1, <2>2, ScannedAssumption DEF Loading, AtMost
<1>11. atFreeze # None => atFreeze' = atFreeze
  BY DEF WindowNext
<1>12. ASSUME NEW i \in 1 .. n PROVE Enclosed(o, i)'
  <2>1. Enclosed(o, i)
    BY <1>8 DEF ObserverHistory
  <2>2. snapshots'[o][i] = snapshots[o][i] /\ after'[o][i] = after[o][i]
    BY <1>5, <1>6
  <2>3. QED
    BY <1>3, <1>11, <2>1, <2>2 DEF Enclosed, AtMost
<1>13. ASSUME NEW i, i = n + 1 PROVE Enclosed(o, i)'
  <2>1. taken.counters = copy[o] /\ taken.state = state
    BY DEF taken
  <2>2. AtMost(copy[o], counters) /\ \A cell \in Cells \ Scanned : copy[o][cell] = 0
    BY <1>8 DEF ObserverHistory, Loading
  <2>3. ASSUME NEW cell \in Scanned PROVE before[o][n + 1][cell] =< copy[o][cell]
    <3>1. PICK place \in DOMAIN StorageOrder : StorageOrder[place] = cell
      BY EveryCellStored, ScannedAssumption
    <3>2. place \in Nat /\ reached[o] \in Nat
      BY <1>2, StorageOrderType
    <3>3. place =< reached[o]
      BY <3>1, <3>2 DEF Left
    <3>4. QED
      BY <1>8, <3>1, <3>3 DEF ObserverHistory, Loading
  <2>4. state = "Frozen" => atFreeze # None /\ AtMost(atFreeze, counters)
    BY NoCountersAssumption DEF HistoryInv, FreezeMoment
  <2>5. QED
    BY <1>3, <1>5, <1>6, <1>11, <1>13, <2>1, <2>2, <2>3, <2>4
       DEF Enclosed, AtMost
<1>14. \A i \in 1 .. Len(snapshots'[o]) : Enclosed(o, i)'
  <2>1. 1 .. Len(snapshots'[o]) = (1 .. n) \cup {n + 1}
    BY <1>2, <1>6
  <2>2. QED
    BY <1>12, <1>13, <2>1
<1>15. QED
  BY <1>7, <1>9, <1>10, <1>14 DEF ObserverHistory

LEMMA HistoryStep ==
    ASSUME TypeOK, TypeOK', IInv, ReaderInv, ReaderInv', HistoryInv,
           [WindowNext]_windowVars
    PROVE  HistoryInv'
<1> USE DEF vars, recorderVars
<1>1. CASE UNCHANGED windowVars
  <2>1. atFreeze' = IF atFreeze = None /\ calibration_state' = "Frozen"
                    THEN counters ELSE atFreeze
    BY <1>1, NoCountersAssumption
       DEF HistoryInv, FreezeMoment, windowVars, historyVars, snapshotVars
  <2>2. QED
    BY <1>1, <2>1, HistoryWriterStep DEF windowVars, historyVars, snapshotVars
<1>2. CASE WindowNext /\ Next /\ UNCHANGED observerVars
  <2>1. UNCHANGED <<before, after>>
    BY <1>2 DEF WindowNext, Begins, Completes, observerVars, HistoryInv, HistoryTypes
  <2>2. QED
    BY <1>2, <2>1, HistoryWriterStep DEF WindowNext
<1>3. ASSUME WindowNext, NEW o \in Observers, ObserverStep(o), UNCHANGED vars
      PROVE  HistoryInv'
  <2>1. HistoryTypes' /\ ObserverHistory(o)'
    <3>1. CASE BeginSnapshot(o)
      BY <1>3, <3>1, HistoryBegin
    <3>2. CASE LoadCounter(o)
      BY <1>3, <3>2, HistoryLoad
    <3>3. CASE ObserveState(o)
      <4>1. opc[o] = "counters" /\ Left(reached[o]) = {}
        BY <3>3 DEF ObserveState
      <4>2. CASE calibration_state = "Frozen"
        <5>1. /\ opc' = [opc EXCEPT ![o] = "report"]
              /\ UNCHANGED <<reached, copy, snapshots>>
          BY <3>3, <4>2 DEF ObserveState
        <5>2. QED
          BY <1>3, <4>1, <5>1, HistoryObserve
      <4>3. CASE calibration_state # "Frozen"
        <5>1. Complete(o, calibration_state, None)
          BY <3>3, <4>3 DEF ObserveState
        <5>2. QED
          BY <1>3, <4>1, <4>3, <5>1, HistoryComplete
      <4>4. QED
        BY <4>2, <4>3
    <3>4. CASE ReadReport(o)
      <4>1. opc[o] = "report" /\ calibration_state = "Frozen"
        BY <3>4 DEF ReadReport, ReaderInv, CopyInv
      <4>2. Left(reached[o]) = {}
        BY <4>1 DEF HistoryInv, ObserverHistory, Loading
      <4>3. Complete(o, "Frozen", PublishedReport)
        BY <3>4, <4>1 DEF ReadReport
      <4>4. QED
        BY <1>3, <4>1, <4>2, <4>3, HistoryComplete
    <3>5. QED
      BY <1>3, <3>1, <3>2, <3>3, <3>4 DEF ObserverStep
  <2>2. QED
    BY <1>3, <2>1, HistoryOthers
<1>4. QED
  BY <1>1, <1>2, <1>3 DEF WindowNext, SnapshotNext

LEMMA WindowRefinesSnapshot == WindowSpec => SnapshotSpec
<1>1. WindowInit => SnapshotInit
  BY DEF WindowInit
<1>2. [WindowNext]_windowVars => [SnapshotNext]_snapshotVars
  BY DEF WindowNext, windowVars
<1>3. QED
  BY <1>1, <1>2, PTL DEF WindowSpec, SnapshotSpec

\* However the scans are torn, what they copied lies between the counters at
\* their ends, and the freeze before the end of a scan that observed it.
THEOREM HistoryInductive == WindowSpec => []HistoryInv
<1>1. WindowInit => HistoryInv
  <2> SUFFICES ASSUME WindowInit PROVE HistoryInv
    OBVIOUS
  <2>1. SnapshotInit /\ Init /\ TypeOK
    BY InitType DEF WindowInit, SnapshotInit
  <2>2. <<>> \in Seq([Cells -> Nat]) /\ Len(<<>>) = 0
    OBVIOUS
  <2>3. HistoryTypes
    BY <2>1, <2>2 DEF WindowInit, SnapshotInit, HistoryTypes
  <2>4. FreezeMoment
    BY <2>1 DEF WindowInit, Init, RecorderInit, FreezeMoment
  <2>5. ASSUME NEW o \in Observers PROVE ObserverHistory(o)
    <3>1. Ordered(o) /\ \A i \in 1 .. Len(snapshots[o]) : Enclosed(o, i)
      BY <2>1, <2>2 DEF WindowInit, SnapshotInit, Ordered
    <3>2. AtMost(copy[o], counters) /\ \A cell \in Cells : copy[o][cell] = 0
      BY <2>1 DEF SnapshotInit, NothingCopied, AtMost, TypeOK
    <3>3. QED
      BY <2>1, <3>1, <3>2 DEF SnapshotInit, Loading, ObserverHistory
  <2>6. QED
    BY <2>3, <2>4, <2>5 DEF HistoryInv
<1>2. /\ TypeOK /\ TypeOK' /\ IInv /\ ReaderInv /\ ReaderInv' /\ HistoryInv
      /\ [WindowNext]_windowVars
      => HistoryInv'
  BY HistoryStep
<1>3. QED
  BY <1>1, <1>2, WindowRefinesSnapshot, SnapshotRefinesSpec, TypeCorrect, Inductive,
     ReaderInductive, PTL DEF WindowSpec

\* An index of a sequence names one of the sequence's elements.
LEMMA ElementOf ==
    ASSUME NEW S, NEW s \in Seq(S), NEW n \in 1 .. Len(s)
    PROVE  s[n] \in S
OBVIOUS

\* The later of two snapshots has at least the counts of the earlier.
LEMMA ScansOrdered ==
    ASSUME TypeOK, ReaderInv, HistoryInv, NEW o \in Observers,
           NEW i \in DOMAIN snapshots[o], NEW j \in DOMAIN snapshots[o], i < j
    PROVE  /\ snapshots[o][i].registry = "this" /\ snapshots[o][j].registry = "this"
           /\ snapshots[o][i].counters \in [Cells -> Nat]
           /\ snapshots[o][j].counters \in [Cells -> Nat]
           /\ \A cell \in Cells :
                 snapshots[o][i].counters[cell] =< snapshots[o][j].counters[cell]
           /\ \A cell \in Scanned :
                 /\ before[o][i][cell] \in Nat /\ after[o][i][cell] \in Nat
                 /\ before[o][j][cell] \in Nat /\ after[o][j][cell] \in Nat
                 /\ before[o][i][cell] =< snapshots[o][i].counters[cell]
                 /\ before[o][j][cell] =< snapshots[o][j].counters[cell]
                 /\ snapshots[o][i].counters[cell] =< after[o][i][cell]
                 /\ snapshots[o][j].counters[cell] =< after[o][j][cell]
<1>1. /\ snapshots[o] \in Seq(SnapshotType)
      /\ i \in 1 .. Len(snapshots[o]) /\ j \in 1 .. Len(snapshots[o])
      /\ Len(snapshots[o]) \in Nat
  BY DEF ReaderInv, ObserverTypes
<1>2. /\ before[o] \in Seq([Cells -> Nat]) /\ after[o] \in Seq([Cells -> Nat])
      /\ i \in 1 .. Len(before[o]) /\ j \in 1 .. Len(before[o])
      /\ i \in 1 .. Len(after[o]) /\ j \in 1 .. Len(after[o])
  BY <1>1 DEF HistoryInv, HistoryTypes
<1>3. /\ snapshots[o][i] \in SnapshotType /\ snapshots[o][j] \in SnapshotType
      /\ before[o][i] \in [Cells -> Nat] /\ before[o][j] \in [Cells -> Nat]
      /\ after[o][i] \in [Cells -> Nat] /\ after[o][j] \in [Cells -> Nat]
  <2>1. snapshots[o][i] \in SnapshotType
    BY <1>1, ElementOf
  <2>2. snapshots[o][j] \in SnapshotType
    BY <1>1, ElementOf
  <2>3. before[o][i] \in [Cells -> Nat]
    BY <1>2, ElementOf
  <2>4. before[o][j] \in [Cells -> Nat]
    BY <1>2, ElementOf
  <2>5. after[o][i] \in [Cells -> Nat]
    BY <1>2, ElementOf
  <2>6. after[o][j] \in [Cells -> Nat]
    BY <1>2, ElementOf
  <2>7. QED
    BY <2>1, <2>2, <2>3, <2>4, <2>5, <2>6
<1>4. /\ snapshots[o][i].registry = "this" /\ snapshots[o][j].registry = "this"
      /\ snapshots[o][i].counters \in [Cells -> Nat]
      /\ snapshots[o][j].counters \in [Cells -> Nat]
  BY <1>3 DEF SnapshotType
<1>5. /\ Enclosed(o, i) /\ Enclosed(o, j)
      /\ AtMost(after[o][i], before[o][j])
  BY <1>1, <1>2 DEF HistoryInv, ObserverHistory, Ordered
<1>6. ASSUME NEW cell \in Scanned
      PROVE  /\ before[o][i][cell] =< snapshots[o][i].counters[cell]
             /\ before[o][j][cell] =< snapshots[o][j].counters[cell]
             /\ snapshots[o][i].counters[cell] =< after[o][i][cell]
             /\ snapshots[o][j].counters[cell] =< after[o][j][cell]
             /\ after[o][i][cell] =< before[o][j][cell]
  BY <1>5, ScannedAssumption DEF Enclosed, AtMost
<1>7. ASSUME NEW cell \in Cells
      PROVE  snapshots[o][i].counters[cell] =< snapshots[o][j].counters[cell]
  <2>1. CASE cell \in Scanned
    <3>1. /\ before[o][j][cell] \in Nat /\ after[o][i][cell] \in Nat
          /\ snapshots[o][i].counters[cell] \in Nat
          /\ snapshots[o][j].counters[cell] \in Nat
      BY <1>3, <1>4
    <3>2. QED
      BY <1>6, <2>1, <3>1
  <2>2. CASE cell \notin Scanned
    <3>1. snapshots[o][i].counters[cell] = 0 /\ snapshots[o][j].counters[cell] = 0
      BY <1>5, <2>2 DEF Enclosed
    <3>2. QED
      BY <3>1
  <2>3. QED
    BY <2>1, <2>2
<1>8. QED
  BY <1>3, <1>4, <1>6, <1>7, ScannedAssumption

\* So the two form a window, of the differences.
LEMMA WindowIs ==
    ASSUME TypeOK, ReaderInv, HistoryInv, NEW o \in Observers,
           NEW i \in DOMAIN snapshots[o], NEW j \in DOMAIN snapshots[o], i < j
    PROVE  Window(o, i, j) =
             [result |-> "Ok", registry |-> "this",
              counters |-> [cell \in Cells |-> snapshots[o][j].counters[cell]
                                               - snapshots[o][i].counters[cell]],
              state |-> snapshots[o][j].state,
              report |-> snapshots[o][j].report,
              spansFreeze |-> (snapshots[o][j].state = "Frozen")
                                # (snapshots[o][i].state = "Frozen")]
<1>1. snapshots[o][i].registry = "this" /\ snapshots[o][j].registry = "this"
  BY ScansOrdered
<1>2. ASSUME NEW cell \in Cells
      PROVE  ~(snapshots[o][j].counters[cell] < snapshots[o][i].counters[cell])
  <2>1. /\ snapshots[o][i].counters[cell] \in Nat
        /\ snapshots[o][j].counters[cell] \in Nat
    BY ScansOrdered
  <2>2. snapshots[o][i].counters[cell] =< snapshots[o][j].counters[cell]
    BY ScansOrdered
  <2>3. QED
    BY <2>1, <2>2
<1>3. QED
  BY <1>1, <1>2 DEF Window, Delta, Subtract

\* Two snapshots one thread took in turn always form a window, which counts
\* every increment made between the scans and none made outside them, for any
\* number of cells scanned (Snapshot::delta).
THEOREM WindowBoundedHolds == WindowSpec => []WindowBounded
<1>1. TypeOK /\ ReaderInv /\ HistoryInv => WindowBounded
  <2> SUFFICES ASSUME TypeOK, ReaderInv, HistoryInv, NEW o \in Observers,
                      NEW i \in DOMAIN snapshots[o], NEW j \in DOMAIN snapshots[o],
                      i < j
               PROVE  /\ Window(o, i, j).result = "Ok"
                      /\ \A cell \in Scanned :
                            /\ Window(o, i, j).counters[cell]
                                 =< after[o][j][cell] - before[o][i][cell]
                            /\ Window(o, i, j).counters[cell]
                                 >= before[o][j][cell] - after[o][i][cell]
    BY DEF WindowBounded
  <2>1. /\ Window(o, i, j).result = "Ok"
        /\ Window(o, i, j).counters =
             [cell \in Cells |-> snapshots[o][j].counters[cell]
                                 - snapshots[o][i].counters[cell]]
    BY WindowIs
  <2>2. ASSUME NEW cell \in Scanned
        PROVE  /\ Window(o, i, j).counters[cell]
                    =< after[o][j][cell] - before[o][i][cell]
               /\ Window(o, i, j).counters[cell]
                    >= before[o][j][cell] - after[o][i][cell]
    <3>1. Window(o, i, j).counters[cell] =
              snapshots[o][j].counters[cell] - snapshots[o][i].counters[cell]
      BY <2>1, ScannedAssumption
    <3>2. /\ snapshots[o][i].counters[cell] \in Nat
          /\ snapshots[o][j].counters[cell] \in Nat
      BY ScansOrdered, ScannedAssumption
    <3>3. /\ before[o][i][cell] \in Nat /\ after[o][i][cell] \in Nat
          /\ before[o][j][cell] \in Nat /\ after[o][j][cell] \in Nat
          /\ before[o][i][cell] =< snapshots[o][i].counters[cell]
          /\ before[o][j][cell] =< snapshots[o][j].counters[cell]
          /\ snapshots[o][i].counters[cell] =< after[o][i][cell]
          /\ snapshots[o][j].counters[cell] =< after[o][j][cell]
      BY ScansOrdered
    <3>4. QED
      BY <3>1, <3>2, <3>3
  <2>3. QED
    BY <2>1, <2>2
<1>2. QED
  BY <1>1, HistoryInductive, WindowRefinesSnapshot, SnapshotRefinesSpec, TypeCorrect,
     ReaderInductive, PTL

\* Online diagnosis accepts a window only when its earlier scan completed
\* after the freeze (the spans_freeze flag of Snapshot::delta, and diagnose's
\* refusal of such a window).
THEOREM AcceptedWindowEndsFrozenHolds == WindowSpec => []AcceptedWindowEndsFrozen
<1>1. TypeOK /\ ReaderInv /\ HistoryInv => AcceptedWindowEndsFrozen
  <2> SUFFICES ASSUME TypeOK, ReaderInv, HistoryInv, NEW o \in Observers,
                      NEW i \in DOMAIN snapshots[o], NEW j \in DOMAIN snapshots[o],
                      i < j, Accepted(Window(o, i, j))
               PROVE  /\ atFreeze # None
                      /\ \A cell \in Cells : after[o][i][cell] >= atFreeze[cell]
    BY DEF AcceptedWindowEndsFrozen
  <2>1. PICK stage \in StageIds : Diagnose(Window(o, i, j), stage) = "Ok"
    BY DEF Accepted
  <2>2. /\ Window(o, i, j).report = snapshots[o][j].report
        /\ Window(o, i, j).spansFreeze = ((snapshots[o][j].state = "Frozen")
                                            # (snapshots[o][i].state = "Frozen"))
    BY WindowIs
  <2>3. ~Window(o, i, j).spansFreeze /\ Window(o, i, j).report # None
    BY <2>1 DEF Diagnose
  <2>4. snapshots[o][j].state = "Frozen"
    <3>1. j \in 1 .. Len(snapshots[o])
      BY DEF ReaderInv, ObserverTypes
    <3>2. Honest(snapshots[o][j])
      BY <3>1 DEF ReaderInv, TakenInv
    <3>3. QED
      BY <2>2, <2>3, <3>2 DEF Honest
  <2>5. snapshots[o][i].state = "Frozen"
    BY <2>2, <2>3, <2>4
  <2>6. Enclosed(o, i) /\ after[o][i] \in [Cells -> Nat]
    <3>1. i \in 1 .. Len(snapshots[o]) /\ i \in 1 .. Len(after[o])
      BY DEF ReaderInv, ObserverTypes, HistoryInv, HistoryTypes
    <3>2. QED
      BY <3>1 DEF HistoryInv, HistoryTypes, ObserverHistory
  <2>7. atFreeze # None /\ AtMost(atFreeze, after[o][i])
    BY <2>5, <2>6 DEF Enclosed
  <2>8. atFreeze \in [Cells -> Nat]
    BY <2>7 DEF HistoryInv, FreezeMoment
  <2>9. QED
    BY <2>6, <2>7, <2>8 DEF AtMost
<1>2. QED
  BY <1>1, HistoryInductive, WindowRefinesSnapshot, SnapshotRefinesSpec, TypeCorrect,
     ReaderInductive, PTL
=============================================================================

-------------------------- MODULE Calibration_proofs --------------------------
(***************************************************************************)
(* Proofs about module Calibration, for any markers and freezers, any      *)
(* number of stages, any latencies, minimums and tail quantile: first the  *)
(* freeze and its contract, then what the counters add up to.              *)
(***************************************************************************)
EXTENDS Calibration, Induction

\* Every constant assumption of the two modules.
USE NumStagesAssumption, LatencyAssumption, EndingsAssumption,
    MaxRequestsAssumption, MinimumsAssumption, QuantileAssumption,
    MaxCallsAssumption

-----------------------------------------------------------------------------
(* Typing of the helpers.                                                  *)

\* The scan visits calibration cells only.
LEMMA ScanCellType ==
    ASSUME NEW i \in 0 .. ScanLength, i < ScanLength
    PROVE  ScanCell(i) \in CalibrationCells
<1>1. i \div 9 \in Stages
  BY DEF ScanLength, Stages
<1>2. PopulationOrder[((i \div 3) % 3) + 1] \in Populations
  <2>1. ((i \div 3) % 3) + 1 \in 1 .. 3
    BY DEF ScanLength
  <2>2. QED
    BY <2>1 DEF PopulationOrder, Populations
<1>3. ClassOrder[(i % 3) + 1] \in Classes
  <2>1. (i % 3) + 1 \in 1 .. 3
    BY DEF ScanLength
  <2>2. QED
    BY <2>1 DEF ClassOrder, Classes
<1>4. QED
  BY <1>1, <1>2, <1>3 DEF ScanCell, CalibrationCells

\* A scan's totals are naturals, and its terminal is a class when they are
\* not zero.
LEMMA ScanTotals ==
    ASSUME NEW scan \in [CalibrationCells -> Nat],
           NEW s \in Stages, NEW p \in Populations
    PROVE  /\ Samples(scan, s, p) \in Nat
           /\ Samples(scan, s, p) = 0 => Terminal(scan, s, p) = None
           /\ Samples(scan, s, p) # 0 => Terminal(scan, s, p) \in Classes
<1>1. \A c \in Classes : ClassCount(scan, s, p, c) \in Nat
  BY DEF ClassCount, CalibrationCells
<1>2. Samples(scan, s, p) \in Nat
  BY <1>1 DEF Samples, Classes
<1>3. QED
  BY <1>2 DEF Terminal, Classes

\* The reports derived from a scan are well typed.
LEMMA ReportsType ==
    ASSUME NEW scan \in [CalibrationCells -> Nat]
    PROVE  DeriveReports(scan) \in [Stages -> StageReports]
BY ScanTotals DEF DeriveReports, StageReports

\* A ready scan whose estimates are all finite yields an acceptable bundle.
LEMMA ReadyReports ==
    ASSUME NEW scan \in [CalibrationCells -> Nat], NEW min \in Nat,
           Ready(scan, min), AllFinite(DeriveReports(scan))
    PROVE  ReadyBundle(DeriveReports(scan), min)
<1> SUFFICES ASSUME NEW s \in Stages, NEW p \in Populations
             PROVE  LET r == DeriveReports(scan)[s][p]
                    IN  \/ /\ r.samples = 0
                           /\ r.terminal = None
                           /\ p = "PreviousCumulative"
                        \/ /\ r.samples > 0
                           /\ r.samples >= min
                           /\ r.terminal = "Finite"
  BY DEF ReadyBundle
<1> DEFINE n == Samples(scan, s, p)
           t == Terminal(scan, s, p)
<1>1. DeriveReports(scan)[s][p] = [samples |-> n, terminal |-> t]
  BY DEF DeriveReports
<1>2. t \in {None, "Finite"}
  BY <1>1 DEF AllFinite
<1>3. PopulationReady(scan, s, p, min)
  BY DEF Ready
<1>4. n \in Nat /\ (n = 0 => t = None) /\ (n # 0 => t \in Classes)
  BY ScanTotals
<1>5. CASE n = 0
  BY <1>1, <1>3, <1>4, <1>5 DEF PopulationReady
<1>6. CASE n # 0
  <2>1. t = "Finite"
    BY <1>2, <1>4, <1>6, NoneAssumption
  <2>2. n > 0 /\ n >= min
    BY <1>3, <1>4, <1>6 DEF PopulationReady
  <2>3. QED
    BY <1>1, <2>1, <2>2
<1>7. QED
  BY <1>5, <1>6
-----------------------------------------------------------------------------
(* Typing of the counters a checkpoint increments.                         *)

LEMMA CellTypes ==
    /\ \A s \in Stages : /\ <<"local", s>> \in Cells
                         /\ <<"cumulative", s>> \in Cells
                         /\ <<"cause", s>> \in Cells
                         /\ s > 0 => <<"incoming", s>> \in Cells
                         /\ \A k \in {"First", "Predecessor"} :
                               <<"online", s, k>> \in Cells
                         /\ \A o \in Outcomes : <<"completion", s, o>> \in Cells
    /\ \A d \in Diagnostics : <<"diagnostics", d>> \in Cells
    /\ CalibrationCells \subseteq Cells
BY DEF Cells, Stages

\* The matrix cells of a destination after the previous stage, which is what
\* BeginMark admits, exist.
LEMMA MatrixCellsType ==
    ASSUME TypeOK, NEW m \in Markers, NEW s \in Stages, ctx[m] # None,
           HasPrevious(m) => s > ctx[m].previous
    PROVE  MatrixCells(m, s) \in Seq(Cells)
<1>1. <<<<"local", s>>, <<"cumulative", s>>>> \in Seq(Cells)
  <2>1. <<"local", s>> \in Cells /\ <<"cumulative", s>> \in Cells
    BY CellTypes
  <2>2. QED
    BY <2>1
<1>2. CASE HasPrevious(m)
  <2>1. ctx[m].previous \in Stages
    BY <1>2 DEF TypeOK, Contexts, HasPrevious
  <2>2. s > 0
    BY <1>2, <2>1 DEF Stages
  <2>3. <<"cause", s>> \in Cells /\ <<"incoming", s>> \in Cells
    BY <2>2, CellTypes
  <2>4. <<<<"cause", s>>, <<"incoming", s>>>> \in Seq(Cells)
    BY <2>3
  <2>5. QED
    BY <1>1, <1>2, <2>4 DEF MatrixCells
<1>3. CASE ~HasPrevious(m)
  BY <1>1, <1>3 DEF MatrixCells
<1>4. QED
  BY <1>2, <1>3

LEMMA CompletionCellsType ==
    ASSUME TypeOK, NEW m \in Markers
    PROVE  CompletionCells(m) \in Seq(Cells)
<1>1. CASE mark[m].outcome = None
  BY <1>1 DEF CompletionCells
<1>2. CASE mark[m].outcome # None
  <2>1. mark[m].stage \in Stages /\ mark[m].outcome \in Outcomes
    BY <1>2 DEF TypeOK, Marks
  <2>2. <<"completion", mark[m].stage, mark[m].outcome>> \in Cells
    BY <2>1, CellTypes
  <2>3. QED
    BY <1>2, <2>2 DEF CompletionCells
<1>3. QED
  BY <1>1, <1>2

LEMMA CollectingCellsType ==
    ASSUME TypeOK, NEW m \in Markers
    PROVE  /\ CollectingCells(m) \in Seq(Cells)
           /\ CollectingCells(m) \o CompletionCells(m) \in Seq(Cells)
<1>1. ASSUME NEW p \in Populations, NEW ns
      PROVE  CalibrationCell(m, p, ns) \in Cells
  <2>1. mark[m].stage \in Stages
    BY DEF TypeOK, Marks
  <2>2. CalibrationClass(ns) \in Classes
    BY DEF CalibrationClass, Classes
  <2>3. QED
    BY <2>1, <2>2, CellTypes DEF CalibrationCell, CalibrationCells
<1>2. /\ CalibrationCell(m, "Local", mark[m].local) \in Cells
      /\ CalibrationCell(m, "CumulativeAfter", mark[m].cumulative) \in Cells
      /\ CalibrationCell(m, "PreviousCumulative", ctx[m].cumulative) \in Cells
  BY <1>1 DEF Populations
<1>3. CollectingCells(m) \in Seq(Cells)
  BY <1>2 DEF CollectingCells
<1>4. QED
  BY <1>3, CompletionCellsType

LEMMA OnlineCellsType ==
    ASSUME TypeOK, NEW m \in Markers
    PROVE  /\ OnlineCells(m) \in Seq(Cells)
           /\ OnlineCells(m) \o CompletionCells(m) \in Seq(Cells)
           /\ SegmentsOf(OnlineCells(m)) \subseteq {"online", "diagnostics"}
<1> DEFINE s == mark[m].stage
<1>1. s \in Stages
  BY DEF TypeOK, Marks
<1>2. /\ <<"online", s, "First">> \in Cells
      /\ <<"online", s, "Predecessor">> \in Cells
      /\ <<"diagnostics", "MissingPreviousThreshold">> \in Cells
  BY <1>1, CellTypes DEF Diagnostics
<1>3. OnlineCells(m) \in {<<>>, <<<<"online", s, "First">>>>,
                         <<<<"diagnostics", "MissingPreviousThreshold">>>>,
                         <<<<"online", s, "Predecessor">>>>}
  BY DEF OnlineCells
<1>4. OnlineCells(m) \in Seq(Cells)
  <2>1. /\ <<>> \in Seq(Cells)
        /\ <<<<"online", s, "First">>>> \in Seq(Cells)
        /\ <<<<"online", s, "Predecessor">>>> \in Seq(Cells)
        /\ <<<<"diagnostics", "MissingPreviousThreshold">>>> \in Seq(Cells)
    BY <1>2
  <2>2. QED
    BY <1>3, <2>1
<1>5. SegmentsOf(OnlineCells(m)) \subseteq {"online", "diagnostics"}
  BY <1>3 DEF SegmentsOf
<1>6. QED
  BY <1>4, <1>5, CompletionCellsType
-----------------------------------------------------------------------------
(* Type correctness, one lemma for each action.                            *)

LEMMA InitType == Init => TypeOK
<1> SUFFICES ASSUME Init PROVE TypeOK
  OBVIOUS
<1> USE DEF Init, RecorderInit
<1>1. /\ counters \in [Cells -> Nat]
      /\ calibration_state \in {"Collecting", "Freezing", "Frozen"}
      /\ frozen_calibration \in [Stages -> StageReports \cup {None}]
      /\ ctx \in [Markers -> Contexts \cup {None}]
      /\ mpc \in [Markers -> {"idle", "counting", "online", "classified"}]
  OBVIOUS
<1>2. NoMark \in Marks
  BY DEF NoMark, Marks, Stages
<1>3. /\ mark \in [Markers -> Marks]
      /\ todo \in [Markers -> Seq(Cells)]
      /\ requests \in [Markers -> 0 .. MaxRequests]
      /\ fed \in [Markers -> SUBSET {"calibration", "online", "diagnostics"}]
  BY <1>2
<1>4. /\ NothingSeen \in [CalibrationCells -> Nat]
      /\ 0 \in 0 .. ScanLength
  BY DEF NothingSeen, ScanLength
<1>5. /\ fpc \in [Freezers -> Labels]
      /\ minimum \in [Freezers -> Nat]
      /\ seen \in [Freezers -> [CalibrationCells -> Nat]]
      /\ position \in [Freezers -> 0 .. ScanLength]
      /\ report \in [Freezers -> [Stages -> StageReports] \cup {NoReport}]
      /\ result \in [Freezers -> Answers \cup {None}]
      /\ calls \in [Freezers -> 0 .. MaxCalls]
  BY <1>4 DEF Labels
<1>6. QED
  BY <1>1, <1>3, <1>5 DEF TypeOK

LEMMA MarkerStepType ==
    ASSUME TypeOK, LiveContext,
           NEW m \in Markers, MarkerStep(m), UNCHANGED freezerVars
    PROVE  TypeOK'
<1> USE DEF TypeOK, freezerVars
<1>1. CASE Start(m)
  <2>1. [startedFrozen |-> calibration_state = "Frozen",
         previous |-> None, cumulative |-> 0] \in Contexts
    BY DEF Contexts
  <2>2. ctx' \in [Markers -> Contexts \cup {None}]
    BY <1>1, <2>1 DEF Start
  <2>3. requests' \in [Markers -> 0 .. MaxRequests]
    BY <1>1 DEF Start
  <2>4. fed' \in [Markers -> SUBSET {"calibration", "online", "diagnostics"}]
    BY <1>1 DEF Start
  <2>5. QED
    BY <1>1, <2>2, <2>3, <2>4 DEF Start, recorderVars
<1>2. ASSUME NEW s \in Stages, NEW l \in Latencies, NEW o \in Endings,
             BeginMark(m, s, l, o)
      PROVE  TypeOK'
  <2>1. ctx[m] \in Contexts
    BY <1>2 DEF BeginMark
  <2>2. [stage |-> s, local |-> l, cumulative |-> ctx[m].cumulative + l,
         outcome |-> o] \in Marks
    BY <2>1 DEF Contexts, Marks, Outcomes
  <2>3. mark' \in [Markers -> Marks]
    BY <1>2, <2>2 DEF BeginMark
  <2>4. MatrixCells(m, s) \in Seq(Cells)
    BY <1>2, MatrixCellsType DEF BeginMark
  <2>5. todo' \in [Markers -> Seq(Cells)]
    BY <1>2, <2>4 DEF BeginMark
  <2>6. mpc' \in [Markers -> {"idle", "counting", "online", "classified"}]
    BY <1>2 DEF BeginMark
  <2>7. QED
    BY <1>2, <2>3, <2>5, <2>6 DEF BeginMark, recorderVars
<1>3. CASE Increment(m)
  <2>1. todo[m] \in Seq(Cells) /\ todo[m] # <<>>
    BY <1>3 DEF Increment
  <2>2. Head(todo[m]) \in Cells /\ Tail(todo[m]) \in Seq(Cells)
    BY <2>1
  <2>3. counters' \in [Cells -> Nat]
    BY <1>3, <2>2 DEF Increment
  <2>4. todo' \in [Markers -> Seq(Cells)]
    BY <1>3, <2>2 DEF Increment
  <2>5. QED
    BY <1>3, <2>3, <2>4 DEF Increment
<1>4. CASE LoadState(m)
  <2>1. <<<<"diagnostics", "SkippedWhileFreezing">>>> \o CompletionCells(m)
           \in Seq(Cells)
    <3>1. <<"diagnostics", "SkippedWhileFreezing">> \in Cells
      BY CellTypes DEF Diagnostics
    <3>2. <<<<"diagnostics", "SkippedWhileFreezing">>>> \in Seq(Cells)
      BY <3>1
    <3>3. QED
      BY <3>2, CompletionCellsType
  <2>2. /\ mpc' \in [Markers -> {"idle", "counting", "online", "classified"}]
        /\ todo' \in [Markers -> Seq(Cells)]
        /\ fed' \in [Markers -> SUBSET {"calibration", "online", "diagnostics"}]
    <3>1. CASE LoadCollecting(m)
      BY <3>1, CollectingCellsType DEF LoadCollecting
    <3>2. CASE LoadFreezing(m)
      BY <3>2, <2>1 DEF LoadFreezing
    <3>3. CASE LoadFrozen(m)
      <4>1. CASE ctx[m].startedFrozen
        BY <3>3, <4>1 DEF LoadFrozen
      <4>2. CASE ~ctx[m].startedFrozen
        <5>1. CompletionCells(m) \in Seq(Cells)
          BY CompletionCellsType
        <5>2. /\ mpc' = [mpc EXCEPT ![m] = "classified"]
              /\ todo' = [todo EXCEPT ![m] = CompletionCells(m)]
              /\ fed' = fed
          BY <3>3, <4>2 DEF LoadFrozen
        <5>3. QED
          BY <5>1, <5>2
      <4>3. QED
        BY <4>1, <4>2
    <3>4. QED
      BY <1>4, <3>1, <3>2, <3>3 DEF LoadState
  <2>3. QED
    BY <1>4, <2>2 DEF LoadState, recorderVars
<1>5. CASE ReadThresholds(m)
  <2>1. todo' \in [Markers -> Seq(Cells)]
    BY <1>5, OnlineCellsType DEF ReadThresholds
  <2>2. fed' \in [Markers -> SUBSET {"calibration", "online", "diagnostics"}]
    BY <1>5, OnlineCellsType DEF ReadThresholds
  <2>3. mpc' \in [Markers -> {"idle", "counting", "online", "classified"}]
    BY <1>5 DEF ReadThresholds
  <2>4. QED
    BY <1>5, <2>1, <2>2, <2>3 DEF ReadThresholds, recorderVars
<1>6. CASE EndMark(m)
  <2>1. ctx[m] \in Contexts
    BY <1>6 DEF EndMark, LiveContext
  <2>2. [ctx[m] EXCEPT !.previous = mark[m].stage,
                      !.cumulative = mark[m].cumulative] \in Contexts
    BY <2>1 DEF Contexts, Marks
  <2>3. ctx' \in [Markers -> Contexts \cup {None}]
    BY <1>6, <2>2 DEF EndMark
  <2>4. NoMark \in Marks
    BY DEF NoMark, Marks, Stages
  <2>5. mark' \in [Markers -> Marks]
    BY <1>6, <2>4 DEF EndMark
  <2>6. mpc' \in [Markers -> {"idle", "counting", "online", "classified"}]
    BY <1>6 DEF EndMark
  <2>7. QED
    BY <1>6, <2>3, <2>5, <2>6 DEF EndMark, recorderVars
<1>7. QED
  BY <1>1, <1>2, <1>3, <1>4, <1>5, <1>6 DEF MarkerStep
LEMMA LiveContextStep ==
    ASSUME TypeOK, LiveContext, Next
    PROVE  LiveContext'
<1> SUFFICES ASSUME NEW k \in Markers, mpc'[k] # "idle"
             PROVE  ctx'[k] # None
  BY DEF LiveContext
<1>1. ASSUME NEW m \in Markers, MarkerStep(m)
      PROVE  ctx'[k] # None
  <2>1. CASE Start(m)
    BY <2>1 DEF Start, TypeOK, LiveContext
  <2>2. ASSUME NEW s \in Stages, NEW l \in Latencies, NEW o \in Endings,
               BeginMark(m, s, l, o)
        PROVE  ctx'[k] # None
    BY <2>2 DEF BeginMark, TypeOK, LiveContext
  <2>3. CASE Increment(m)
    BY <2>3 DEF Increment, LiveContext
  <2>4. CASE LoadState(m)
    BY <2>4 DEF LoadState, LoadCollecting, LoadFreezing, LoadFrozen,
                TypeOK, LiveContext
  <2>5. CASE ReadThresholds(m)
    BY <2>5 DEF ReadThresholds, TypeOK, LiveContext
  <2>6. CASE EndMark(m)
    BY <2>6 DEF EndMark, TypeOK, LiveContext
  <2>7. QED
    BY <1>1, <2>1, <2>2, <2>3, <2>4, <2>5, <2>6 DEF MarkerStep
<1>2. CASE UNCHANGED markerVars
  BY <1>2 DEF markerVars, LiveContext
<1>3. QED
  BY <1>1, <1>2 DEF Next

LEMMA FreezerStepType ==
    ASSUME TypeOK, NEW f \in Freezers, FreezerStep(f), UNCHANGED markerVars
    PROVE  TypeOK'
<1> USE DEF TypeOK, markerVars, recorderVars
<1>1. /\ NothingSeen \in [CalibrationCells -> Nat]
      /\ 0 \in 0 .. ScanLength
      /\ AlreadyAnswer \in Answers
  BY DEF NothingSeen, ScanLength, AlreadyAnswer, Answers
<1>2. ASSUME NEW a \in Answers, Return(f, a)
      PROVE  /\ fpc' \in [Freezers -> Labels]
             /\ result' \in [Freezers -> Answers \cup {None}]
             /\ seen' \in [Freezers -> [CalibrationCells -> Nat]]
             /\ position' \in [Freezers -> 0 .. ScanLength]
             /\ report' \in [Freezers ->
                               [Stages -> StageReports] \cup {NoReport}]
  BY <1>1, <1>2 DEF Return, Labels
<1>3. ASSUME NEW l \in Labels, BeginScan(f, l)
      PROVE  /\ fpc' \in [Freezers -> Labels]
             /\ result' \in [Freezers -> Answers \cup {None}]
             /\ seen' \in [Freezers -> [CalibrationCells -> Nat]]
             /\ position' \in [Freezers -> 0 .. ScanLength]
             /\ report' \in [Freezers ->
                               [Stages -> StageReports] \cup {NoReport}]
  BY <1>1, <1>3 DEF BeginScan
<1>4. ASSUME NEW min \in Minimums, Call(f, min)
      PROVE  TypeOK'
  <2>1. /\ fpc' \in [Freezers -> Labels]
        /\ calls' \in [Freezers -> 0 .. MaxCalls]
        /\ minimum' \in [Freezers -> Nat]
        /\ result' \in [Freezers -> Answers \cup {None}]
    BY <1>4 DEF Call, Labels
  <2>2. QED
    BY <1>4, <2>1 DEF Call
<1>5. CASE LoadEntry(f)
  BY <1>1, <1>2, <1>3, <1>5 DEF LoadEntry, Labels
<1>6. CASE ScanStep(f)
  <2>1. ScanCell(position[f]) \in CalibrationCells
    BY <1>6, ScanCellType DEF ScanStep
  <2>2. counters[ScanCell(position[f])] \in Nat
    BY <2>1, CellTypes
  <2>3. seen' \in [Freezers -> [CalibrationCells -> Nat]]
    BY <1>6, <2>1, <2>2 DEF ScanStep
  <2>4. position' \in [Freezers -> 0 .. ScanLength]
    BY <1>6 DEF ScanStep, ScanLength
  <2>5. QED
    BY <1>6, <2>3, <2>4 DEF ScanStep
<1>7. CASE Judge(f)
  <2>1. CASE Ready(seen[f], minimum[f])
    BY <1>7, <2>1 DEF Judge, Labels
  <2>2. CASE ~Ready(seen[f], minimum[f])
    BY <1>2, <1>7, <2>2 DEF Judge, Answers
  <2>3. QED
    BY <2>1, <2>2
<1>8. CASE Claim(f)
  BY <1>1, <1>2, <1>3, <1>8 DEF Claim, Labels
<1>9. CASE Decide(f)
  <2>1. CASE BeginScan(f, "unready") \/ BeginScan(f, "terminal")
    BY <1>3, <1>9, <2>1 DEF Decide, Labels
  <2>2. CASE ~(BeginScan(f, "unready") \/ BeginScan(f, "terminal"))
    <3>1. /\ fpc' = [fpc EXCEPT ![f] = "publish"]
          /\ report' = [report EXCEPT ![f] = DeriveReports(seen[f])]
          /\ seen' = [seen EXCEPT ![f] = NothingSeen]
          /\ position' = [position EXCEPT ![f] = 0]
          /\ UNCHANGED <<recorderVars, minimum, result, calls>>
      BY <1>9, <2>2 DEF Decide
    <3>2. DeriveReports(seen[f]) \in [Stages -> StageReports]
      BY ReportsType
    <3>3. report' \in [Freezers -> [Stages -> StageReports] \cup {NoReport}]
      BY <3>1, <3>2
    <3>4. QED
      BY <1>1, <3>1, <3>3 DEF Labels
  <2>3. QED
    BY <2>1, <2>2
<1>10. CASE Restore(f)
  BY <1>2, <1>10 DEF Restore, Answers
<1>11. CASE PublishStage(f)
  <2>1. position[f] \in Stages
    BY <1>11 DEF PublishStage, Stages
  <2>2. ASSUME frozen_calibration[position[f]] = None
        PROVE  TypeOK'
    <3>1. position' \in [Freezers -> 0 .. ScanLength]
      BY <1>11, <2>1, <2>2 DEF PublishStage, ScanLength
    <3>2. report[f][position[f]] \in StageReports \cup {None}
      <4>1. report[f] \in [Stages -> StageReports] \cup {NoReport}
        OBVIOUS
      <4>2. NoReport[position[f]] = None
        BY <2>1 DEF NoReport
      <4>3. QED
        BY <2>1, <4>1, <4>2
    <3>3. frozen_calibration' \in [Stages -> StageReports \cup {None}]
      BY <1>11, <2>2, <3>2, ZenonT(60) DEF PublishStage
    <3>4. QED
      BY <1>11, <2>2, <3>1, <3>3 DEF PublishStage
  <2>3. ASSUME frozen_calibration[position[f]] # None
        PROVE  TypeOK'
    BY <1>11, <2>3 DEF PublishStage, Labels
  <2>4. QED
    BY <2>2, <2>3
<1>12. CASE Release(f)
  BY <1>2, <1>12 DEF Release, Answers
<1>13. QED
  BY <1>4, <1>5, <1>6, <1>7, <1>8, <1>9, <1>10, <1>11, <1>12
     DEF FreezerStep, Proceed

\* Every variable keeps its type: no checkpoint addresses a cell that does not
\* exist, and every scan and bundle has the shape its reader expects.
THEOREM TypeCorrect == Spec => []TypeOK
<1>1. Init => TypeOK /\ LiveContext
  BY InitType DEF Init, RecorderInit, LiveContext
<1>2. TypeOK /\ LiveContext /\ [Next]_vars => TypeOK' /\ LiveContext'
  <2> SUFFICES ASSUME TypeOK, LiveContext, [Next]_vars
               PROVE  TypeOK' /\ LiveContext'
    OBVIOUS
  <2>1. CASE Next
    BY <2>1, MarkerStepType, FreezerStepType, LiveContextStep DEF Next
  <2>2. CASE UNCHANGED vars
    BY <2>2 DEF vars, recorderVars, markerVars, freezerVars,
                TypeOK, LiveContext
  <2>3. QED
    BY <2>1, <2>2
<1>3. QED
  BY <1>1, <1>2, PTL DEF Spec
-----------------------------------------------------------------------------
(* The claim.  Freezers are the only threads that move the state.          *)

\* A marker leaves what freezers share alone; only the counters move.
LEMMA MarkerFrame ==
    ASSUME NEW m \in Markers, MarkerStep(m)
    PROVE  UNCHANGED <<calibration_state, frozen_calibration>>
BY DEF MarkerStep, Start, BeginMark, Increment, LoadState, ReadThresholds,
       EndMark, recorderVars

LEMMA ClaimStep ==
    ASSUME TypeOK, SingleClaim, PublisherInv,
           NEW f \in Freezers, FreezerStep(f)
    PROVE  SingleClaim'
<1> USE DEF TypeOK, SingleClaim, Claimants, Return, BeginScan, recorderVars
<1>1. ASSUME NEW min \in Minimums, Call(f, min) PROVE SingleClaim'
  BY <1>1 DEF Call
<1>2. CASE LoadEntry(f)
  BY <1>2, SMTT(30) DEF LoadEntry
<1>3. CASE ScanStep(f)
  BY <1>3 DEF ScanStep
<1>4. CASE Judge(f)
  <2>1. Claimants' = Claimants /\ UNCHANGED calibration_state
    BY <1>4 DEF Judge
  <2>2. QED
    BY <2>1
<1>5. CASE Claim(f)
  <2>1. CASE calibration_state = "Collecting"
    <3>1. Claimants = {}
      BY <2>1
    <3>2. Claimants' = {f}
      BY <1>5, <2>1, <3>1 DEF Claim
    <3>3. calibration_state' = "Freezing"
      BY <1>5, <2>1 DEF Claim
    <3>4. QED
      BY <3>2, <3>3
  <2>2. CASE calibration_state # "Collecting"
    <3>1. Claimants' = Claimants /\ UNCHANGED calibration_state
      BY <1>5, <2>2 DEF Claim
    <3>2. QED
      BY <3>1
  <2>3. QED
    BY <2>1, <2>2
<1>6. CASE Decide(f)
  <2>1. Claimants' = Claimants /\ UNCHANGED calibration_state
    BY <1>6 DEF Decide
  <2>2. QED
    BY <2>1
<1>7. CASE Restore(f)
  <2>1. Claimants = {f}
    BY <1>7 DEF Restore
  <2>2. Claimants' = {}
    BY <1>7, <2>1 DEF Restore
  <2>3. QED
    BY <1>7, <2>2 DEF Restore
<1>8. CASE PublishStage(f)
  <2>1. CASE frozen_calibration[position[f]] = None
    BY <1>8, <2>1 DEF PublishStage
  <2>2. frozen_calibration[position[f]] = None
    BY <1>8 DEF PublishStage, PublisherInv, Stages
  <2>3. QED
    BY <2>1, <2>2
<1>9. CASE Release(f)
  <2>1. Claimants = {f}
    BY <1>9 DEF Release
  <2>2. Claimants' = {}
    BY <1>9, <2>1 DEF Release
  <2>3. QED
    BY <1>9, <2>2 DEF Release
<1>10. QED
  BY <1>1, <1>2, <1>3, <1>4, <1>5, <1>6, <1>7, <1>8, <1>9
     DEF FreezerStep, Proceed
-----------------------------------------------------------------------------
(* The bundle.                                                             *)

\* A freezer's step leaves every other freezer's call alone.
LEMMA OtherFreezers ==
    ASSUME TypeOK, NEW f \in Freezers, FreezerStep(f),
           NEW g \in Freezers, g # f
    PROVE  /\ fpc'[g] = fpc[g]
           /\ minimum'[g] = minimum[g]
           /\ report'[g] = report[g]
           /\ position'[g] = position[g]
           /\ result'[g] = result[g]
<1> USE DEF TypeOK, Return, BeginScan, recorderVars
<1>1. CASE Claim(f) \/ Decide(f) \/ Restore(f)
  BY <1>1 DEF Claim, Decide, Restore
<1>2. CASE PublishStage(f)
  BY <1>2 DEF PublishStage
<1>3. CASE Release(f)
  BY <1>3 DEF Release
<1>4. CASE \/ \E min \in Minimums : Call(f, min)
           \/ LoadEntry(f) \/ ScanStep(f) \/ Judge(f)
  BY <1>4 DEF Call, LoadEntry, ScanStep, Judge
<1>5. QED
  BY <1>1, <1>2, <1>3, <1>4 DEF FreezerStep, Proceed

\* Once frozen, nobody is left to move the state or the thresholds.
LEMMA FrozenStable ==
    ASSUME SingleClaim, calibration_state = "Frozen",
           NEW f \in Freezers, FreezerStep(f)
    PROVE  UNCHANGED <<calibration_state, frozen_calibration>>
<1>1. f \notin Claimants
  BY DEF SingleClaim
<1>2. fpc[f] \notin {"rescan", "unready", "terminal", "publish"}
  BY <1>1 DEF Claimants
<1>3. QED
  BY <1>2 DEF FreezerStep, Proceed, Call, LoadEntry, ScanStep, Judge, Claim,
              Decide, Restore, PublishStage, Release, recorderVars

LEMMA PublisherStep ==
    ASSUME TypeOK, SingleClaim, PublisherInv, BundleInv,
           NEW f \in Freezers, FreezerStep(f)
    PROVE  PublisherInv'
<1> DEFINE Publisher(g) ==
        /\ fpc[g] # "panicked"
        /\ fpc[g] = "publish" =>
              /\ position[g] =< NumStages
              /\ report[g] \in [Stages -> StageReports]
              /\ ReadyBundle(report[g], minimum[g])
              /\ \A s \in Stages :
                    frozen_calibration[s] =
                        IF s < position[g] THEN report[g][s] ELSE None
<1>1. \A g \in Freezers : Publisher(g)
  BY DEF PublisherInv
<1>2. ASSUME UNCHANGED frozen_calibration, Publisher(f)'
      PROVE  PublisherInv'
  <2>1. ASSUME NEW g \in Freezers, g # f PROVE Publisher(g)'
    BY <1>1, <1>2, <2>1, OtherFreezers DEF ReadyBundle
  <2>2. QED
    BY <1>2, <2>1 DEF PublisherInv
<1>3. CASE Decide(f)
  <2>1. UNCHANGED frozen_calibration
    BY <1>3 DEF Decide, recorderVars
  <2>2. CASE BeginScan(f, "unready") \/ BeginScan(f, "terminal")
    BY <2>2, <2>1, <1>2 DEF BeginScan, TypeOK
  <2>3. CASE ~(BeginScan(f, "unready") \/ BeginScan(f, "terminal"))
    <3>1. /\ Ready(seen[f], minimum[f])
          /\ AllFinite(DeriveReports(seen[f]))
          /\ report' = [report EXCEPT ![f] = DeriveReports(seen[f])]
          /\ position' = [position EXCEPT ![f] = 0]
          /\ minimum' = minimum
          /\ fpc' = [fpc EXCEPT ![f] = "publish"]
      BY <1>3, <2>3 DEF Decide
    <3>2. /\ seen[f] \in [CalibrationCells -> Nat]
          /\ minimum[f] \in Nat
      BY DEF TypeOK
    <3>3. /\ report'[f] = DeriveReports(seen[f])
          /\ position'[f] = 0
          /\ minimum'[f] = minimum[f]
          /\ fpc'[f] = "publish"
      BY <3>1 DEF TypeOK
    <3>4. /\ report'[f] \in [Stages -> StageReports]
          /\ ReadyBundle(report'[f], minimum'[f])
      BY <3>1, <3>2, <3>3, ReportsType, ReadyReports
    <3>5. \A s \in Stages : frozen_calibration[s] = None
      <4>1. f \in Claimants
        BY <1>3 DEF Decide, Claimants
      <4>2. calibration_state = "Freezing"
        BY <4>1 DEF SingleClaim
      <4>3. \A g \in Freezers : fpc[g] # "publish"
        BY <1>3, <4>1 DEF Decide, Claimants, SingleClaim
      <4>4. QED
        BY <4>2, <4>3 DEF BundleInv
    <3>6. \A s \in Stages : ~(s < position'[f])
      BY <3>3 DEF Stages
    <3>7. position'[f] =< NumStages
      BY <3>3
    <3>8. Publisher(f)'
      BY <2>1, <3>3, <3>4, <3>5, <3>6, <3>7 DEF ReadyBundle
    <3>9. QED
      BY <1>2, <2>1, <3>8
  <2>4. QED
    BY <2>2, <2>3
<1>4. CASE PublishStage(f)
  <2> DEFINE p == position[f]
  <2>1. p \in Stages /\ p \in Nat
    BY <1>4 DEF PublishStage, TypeOK, Stages
  <2>2. frozen_calibration[p] = None
    BY <1>1, <1>4, <2>1 DEF PublishStage
  <2>3. /\ frozen_calibration' =
              [frozen_calibration EXCEPT ![p] = report[f][p]]
        /\ position' = [position EXCEPT ![f] = p + 1]
        /\ UNCHANGED <<fpc, minimum, report>>
    BY <1>4, <2>2 DEF PublishStage
  <2>4. ASSUME NEW g \in Freezers, g # f
        PROVE  fpc[g] # "publish"
    BY <1>4, <2>4 DEF PublishStage, SingleClaim, Claimants
  <2>5. /\ position'[f] = p + 1
        /\ p + 1 =< NumStages
    BY <2>1, <2>3 DEF TypeOK, Stages
  <2>6. ASSUME NEW s \in Stages
        PROVE  frozen_calibration'[s] =
                 IF s < position'[f] THEN report'[f][s] ELSE None
    <3>1. frozen_calibration[s] = IF s < p THEN report[f][s] ELSE None
      BY <1>1, <1>4 DEF PublishStage
    <3>2. CASE s = p
      BY <2>1, <2>3, <2>5, <3>2 DEF TypeOK
    <3>3. CASE s # p
      <4>1. s < p + 1 <=> s < p
        BY <2>1, <3>3 DEF Stages
      <4>2. QED
        BY <2>3, <2>5, <3>1, <3>3, <4>1 DEF TypeOK
    <3>4. QED
      BY <3>2, <3>3
  <2>7. Publisher(f)'
    BY <1>1, <1>4, <2>3, <2>5, <2>6 DEF PublishStage, ReadyBundle
  <2>8. ASSUME NEW g \in Freezers, g # f PROVE Publisher(g)'
    BY <1>1, <2>3, <2>4, <2>8
  <2>9. QED
    BY <2>7, <2>8 DEF PublisherInv
<1>5. CASE ~Decide(f) /\ ~PublishStage(f)
  <2>1. UNCHANGED frozen_calibration
    BY <1>5 DEF FreezerStep, Proceed, Call, LoadEntry, ScanStep, Judge, Claim,
                Restore, Release, recorderVars
  <2>2. fpc'[f] \notin {"publish", "panicked"}
    BY <1>1, <1>5 DEF FreezerStep, Proceed, Call, LoadEntry, ScanStep, Judge,
                      Claim, Restore, Release, Return, BeginScan, TypeOK
  <2>3. QED
    BY <1>2, <2>1, <2>2
<1>6. QED
  BY <1>3, <1>4, <1>5

LEMMA BundleStep ==
    ASSUME TypeOK, SingleClaim, PublisherInv, BundleInv,
           NEW f \in Freezers, FreezerStep(f)
    PROVE  BundleInv'
<1>1. CASE calibration_state = "Frozen"
  BY <1>1, FrozenStable DEF BundleInv
<1>2. CASE calibration_state # "Frozen" /\ Release(f)
  <2>1. \A s \in Stages : frozen_calibration[s] = report[f][s]
    BY <1>2 DEF Release, PublisherInv, Stages
  <2>2. report[f] \in [Stages -> StageReports]
    BY <1>2 DEF Release, PublisherInv
  <2>3. \A s \in Stages : frozen_calibration[s] # None
    BY <2>1, <2>2, NoneAssumption
  <2>4. QED
    BY <1>2, <2>3 DEF Release, BundleInv
<1>3. CASE calibration_state # "Frozen" /\ PublishStage(f)
  <2>1. frozen_calibration[position[f]] = None
    BY <1>3 DEF PublishStage, PublisherInv, TypeOK, Stages
  <2>2. fpc'[f] = "publish" /\ calibration_state' = calibration_state
    BY <1>3, <2>1 DEF PublishStage
  <2>3. QED
    BY <1>3, <2>2 DEF BundleInv
<1>4. CASE calibration_state # "Frozen" /\ ~Release(f) /\ ~PublishStage(f)
  <2>1. UNCHANGED frozen_calibration /\ calibration_state' # "Frozen"
    BY <1>4 DEF FreezerStep, Proceed, Call, LoadEntry, ScanStep, Judge, Claim,
                Decide, Restore, recorderVars
  <2>2. ASSUME \A g \in Freezers : fpc'[g] # "publish"
        PROVE  \A g \in Freezers : fpc[g] # "publish"
    <3>1. \A g \in Freezers \ {f} : fpc[g] # "publish"
      BY <2>2, OtherFreezers
    <3>2. fpc[f] # "publish"
      BY <1>4 DEF FreezerStep, Proceed, Call, LoadEntry, ScanStep, Judge,
                  Claim, Decide, Restore
    <3>3. QED
      BY <3>1, <3>2
  <2>3. QED
    BY <1>4, <2>1, <2>2 DEF BundleInv
<1>5. QED
  BY <1>1, <1>2, <1>3, <1>4

LEMMA AnswerStep ==
    ASSUME TypeOK, SingleClaim, PublisherInv, AnswerInv,
           NEW f \in Freezers, FreezerStep(f)
    PROVE  AnswerInv'
<1> SUFFICES ASSUME NEW g \in Freezers, result'[g] = "Ok"
             PROVE  /\ calibration_state' = "Frozen"
                    /\ ReadyBundle(frozen_calibration', minimum'[g])
  BY DEF AnswerInv, ReadyBundle
<1>1. CASE g = f /\ Release(f)
  <2>1. \A s \in Stages : frozen_calibration[s] = report[f][s]
    BY <1>1 DEF Release, PublisherInv, Stages
  <2>2. ReadyBundle(report[f], minimum[f])
    BY <1>1 DEF Release, PublisherInv
  <2>3. ReadyBundle(frozen_calibration, minimum[f])
    BY <2>1, <2>2 DEF ReadyBundle
  <2>4. QED
    BY <1>1, <2>3 DEF Release
<1>2. CASE g # f \/ ~Release(f)
  <2>1. result[g] = "Ok" /\ minimum'[g] = minimum[g]
    <3>1. CASE g # f
      BY <3>1, OtherFreezers
    <3>2. CASE g = f
      <4>1. ~Release(f)
        BY <1>2, <3>2
      <4>2. None # "Ok"
        BY NoneAssumption DEF Answers
      <4>3. QED
        BY <3>2, <4>1, <4>2
           DEF FreezerStep, Proceed, Call, LoadEntry, ScanStep, Judge, Claim,
               Decide, Restore, PublishStage, Return, BeginScan,
               AlreadyAnswer, TypeOK
    <3>3. QED
      BY <3>1, <3>2
  <2>2. calibration_state = "Frozen"
    BY <2>1 DEF AnswerInv
  <2>3. QED
    BY <2>1, <2>2, FrozenStable DEF AnswerInv
<1>3. QED
  BY <1>1, <1>2
-----------------------------------------------------------------------------
(* The contexts.                                                           *)

LEMMA ContextMarkerStep ==
    ASSUME TypeOK, LiveContext, ContextInv, NEW m \in Markers, MarkerStep(m)
    PROVE  ContextInv'
<1> DEFINE Sound(k) ==
        /\ ctx[k] # None =>
              /\ ctx[k].startedFrozen => calibration_state = "Frozen"
              /\ mpc[k] = "online" => ctx[k].startedFrozen
              /\ "calibration" \in fed[k] => ~ctx[k].startedFrozen
              /\ "online" \in fed[k] => ctx[k].startedFrozen
        /\ ~({"calibration", "online"} \subseteq fed[k])
<1>1. \A k \in Markers : Sound(k)
  BY DEF ContextInv
<1>2. calibration_state' = calibration_state
  BY MarkerFrame
<1>3. ASSUME NEW k \in Markers, k # m PROVE Sound(k)'
  <2>1. ctx'[k] = ctx[k] /\ mpc'[k] = mpc[k] /\ fed'[k] = fed[k]
    BY <1>3 DEF MarkerStep, Start, BeginMark, Increment, LoadState,
                LoadCollecting, LoadFreezing, LoadFrozen, ReadThresholds,
                EndMark, TypeOK
  <2>2. QED
    BY <1>1, <1>2, <2>1
<1>4. Sound(m)'
  <2>1. CASE Start(m)
    BY <1>2, <2>1 DEF Start, TypeOK
  <2>2. ASSUME NEW s \in Stages, NEW l \in Latencies, NEW o \in Endings,
               BeginMark(m, s, l, o)
        PROVE  Sound(m)'
    BY <1>1, <1>2, <2>2 DEF BeginMark, TypeOK
  <2>3. CASE Increment(m)
    BY <1>1, <1>2, <2>3 DEF Increment
  <2>4. CASE LoadState(m)
    <3>1. ctx[m] # None /\ ctx'[m] = ctx[m]
      BY <2>4 DEF LoadState, LiveContext
    <3>2. CASE LoadCollecting(m)
      <4>1. ~ctx[m].startedFrozen
        BY <1>1, <3>1, <3>2 DEF LoadCollecting
      <4>2. fed'[m] = fed[m] \cup {"calibration"} /\ mpc'[m] = "classified"
        BY <3>2 DEF LoadCollecting, TypeOK
      <4>3. QED
        BY <1>1, <1>2, <3>1, <4>1, <4>2
    <3>3. CASE LoadFreezing(m)
      BY <1>1, <1>2, <3>1, <3>3 DEF LoadFreezing, TypeOK
    <3>4. CASE LoadFrozen(m)
      BY <1>1, <1>2, <3>1, <3>4 DEF LoadFrozen, TypeOK
    <3>5. QED
      BY <2>4, <3>2, <3>3, <3>4 DEF LoadState
  <2>5. CASE ReadThresholds(m)
    <3>1. ctx[m] # None /\ ctx'[m] = ctx[m] /\ ctx[m].startedFrozen
      BY <1>1, <2>5 DEF ReadThresholds, LiveContext
    <3>2. fed'[m] \subseteq fed[m] \cup {"online", "diagnostics"}
      BY <2>5, OnlineCellsType DEF ReadThresholds, TypeOK
    <3>3. "calibration" \notin fed'[m]
      BY <1>1, <3>1, <3>2
    <3>4. QED
      BY <1>1, <1>2, <3>1, <3>3
  <2>6. CASE EndMark(m)
    <3>1. fed'[m] = fed[m] /\ mpc'[m] = "idle"
      BY <2>6 DEF EndMark, TypeOK
    <3>2. ctx[m] \in Contexts
      BY <2>6 DEF EndMark, LiveContext, TypeOK
    <3>3. ctx'[m] # None =>
            ctx'[m] = [ctx[m] EXCEPT !.previous = mark[m].stage,
                                     !.cumulative = mark[m].cumulative]
      BY <2>6 DEF EndMark, TypeOK
    <3>4. ctx'[m] # None =>
            ctx[m] # None /\ ctx'[m].startedFrozen = ctx[m].startedFrozen
      BY <2>6, <3>2, <3>3 DEF Contexts, EndMark, LiveContext
    <3>5. QED
      BY <1>1, <1>2, <3>1, <3>4
  <2>7. QED
    BY <2>1, <2>2, <2>3, <2>4, <2>5, <2>6 DEF MarkerStep
<1>5. QED
  BY <1>3, <1>4 DEF ContextInv

LEMMA ContextFreezerStep ==
    ASSUME SingleClaim, ContextInv, UNCHANGED markerVars,
           NEW f \in Freezers, FreezerStep(f)
    PROVE  ContextInv'
<1>1. calibration_state = "Frozen" => calibration_state' = "Frozen"
  BY FrozenStable
<1>2. QED
  BY <1>1 DEF ContextInv, markerVars

-----------------------------------------------------------------------------
(* The inductive invariant.                                                *)

LEMMA InitIInv == Init => IInv
BY NoneAssumption
   DEF Init, RecorderInit, IInv, LiveContext, SingleClaim, Claimants,
       PublisherInv, BundleInv, AnswerInv, ContextInv, Answers

LEMMA StepIInv ==
    ASSUME TypeOK, IInv, [Next]_vars
    PROVE  IInv'
<1> USE DEF IInv
<1>1. ASSUME NEW m \in Markers, MarkerStep(m), UNCHANGED freezerVars
      PROVE  IInv'
  <2>1. UNCHANGED <<calibration_state, frozen_calibration>>
    BY <1>1, MarkerFrame
  <2>2. LiveContext'
    BY <1>1, LiveContextStep DEF Next
  <2>3. SingleClaim' /\ PublisherInv' /\ BundleInv' /\ AnswerInv'
    BY <1>1, <2>1 DEF freezerVars, SingleClaim, Claimants, PublisherInv,
                      BundleInv, AnswerInv, ReadyBundle
  <2>4. QED
    BY <1>1, <2>2, <2>3, ContextMarkerStep
<1>2. ASSUME NEW f \in Freezers, FreezerStep(f), UNCHANGED markerVars
      PROVE  IInv'
  <2>1. LiveContext'
    BY <1>2, LiveContextStep DEF Next
  <2>2. QED
    BY <1>2, <2>1, ClaimStep, PublisherStep, BundleStep, AnswerStep,
       ContextFreezerStep
<1>3. CASE UNCHANGED vars
  BY <1>3 DEF vars, recorderVars, markerVars, freezerVars, LiveContext,
              SingleClaim, Claimants, PublisherInv, BundleInv, AnswerInv,
              ContextInv, ReadyBundle
<1>4. QED
  BY <1>1, <1>2, <1>3 DEF Next

\* The invariant that carries the safety properties holds of every behaviour.
THEOREM Inductive == Spec => []IInv
<1>1. IInv /\ TypeOK /\ [Next]_vars => IInv'
  BY StepIInv
<1>2. QED
  BY <1>1, InitIInv, TypeCorrect, PTL DEF Spec

\* For any number of racing callers, one at a time owns the transition.
THEOREM SingleClaimHolds == Spec => []SingleClaim
<1>1. IInv => SingleClaim
  BY DEF IInv
<1>2. QED
  BY <1>1, Inductive, PTL

\* The expect on OnceLock::set in freeze_after_claim never panics.
THEOREM PublicationNeverPanicsHolds == Spec => []PublicationNeverPanics
<1>1. IInv => PublicationNeverPanics
  BY DEF IInv, PublisherInv, PublicationNeverPanics
<1>2. QED
  BY <1>1, Inductive, PTL

\* Frozen implies a complete bundle and Collecting an empty one.
THEOREM NoPartialBundleHolds == Spec => []NoPartialBundle
<1>1. IInv => NoPartialBundle
  BY DEF IInv, SingleClaim, Claimants, BundleInv, NoPartialBundle
<1>2. QED
  BY <1>1, Inductive, PTL

\* An accepted freeze is backed by ready populations and finite thresholds.
THEOREM AcceptedBundleIsReadyHolds == Spec => []AcceptedBundleIsReady
<1>1. IInv => AcceptedBundleIsReady
  BY DEF IInv, AnswerInv, AcceptedBundleIsReady
<1>2. QED
  BY <1>1, Inductive, PTL

\* The early return for unpublished thresholds is dead code for every context
\* that started frozen.
THEOREM StartedFrozenFindsThresholdsHolds ==
    Spec => []StartedFrozenFindsThresholds
<1>1. IInv => StartedFrozenFindsThresholds
  BY DEF IInv, ContextInv, BundleInv, StartedFrozenFindsThresholds
<1>2. QED
  BY <1>1, Inductive, PTL

-----------------------------------------------------------------------------
(* Online counters before the freeze.                                      *)

\* What a checkpoint may have to increment when calibration is not frozen.
NotOnline(cells) == \A i \in 1 .. Len(cells) : cells[i][1] # "online"

LEMMA NotOnlineCells ==
    ASSUME TypeOK, NEW m \in Markers, NEW s \in Stages
    PROVE  /\ NotOnline(MatrixCells(m, s))
           /\ NotOnline(CollectingCells(m) \o CompletionCells(m))
           /\ NotOnline(<<<<"diagnostics", "SkippedWhileFreezing">>>>
                         \o CompletionCells(m))
<1>1. NotOnline(MatrixCells(m, s))
  BY DEF NotOnline, MatrixCells
<1>2. CompletionCells(m) \in
        {<<>>, <<<<"completion", mark[m].stage, mark[m].outcome>>>>}
  BY DEF CompletionCells
<1>3. ASSUME NEW p, NEW ns
      PROVE  CalibrationCell(m, p, ns)[1] = "calibration"
  BY DEF CalibrationCell
<1>4. /\ CollectingCells(m) \in Seq(Cells)
      /\ NotOnline(CollectingCells(m))
  BY <1>3, CollectingCellsType DEF NotOnline, CollectingCells
<1>5. /\ CompletionCells(m) \in Seq(Cells)
      /\ NotOnline(CompletionCells(m))
  BY <1>2, CompletionCellsType DEF NotOnline
<1>6. NotOnline(CollectingCells(m) \o CompletionCells(m))
  BY <1>4, <1>5 DEF NotOnline
<1>7. <<<<"diagnostics", "SkippedWhileFreezing">>>> \in Seq(Cells)
  BY CellTypes DEF Diagnostics
<1>8. NotOnline(<<<<"diagnostics", "SkippedWhileFreezing">>>>
                \o CompletionCells(m))
  BY <1>5, <1>7 DEF NotOnline
<1>9. QED
  BY <1>1, <1>6, <1>8

LEMMA OnlineMarkerStep ==
    ASSUME TypeOK, LiveContext, ContextInv, OnlineInv,
           NEW m \in Markers, MarkerStep(m)
    PROVE  OnlineInv'
<1> SUFFICES ASSUME calibration_state # "Frozen" PROVE OnlineInv'
  BY MarkerFrame DEF OnlineInv
<1>1. /\ \A k \in Markers : NotOnline(todo[k])
      /\ \A s \in Stages, k \in {"First", "Predecessor"} :
            counters[<<"online", s, k>>] = 0
  BY DEF OnlineInv, NotOnline
<1>2. ASSUME UNCHANGED counters, NotOnline(todo'[m]),
             \A k \in Markers \ {m} : todo'[k] = todo[k]
      PROVE  OnlineInv'
  BY <1>1, <1>2 DEF OnlineInv, NotOnline
<1>3. CASE Start(m) \/ EndMark(m)
  BY <1>1, <1>3 DEF Start, EndMark, recorderVars, OnlineInv, NotOnline
<1>4. ASSUME NEW s \in Stages, NEW l \in Latencies, NEW o \in Endings,
             BeginMark(m, s, l, o)
      PROVE  OnlineInv'
  BY <1>2, <1>4, NotOnlineCells DEF BeginMark, recorderVars, TypeOK
<1>5. CASE Increment(m)
  <2>1. todo[m] \in Seq(Cells) /\ todo[m] # <<>>
    BY <1>5 DEF Increment, TypeOK
  <2>2. todo[m][1][1] # "online"
    BY <1>1, <2>1 DEF NotOnline
  <2>3. ASSUME NEW s \in Stages, NEW k \in {"First", "Predecessor"}
        PROVE  counters'[<<"online", s, k>>] = 0
    <3>1. <<"online", s, k>> # Head(todo[m])
      BY <2>1, <2>2
    <3>2. <<"online", s, k>> \in Cells
      BY CellTypes
    <3>3. QED
      BY <1>1, <1>5, <3>1, <3>2 DEF Increment, TypeOK
  <2>4. NotOnline(Tail(todo[m]))
    BY <1>1, <2>1 DEF NotOnline
  <2>5. \A k \in Markers : NotOnline(todo'[k])
    BY <1>1, <1>5, <2>4 DEF Increment, TypeOK
  <2>6. QED
    BY <2>3, <2>5 DEF OnlineInv, NotOnline
<1>6. CASE LoadState(m)
  <2>1. LoadCollecting(m) \/ LoadFreezing(m)
    BY <1>6 DEF LoadState, LoadFrozen
  <2>2. mark[m].stage \in Stages
    BY DEF TypeOK, Marks
  <2>3. NotOnline(todo'[m]) /\ \A k \in Markers \ {m} : todo'[k] = todo[k]
    <3>1. todo \in [Markers -> Seq(Cells)]
      BY DEF TypeOK
    <3>2. CASE LoadCollecting(m)
      <4>1. NotOnline(CollectingCells(m) \o CompletionCells(m))
        BY <2>2, NotOnlineCells
      <4>2. QED
        BY <3>1, <3>2, <4>1 DEF LoadCollecting
    <3>3. CASE LoadFreezing(m)
      <4>1. NotOnline(<<<<"diagnostics", "SkippedWhileFreezing">>>>
                      \o CompletionCells(m))
        BY <2>2, NotOnlineCells
      <4>2. QED
        BY <3>1, <3>3, <4>1 DEF LoadFreezing
    <3>4. QED
      BY <2>1, <3>2, <3>3
  <2>4. QED
    BY <1>2, <1>6, <2>3 DEF LoadState, recorderVars
<1>7. CASE ReadThresholds(m)
  <2>1. ctx[m] # None /\ ctx[m].startedFrozen
    BY <1>7 DEF ReadThresholds, LiveContext, ContextInv
  <2>2. QED
    BY <2>1 DEF ContextInv
<1>8. QED
  BY <1>3, <1>4, <1>5, <1>6, <1>7 DEF MarkerStep

LEMMA OnlineFreezerStep ==
    ASSUME SingleClaim, OnlineInv, UNCHANGED markerVars,
           NEW f \in Freezers, FreezerStep(f)
    PROVE  OnlineInv'
<1>1. calibration_state = "Frozen" => calibration_state' = "Frozen"
  BY FrozenStable
<1>2. UNCHANGED <<counters, todo>>
  BY DEF FreezerStep, Proceed, Call, LoadEntry, ScanStep, Judge, Claim, Decide,
         Restore, PublishStage, Release, recorderVars, markerVars
<1>3. QED
  BY <1>1, <1>2 DEF OnlineInv

\* While thresholds are published one by one nothing is classified with them:
\* the comment of freeze_after_claim about online cells is right.
THEOREM OnlineNeedsFrozenHolds == Spec => []OnlineNeedsFrozen
<1>1. Init => OnlineInv
  <2> SUFFICES ASSUME Init PROVE OnlineInv
    OBVIOUS
  <2>1. \A m \in Markers : Len(todo[m]) = 0
    BY DEF Init, RecorderInit
  <2>2. \A s \in Stages, k \in {"First", "Predecessor"} :
          counters[<<"online", s, k>>] = 0
    BY CellTypes DEF Init, RecorderInit
  <2>3. QED
    BY <2>1, <2>2 DEF OnlineInv
<1>2. TypeOK /\ IInv /\ OnlineInv /\ [Next]_vars => OnlineInv'
  <2> SUFFICES ASSUME TypeOK, IInv, OnlineInv, [Next]_vars PROVE OnlineInv'
    OBVIOUS
  <2>1. CASE UNCHANGED vars
    BY <2>1 DEF vars, recorderVars, markerVars, OnlineInv
  <2>2. QED
    BY <2>1, OnlineMarkerStep, OnlineFreezerStep DEF Next, IInv
<1>3. OnlineInv => OnlineNeedsFrozen
  BY DEF OnlineInv, OnlineNeedsFrozen
<1>4. QED
  BY <1>1, <1>2, <1>3, TypeCorrect, Inductive, PTL DEF Spec

-----------------------------------------------------------------------------
(* Populations of one request.                                             *)

\* No request feeds both the calibration and the online populations.
THEOREM PopulationsNeverMixHolds == Spec => []PopulationsNeverMix
<1>1. IInv => PopulationsNeverMix
  BY DEF IInv, ContextInv, PopulationsNeverMix
<1>2. QED
  BY <1>1, Inductive, PTL

-----------------------------------------------------------------------------
(* What no step may do.                                                    *)

\* A published threshold is never replaced and Frozen is never left.
LEMMA FinalStep ==
    ASSUME TypeOK, IInv, [Next]_vars
    PROVE  /\ calibration_state = "Frozen" => calibration_state' = "Frozen"
           /\ \A s \in Stages :
                frozen_calibration[s] # None =>
                    frozen_calibration'[s] = frozen_calibration[s]
<1>1. ASSUME NEW m \in Markers, MarkerStep(m)
      PROVE  UNCHANGED <<calibration_state, frozen_calibration>>
  BY <1>1, MarkerFrame
<1>2. ASSUME NEW f \in Freezers, FreezerStep(f)
      PROVE  /\ calibration_state = "Frozen" => calibration_state' = "Frozen"
             /\ \A s \in Stages :
                  frozen_calibration[s] # None =>
                      frozen_calibration'[s] = frozen_calibration[s]
  <2>1. calibration_state = "Frozen" => calibration_state' = "Frozen"
    BY <1>2, FrozenStable DEF IInv
  <2>2. CASE PublishStage(f)
    BY <2>2 DEF PublishStage, TypeOK
  <2>3. CASE ~PublishStage(f)
    <3>1. UNCHANGED frozen_calibration
      BY <1>2, <2>3 DEF FreezerStep, Proceed, Call, LoadEntry, ScanStep, Judge,
                        Claim, Decide, Restore, Release, recorderVars
    <3>2. QED
      BY <2>1, <3>1
  <2>4. QED
    BY <2>1, <2>2, <2>3
<1>3. CASE UNCHANGED vars
  BY <1>3 DEF vars, recorderVars
<1>4. QED
  BY <1>1, <1>2, <1>3 DEF Next

THEOREM ThresholdsFinalHolds == Spec => ThresholdsFinal
<1>1. TypeOK /\ IInv /\ [Next]_vars =>
        [/\ calibration_state = "Frozen" => calibration_state' = "Frozen"
         /\ \A s \in Stages :
              frozen_calibration[s] # None =>
                 frozen_calibration'[s] = frozen_calibration[s]]_vars
  BY FinalStep
<1>2. QED
  BY <1>1, TypeCorrect, Inductive, PTL DEF Spec, ThresholdsFinal
-----------------------------------------------------------------------------
(* The refinement: every step of a freezer is a step of the contract or    *)
(* changes nothing its callers see.                                        *)

\* The owner is the claimant there is, and nobody when there is none, before
\* and after a step.
LEMMA OwnerIs ==
    ASSUME SingleClaim, SingleClaim'
    PROVE  /\ \A f \in Freezers : f \in Claimants <=> Owner = f
           /\ \A f \in Freezers : f \in Claimants' <=> Owner' = f
           /\ Claimants = {} => Owner = None
           /\ Claimants' = {} => Owner' = None
<1>1. /\ Claimants # {} => Owner \in Claimants
      /\ Claimants' # {} => Owner' \in Claimants'
      /\ Claimants = {} => Owner = None
      /\ Claimants' = {} => Owner' = None
  BY DEF Owner
<1>2. ASSUME NEW f \in Freezers
      PROVE  /\ f \in Claimants <=> Owner = f
             /\ f \in Claimants' <=> Owner' = f
  BY <1>1, NoneAssumption DEF SingleClaim
<1>3. QED
  BY <1>1, <1>2

\* Returning replaces the pending answer.
LEMMA ReturnAnswers ==
    ASSUME TypeOK, NEW f \in Freezers, NEW a, Return(f, a), fpc[f] # "idle"
    PROVE  /\ VisibleAnswer' = [VisibleAnswer EXCEPT ![f] = a]
           /\ VisibleAnswer[f] = "Pending"
BY DEF Return, VisibleAnswer, TypeOK

\* Moving inside a call leaves the answers alone.
LEMMA MovingAnswersNothing ==
    ASSUME TypeOK, NEW f \in Freezers, NEW l \in Labels,
           fpc[f] # "idle", l # "idle",
           fpc' = [fpc EXCEPT ![f] = l], UNCHANGED result
    PROVE  VisibleAnswer' = VisibleAnswer
BY DEF VisibleAnswer, TypeOK

LEMMA RefinementStep ==
    ASSUME TypeOK, IInv, IInv', NEW f \in Freezers, FreezerStep(f)
    PROVE  [Contract!Next]_(Contract!vars)
<1> USE DEF recorderVars
<1>1. /\ SingleClaim /\ SingleClaim'
      /\ \A g \in Freezers : g \in Claimants <=> Owner = g
      /\ \A g \in Freezers : g \in Claimants' <=> Owner' = g
      /\ Claimants = {} => Owner = None
      /\ Claimants' = {} => Owner' = None
  <2>1. SingleClaim /\ SingleClaim'
    BY DEF IInv
  <2>2. QED
    BY <2>1, OwnerIs
<1> DEFINE NotOwner == f \notin Claimants
<1> DEFINE Same == UNCHANGED <<calibration_state, frozen_calibration>>
<1>2. ASSUME Claimants' = Claimants PROVE Owner' = Owner
  BY <1>2 DEF Owner
<1>3. ASSUME Same PROVE VisibleBundle' = VisibleBundle
  BY <1>3 DEF VisibleBundle
<1>4. ASSUME NEW min \in Minimums, Call(f, min)
      PROVE  Contract!Call(f)
  <2>1. Claimants' = Claimants /\ Same
    BY <1>4 DEF Call, Claimants, TypeOK
  <2>2. VisibleAnswer[f] # "Pending"
    BY <1>4, NoneAssumption DEF Call, VisibleAnswer, TypeOK, Answers
  <2>3. VisibleAnswer' = [VisibleAnswer EXCEPT ![f] = "Pending"]
    BY <1>4 DEF Call, VisibleAnswer, TypeOK
  <2>4. QED
    BY <1>2, <1>3, <2>1, <2>2, <2>3
       DEF Contract!Call, Contract!Pending, Contract!Answer
<1>5. ASSUME Return(f, AlreadyAnswer), calibration_state # "Collecting", Same,
             NotOwner, fpc[f] # "idle"
      PROVE  Contract!Refuse(f)
  <2>1. Claimants' = Claimants
    BY <1>5 DEF Return, Claimants, TypeOK
  <2>2. /\ VisibleAnswer' = [VisibleAnswer EXCEPT ![f] = AlreadyAnswer]
        /\ VisibleAnswer[f] = "Pending"
    BY <1>5, ReturnAnswers
  <2>3. Owner # f
    BY <1>1, <1>5
  <2>4. \/ calibration_state = "Freezing" /\ AlreadyAnswer = "AlreadyFreezing"
        \/ calibration_state = "Frozen" /\ AlreadyAnswer = "AlreadyFrozen"
    BY <1>5 DEF AlreadyAnswer, TypeOK
  <2>5. QED
    BY <1>2, <1>3, <1>5, <2>1, <2>2, <2>3, <2>4
       DEF Contract!Refuse, Contract!Pending, Contract!Answer
<1>6. ASSUME NEW l \in Labels, l # "idle", fpc[f] # "idle",
             fpc' = [fpc EXCEPT ![f] = l], UNCHANGED result,
             Claimants' = Claimants, UNCHANGED calibration_state,
             VisibleBundle' = VisibleBundle
      PROVE  UNCHANGED Contract!vars
  BY <1>2, <1>6, MovingAnswersNothing DEF Contract!vars
<1>7. CASE LoadEntry(f)
  <2>1. NotOwner /\ Same /\ fpc[f] # "idle"
    BY <1>7 DEF LoadEntry, Claimants
  <2>2. CASE calibration_state = "Collecting"
    <3>1. fpc' = [fpc EXCEPT ![f] = "scan"] /\ UNCHANGED result
      BY <1>7, <2>2 DEF LoadEntry, BeginScan
    <3>2. Claimants' = Claimants
      BY <2>1, <3>1 DEF Claimants, TypeOK
    <3>3. QED
      BY <1>3, <1>6, <2>1, <3>1, <3>2 DEF Labels
  <2>3. CASE calibration_state # "Collecting"
    <3>1. Return(f, AlreadyAnswer)
      BY <1>7, <2>3 DEF LoadEntry
    <3>2. QED
      BY <1>5, <2>1, <2>3, <3>1 DEF Contract!Next
  <2>4. QED
    BY <2>2, <2>3
<1>8. CASE ScanStep(f)
  <2>1. UNCHANGED <<fpc, result>> /\ Same
    BY <1>8 DEF ScanStep
  <2>2. Claimants' = Claimants /\ VisibleAnswer' = VisibleAnswer
    BY <2>1 DEF Claimants, VisibleAnswer
  <2>3. QED
    BY <1>2, <1>3, <2>1, <2>2 DEF Contract!vars
<1>9. CASE Judge(f)
  <2>1. NotOwner /\ Same /\ fpc[f] # "idle"
    BY <1>9 DEF Judge, Claimants
  <2>2. CASE Ready(seen[f], minimum[f])
    <3>1. fpc' = [fpc EXCEPT ![f] = "claim"] /\ UNCHANGED result
      BY <1>9, <2>2 DEF Judge
    <3>2. Claimants' = Claimants
      BY <2>1, <3>1 DEF Claimants, TypeOK
    <3>3. QED
      BY <1>3, <1>6, <2>1, <3>1, <3>2 DEF Labels
  <2>3. CASE ~Ready(seen[f], minimum[f])
    <3>1. Return(f, "NotReady")
      BY <1>9, <2>3 DEF Judge
    <3>2. /\ VisibleAnswer' = [VisibleAnswer EXCEPT ![f] = "NotReady"]
          /\ VisibleAnswer[f] = "Pending"
      BY <2>1, <3>1, ReturnAnswers
    <3>3. Claimants' = Claimants
      BY <2>1, <3>1 DEF Return, Claimants, TypeOK
    <3>4. Owner # f
      BY <1>1, <2>1
    <3>5. Contract!Unready(f)
      BY <1>2, <1>3, <2>1, <3>2, <3>3, <3>4
         DEF Contract!Unready, Contract!Pending, Contract!Answer
    <3>6. QED
      BY <3>5 DEF Contract!Next
  <2>4. QED
    BY <2>2, <2>3
<1>10. CASE Claim(f)
  <2>1. NotOwner /\ UNCHANGED frozen_calibration /\ fpc[f] # "idle"
    BY <1>10 DEF Claim, Claimants
  <2>2. CASE calibration_state = "Collecting"
    <3>1. /\ calibration_state' = "Freezing"
          /\ fpc' = [fpc EXCEPT ![f] = "rescan"] /\ UNCHANGED result
      BY <1>10, <2>2 DEF Claim, BeginScan
    <3>2. VisibleAnswer[f] = "Pending" /\ VisibleAnswer' = VisibleAnswer
      BY <2>1, <3>1, MovingAnswersNothing DEF VisibleAnswer, Labels
    <3>3. Owner' = f
      BY <1>1, <3>1 DEF Claimants, TypeOK
    <3>4. VisibleBundle' = VisibleBundle
      BY <2>2, <3>1 DEF VisibleBundle
    <3>5. Contract!Claim(f)
      BY <2>2, <3>1, <3>2, <3>3, <3>4 DEF Contract!Claim, Contract!Pending
    <3>6. QED
      BY <3>5 DEF Contract!Next
  <2>3. CASE calibration_state # "Collecting"
    <3>1. Return(f, AlreadyAnswer) /\ Same
      BY <1>10, <2>1, <2>3 DEF Claim
    <3>2. QED
      BY <1>5, <2>1, <2>3, <3>1 DEF Contract!Next
  <2>4. QED
    BY <2>2, <2>3
<1>11. CASE Decide(f)
  <2>1. fpc[f] = "rescan" /\ Same /\ UNCHANGED result
    BY <1>11 DEF Decide, BeginScan
  <2>2. \E l \in {"unready", "terminal", "publish"} :
            fpc' = [fpc EXCEPT ![f] = l]
    BY <1>11 DEF Decide, BeginScan
  <2>3. Claimants' = Claimants
    BY <2>1, <2>2 DEF Claimants, TypeOK
  <2>4. QED
    BY <1>3, <1>6, <2>1, <2>2, <2>3 DEF Labels
<1>12. CASE Restore(f)
  <2>1. Owner = f /\ fpc[f] # "idle"
    BY <1>1, <1>12 DEF Restore, Claimants
  <2>2. calibration_state = "Freezing" /\ calibration_state' = "Collecting"
    BY <1>1, <1>12 DEF Restore, SingleClaim, Claimants
  <2>3. Owner' = None
    BY <1>1, <2>2 DEF SingleClaim
  <2>4. \E a \in {"NotReady", "CalibrationRangeInsufficient"} : Return(f, a)
    BY <1>12 DEF Restore
  <2>5. \E a \in {"NotReady", "CalibrationRangeInsufficient"} :
            VisibleAnswer' = [VisibleAnswer EXCEPT ![f] = a]
    BY <2>1, <2>4, ReturnAnswers
  <2>6. VisibleBundle' = VisibleBundle
    BY <2>2 DEF VisibleBundle
  <2>7. Contract!GiveBack(f)
    BY <2>1, <2>2, <2>3, <2>5, <2>6 DEF Contract!GiveBack, Contract!Answer
  <2>8. QED
    BY <2>7 DEF Contract!Next
<1>13. CASE PublishStage(f)
  <2>1. fpc[f] = "publish" /\ UNCHANGED <<calibration_state, result>>
    BY <1>13 DEF PublishStage
  <2>2. calibration_state # "Frozen"
    BY <1>1, <2>1 DEF SingleClaim, Claimants
  <2>3. frozen_calibration[position[f]] = None
    BY <1>13 DEF PublishStage, IInv, PublisherInv, TypeOK, Stages
  <2>4. UNCHANGED fpc
    BY <1>13, <2>3 DEF PublishStage
  <2>5. /\ Claimants' = Claimants
        /\ VisibleAnswer' = VisibleAnswer
        /\ VisibleBundle' = VisibleBundle
    BY <2>1, <2>2, <2>4 DEF Claimants, VisibleAnswer, VisibleBundle
  <2>6. QED
    BY <1>2, <2>1, <2>5 DEF Contract!vars
<1>14. CASE Release(f)
  <2>1. Owner = f /\ fpc[f] # "idle" /\ calibration_state' = "Frozen"
    BY <1>1, <1>14 DEF Release, Claimants
  <2>2. Owner' = None
    BY <1>1, <2>1 DEF SingleClaim
  <2>3. VisibleAnswer' = [VisibleAnswer EXCEPT ![f] = "Ok"]
    BY <1>14, <2>1, ReturnAnswers DEF Release
  <2>4. VisibleBundle' = frozen_calibration
    BY <1>14 DEF Release, VisibleBundle
  <2>5. frozen_calibration \in [Stages -> StageReports]
    <3>1. \A s \in Stages : frozen_calibration[s] = report[f][s]
      BY <1>14 DEF Release, IInv, PublisherInv, Stages
    <3>2. report[f] \in [Stages -> StageReports]
      BY <1>14 DEF Release, IInv, PublisherInv
    <3>3. QED
      BY <3>1, <3>2 DEF TypeOK
  <2>6. Contract!Publish(f)
    BY <2>1, <2>2, <2>3, <2>4, <2>5 DEF Contract!Publish, Contract!Answer
  <2>7. QED
    BY <2>6 DEF Contract!Next
<1>15. QED
  BY <1>4, <1>7, <1>8, <1>9, <1>10, <1>11, <1>12, <1>13, <1>14
     DEF FreezerStep, Proceed, Contract!Next

\* For every number of stages, callers and markers, the cell-by-cell scans and
\* the stage-by-stage publication are atomic to the callers of a freeze.
THEOREM Refinement == Spec => ImplementsContract
<1>1. Init => Contract!Init
  BY DEF Init, RecorderInit, Contract!Init, Owner, Claimants,
         VisibleBundle, VisibleAnswer
<1>2. TypeOK /\ IInv /\ IInv' /\ [Next]_vars
        => [Contract!Next]_(Contract!vars)
  <2> SUFFICES ASSUME TypeOK, IInv, IInv', [Next]_vars
               PROVE  [Contract!Next]_(Contract!vars)
    OBVIOUS
  <2>1. ASSUME UNCHANGED <<calibration_state, frozen_calibration, fpc, result>>
        PROVE  UNCHANGED Contract!vars
    BY <2>1 DEF Contract!vars, Owner, Claimants, VisibleBundle, VisibleAnswer
  <2>2. ASSUME NEW m \in Markers, MarkerStep(m), UNCHANGED freezerVars
        PROVE  UNCHANGED Contract!vars
    BY <2>1, <2>2, MarkerFrame DEF freezerVars
  <2>3. CASE UNCHANGED vars
    BY <2>1, <2>3 DEF vars, recorderVars, freezerVars
  <2>4. QED
    BY <2>2, <2>3, RefinementStep DEF Next
<1>3. QED
  BY <1>1, <1>2, TypeCorrect, Inductive, PTL
     DEF Spec, ImplementsContract, Contract!Spec

-----------------------------------------------------------------------------
(***************************************************************************)
(* What the counters add up to, for any finite set of markers.  A          *)
(* checkpoint that has been interrupted has announced the counters it will *)
(* still increment; what a counter shows, and how many markers have        *)
(* announced it, together are what it is expected to become.  Expected     *)
(* counters move only when a checkpoint begins and when it loads the       *)
(* calibration state, and they balance at every moment.                    *)
(***************************************************************************)
\* What is added up depends on none of these.
HIDE MaxCallsAssumption
HIDE QuantileAssumption
HIDE MinimumsAssumption
HIDE MaxRequestsAssumption
HIDE EndingsAssumption
HIDE LatencyAssumption
USE MarkersAssumption

-----------------------------------------------------------------------------
(* The invariant.                                                          *)

\* The markers that have still to increment a cell.
Waiting(cell) == {m \in Markers : cell \in Range(todo[m])}

\* What the counters become when the checkpoints in progress complete.
Expected == [cell \in Cells |-> counters[cell] + Cardinality(Waiting(cell))]

\* The markers whose interval has been recorded and not yet classified, and
\* those among them that have a predecessor.
Unclassified == {m \in Markers : mpc[m] \in {"counting", "online"}}
Following(s) ==
    {m \in Unclassified : mark[m].stage = s /\ ctx[m].previous # None}

\* Calibration cells of one stage, and one class of each population.
OneStage(cells) ==
    \A c, d \in cells : c[1] = "calibration" /\ d[1] = "calibration" =>
        c[2] = d[2] /\ (c[3] = d[3] => c = d)

\* A checkpoint announces each counter once, and one sample of a population.
TodoInv ==
    \A m \in Markers :
        /\ mpc[m] \in {"idle", "online"} => todo[m] = <<>>
        /\ IsInjective(todo[m])
        /\ OneStage(Range(todo[m]))

\* The matrices and the populations of a stage agree.
StageBalance(s) ==
    /\ Expected[<<"cumulative", s>>] = Expected[<<"local", s>>]
    /\ s > 0 => Expected[<<"incoming", s>>] = Expected[<<"cause", s>>]
    /\ Samples(Expected, s, "CumulativeAfter") = Samples(Expected, s, "Local")
    /\ Samples(Expected, s, "PreviousCumulative") =< Samples(Expected, s, "Local")
    /\ Samples(Expected, s, "PreviousCumulative")
         + Expected[<<"online", s, "Predecessor">>]
         + Cardinality(Following(s)) =< Expected[<<"cause", s>>]

Recorded == [s \in Stages |-> Expected[<<"local", s>>]]
Classified ==
    [s \in Stages |-> Samples(Expected, s, "Local")
                        + Expected[<<"online", s, "First">>]
                        + Expected[<<"online", s, "Predecessor">>]]
Accounted ==
    SumFunctionOnSet(Classified, Stages)
      + Expected[<<"diagnostics", "SkippedWhileFreezing">>]
      + Expected[<<"diagnostics", "MissingPreviousThreshold">>]
      + Cardinality(Unclassified)

\* Every recorded interval is accounted for, or about to be, and before Frozen
\* none is left out.
TotalBalance ==
    /\ Accounted =< SumFunctionOnSet(Recorded, Stages)
    /\ calibration_state # "Frozen" =>
          Accounted = SumFunctionOnSet(Recorded, Stages)

BalanceInv == TodoInv /\ (\A s \in Stages : StageBalance(s)) /\ TotalBalance

\* A count of samples that is never ahead of the counters and that has missed,
\* over all stages, one checkpoint of each marker at most.
Near(base) ==
    /\ \A s \in Stages, p \in Populations : base[s][p] =< Samples(counters, s, p)
    /\ \E late \in [Stages -> Nat] :
          /\ SumFunctionOnSet(late, Stages) =< Cardinality(Markers)
          /\ \A s \in Stages, p \in Populations :
                Samples(Expected, s, p) =< base[s][p] + late[s]

\* What a scan in progress would find if it completed now.
Completed(f) ==
    [cell \in CalibrationCells |->
        IF \E i \in 0 .. position[f] - 1 : ScanCell(i) = cell
        THEN seen[f][cell] ELSE counters[cell]]

SamplesOf(scan) ==
    [s \in Stages |-> [p \in Populations |-> Samples(scan, s, p)]]
ReportedBy(bundle) ==
    [s \in Stages |-> [p \in Populations |-> bundle[s][p].samples]]

\* The second scan, the report derived from it and the published thresholds
\* have missed no more than what was announced at the claim.
NearInv ==
    /\ \A f \in Freezers :
          /\ fpc[f] = "rescan" => Near(SamplesOf(Completed(f)))
          /\ fpc[f] = "publish" => Near(ReportedBy(report[f]))
    /\ calibration_state = "Frozen" => Near(ReportedBy(frozen_calibration))

-----------------------------------------------------------------------------
(* Sequences of distinct cells.                                            *)

LEMMA ConcatCells ==
    ASSUME NEW a \in Seq(Cells), NEW b \in Seq(Cells)
    PROVE  /\ Range(a \o b) = Range(a) \cup Range(b)
           /\ (IsInjective(a) /\ IsInjective(b) /\ Range(a) \cap Range(b) = {}) =>
                 IsInjective(a \o b)
<1>1. /\ DOMAIN a = 1 .. Len(a) /\ DOMAIN b = 1 .. Len(b)
      /\ DOMAIN (a \o b) = 1 .. Len(a) + Len(b)
      /\ Len(a) \in Nat /\ Len(b) \in Nat
      /\ \A i \in 1 .. Len(a) + Len(b) :
            (a \o b)[i] = IF i =< Len(a) THEN a[i] ELSE b[i - Len(a)]
  OBVIOUS
<1>2. Range(a \o b) \subseteq Range(a) \cup Range(b)
  BY <1>1 DEF Range
<1>3. Range(a) \subseteq Range(a \o b)
  BY <1>1 DEF Range
<1>4. Range(b) \subseteq Range(a \o b)
  <2>1. ASSUME NEW i \in 1 .. Len(b) PROVE b[i] \in Range(a \o b)
    <3>1. i + Len(a) \in 1 .. Len(a) + Len(b) /\ (i + Len(a)) - Len(a) = i
          /\ ~(i + Len(a) =< Len(a))
      BY <1>1
    <3>2. (a \o b)[i + Len(a)] = b[i]
      BY <1>1, <3>1
    <3>3. QED
      BY <1>1, <3>1, <3>2 DEF Range
  <2>2. QED
    BY <1>1, <2>1 DEF Range
<1>5. ASSUME IsInjective(a), IsInjective(b), Range(a) \cap Range(b) = {},
             NEW i \in 1 .. Len(a) + Len(b), NEW j \in 1 .. Len(a) + Len(b),
             (a \o b)[i] = (a \o b)[j]
      PROVE  i = j
  <2>1. CASE i =< Len(a) /\ j =< Len(a)
    BY <1>1, <1>5, <2>1 DEF IsInjective
  <2>2. CASE ~(i =< Len(a)) /\ ~(j =< Len(a))
    <3>1. i - Len(a) \in 1 .. Len(b) /\ j - Len(a) \in 1 .. Len(b)
      BY <1>1, <2>2
    <3>2. b[i - Len(a)] = b[j - Len(a)]
      BY <1>1, <1>5, <2>2
    <3>3. i - Len(a) = j - Len(a)
      BY <1>1, <1>5, <3>1, <3>2 DEF IsInjective
    <3>4. QED
      BY <1>1, <3>3
  <2>3. CASE i =< Len(a) /\ ~(j =< Len(a))
    <3>1. i \in DOMAIN a /\ j - Len(a) \in DOMAIN b
      BY <1>1, <2>3
    <3>2. a[i] = b[j - Len(a)]
      BY <1>1, <1>5, <2>3
    <3>3. QED
      BY <1>5, <3>1, <3>2 DEF Range
  <2>4. CASE ~(i =< Len(a)) /\ j =< Len(a)
    <3>1. j \in DOMAIN a /\ i - Len(a) \in DOMAIN b
      BY <1>1, <2>4
    <3>2. a[j] = b[i - Len(a)]
      BY <1>1, <1>5, <2>4
    <3>3. QED
      BY <1>5, <3>1, <3>2 DEF Range
  <2>5. QED
    BY <2>1, <2>2, <2>3, <2>4
<1>6. QED
  BY <1>1, <1>2, <1>3, <1>4, <1>5 DEF IsInjective

\* The head of a sequence of distinct cells leaves it for good.
LEMMA TailCells ==
    ASSUME NEW a \in Seq(Cells), a # <<>>, IsInjective(a)
    PROVE  /\ Head(a) \in Range(a) /\ Head(a) \in Cells
           /\ Range(Tail(a)) = Range(a) \ {Head(a)}
           /\ IsInjective(Tail(a))
<1>1. /\ DOMAIN a = 1 .. Len(a) /\ Len(a) \in Nat /\ Len(a) >= 1
      /\ DOMAIN Tail(a) = 1 .. Len(a) - 1
      /\ \A i \in 1 .. Len(a) - 1 : Tail(a)[i] = a[i + 1]
      /\ Head(a) = a[1]
  OBVIOUS
<1>2. ASSUME NEW i \in 1 .. Len(a) - 1
      PROVE  Tail(a)[i] \in Range(a) \ {Head(a)}
  <2>1. i + 1 \in 1 .. Len(a) /\ i + 1 # 1
    BY <1>1
  <2>2. QED
    BY <1>1, <2>1 DEF Range, IsInjective
<1>3. ASSUME NEW i \in 1 .. Len(a), a[i] # Head(a)
      PROVE  a[i] \in Range(Tail(a))
  <2>1. i - 1 \in 1 .. Len(a) - 1 /\ (i - 1) + 1 = i
    BY <1>1, <1>3
  <2>2. Tail(a)[i - 1] = a[i]
    BY <1>1, <2>1
  <2>3. QED
    BY <1>1, <2>1, <2>2 DEF Range
<1>4. IsInjective(Tail(a))
  <2>1. ASSUME NEW i \in 1 .. Len(a) - 1, NEW j \in 1 .. Len(a) - 1,
               Tail(a)[i] = Tail(a)[j]
        PROVE  i = j
    <3>1. i + 1 \in 1 .. Len(a) /\ j + 1 \in 1 .. Len(a)
      BY <1>1
    <3>2. a[i + 1] = a[j + 1]
      BY <1>1, <2>1
    <3>3. i + 1 = j + 1
      BY <1>1, <3>1, <3>2 DEF IsInjective
    <3>4. QED
      BY <3>3
  <2>2. QED
    BY <1>1, <2>1 DEF IsInjective
<1>5. QED
  BY <1>1, <1>2, <1>3, <1>4 DEF Range

LEMMA FewCells ==
    /\ Range(<<>>) = {} /\ IsInjective(<<>>)
    /\ \A c : Range(<<c>>) = {c} /\ IsInjective(<<c>>)
    /\ \A c, d : Range(<<c, d>>) = {c, d} /\ (c # d => IsInjective(<<c, d>>))
<1>1. Range(<<>>) = {} /\ IsInjective(<<>>)
  BY DEF Range, IsInjective
<1>2. ASSUME NEW c PROVE Range(<<c>>) = {c} /\ IsInjective(<<c>>)
  BY DEF Range, IsInjective
<1>3. ASSUME NEW c, NEW d
      PROVE  Range(<<c, d>>) = {c, d} /\ (c # d => IsInjective(<<c, d>>))
  <2>1. DOMAIN <<c, d>> = {1, 2} /\ <<c, d>>[1] = c /\ <<c, d>>[2] = d
    OBVIOUS
  <2>2. QED
    BY <2>1 DEF Range, IsInjective
<1>4. QED
  BY <1>1, <1>2, <1>3

-----------------------------------------------------------------------------
(* The cells that each kind of checkpoint announces.                       *)

NoMatrix(cells) ==
    \A s \in Stages, k \in {"local", "cumulative", "cause", "incoming"} :
        <<k, s>> \notin cells
NoSample(cells) == CalibrationCells \cap cells = {}
NoOnline(cells) ==
    \A s \in Stages, k \in {"First", "Predecessor"} : <<"online", s, k>> \notin cells
NoDiagnostic(cells) == \A d \in Diagnostics : <<"diagnostics", d>> \notin cells

LEMMA MatrixRange ==
    ASSUME TypeOK, NEW m \in Markers, NEW s \in Stages, ctx[m] # None,
           HasPrevious(m) => s > ctx[m].previous
    PROVE  LET cells == Range(MatrixCells(m, s))
           IN  /\ IsInjective(MatrixCells(m, s)) /\ OneStage(cells)
               /\ \A r \in Stages :
                     /\ <<"local", r>> \in cells <=> r = s
                     /\ <<"cumulative", r>> \in cells <=> r = s
                     /\ <<"cause", r>> \in cells <=> r = s /\ HasPrevious(m)
                     /\ <<"incoming", r>> \in cells <=> r = s /\ HasPrevious(m)
               /\ NoSample(cells) /\ NoOnline(cells) /\ NoDiagnostic(cells)
<1> DEFINE first == <<<<"local", s>>, <<"cumulative", s>>>>
           second == <<<<"cause", s>>, <<"incoming", s>>>>
           cells == Range(MatrixCells(m, s))
<1>1. /\ first \in Seq(Cells) /\ Range(first) = {<<"local", s>>, <<"cumulative", s>>}
      /\ IsInjective(first)
  <2>1. <<"local", s>> \in Cells /\ <<"cumulative", s>> \in Cells
    BY CellTypes
  <2>2. <<"local", s>> # <<"cumulative", s>>
    OBVIOUS
  <2>3. QED
    BY <2>1, <2>2, FewCells
<1>2. CASE HasPrevious(m)
  <2>1. s > 0
    BY <1>2 DEF TypeOK, Contexts, HasPrevious, Stages
  <2>2. <<"cause", s>> \in Cells /\ <<"incoming", s>> \in Cells
    BY <2>1, CellTypes
  <2>3. <<"cause", s>> # <<"incoming", s>>
    OBVIOUS
  <2>4. /\ second \in Seq(Cells)
        /\ Range(second) = {<<"cause", s>>, <<"incoming", s>>} /\ IsInjective(second)
    BY <2>2, <2>3, FewCells
  <2>5. MatrixCells(m, s) = first \o second
    BY <1>2 DEF MatrixCells
  <2>6. Range(first) \cap Range(second) = {}
    BY <1>1, <2>4
  <2>7. /\ IsInjective(MatrixCells(m, s))
        /\ cells = {<<"local", s>>, <<"cumulative", s>>, <<"cause", s>>, <<"incoming", s>>}
    <3>1. /\ IsInjective(MatrixCells(m, s))
          /\ cells = Range(first) \cup Range(second)
      <4> HIDE DEF first, second
      <4>1. QED
        BY <1>1, <2>4, <2>5, <2>6, ConcatCells
    <3>2. QED
      BY <1>1, <2>4, <3>1
  <2>8. \A c \in cells : c[1] # "calibration"
    BY <2>7
  <2> HIDE DEF cells
  <2>9. \A r \in Stages :
           /\ <<"local", r>> \in cells <=> r = s
           /\ <<"cumulative", r>> \in cells <=> r = s
           /\ <<"cause", r>> \in cells <=> r = s
           /\ <<"incoming", r>> \in cells <=> r = s
    BY <2>7
  <2>10. NoSample(cells) /\ NoOnline(cells) /\ NoDiagnostic(cells)
    BY <2>7 DEF NoSample, NoOnline, NoDiagnostic, CalibrationCells
  <2>11. OneStage(cells)
    BY <2>8 DEF OneStage
  <2>12. QED
    BY <1>2, <2>7, <2>9, <2>10, <2>11 DEF cells
<1>3. CASE ~HasPrevious(m)
  <2>1. MatrixCells(m, s) = first \o <<>>
    BY <1>3 DEF MatrixCells
  <2>2. MatrixCells(m, s) = first
    BY <1>1, <2>1
  <2>3. /\ IsInjective(MatrixCells(m, s))
        /\ cells = {<<"local", s>>, <<"cumulative", s>>}
    BY <1>1, <2>2
  <2>4. \A c \in cells : c[1] # "calibration"
    BY <2>3
  <2> HIDE DEF cells
  <2>5. \A r \in Stages :
           /\ <<"local", r>> \in cells <=> r = s
           /\ <<"cumulative", r>> \in cells <=> r = s
           /\ <<"cause", r>> \notin cells
           /\ <<"incoming", r>> \notin cells
    BY <2>3
  <2>6. NoSample(cells) /\ NoOnline(cells) /\ NoDiagnostic(cells)
    BY <2>3 DEF NoSample, NoOnline, NoDiagnostic, CalibrationCells
  <2>7. OneStage(cells)
    BY <2>4 DEF OneStage
  <2>8. QED
    BY <1>3, <2>3, <2>5, <2>6, <2>7 DEF cells
<1>4. QED
  BY <1>2, <1>3

LEMMA CompletionRange ==
    ASSUME TypeOK, NEW m \in Markers
    PROVE  /\ CompletionCells(m) \in Seq(Cells)
           /\ IsInjective(CompletionCells(m))
           /\ \A c \in Range(CompletionCells(m)) : c[1] = "completion"
<1>1. CASE mark[m].outcome = None
  BY <1>1, CompletionCellsType, FewCells DEF CompletionCells
<1>2. CASE mark[m].outcome # None
  <2>1. PICK c : c = <<"completion", mark[m].stage, mark[m].outcome>>
    OBVIOUS
  <2>2. CompletionCells(m) = <<c>> /\ c[1] = "completion"
    BY <1>2, <2>1 DEF CompletionCells
  <2>3. Range(<<c>>) = {c} /\ IsInjective(<<c>>)
    BY FewCells
  <2>4. QED
    BY <2>2, <2>3, CompletionCellsType
<1>3. QED
  BY <1>1, <1>2

\* What follows the samples or the online counter of a checkpoint is neither.
LEMMA WithCompletion ==
    ASSUME TypeOK, NEW m \in Markers, NEW a \in Seq(Cells), IsInjective(a),
           OneStage(Range(a)), \A c \in Range(a) : c[1] # "completion"
    PROVE  /\ a \o CompletionCells(m) \in Seq(Cells)
           /\ IsInjective(a \o CompletionCells(m))
           /\ OneStage(Range(a \o CompletionCells(m)))
           /\ \A c : c[1] # "completion" =>
                 (c \in Range(a \o CompletionCells(m)) <=> c \in Range(a))
<1>1. /\ CompletionCells(m) \in Seq(Cells) /\ IsInjective(CompletionCells(m))
      /\ \A c \in Range(CompletionCells(m)) : c[1] = "completion"
  BY CompletionRange
<1>2. Range(a) \cap Range(CompletionCells(m)) = {}
  BY <1>1
<1>3. /\ Range(a \o CompletionCells(m)) = Range(a) \cup Range(CompletionCells(m))
      /\ IsInjective(a \o CompletionCells(m))
  BY <1>1, <1>2, ConcatCells
<1>4. OneStage(Range(a \o CompletionCells(m)))
  BY <1>1, <1>3 DEF OneStage
<1>5. a \o CompletionCells(m) \in Seq(Cells)
  BY <1>1
<1>6. QED
  BY <1>1, <1>3, <1>4, <1>5

LEMMA CollectingRange ==
    ASSUME TypeOK, NEW m \in Markers
    PROVE  LET cells == Range(CollectingCells(m))
               s == mark[m].stage
           IN  /\ CollectingCells(m) \in Seq(Cells)
               /\ IsInjective(CollectingCells(m)) /\ OneStage(cells)
               /\ \A c \in cells : c[1] = "calibration"
               /\ \A p \in Populations : \E k \in Classes : \A r \in Stages, l \in Classes :
                     <<"calibration", r, p, l>> \in cells <=>
                        /\ r = s /\ l = k
                        /\ p = "PreviousCumulative" => HasPrevious(m)
<1> DEFINE s == mark[m].stage
           k1 == CalibrationClass(mark[m].local)
           k2 == CalibrationClass(mark[m].cumulative)
           k3 == CalibrationClass(ctx[m].cumulative)
           c1 == <<"calibration", s, "Local", k1>>
           c2 == <<"calibration", s, "CumulativeAfter", k2>>
           c3 == <<"calibration", s, "PreviousCumulative", k3>>
           cells == Range(CollectingCells(m))
<1>1. s \in Stages /\ k1 \in Classes /\ k2 \in Classes /\ k3 \in Classes
  BY DEF TypeOK, Marks, CalibrationClass, Classes
<1>2. c1 \in Cells /\ c2 \in Cells /\ c3 \in Cells
  BY <1>1, CellTypes DEF CalibrationCells, Populations
<1>3. CollectingCells(m) = <<c1, c2>> \o (IF HasPrevious(m) THEN <<c3>> ELSE <<>>)
  BY DEF CollectingCells, CalibrationCell
<1> HIDE DEF k1, k2, k3
<1>4. c1 # c2 /\ c1 # c3 /\ c2 # c3
  OBVIOUS
<1>5. /\ <<c1, c2>> \in Seq(Cells) /\ IsInjective(<<c1, c2>>)
      /\ Range(<<c1, c2>>) = {c1, c2}
      /\ <<c3>> \in Seq(Cells) /\ IsInjective(<<c3>>) /\ Range(<<c3>>) = {c3}
      /\ <<>> \in Seq(Cells) /\ IsInjective(<<>>) /\ Range(<<>>) = {}
  BY <1>2, <1>4, FewCells
<1>6. /\ IsInjective(CollectingCells(m)) /\ CollectingCells(m) \in Seq(Cells)
      /\ cells = {c1, c2} \cup (IF HasPrevious(m) THEN {c3} ELSE {})
  <2>1. CASE HasPrevious(m)
    <3>1. CollectingCells(m) = <<c1, c2>> \o <<c3>>
      BY <1>3, <2>1
    <3>2. {c1, c2} \cap {c3} = {}
      BY <1>4
    <3> HIDE DEF c1, c2, c3
    <3>3. PICK a \in Seq(Cells), b \in Seq(Cells) : a = <<c1, c2>> /\ b = <<c3>>
      BY <1>5
    <3>4. /\ IsInjective(a) /\ IsInjective(b) /\ Range(a) \cap Range(b) = {}
          /\ Range(a) = {c1, c2} /\ Range(b) = {c3}
      BY <1>5, <3>2, <3>3
    <3>5. Range(a \o b) = Range(a) \cup Range(b)
      BY ConcatCells
    <3>6. IsInjective(a \o b)
      BY <3>4, ConcatCells
    <3>7. a \o b \in Seq(Cells)
      OBVIOUS
    <3>8. QED
      BY <2>1, <3>1, <3>3, <3>4, <3>5, <3>6, <3>7
  <2>2. CASE ~HasPrevious(m)
    <3>1. CollectingCells(m) = <<c1, c2>> \o <<>>
      BY <1>3, <2>2
    <3> HIDE DEF c1, c2, c3
    <3>2. QED
      BY <1>5, <2>2, <3>1, ConcatCells
  <2>3. QED
    BY <2>1, <2>2
<1> HIDE DEF cells
<1>7. OneStage(cells)
  BY <1>6 DEF OneStage
<1>8. \A c \in cells : c[1] = "calibration"
  BY <1>6
<1>9. ASSUME NEW p \in Populations
      PROVE  \E k \in Classes : \A r \in Stages, l \in Classes :
                <<"calibration", r, p, l>> \in cells <=>
                   /\ r = s /\ l = k
                   /\ p = "PreviousCumulative" => HasPrevious(m)
  <2>1. CASE p = "Local"
    BY <1>1, <1>6, <2>1
  <2>2. CASE p = "CumulativeAfter"
    BY <1>1, <1>6, <2>2
  <2>3. CASE p = "PreviousCumulative"
    BY <1>1, <1>6, <2>3
  <2>4. QED
    BY <2>1, <2>2, <2>3 DEF Populations
<1>10. QED
  BY <1>6, <1>7, <1>8, <1>9 DEF cells

-----------------------------------------------------------------------------
(* How expected counters move.                                             *)

LEMMA ExpectedType ==
    ASSUME TypeOK
    PROVE  /\ \A c : IsFiniteSet(Waiting(c)) /\ Cardinality(Waiting(c)) \in Nat
           /\ Expected \in [Cells -> Nat]
           /\ \A c \in Cells : counters[c] \in Nat /\ counters[c] =< Expected[c]
<1>1. ASSUME NEW c
      PROVE  IsFiniteSet(Waiting(c)) /\ Cardinality(Waiting(c)) \in Nat
  <2>1. Waiting(c) \in SUBSET Markers
    BY DEF Waiting
  <2>2. IsFiniteSet(Waiting(c))
    BY <2>1, FS_Subset, MarkersAssumption
  <2>3. QED
    BY <2>2, FS_CardinalityType
<1>2. \A c \in Cells : counters[c] \in Nat
  BY DEF TypeOK
<1>3. QED
  BY <1>1, <1>2 DEF Expected

\* An increment turns what was announced into what is counted.
LEMMA IncrementKeeps ==
    ASSUME TypeOK, TodoInv, NEW m \in Markers, Increment(m)
    PROVE  /\ Expected' = Expected
           /\ \A c \in Cells : counters[c] =< counters'[c]
<1> DEFINE h == Head(todo[m])
<1>1. /\ h \in Range(todo[m]) /\ h \in Cells
      /\ Range(Tail(todo[m])) = Range(todo[m]) \ {h}
  BY TailCells DEF TypeOK, TodoInv, Increment
<1>2. /\ counters' = [counters EXCEPT ![h] = counters[h] + 1]
      /\ todo' = [todo EXCEPT ![m] = Tail(todo[m])]
  BY DEF Increment
<1> HIDE DEF h
<1>3. \A c \in Cells :
         counters'[c] = IF c = h THEN counters[c] + 1 ELSE counters[c]
  BY <1>1, <1>2 DEF TypeOK
<1>4. \A n \in Markers :
         Range(todo'[n]) = IF n = m THEN Range(todo[n]) \ {h} ELSE Range(todo[n])
  BY <1>1, <1>2 DEF TypeOK
<1>5. \A c : Waiting(c)' = IF c = h THEN Waiting(c) \ {m} ELSE Waiting(c)
  BY <1>4 DEF Waiting
<1>6. m \in Waiting(h)
  BY <1>1 DEF Waiting
<1>7. ASSUME NEW c \in Cells
      PROVE  counters'[c] + Cardinality(Waiting(c)')
                = counters[c] + Cardinality(Waiting(c))
  <2>1. counters[c] \in Nat /\ Cardinality(Waiting(c)) \in Nat
    BY ExpectedType
  <2>2. CASE c = h
    <3>1. Cardinality(Waiting(c)') = Cardinality(Waiting(c)) - 1
      BY <1>5, <1>6, <2>2, ExpectedType, FS_RemoveElement
    <3>2. QED
      BY <1>3, <2>1, <2>2, <3>1
  <2>3. CASE c # h
    BY <1>3, <1>5, <2>3
  <2>4. QED
    BY <2>2, <2>3
<1>8. Expected' = Expected
  BY <1>7 DEF Expected
<1>9. QED
  BY <1>3, <1>8, ExpectedType

\* A checkpoint that announces cells raises what is expected of each by one.
LEMMA AnnounceAdds ==
    ASSUME TypeOK, NEW m \in Markers, todo[m] = <<>>, NEW a \in Seq(Cells),
           todo' = [todo EXCEPT ![m] = a], counters' = counters
    PROVE  \A c \in Cells :
              Expected'[c] = Expected[c] + (IF c \in Range(a) THEN 1 ELSE 0)
<1>1. \A n \in Markers : todo'[n] = IF n = m THEN a ELSE todo[n]
  BY DEF TypeOK
<1>2. Range(todo[m]) = {}
  BY FewCells
<1>3. ASSUME NEW c
      PROVE  /\ m \notin Waiting(c)
             /\ Waiting(c)' = IF c \in Range(a) THEN Waiting(c) \cup {m} ELSE Waiting(c)
  BY <1>1, <1>2 DEF Waiting
<1>4. ASSUME NEW c \in Cells
      PROVE  Expected'[c] = Expected[c] + (IF c \in Range(a) THEN 1 ELSE 0)
  <2>1. counters[c] \in Nat /\ Cardinality(Waiting(c)) \in Nat
    BY ExpectedType
  <2>2. Cardinality(Waiting(c)') =
           Cardinality(Waiting(c)) + (IF c \in Range(a) THEN 1 ELSE 0)
    <3>1. CASE c \in Range(a)
      <4>1. Waiting(c)' = Waiting(c) \cup {m} /\ m \notin Waiting(c)
        BY <1>3, <3>1
      <4>2. Cardinality(Waiting(c) \cup {m}) = Cardinality(Waiting(c)) + 1
        BY <4>1, ExpectedType, FS_AddElement
      <4>3. QED
        BY <3>1, <4>1, <4>2
    <3>2. CASE c \notin Range(a)
      BY <1>3, <2>1, <3>2
    <3>3. QED
      BY <3>1, <3>2
  <2>3. Expected'[c] = counters[c] + Cardinality(Waiting(c)')
    BY DEF Expected
  <2>4. Expected[c] = counters[c] + Cardinality(Waiting(c))
    BY DEF Expected
  <2>5. QED
    BY <2>1, <2>2, <2>3, <2>4
<1>5. QED
  BY <1>4

LEMMA ExpectedFrame ==
    ASSUME UNCHANGED <<counters, todo>>
    PROVE  Expected' = Expected
BY DEF Expected, Waiting

\* A set of cells holds either no class of a population or exactly one.
LEMMA SampleStep ==
    ASSUME NEW e \in [Cells -> Nat], NEW d, NEW cells,
           \A c \in Cells : d[c] = e[c] + (IF c \in cells THEN 1 ELSE 0),
           NEW s \in Stages, NEW p \in Populations
    PROVE  /\ Samples(e, s, p) \in Nat /\ Samples(d, s, p) \in Nat
           /\ Samples(e, s, p) =< Samples(d, s, p)
           /\ (\A k \in Classes : <<"calibration", s, p, k>> \notin cells) =>
                 Samples(d, s, p) = Samples(e, s, p)
           /\ \A k \in Classes :
                 (\A l \in Classes : <<"calibration", s, p, l>> \in cells <=> l = k) =>
                    Samples(d, s, p) = Samples(e, s, p) + 1
<1> DEFINE lower == <<"calibration", s, p, "Lower">>
           finite == <<"calibration", s, p, "Finite">>
           upper == <<"calibration", s, p, "Upper">>
<1>1. lower \in Cells /\ finite \in Cells /\ upper \in Cells
  BY CellTypes DEF CalibrationCells, Classes
<1>2. PICK x \in Nat, y \in Nat, z \in Nat : x = e[lower] /\ y = e[finite] /\ z = e[upper]
  BY <1>1
<1>3. Samples(e, s, p) = x + y + z
  BY <1>2 DEF Samples, ClassCount
<1>4. Samples(d, s, p) = (x + (IF lower \in cells THEN 1 ELSE 0))
                           + (y + (IF finite \in cells THEN 1 ELSE 0))
                           + (z + (IF upper \in cells THEN 1 ELSE 0))
  BY <1>1, <1>2 DEF Samples, ClassCount
<1>5. ASSUME \A k \in Classes : <<"calibration", s, p, k>> \notin cells
      PROVE  lower \notin cells /\ finite \notin cells /\ upper \notin cells
  BY <1>5 DEF Classes
<1>6. ASSUME NEW k \in Classes,
             \A l \in Classes : <<"calibration", s, p, l>> \in cells <=> l = k
      PROVE  /\ lower \in cells <=> k = "Lower"
             /\ finite \in cells <=> k = "Finite"
             /\ upper \in cells <=> k = "Upper"
  BY <1>6 DEF Classes
<1> HIDE DEF lower, finite, upper
<1>7. ASSUME NEW k \in Classes,
             \A l \in Classes : <<"calibration", s, p, l>> \in cells <=> l = k
      PROVE  Samples(d, s, p) = Samples(e, s, p) + 1
  <2>1. CASE k = "Lower"
    BY <1>3, <1>4, <1>6, <1>7, <2>1
  <2>2. CASE k = "Finite"
    BY <1>3, <1>4, <1>6, <1>7, <2>2
  <2>3. CASE k = "Upper"
    BY <1>3, <1>4, <1>6, <1>7, <2>3
  <2>4. QED
    BY <2>1, <2>2, <2>3 DEF Classes
<1>8. QED
  BY <1>3, <1>4, <1>5, <1>7

-----------------------------------------------------------------------------
(* The balances, one lemma for all the ways they move.                     *)

LEMMA SetMove ==
    ASSUME NEW A, IsFiniteSet(A), NEW m
    PROVE  /\ Cardinality(A) \in Nat
           /\ m \notin A => Cardinality(A \cup {m}) = Cardinality(A) + 1
           /\ m \in A => Cardinality(A \ {m}) = Cardinality(A) - 1
BY FS_CardinalityType, FS_AddElement, FS_RemoveElement

LEMMA UnclassifiedFinite ==
    /\ IsFiniteSet(Unclassified) /\ Cardinality(Unclassified) \in Nat
    /\ \A s : IsFiniteSet(Following(s)) /\ Cardinality(Following(s)) \in Nat
<1>1. Unclassified \in SUBSET Markers /\ \A s : Following(s) \in SUBSET Markers
  BY DEF Unclassified, Following
<1>2. IsFiniteSet(Unclassified) /\ \A s : IsFiniteSet(Following(s))
  BY <1>1, FS_Subset, MarkersAssumption
<1>3. QED
  BY <1>2, FS_CardinalityType

LEMMA StagesFinite == IsFiniteSet(Stages)
<1>1. 0 \in Int /\ NumStages - 1 \in Int
  OBVIOUS
<1>2. IsFiniteSet(0 .. NumStages - 1)
  BY <1>1, FS_Interval
<1>3. QED
  BY <1>2 DEF Stages

LEMMA SumMove ==
    ASSUME NEW f, NEW g, NEW s0 \in Stages, NEW n \in Int,
           \A s \in Stages : f[s] \in Int /\ g[s] = f[s] + (IF s = s0 THEN n ELSE 0)
    PROVE  /\ SumFunctionOnSet(f, Stages) \in Int
           /\ SumFunctionOnSet(g, Stages) = SumFunctionOnSet(f, Stages) + n
<1>1. \A s \in Stages : f[s] \in Int /\ g[s] \in Int
  OBVIOUS
<1>2. \A s \in Stages : s # s0 => g[s] = f[s]
  OBVIOUS
<1>3. SumFunctionOnSet(g, Stages) = SumFunctionOnSet(f, Stages) + (g[s0] - f[s0])
  BY <1>1, <1>2, StagesFinite, SumChange
<1>4. g[s0] - f[s0] = n
  OBVIOUS
<1>5. QED
  BY <1>1, <1>3, <1>4, StagesFinite, SumType

\* The numbers the balances speak of.
LEMMA StageTypes ==
    ASSUME TypeOK, NEW s \in Stages
    PROVE  /\ Expected[<<"local", s>>] \in Nat
           /\ Expected[<<"cumulative", s>>] \in Nat
           /\ Expected[<<"cause", s>>] \in Nat
           /\ s > 0 => Expected[<<"incoming", s>>] \in Nat
           /\ Expected[<<"online", s, "First">>] \in Nat
           /\ Expected[<<"online", s, "Predecessor">>] \in Nat
           /\ \A p \in Populations : Samples(Expected, s, p) \in Nat
<1>1. Expected \in [Cells -> Nat]
  BY ExpectedType
<1>2. /\ <<"local", s>> \in Cells /\ <<"cumulative", s>> \in Cells
      /\ <<"cause", s>> \in Cells /\ (s > 0 => <<"incoming", s>> \in Cells)
      /\ <<"online", s, "First">> \in Cells /\ <<"online", s, "Predecessor">> \in Cells
  BY CellTypes
<1>3. ASSUME NEW p \in Populations PROVE Samples(Expected, s, p) \in Nat
  <2>1. \A k \in Classes : Expected[<<"calibration", s, p, k>>] \in Nat
    BY <1>1, CellTypes DEF CalibrationCells
  <2>2. QED
    BY <2>1 DEF Samples, ClassCount, Classes
<1>4. QED
  BY <1>1, <1>2, <1>3

\* What a step adds: to the counters of stage s0, to the diagnostics, and to
\* the markers that are unclassified, or follow a predecessor at s0.
Moves(s0, recorded, followed, sampled, preceded, first, next,
      skipped, missed, entered, following) ==
    /\ \A s \in Stages :
          LET at(n) == IF s = s0 THEN n ELSE 0
          IN  /\ Expected'[<<"local", s>>] = Expected[<<"local", s>>] + at(recorded)
              /\ Expected'[<<"cumulative", s>>]
                    = Expected[<<"cumulative", s>>] + at(recorded)
              /\ Expected'[<<"cause", s>>] = Expected[<<"cause", s>>] + at(followed)
              /\ s > 0 => Expected'[<<"incoming", s>>]
                             = Expected[<<"incoming", s>>] + at(followed)
              /\ Samples(Expected', s, "Local")
                    = Samples(Expected, s, "Local") + at(sampled)
              /\ Samples(Expected', s, "CumulativeAfter")
                    = Samples(Expected, s, "CumulativeAfter") + at(sampled)
              /\ Samples(Expected', s, "PreviousCumulative")
                    = Samples(Expected, s, "PreviousCumulative") + at(preceded)
              /\ Expected'[<<"online", s, "First">>]
                    = Expected[<<"online", s, "First">>] + at(first)
              /\ Expected'[<<"online", s, "Predecessor">>]
                    = Expected[<<"online", s, "Predecessor">>] + at(next)
              /\ Cardinality(Following(s)')
                    = Cardinality(Following(s)) + at(following)
    /\ Expected'[<<"diagnostics", "SkippedWhileFreezing">>]
          = Expected[<<"diagnostics", "SkippedWhileFreezing">>] + skipped
    /\ Expected'[<<"diagnostics", "MissingPreviousThreshold">>]
          = Expected[<<"diagnostics", "MissingPreviousThreshold">>] + missed
    /\ Cardinality(Unclassified') = Cardinality(Unclassified) + entered

LEMMA BalanceMoves ==
    ASSUME TypeOK, \A s \in Stages : StageBalance(s), TotalBalance,
           NEW s0 \in Stages, NEW recorded \in Int, NEW followed \in Int,
           NEW sampled \in Int, NEW preceded \in Int,
           NEW first \in Int, NEW next \in Int,
           NEW skipped \in Int, NEW missed \in Int,
           NEW entered \in Int, NEW following \in Int,
           Moves(s0, recorded, followed, sampled, preceded, first, next,
                 skipped, missed, entered, following),
           preceded =< sampled,
           preceded + next + following =< followed,
           sampled + first + next + skipped + missed + entered =< recorded,
           calibration_state' # "Frozen" =>
              /\ calibration_state # "Frozen"
              /\ sampled + first + next + skipped + missed + entered = recorded
    PROVE  (\A s \in Stages : StageBalance(s)') /\ TotalBalance'
<1>0. ASSUME NEW s \in Stages PROVE Expected[<<"local", s>>] \in Int
  <2>1. Expected[<<"local", s>>] \in Nat
    BY StageTypes
  <2>2. QED
    BY <2>1
<1>1. ASSUME NEW s \in Stages PROVE StageBalance(s)'
  <2>1. StageBalance(s)
    OBVIOUS
  <2>2. PICK l \in Nat, c \in Nat, a \in Nat, x \in Nat, y \in Nat, z \in Nat,
             o \in Nat, w \in Nat :
           /\ l = Expected[<<"local", s>>] /\ c = Expected[<<"cumulative", s>>]
           /\ a = Expected[<<"cause", s>>]
           /\ x = Samples(Expected, s, "Local")
           /\ y = Samples(Expected, s, "CumulativeAfter")
           /\ z = Samples(Expected, s, "PreviousCumulative")
           /\ o = Expected[<<"online", s, "Predecessor">>]
           /\ w = Cardinality(Following(s))
    BY StageTypes, UnclassifiedFinite DEF Populations
  <2>3. s > 0 => Expected[<<"incoming", s>>] = a
    BY <2>1, <2>2 DEF StageBalance
  <2>4. c = l /\ y = x /\ z =< x /\ z + o + w =< a
    BY <2>1, <2>2 DEF StageBalance
  <2>5. CASE s = s0
    <3>1. /\ Expected'[<<"local", s>>] = l + recorded
          /\ Expected'[<<"cumulative", s>>] = c + recorded
          /\ Expected'[<<"cause", s>>] = a + followed
          /\ s > 0 => Expected'[<<"incoming", s>>] = a + followed
          /\ Samples(Expected', s, "Local") = x + sampled
          /\ Samples(Expected', s, "CumulativeAfter") = y + sampled
          /\ Samples(Expected', s, "PreviousCumulative") = z + preceded
          /\ Expected'[<<"online", s, "Predecessor">>] = o + next
          /\ Cardinality(Following(s)') = w + following
      BY <2>2, <2>3, <2>5 DEF Moves
    <3>2. z + preceded =< x + sampled
      BY <2>4
    <3>3. (z + preceded) + (o + next) + (w + following) =< a + followed
      BY <2>4
    <3>4. QED
      BY <2>4, <3>1, <3>2, <3>3 DEF StageBalance
  <2>6. CASE s # s0
    <3>1. /\ Expected'[<<"local", s>>] = l + 0
          /\ Expected'[<<"cumulative", s>>] = c + 0
          /\ Expected'[<<"cause", s>>] = a + 0
          /\ s > 0 => Expected'[<<"incoming", s>>] = a + 0
          /\ Samples(Expected', s, "Local") = x + 0
          /\ Samples(Expected', s, "CumulativeAfter") = y + 0
          /\ Samples(Expected', s, "PreviousCumulative") = z + 0
          /\ Expected'[<<"online", s, "Predecessor">>] = o + 0
          /\ Cardinality(Following(s)') = w + 0
      BY <2>2, <2>3, <2>6 DEF Moves
    <3>2. l + 0 = l /\ c + 0 = c /\ a + 0 = a /\ x + 0 = x /\ y + 0 = y
          /\ z + 0 = z /\ o + 0 = o /\ w + 0 = w
      OBVIOUS
    <3>3. QED
      BY <2>4, <3>1, <3>2 DEF StageBalance
  <2>7. QED
    BY <2>5, <2>6
<1>2. SumFunctionOnSet(Recorded', Stages) = SumFunctionOnSet(Recorded, Stages) + recorded
      /\ SumFunctionOnSet(Recorded, Stages) \in Int
  <2>1. ASSUME NEW s \in Stages
        PROVE  /\ Recorded[s] \in Int
               /\ Recorded'[s] = Recorded[s] + (IF s = s0 THEN recorded ELSE 0)
    <3>1. Recorded[s] = Expected[<<"local", s>>] /\ Recorded'[s] = Expected'[<<"local", s>>]
      BY DEF Recorded
    <3>2. QED
      BY <1>0, <3>1 DEF Moves
  <2>2. QED
    BY <2>1, SumMove
<1>3. /\ SumFunctionOnSet(Classified', Stages)
            = SumFunctionOnSet(Classified, Stages) + (sampled + first + next)
      /\ SumFunctionOnSet(Classified, Stages) \in Int
  <2>1. ASSUME NEW s \in Stages
        PROVE  /\ Classified[s] \in Int
               /\ Classified'[s] =
                     Classified[s] + (IF s = s0 THEN sampled + first + next ELSE 0)
    <3>1. PICK x \in Nat, i \in Nat, o \in Nat :
             /\ x = Samples(Expected, s, "Local")
             /\ i = Expected[<<"online", s, "First">>]
             /\ o = Expected[<<"online", s, "Predecessor">>]
      BY StageTypes DEF Populations
    <3>2. Classified[s] = x + i + o
      BY <3>1 DEF Classified
    <3>3. Classified'[s] = Samples(Expected', s, "Local")
                             + Expected'[<<"online", s, "First">>]
                             + Expected'[<<"online", s, "Predecessor">>]
      BY DEF Classified
    <3>4. CASE s = s0
      <4>1. Classified'[s] = (x + sampled) + (i + first) + (o + next)
        BY <3>1, <3>3, <3>4 DEF Moves
      <4>2. QED
        BY <3>2, <3>4, <4>1
    <3>5. CASE s # s0
      <4>1. Classified'[s] = (x + 0) + (i + 0) + (o + 0)
        BY <3>1, <3>3, <3>5 DEF Moves
      <4>2. QED
        BY <3>2, <3>5, <4>1
    <3>6. QED
      BY <3>4, <3>5
  <2>2. sampled + first + next \in Int
    OBVIOUS
  <2>3. QED
    BY <2>1, <2>2, SumMove
<1>4. TotalBalance'
  <2>1. /\ Expected[<<"diagnostics", "SkippedWhileFreezing">>] \in Nat
        /\ Expected[<<"diagnostics", "MissingPreviousThreshold">>] \in Nat
    BY ExpectedType, CellTypes DEF Diagnostics
  <2>2. PICK r \in Int, k \in Int, i \in Int, j \in Int, u \in Int :
           /\ r = SumFunctionOnSet(Recorded, Stages)
           /\ k = SumFunctionOnSet(Classified, Stages)
           /\ i = Expected[<<"diagnostics", "SkippedWhileFreezing">>]
           /\ j = Expected[<<"diagnostics", "MissingPreviousThreshold">>]
           /\ u = Cardinality(Unclassified)
    <3>1. Cardinality(Unclassified) \in Int
      <4>1. Cardinality(Unclassified) \in Nat
        BY UnclassifiedFinite
      <4>2. QED
        BY <4>1
    <3>2. /\ SumFunctionOnSet(Recorded, Stages) \in Int
          /\ SumFunctionOnSet(Classified, Stages) \in Int
      BY <1>2, <1>3
    <3>3. /\ Expected[<<"diagnostics", "SkippedWhileFreezing">>] \in Int
          /\ Expected[<<"diagnostics", "MissingPreviousThreshold">>] \in Int
      BY <2>1
    <3>4. QED
      BY Zenon, <3>1, <3>2, <3>3
  <2>3. /\ k + i + j + u =< r
        /\ calibration_state # "Frozen" => k + i + j + u = r
    BY <2>2 DEF TotalBalance, Accounted
  <2>4. /\ SumFunctionOnSet(Recorded', Stages) = r + recorded
        /\ Accounted' = (k + (sampled + first + next)) + (i + skipped)
                          + (j + missed) + (u + entered)
    BY <1>2, <1>3, <2>2 DEF Accounted, Moves
  <2>5. PICK e \in Int : e = sampled + first + next + skipped + missed + entered
    OBVIOUS
  <2>6. Accounted' = (k + i + j + u) + e
    BY <2>4, <2>5
  <2>7. e =< recorded /\ (calibration_state' # "Frozen" => e = recorded)
    BY <2>5
  <2>8. Accounted' =< SumFunctionOnSet(Recorded', Stages)
    BY <2>3, <2>4, <2>6, <2>7
  <2>9. calibration_state' # "Frozen" =>
           Accounted' = SumFunctionOnSet(Recorded', Stages)
    BY <2>3, <2>4, <2>6, <2>7
  <2>10. QED
    BY <2>8, <2>9 DEF TotalBalance
<1>5. QED
  BY <1>1, <1>4

LEMMA BalanceFrame ==
    ASSUME \A s \in Stages : StageBalance(s), TotalBalance,
           Expected' = Expected, Unclassified' = Unclassified,
           \A s \in Stages : Following(s)' = Following(s),
           calibration_state' # "Frozen" => calibration_state # "Frozen"
    PROVE  (\A s \in Stages : StageBalance(s)') /\ TotalBalance'
<1>1. \A s \in Stages : StageBalance(s)'
  BY DEF StageBalance
<1>2. Recorded' = Recorded /\ Classified' = Classified /\ Accounted' = Accounted
  BY DEF Recorded, Classified, Accounted
<1>3. TotalBalance'
  BY <1>2 DEF TotalBalance
<1>4. QED
  BY <1>1, <1>3

-----------------------------------------------------------------------------
(* The balances under each step.                                           *)

\* What a marker that announces cells a does to the expected counters.
LEMMA Announced ==
    ASSUME TypeOK, NEW m \in Markers, todo[m] = <<>>, NEW a \in Seq(Cells),
           todo' = [todo EXCEPT ![m] = a], counters' = counters
    PROVE  LET cells == Range(a)
               plus(c) == IF c \in cells THEN 1 ELSE 0
           IN  /\ \A s \in Stages :
                     /\ Expected'[<<"local", s>>]
                           = Expected[<<"local", s>>] + plus(<<"local", s>>)
                     /\ Expected'[<<"cumulative", s>>]
                           = Expected[<<"cumulative", s>>] + plus(<<"cumulative", s>>)
                     /\ Expected'[<<"cause", s>>]
                           = Expected[<<"cause", s>>] + plus(<<"cause", s>>)
                     /\ s > 0 => Expected'[<<"incoming", s>>]
                           = Expected[<<"incoming", s>>] + plus(<<"incoming", s>>)
                     /\ Expected'[<<"online", s, "First">>]
                           = Expected[<<"online", s, "First">>]
                               + plus(<<"online", s, "First">>)
                     /\ Expected'[<<"online", s, "Predecessor">>]
                           = Expected[<<"online", s, "Predecessor">>]
                               + plus(<<"online", s, "Predecessor">>)
               /\ \A d \in Diagnostics :
                     Expected'[<<"diagnostics", d>>]
                        = Expected[<<"diagnostics", d>>] + plus(<<"diagnostics", d>>)
               /\ \A s \in Stages, p \in Populations :
                     /\ Samples(Expected, s, p) \in Nat
                     /\ (\A k \in Classes : <<"calibration", s, p, k>> \notin cells) =>
                           Samples(Expected', s, p) = Samples(Expected, s, p)
                     /\ \A k \in Classes :
                          (\A l \in Classes :
                             <<"calibration", s, p, l>> \in cells <=> l = k) =>
                           Samples(Expected', s, p) = Samples(Expected, s, p) + 1
<1> DEFINE cells == Range(a)
<1>1. \A c \in Cells :
         Expected'[c] = Expected[c] + (IF c \in cells THEN 1 ELSE 0)
  BY AnnounceAdds
<1>2. Expected \in [Cells -> Nat]
  BY ExpectedType
<1> HIDE DEF cells
<1>3. ASSUME NEW s \in Stages, NEW p \in Populations
      PROVE  /\ Samples(Expected, s, p) \in Nat
             /\ (\A k \in Classes : <<"calibration", s, p, k>> \notin cells) =>
                   Samples(Expected', s, p) = Samples(Expected, s, p)
             /\ \A k \in Classes :
                   (\A l \in Classes : <<"calibration", s, p, l>> \in cells <=> l = k) =>
                      Samples(Expected', s, p) = Samples(Expected, s, p) + 1
  <2>0. PICK e \in [Cells -> Nat] : e = Expected
    BY <1>2
  <2>1. PICK d : d = Expected'
    OBVIOUS
  <2>2. \A c \in Cells : d[c] = e[c] + (IF c \in cells THEN 1 ELSE 0)
    BY <1>1, <2>0, <2>1
  <2>3. /\ Samples(e, s, p) \in Nat
        /\ (\A k \in Classes : <<"calibration", s, p, k>> \notin cells) =>
              Samples(d, s, p) = Samples(e, s, p)
        /\ \A k \in Classes :
              (\A l \in Classes : <<"calibration", s, p, l>> \in cells <=> l = k) =>
                 Samples(d, s, p) = Samples(e, s, p) + 1
    BY <2>2, SampleStep, ZenonT(60)
  <2>4. QED
    BY <2>0, <2>1, <2>3
<1>4. \A s \in Stages :
         /\ <<"local", s>> \in Cells /\ <<"cumulative", s>> \in Cells
         /\ <<"cause", s>> \in Cells /\ (s > 0 => <<"incoming", s>> \in Cells)
         /\ <<"online", s, "First">> \in Cells
         /\ <<"online", s, "Predecessor">> \in Cells
  BY CellTypes
<1>5. \A d \in Diagnostics : <<"diagnostics", d>> \in Cells
  BY CellTypes
<1>6. QED
  BY <1>1, <1>3, <1>4, <1>5 DEF cells

LEMMA AddZero == \A n \in Int : n + 0 = n
OBVIOUS

LEMMA BeginMarkBalance ==
    ASSUME TypeOK, BalanceInv, NEW m \in Markers, NEW s0 \in Stages,
           NEW l \in Latencies, NEW o \in Endings, BeginMark(m, s0, l, o)
    PROVE  (\A s \in Stages : StageBalance(s)') /\ TotalBalance'
<1> DEFINE a == MatrixCells(m, s0)
           cells == Range(a)
<1>1. /\ mpc[m] = "idle" /\ ctx[m] # None
      /\ HasPrevious(m) => s0 > ctx[m].previous
      /\ mpc' = [mpc EXCEPT ![m] = "counting"]
      /\ todo' = [todo EXCEPT ![m] = a]
      /\ UNCHANGED <<counters, calibration_state, ctx>>
      /\ mark'[m].stage = s0
      /\ \A n \in Markers : n # m => mark'[n] = mark[n]
  BY DEF BeginMark, TypeOK, recorderVars
<1>2. /\ \A r \in Stages :
            /\ <<"local", r>> \in cells <=> r = s0
            /\ <<"cumulative", r>> \in cells <=> r = s0
            /\ <<"cause", r>> \in cells <=> r = s0 /\ HasPrevious(m)
            /\ <<"incoming", r>> \in cells <=> r = s0 /\ HasPrevious(m)
      /\ NoSample(cells) /\ NoOnline(cells) /\ NoDiagnostic(cells)
  BY <1>1, MatrixRange
<1>3. a \in Seq(Cells)
  BY <1>1, MatrixCellsType
<1>4. todo[m] = <<>>
  BY <1>1 DEF BalanceInv, TodoInv
<1> HIDE DEF a
<1>5. /\ m \notin Unclassified /\ Unclassified' = Unclassified \cup {m}
      /\ \A s \in Stages :
            /\ m \notin Following(s)
            /\ Following(s)' = IF s = s0 /\ HasPrevious(m)
                               THEN Following(s) \cup {m} ELSE Following(s)
  BY <1>1 DEF Unclassified, Following, HasPrevious, TypeOK
<1>6. /\ Cardinality(Unclassified') = Cardinality(Unclassified) + 1
      /\ \A s \in Stages :
            /\ Cardinality(Following(s)) \in Int
            /\ Cardinality(Following(s)') = Cardinality(Following(s))
                  + (IF s = s0 THEN IF HasPrevious(m) THEN 1 ELSE 0 ELSE 0)
  BY <1>5, UnclassifiedFinite, SetMove, AddZero
<1>7. \A s \in Stages, p \in Populations, k \in Classes :
         <<"calibration", s, p, k>> \notin cells
  BY <1>2 DEF NoSample, CalibrationCells
<1>8. \A s \in Stages, p \in Populations :
         /\ Samples(Expected, s, p) \in Int
         /\ Samples(Expected', s, p) = Samples(Expected, s, p)
  <2>1. ASSUME NEW s \in Stages, NEW p \in Populations
        PROVE  /\ Samples(Expected, s, p) \in Nat
               /\ Samples(Expected', s, p) = Samples(Expected, s, p)
    BY <1>1, <1>3, <1>4, <1>7, Announced, ZenonT(60)
  <2>2. QED
    BY <2>1
<1>9. \A s \in Stages :
         /\ Expected'[<<"local", s>>]
               = Expected[<<"local", s>>] + (IF s = s0 THEN 1 ELSE 0)
         /\ Expected'[<<"cumulative", s>>]
               = Expected[<<"cumulative", s>>] + (IF s = s0 THEN 1 ELSE 0)
         /\ Expected'[<<"cause", s>>] = Expected[<<"cause", s>>]
               + (IF s = s0 THEN IF HasPrevious(m) THEN 1 ELSE 0 ELSE 0)
         /\ s > 0 => Expected'[<<"incoming", s>>] = Expected[<<"incoming", s>>]
               + (IF s = s0 THEN IF HasPrevious(m) THEN 1 ELSE 0 ELSE 0)
         /\ Expected'[<<"online", s, "First">>] = Expected[<<"online", s, "First">>] + 0
         /\ Expected'[<<"online", s, "Predecessor">>]
               = Expected[<<"online", s, "Predecessor">>] + 0
  BY <1>1, <1>2, <1>3, <1>4, Announced, ZenonT(60) DEF NoOnline
<1>10. \A d \in Diagnostics :
          Expected'[<<"diagnostics", d>>] = Expected[<<"diagnostics", d>>] + 0
  BY <1>1, <1>2, <1>3, <1>4, Announced DEF NoDiagnostic
<1> DEFINE q == IF HasPrevious(m) THEN 1 ELSE 0
<1>11. Moves(s0, 1, q, 0, 0, 0, 0, 0, 0, 1, q)
  BY <1>6, <1>8, <1>9, <1>10, AddZero DEF Moves, Populations, Diagnostics
<1>12. q \in Int /\ 0 + 0 + q =< q
  OBVIOUS
<1> HIDE DEF q
<1>13. QED
  BY <1>1, <1>11, <1>12, BalanceMoves DEF BalanceInv

\* A marker that has classified its interval.
LEMMA Leaves ==
    ASSUME TypeOK, NEW m \in Markers, mpc[m] \in {"counting", "online"},
           mpc' = [mpc EXCEPT ![m] = "classified"], UNCHANGED <<ctx, mark>>
    PROVE  /\ Cardinality(Unclassified') = Cardinality(Unclassified) + (-1)
           /\ \A s \in Stages :
                 /\ Cardinality(Following(s)) \in Int
                 /\ Cardinality(Following(s)') = Cardinality(Following(s))
                       + (IF s = mark[m].stage
                          THEN IF HasPrevious(m) THEN -1 ELSE 0 ELSE 0)
<1>1. /\ m \in Unclassified /\ Unclassified' = Unclassified \ {m}
      /\ \A s \in Stages :
            /\ m \in Following(s) <=> s = mark[m].stage /\ HasPrevious(m)
            /\ Following(s)' = Following(s) \ {m}
  BY DEF Unclassified, Following, HasPrevious, TypeOK
<1>2. Cardinality(Unclassified') = Cardinality(Unclassified) + (-1)
  BY <1>1, UnclassifiedFinite, SetMove
<1>3. ASSUME NEW s \in Stages
      PROVE  /\ Cardinality(Following(s)) \in Int
             /\ Cardinality(Following(s)') = Cardinality(Following(s))
                   + (IF s = mark[m].stage
                      THEN IF HasPrevious(m) THEN -1 ELSE 0 ELSE 0)
  <2>1. IsFiniteSet(Following(s)) /\ Cardinality(Following(s)) \in Nat
    BY UnclassifiedFinite
  <2>2. CASE m \in Following(s)
    BY <1>1, <2>1, <2>2, SetMove
  <2>3. CASE m \notin Following(s)
    <3>1. Following(s)' = Following(s)
      BY <1>1, <2>3, ZenonT(60)
    <3>2. ~(s = mark[m].stage /\ HasPrevious(m))
      BY <1>1, <2>3
    <3>3. QED
      BY <2>1, <3>1, <3>2
  <2>4. QED
    BY <2>2, <2>3
<1>4. QED
  BY <1>2, <1>3

\* A checkpoint that loaded Collecting announces a sample of each population it
\* belongs to.
LEMMA LoadCollectingBalance ==
    ASSUME TypeOK, BalanceInv, NEW m \in Markers,
           LoadState(m), LoadCollecting(m)
    PROVE  (\A s \in Stages : StageBalance(s)') /\ TotalBalance'
<1> DEFINE b == CollectingCells(m)
           a == b \o CompletionCells(m)
           cells == Range(a)
           s0 == mark[m].stage
           q == IF HasPrevious(m) THEN 1 ELSE 0
<1>1. /\ mpc[m] = "counting" /\ mpc' = [mpc EXCEPT ![m] = "classified"]
      /\ todo[m] = <<>> /\ todo' = [todo EXCEPT ![m] = a]
      /\ UNCHANGED <<counters, calibration_state, ctx, mark>>
      /\ calibration_state = "Collecting"
  BY DEF LoadState, LoadCollecting, recorderVars
<1>2. /\ b \in Seq(Cells) /\ IsInjective(b) /\ OneStage(Range(b))
      /\ \A c \in Range(b) : c[1] = "calibration"
      /\ \A p \in Populations : \E k \in Classes : \A r \in Stages, l \in Classes :
            <<"calibration", r, p, l>> \in Range(b) <=>
               /\ r = s0 /\ l = k
               /\ p = "PreviousCumulative" => HasPrevious(m)
  BY CollectingRange
<1> HIDE DEF b
<1>3. /\ a \in Seq(Cells)
      /\ \A c : c[1] # "completion" => (c \in cells <=> c \in Range(b))
  <2>1. \A c \in Range(b) : c[1] # "completion"
    BY <1>2
  <2>2. QED
    BY <1>2, <2>1, WithCompletion
<1> HIDE DEF a
<1>4. \A c : c[1] \notin {"completion", "calibration"} => c \notin cells
  BY <1>2, <1>3
<1>5. \A p \in Populations : \E k \in Classes : \A r \in Stages, l \in Classes :
         <<"calibration", r, p, l>> \in cells <=>
            /\ r = s0 /\ l = k
            /\ p = "PreviousCumulative" => HasPrevious(m)
  BY <1>2, <1>3
<1> HIDE DEF cells
<1>6. ASSUME NEW s \in Stages, NEW p \in Populations
      PROVE  /\ Samples(Expected, s, p) \in Int
             /\ Samples(Expected', s, p) = Samples(Expected, s, p)
                   + (IF s = s0 THEN IF p = "PreviousCumulative" THEN q ELSE 1 ELSE 0)
  <2>1. PICK k \in Classes : \A r \in Stages, l \in Classes :
           <<"calibration", r, p, l>> \in cells <=>
              /\ r = s0 /\ l = k
              /\ p = "PreviousCumulative" => HasPrevious(m)
    BY <1>5
  <2>2. /\ Samples(Expected, s, p) \in Nat
        /\ (\A j \in Classes : <<"calibration", s, p, j>> \notin cells) =>
              Samples(Expected', s, p) = Samples(Expected, s, p)
        /\ (\A l \in Classes : <<"calibration", s, p, l>> \in cells <=> l = k) =>
              Samples(Expected', s, p) = Samples(Expected, s, p) + 1
    BY <1>1, <1>3, Announced, ZenonT(60) DEF cells
  <2>3. CASE s = s0 /\ (p = "PreviousCumulative" => HasPrevious(m))
    BY <2>1, <2>2, <2>3
  <2>4. CASE ~(s = s0 /\ (p = "PreviousCumulative" => HasPrevious(m)))
    <3>1. Samples(Expected', s, p) = Samples(Expected, s, p)
      BY <2>1, <2>2, <2>4
    <3>2. QED
      BY <2>2, <2>4, <3>1
  <2>5. QED
    BY <2>3, <2>4
<1>7. \A s \in Stages :
         /\ <<"local", s>> \notin cells /\ <<"cumulative", s>> \notin cells
         /\ <<"cause", s>> \notin cells /\ <<"incoming", s>> \notin cells
         /\ <<"online", s, "First">> \notin cells
         /\ <<"online", s, "Predecessor">> \notin cells
  BY <1>4
<1>8. \A d : <<"diagnostics", d>> \notin cells
  BY <1>4
<1>9. \A s \in Stages :
         /\ Expected'[<<"local", s>>] = Expected[<<"local", s>>] + 0
         /\ Expected'[<<"cumulative", s>>] = Expected[<<"cumulative", s>>] + 0
         /\ Expected'[<<"cause", s>>] = Expected[<<"cause", s>>] + 0
         /\ s > 0 => Expected'[<<"incoming", s>>] = Expected[<<"incoming", s>>] + 0
         /\ Expected'[<<"online", s, "First">>] = Expected[<<"online", s, "First">>] + 0
         /\ Expected'[<<"online", s, "Predecessor">>]
               = Expected[<<"online", s, "Predecessor">>] + 0
  BY <1>1, <1>3, <1>7, Announced, ZenonT(60) DEF cells
<1>10. \A d \in Diagnostics :
          Expected'[<<"diagnostics", d>>] = Expected[<<"diagnostics", d>>] + 0
  BY <1>1, <1>3, <1>8, Announced DEF cells
<1>11. /\ Cardinality(Unclassified') = Cardinality(Unclassified) + (-1)
       /\ \A s \in Stages :
             Cardinality(Following(s)') = Cardinality(Following(s))
                + (IF s = s0 THEN IF HasPrevious(m) THEN -1 ELSE 0 ELSE 0)
  BY <1>1, Leaves
<1> DEFINE w == IF HasPrevious(m) THEN -1 ELSE 0
<1>12. s0 \in Stages
  BY DEF TypeOK, Marks
<1>13. Moves(s0, 0, 0, 1, q, 0, 0, 0, 0, -1, w)
  BY <1>6, <1>9, <1>10, <1>11 DEF Moves, Populations, Diagnostics
<1>14. q \in Int /\ w \in Int /\ q + 0 + w =< 0 /\ q =< 1
  OBVIOUS
<1>15. PICK u \in Int : u = -1
  OBVIOUS
<1>16. 1 + 0 + 0 + 0 + 0 + u = 0
  BY <1>15
<1> HIDE DEF q, w, s0
<1>17. Moves(s0, 0, 0, 1, q, 0, 0, 0, 0, u, w)
  BY <1>13, <1>15
<1>18. /\ \A s \in Stages : StageBalance(s)
       /\ TotalBalance
       /\ calibration_state' # "Frozen" => calibration_state # "Frozen"
  BY <1>1 DEF BalanceInv
<1>19. QED
  BY <1>12, <1>14, <1>16, <1>17, <1>18, BalanceMoves

\* Any other checkpoint announces an online counter of its stage, a diagnostic
\* or nothing.
LEMMA Classifies ==
    ASSUME TypeOK, BalanceInv, NEW m \in Markers,
           mpc[m] \in {"counting", "online"}, todo[m] = <<>>,
           mpc' = [mpc EXCEPT ![m] = "classified"],
           UNCHANGED <<counters, ctx, mark>>,
           NEW b \in Seq(Cells), IsInjective(b),
           \A c \in Range(b) : /\ c[1] \in {"online", "diagnostics"}
                               /\ c[1] = "online" => c[2] = mark[m].stage,
           todo' = [todo EXCEPT ![m] = b \o CompletionCells(m)]
    PROVE  LET s0 == mark[m].stage
               plus(c) == IF c \in Range(b) THEN 1 ELSE 0
           IN  Moves(s0, 0, 0, 0, 0, plus(<<"online", s0, "First">>),
                     plus(<<"online", s0, "Predecessor">>),
                     plus(<<"diagnostics", "SkippedWhileFreezing">>),
                     plus(<<"diagnostics", "MissingPreviousThreshold">>),
                     -1, IF HasPrevious(m) THEN -1 ELSE 0)
<1> DEFINE a == b \o CompletionCells(m)
           cells == Range(a)
           s0 == mark[m].stage
           plus(c) == IF c \in Range(b) THEN 1 ELSE 0
<1>1. /\ a \in Seq(Cells)
      /\ \A c : c[1] # "completion" => (c \in cells <=> c \in Range(b))
  <2>1. /\ OneStage(Range(b))
        /\ \A c \in Range(b) : c[1] # "completion"
    BY DEF OneStage
  <2>2. QED
    BY <2>1, WithCompletion
<1>2. /\ todo' = [todo EXCEPT ![m] = a] /\ counters' = counters
  OBVIOUS
<1> HIDE DEF a
<1>3. \A c : c[1] \notin {"completion", "online", "diagnostics"} => c \notin cells
  BY <1>1
<1>4. \A s \in Stages : s # s0 =>
         /\ <<"online", s, "First">> \notin cells
         /\ <<"online", s, "Predecessor">> \notin cells
  BY <1>1
<1>5. /\ <<"online", s0, "First">> \in cells <=> <<"online", s0, "First">> \in Range(b)
      /\ <<"online", s0, "Predecessor">> \in cells
            <=> <<"online", s0, "Predecessor">> \in Range(b)
      /\ \A d : <<"diagnostics", d>> \in cells <=> <<"diagnostics", d>> \in Range(b)
  BY <1>1
<1>6. ASSUME NEW s \in Stages, NEW p \in Populations
      PROVE  /\ Samples(Expected, s, p) \in Int
             /\ Samples(Expected', s, p) = Samples(Expected, s, p)
  <2>1. \A k \in Classes : <<"calibration", s, p, k>> \notin cells
    BY <1>3
  <2>2. /\ Samples(Expected, s, p) \in Nat
        /\ Samples(Expected', s, p) = Samples(Expected, s, p)
    BY <1>1, <1>2, <2>1, Announced, ZenonT(60) DEF cells
  <2>3. QED
    BY <2>2
<1>7. \A s \in Stages :
         /\ <<"local", s>> \notin cells /\ <<"cumulative", s>> \notin cells
         /\ <<"cause", s>> \notin cells /\ <<"incoming", s>> \notin cells
  BY <1>3
<1> HIDE DEF cells
<1>8. \A s \in Stages :
         /\ Expected'[<<"local", s>>] = Expected[<<"local", s>>] + 0
         /\ Expected'[<<"cumulative", s>>] = Expected[<<"cumulative", s>>] + 0
         /\ Expected'[<<"cause", s>>] = Expected[<<"cause", s>>] + 0
         /\ s > 0 => Expected'[<<"incoming", s>>] = Expected[<<"incoming", s>>] + 0
  BY <1>1, <1>2, <1>7, Announced, ZenonT(60) DEF cells
<1>9. \A s \in Stages :
         /\ Expected'[<<"online", s, "First">>] = Expected[<<"online", s, "First">>]
               + (IF s = s0 THEN plus(<<"online", s0, "First">>) ELSE 0)
         /\ Expected'[<<"online", s, "Predecessor">>]
               = Expected[<<"online", s, "Predecessor">>]
                   + (IF s = s0 THEN plus(<<"online", s0, "Predecessor">>) ELSE 0)
  <2>1. \A s \in Stages :
           /\ Expected'[<<"online", s, "First">>] = Expected[<<"online", s, "First">>]
                 + (IF <<"online", s, "First">> \in cells THEN 1 ELSE 0)
           /\ Expected'[<<"online", s, "Predecessor">>]
                 = Expected[<<"online", s, "Predecessor">>]
                     + (IF <<"online", s, "Predecessor">> \in cells THEN 1 ELSE 0)
    BY <1>1, <1>2, Announced DEF cells
  <2>2. QED
    BY <1>4, <1>5, <2>1
<1>10. \A d \in Diagnostics :
          Expected'[<<"diagnostics", d>>]
             = Expected[<<"diagnostics", d>>] + plus(<<"diagnostics", d>>)
  <2>1. \A d \in Diagnostics :
           Expected'[<<"diagnostics", d>>] = Expected[<<"diagnostics", d>>]
              + (IF <<"diagnostics", d>> \in cells THEN 1 ELSE 0)
    BY <1>1, <1>2, Announced DEF cells
  <2>2. QED
    BY <1>5, <2>1
<1>11. /\ Cardinality(Unclassified') = Cardinality(Unclassified) + (-1)
       /\ \A s \in Stages :
             Cardinality(Following(s)') = Cardinality(Following(s))
                + (IF s = s0 THEN IF HasPrevious(m) THEN -1 ELSE 0 ELSE 0)
  BY Leaves
<1>12. \A s \in Stages, p \in Populations :
          Samples(Expected', s, p) = Samples(Expected, s, p) + 0
  BY <1>6
<1> HIDE DEF s0, plus
<1>13. Moves(s0, 0, 0, 0, 0, plus(<<"online", s0, "First">>),
             plus(<<"online", s0, "Predecessor">>),
             plus(<<"diagnostics", "SkippedWhileFreezing">>),
             plus(<<"diagnostics", "MissingPreviousThreshold">>),
             -1, IF HasPrevious(m) THEN -1 ELSE 0)
  BY <1>8, <1>9, <1>10, <1>11, <1>12 DEF Moves, Populations, Diagnostics
<1>14. QED
  BY <1>13 DEF s0, plus

LEMMA ClassifiedBalance ==
    ASSUME TypeOK, BalanceInv, NEW s0 \in Stages,
           NEW i \in {0, 1}, NEW j \in {0, 1}, NEW k \in {0, 1}, NEW l \in {0, 1},
           NEW w \in {0, -1}, Moves(s0, 0, 0, 0, 0, i, j, k, l, -1, w),
           j + w =< 0, i + j + k + l =< 1,
           calibration_state' # "Frozen" =>
              calibration_state # "Frozen" /\ i + j + k + l = 1
    PROVE  (\A s \in Stages : StageBalance(s)') /\ TotalBalance'
<1>1. PICK u \in Int : u = -1
  OBVIOUS
<1>2. Moves(s0, 0, 0, 0, 0, i, j, k, l, u, w)
  BY <1>1
<1>3. /\ i \in Int /\ j \in Int /\ k \in Int /\ l \in Int /\ w \in Int
      /\ 0 =< 0 /\ 0 + j + w =< 0
      /\ 0 + i + j + k + l + u =< 0
      /\ calibration_state' # "Frozen" =>
            calibration_state # "Frozen" /\ 0 + i + j + k + l + u = 0
  BY <1>1
<1>4. (\A s \in Stages : StageBalance(s)) /\ TotalBalance
  BY DEF BalanceInv
<1>5. QED
  BY <1>2, <1>3, <1>4, BalanceMoves

LEMMA LoadFreezingBalance ==
    ASSUME TypeOK, BalanceInv, NEW m \in Markers, LoadState(m), LoadFreezing(m)
    PROVE  (\A s \in Stages : StageBalance(s)') /\ TotalBalance'
<1> DEFINE skip == <<"diagnostics", "SkippedWhileFreezing">>
           b == <<skip>>
           s0 == mark[m].stage
           w == IF HasPrevious(m) THEN -1 ELSE 0
<1>1. /\ mpc[m] = "counting" /\ mpc' = [mpc EXCEPT ![m] = "classified"]
      /\ todo[m] = <<>> /\ todo' = [todo EXCEPT ![m] = b \o CompletionCells(m)]
      /\ UNCHANGED <<counters, calibration_state, ctx, mark>>
      /\ calibration_state = "Freezing"
  BY DEF LoadState, LoadFreezing, recorderVars
<1>2. skip \in Cells
  BY CellTypes DEF Diagnostics
<1>3. b \in Seq(Cells) /\ IsInjective(b) /\ Range(b) = {skip}
  BY <1>2, FewCells
<1>4. \A c \in Range(b) : /\ c[1] \in {"online", "diagnostics"}
                          /\ c[1] = "online" => c[2] = s0
  BY <1>3
<1>5. /\ <<"online", s0, "First">> \notin Range(b)
      /\ <<"online", s0, "Predecessor">> \notin Range(b)
      /\ <<"diagnostics", "SkippedWhileFreezing">> \in Range(b)
      /\ <<"diagnostics", "MissingPreviousThreshold">> \notin Range(b)
  BY <1>3
<1> HIDE DEF b
<1>6. Moves(s0, 0, 0, 0, 0, 0, 0, 1, 0, -1, w)
  BY <1>1, <1>3, <1>4, <1>5, Classifies
<1>7. s0 \in Stages
  BY DEF TypeOK, Marks
<1>8. w \in {0, -1} /\ 0 + w =< 0 /\ 0 + 0 + 1 + 0 =< 1 /\ 0 + 0 + 1 + 0 = 1
  OBVIOUS
<1> HIDE DEF w, s0
<1>9. QED
  BY <1>1, <1>6, <1>7, <1>8, ClassifiedBalance

LEMMA LoadFrozenBalance ==
    ASSUME TypeOK, BalanceInv, NEW m \in Markers, LoadState(m), LoadFrozen(m)
    PROVE  (\A s \in Stages : StageBalance(s)') /\ TotalBalance'
<1> DEFINE b == <<>>
           s0 == mark[m].stage
           w == IF HasPrevious(m) THEN -1 ELSE 0
<1>1. /\ mpc[m] = "counting" /\ todo[m] = <<>>
      /\ UNCHANGED <<counters, calibration_state, ctx, mark>>
      /\ calibration_state = "Frozen"
  BY DEF LoadState, LoadFrozen, recorderVars
<1>2. CASE ctx[m].startedFrozen
  <2>1. mpc' = [mpc EXCEPT ![m] = "online"] /\ UNCHANGED todo
    BY <1>2 DEF LoadFrozen
  <2>2. /\ Unclassified' = Unclassified
        /\ \A s \in Stages : Following(s)' = Following(s)
    BY <1>1, <2>1 DEF Unclassified, Following, TypeOK
  <2>3. Expected' = Expected
    BY <1>1, <2>1, ExpectedFrame
  <2>4. QED
    BY <1>1, <2>2, <2>3, BalanceFrame DEF BalanceInv
<1>3. CASE ~ctx[m].startedFrozen
  <2>1. /\ mpc' = [mpc EXCEPT ![m] = "classified"]
        /\ todo' = [todo EXCEPT ![m] = b \o CompletionCells(m)]
    <3>1. b \o CompletionCells(m) = CompletionCells(m)
      BY CompletionCellsType
    <3>2. QED
      BY <1>3, <3>1 DEF LoadFrozen
  <2>2. b \in Seq(Cells) /\ IsInjective(b) /\ Range(b) = {}
    BY FewCells
  <2> HIDE DEF b
  <2>3. Moves(s0, 0, 0, 0, 0, 0, 0, 0, 0, -1, w)
    BY <1>1, <2>1, <2>2, Classifies
  <2>4. s0 \in Stages
    BY DEF TypeOK, Marks
  <2>5. w \in {0, -1} /\ 0 + w =< 0 /\ 0 + 0 + 0 + 0 =< 1
    OBVIOUS
  <2> HIDE DEF w, s0
  <2>6. QED
    BY <1>1, <2>3, <2>4, <2>5, ClassifiedBalance
<1>4. QED
  BY <1>2, <1>3

LEMMA ReadThresholdsBalance ==
    ASSUME TypeOK, BalanceInv, LiveContext, ContextInv, BundleInv,
           NEW m \in Markers, ReadThresholds(m)
    PROVE  (\A s \in Stages : StageBalance(s)') /\ TotalBalance'
<1> DEFINE b == OnlineCells(m)
           s0 == mark[m].stage
           w == IF HasPrevious(m) THEN -1 ELSE 0
           first == <<"online", s0, "First">>
           next == <<"online", s0, "Predecessor">>
           skip == <<"diagnostics", "SkippedWhileFreezing">>
           miss == <<"diagnostics", "MissingPreviousThreshold">>
<1>1. /\ mpc[m] = "online" /\ mpc' = [mpc EXCEPT ![m] = "classified"]
      /\ todo' = [todo EXCEPT ![m] = b \o CompletionCells(m)]
      /\ UNCHANGED <<counters, calibration_state, ctx, mark>>
  BY DEF ReadThresholds, recorderVars
<1>2. todo[m] = <<>>
  BY <1>1 DEF BalanceInv, TodoInv
<1>3. s0 \in Stages
  BY DEF TypeOK, Marks
<1>4. calibration_state = "Frozen" /\ frozen_calibration[s0] # None
  BY <1>1, <1>3 DEF LiveContext, ContextInv, BundleInv
<1>5. b \in Seq(Cells)
  BY OnlineCellsType
<1>6. w \in {0, -1} /\ (~HasPrevious(m) => w = 0) /\ (HasPrevious(m) => w = -1)
  OBVIOUS
<1> HIDE DEF w
<1>7. CASE ~HasPrevious(m)
  <2>1. b = <<first>>
    BY <1>4, <1>7 DEF OnlineCells
  <2>2. Range(b) = {first} /\ IsInjective(b)
    BY <2>1, FewCells
  <2>3. \A c \in Range(b) : /\ c[1] \in {"online", "diagnostics"}
                            /\ c[1] = "online" => c[2] = s0
    BY <2>2
  <2>4. /\ first \in Range(b) /\ next \notin Range(b)
        /\ skip \notin Range(b) /\ miss \notin Range(b)
    BY <2>2
  <2> HIDE DEF b
  <2>5. Moves(s0, 0, 0, 0, 0, 1, 0, 0, 0, -1, w)
    BY <1>1, <1>2, <1>5, <2>2, <2>3, <2>4, Classifies DEF w
  <2>6. 0 + w =< 0 /\ 1 + 0 + 0 + 0 =< 1 /\ 1 + 0 + 0 + 0 = 1
    BY <1>6
  <2> HIDE DEF s0
  <2>7. QED
    BY <1>1, <1>3, <1>4, <1>6, <2>5, <2>6, ClassifiedBalance
<1>8. CASE HasPrevious(m) /\ frozen_calibration[s0]["PreviousCumulative"].terminal = None
  <2>1. b = <<miss>>
    BY <1>4, <1>8 DEF OnlineCells
  <2>2. Range(b) = {miss} /\ IsInjective(b)
    BY <2>1, FewCells
  <2>3. \A c \in Range(b) : /\ c[1] \in {"online", "diagnostics"}
                            /\ c[1] = "online" => c[2] = s0
    BY <2>2
  <2>4. /\ first \notin Range(b) /\ next \notin Range(b)
        /\ skip \notin Range(b) /\ miss \in Range(b)
    BY <2>2
  <2> HIDE DEF b
  <2>5. Moves(s0, 0, 0, 0, 0, 0, 0, 0, 1, -1, w)
    BY <1>1, <1>2, <1>5, <2>2, <2>3, <2>4, Classifies DEF w
  <2>6. 0 + w =< 0 /\ 0 + 0 + 0 + 1 =< 1 /\ 0 + 0 + 0 + 1 = 1
    BY <1>6
  <2> HIDE DEF s0
  <2>7. QED
    BY <1>1, <1>3, <1>4, <1>6, <2>5, <2>6, ClassifiedBalance
<1>9. CASE HasPrevious(m) /\ frozen_calibration[s0]["PreviousCumulative"].terminal # None
  <2>1. b = <<next>>
    BY <1>4, <1>9 DEF OnlineCells
  <2>2. Range(b) = {next} /\ IsInjective(b)
    BY <2>1, FewCells
  <2>3. \A c \in Range(b) : /\ c[1] \in {"online", "diagnostics"}
                            /\ c[1] = "online" => c[2] = s0
    BY <2>2
  <2>4. /\ first \notin Range(b) /\ next \in Range(b)
        /\ skip \notin Range(b) /\ miss \notin Range(b)
    BY <2>2
  <2> HIDE DEF b
  <2>5. Moves(s0, 0, 0, 0, 0, 0, 1, 0, 0, -1, w)
    BY <1>1, <1>2, <1>5, <2>2, <2>3, <2>4, Classifies DEF w
  <2>6. 1 + w =< 0 /\ 0 + 1 + 0 + 0 =< 1 /\ 0 + 1 + 0 + 0 = 1
    BY <1>6, <1>9
  <2> HIDE DEF s0
  <2>7. QED
    BY <1>1, <1>3, <1>4, <1>6, <2>5, <2>6, ClassifiedBalance
<1>10. QED
  BY <1>7, <1>8, <1>9

\* Checkpoints begin and end, and increment, without moving a balance.
LEMMA QuietBalance ==
    ASSUME TypeOK, BalanceInv, NEW m \in Markers,
           Start(m) \/ EndMark(m) \/ Increment(m)
    PROVE  (\A s \in Stages : StageBalance(s)') /\ TotalBalance'
<1>1. (\A s \in Stages : StageBalance(s)) /\ TotalBalance /\ TodoInv
  BY DEF BalanceInv
<1>2. calibration_state' = calibration_state
  BY DEF Start, EndMark, Increment, recorderVars
<1>3. Expected' = Expected
  <2>1. CASE Increment(m)
    BY <1>1, <2>1, IncrementKeeps
  <2>2. CASE Start(m) \/ EndMark(m)
    BY <2>2, ExpectedFrame DEF Start, EndMark, recorderVars
  <2>3. QED
    BY <2>1, <2>2
<1>4. /\ Unclassified' = Unclassified
      /\ \A s \in Stages : Following(s)' = Following(s)
  <2>1. CASE Increment(m)
    BY <2>1 DEF Increment, Unclassified, Following
  <2>2. CASE Start(m) \/ EndMark(m)
    <3>1. /\ m \notin Unclassified /\ Unclassified' = Unclassified
          /\ \A n \in Markers : n # m => ctx'[n] = ctx[n] /\ mark'[n] = mark[n]
      BY <2>2 DEF Start, EndMark, Unclassified, TypeOK
    <3>2. QED
      BY <3>1 DEF Following, Unclassified
  <2>3. QED
    BY <2>1, <2>2
<1>5. QED
  BY <1>1, <1>2, <1>3, <1>4, BalanceFrame

LEMMA MarkerBalance ==
    ASSUME TypeOK, BalanceInv, LiveContext, ContextInv, BundleInv,
           NEW m \in Markers, MarkerStep(m)
    PROVE  (\A s \in Stages : StageBalance(s)') /\ TotalBalance'
<1>1. ASSUME NEW s \in Stages, NEW l \in Latencies, NEW o \in Endings,
             BeginMark(m, s, l, o)
      PROVE  (\A r \in Stages : StageBalance(r)') /\ TotalBalance'
  BY <1>1, BeginMarkBalance
<1>2. CASE LoadState(m)
  <2>1. LoadCollecting(m) \/ LoadFreezing(m) \/ LoadFrozen(m)
    BY <1>2 DEF LoadState
  <2>2. QED
    BY <1>2, <2>1, LoadCollectingBalance, LoadFreezingBalance, LoadFrozenBalance
<1>3. CASE ReadThresholds(m)
  BY <1>3, ReadThresholdsBalance
<1>4. CASE Start(m) \/ EndMark(m) \/ Increment(m)
  BY <1>4, QuietBalance
<1>5. QED
  BY <1>1, <1>2, <1>3, <1>4 DEF MarkerStep

\* A freezer announces nothing and increments nothing.
LEMMA FreezerBalance ==
    ASSUME BalanceInv, SingleClaim, UNCHANGED markerVars,
           NEW f \in Freezers, FreezerStep(f)
    PROVE  BalanceInv'
<1>1. UNCHANGED <<counters, todo, mpc, mark, ctx>>
  BY DEF FreezerStep, Proceed, Call, LoadEntry, ScanStep, Judge, Claim, Decide,
         Restore, PublishStage, Release, recorderVars, markerVars
<1>2. calibration_state' # "Frozen" => calibration_state # "Frozen"
  BY FrozenStable
<1>3. Expected' = Expected
  BY <1>1, ExpectedFrame
<1>4. Unclassified' = Unclassified /\ \A s \in Stages : Following(s)' = Following(s)
  BY <1>1 DEF Unclassified, Following
<1>5. TodoInv'
  BY <1>1 DEF BalanceInv, TodoInv
<1>6. QED
  BY <1>2, <1>3, <1>4, <1>5, BalanceFrame DEF BalanceInv

-----------------------------------------------------------------------------
(* What a checkpoint has announced.                                        *)

LEMMA OneMarkerTodo ==
    ASSUME TypeOK, TodoInv, NEW m \in Markers,
           \A n \in Markers : n # m => mpc'[n] = mpc[n] /\ todo'[n] = todo[n],
           mpc'[m] \in {"idle", "online"} => todo'[m] = <<>>,
           IsInjective(todo'[m]), OneStage(Range(todo'[m]))
    PROVE  TodoInv'
BY DEF TodoInv

LEMMA TodoStep ==
    ASSUME TypeOK, TodoInv, NEW m \in Markers, MarkerStep(m)
    PROVE  TodoInv'
<1> USE DEF TypeOK
<1>0. \A n \in Markers : n # m => mpc'[n] = mpc[n] /\ todo'[n] = todo[n]
  BY DEF MarkerStep, Start, BeginMark, Increment, LoadState, LoadCollecting,
         LoadFreezing, LoadFrozen, ReadThresholds, EndMark
<1>1. CASE Start(m)
  BY <1>1 DEF Start, TodoInv
<1>2. ASSUME NEW s \in Stages, NEW l \in Latencies, NEW o \in Endings,
             BeginMark(m, s, l, o)
      PROVE  TodoInv'
  <2>1. /\ mpc'[m] = "counting" /\ todo'[m] = MatrixCells(m, s)
        /\ ctx[m] # None /\ (HasPrevious(m) => s > ctx[m].previous)
    BY <1>2 DEF BeginMark
  <2>2. IsInjective(MatrixCells(m, s)) /\ OneStage(Range(MatrixCells(m, s)))
    BY <2>1, MatrixRange
  <2>3. QED
    BY <1>0, <2>1, <2>2, OneMarkerTodo
<1>3. CASE Increment(m)
  <2>1. todo'[m] = Tail(todo[m]) /\ todo[m] # <<>> /\ mpc'[m] = mpc[m]
    BY <1>3 DEF Increment
  <2>2. /\ mpc[m] \notin {"idle", "online"} /\ IsInjective(todo[m])
        /\ OneStage(Range(todo[m])) /\ todo[m] \in Seq(Cells)
    BY <2>1 DEF TodoInv
  <2>3. /\ IsInjective(Tail(todo[m]))
        /\ Range(Tail(todo[m])) \subseteq Range(todo[m])
    BY <2>1, <2>2, TailCells
  <2>4. OneStage(Range(Tail(todo[m])))
    BY <2>2, <2>3 DEF OneStage
  <2>5. QED
    BY <1>0, <2>1, <2>2, <2>3, <2>4, OneMarkerTodo
<1>4. ASSUME NEW b \in Seq(Cells), IsInjective(b), OneStage(Range(b)),
             \A c \in Range(b) : c[1] # "completion",
             mpc'[m] = "classified", todo'[m] = b \o CompletionCells(m)
      PROVE  TodoInv'
  <2>1. /\ IsInjective(b \o CompletionCells(m))
        /\ OneStage(Range(b \o CompletionCells(m)))
    BY <1>4, WithCompletion
  <2>2. QED
    BY <1>0, <1>4, <2>1, OneMarkerTodo
<1>5. ASSUME NEW b \in Seq(Cells), NEW c \in Cells, b = <<>> \/ b = <<c>>,
             c[1] \in {"online", "diagnostics"}
      PROVE  /\ IsInjective(b) /\ OneStage(Range(b))
             /\ \A d \in Range(b) : d[1] # "completion"
  <2>1. Range(b) \subseteq {c} /\ IsInjective(b)
    BY <1>5, FewCells
  <2>2. QED
    BY <1>5, <2>1 DEF OneStage
<1>6. PICK c \in Cells : c = <<"diagnostics", "SkippedWhileFreezing">>
  BY CellTypes DEF Diagnostics
<1>7. CASE LoadState(m)
  <2>1. CASE LoadCollecting(m)
    <3>1. /\ mpc'[m] = "classified"
          /\ todo'[m] = CollectingCells(m) \o CompletionCells(m)
      BY <2>1 DEF LoadCollecting
    <3>2. /\ CollectingCells(m) \in Seq(Cells)
          /\ IsInjective(CollectingCells(m)) /\ OneStage(Range(CollectingCells(m)))
          /\ \A d \in Range(CollectingCells(m)) : d[1] # "completion"
      BY CollectingRange
    <3>3. QED
      BY <1>4, <3>1, <3>2
  <2>2. CASE LoadFreezing(m)
    <3>0. <<c>> \in Seq(Cells)
      OBVIOUS
    <3>1. PICK b \in Seq(Cells) : b = <<c>>
      BY <3>0, Zenon
    <3>2. mpc'[m] = "classified" /\ todo'[m] = b \o CompletionCells(m)
      BY <1>6, <2>2, <3>1 DEF LoadFreezing
    <3>3. QED
      BY <1>4, <1>5, <1>6, <3>1, <3>2
  <2>3. CASE LoadFrozen(m)
    <3>1. CASE ctx[m].startedFrozen
      <4>1. todo'[m] = todo[m] /\ todo[m] = <<>>
        BY <1>7, <2>3, <3>1 DEF LoadFrozen, LoadState
      <4>2. IsInjective(todo[m]) /\ OneStage(Range(todo[m]))
        BY DEF TodoInv
      <4>3. QED
        BY <1>0, <4>1, <4>2, OneMarkerTodo
    <3>2. CASE ~ctx[m].startedFrozen
      <4>0. <<>> \in Seq(Cells)
        OBVIOUS
      <4>1. PICK b \in Seq(Cells) : b = <<>>
        BY <4>0, Zenon
      <4>2. b \o CompletionCells(m) = CompletionCells(m)
        BY <4>1, CompletionCellsType
      <4>3. mpc'[m] = "classified" /\ todo'[m] = b \o CompletionCells(m)
        BY <2>3, <3>2, <4>2 DEF LoadFrozen
      <4>4. QED
        BY <1>4, <1>5, <1>6, <4>1, <4>3
    <3>3. QED
      BY <3>1, <3>2
  <2>4. QED
    BY <1>7, <2>1, <2>2, <2>3 DEF LoadState
<1>8. CASE ReadThresholds(m)
  <2>1. /\ mpc'[m] = "classified"
        /\ todo'[m] = OnlineCells(m) \o CompletionCells(m)
    BY <1>8 DEF ReadThresholds
  <2>2. mark[m].stage \in Stages
    BY DEF Marks
  <2>3. PICK x \in Cells, y \in Cells, z \in Cells :
           /\ x = <<"online", mark[m].stage, "First">>
           /\ y = <<"online", mark[m].stage, "Predecessor">>
           /\ z = <<"diagnostics", "MissingPreviousThreshold">>
    BY <2>2, CellTypes DEF Diagnostics
  <2>4. OnlineCells(m) \in {<<>>, <<x>>, <<y>>, <<z>>}
    BY <2>3 DEF OnlineCells
  <2>5. PICK d \in Cells : /\ OnlineCells(m) \in {<<>>, <<d>>}
                           /\ d[1] \in {"online", "diagnostics"}
    BY <2>3, <2>4
  <2>6. OnlineCells(m) \in Seq(Cells)
    BY OnlineCellsType
  <2>7. QED
    BY <1>4, <1>5, <2>1, <2>5, <2>6
<1>9. CASE EndMark(m)
  <2>1. todo'[m] = todo[m] /\ todo[m] = <<>>
    BY <1>9 DEF EndMark
  <2>2. IsInjective(todo[m]) /\ OneStage(Range(todo[m]))
    BY DEF TodoInv
  <2>3. QED
    BY <1>0, <2>1, <2>2, OneMarkerTodo
<1>10. QED
  BY <1>1, <1>2, <1>3, <1>7, <1>8, <1>9 DEF MarkerStep

LEMMA InitBalance == Init => BalanceInv
<1> SUFFICES ASSUME Init PROVE BalanceInv
  OBVIOUS
<1>1. /\ \A m \in Markers : todo[m] = <<>> /\ mpc[m] = "idle"
      /\ counters = [c \in Cells |-> 0]
      /\ calibration_state = "Collecting"
  BY DEF Init, RecorderInit
<1>2. TodoInv
  BY <1>1, FewCells DEF TodoInv, OneStage
<1>3. /\ \A c : Waiting(c) = {}
      /\ Unclassified = {} /\ \A s : Following(s) = {}
  BY <1>1, FewCells DEF Waiting, Unclassified, Following
<1>4. Cardinality({}) = 0
  BY FS_EmptySet
<1>5. \A c \in Cells : Expected[c] = 0
  BY <1>1, <1>3, <1>4 DEF Expected
<1>6. ASSUME NEW s \in Stages, NEW p \in Populations
      PROVE  Samples(Expected, s, p) = 0
  <2>1. \A k \in Classes : <<"calibration", s, p, k>> \in Cells
    BY CellTypes DEF CalibrationCells
  <2>2. QED
    BY <1>5, <2>1 DEF Samples, ClassCount, Classes
<1>7. ASSUME NEW s \in Stages
      PROVE  /\ Expected[<<"local", s>>] = 0 /\ Expected[<<"cumulative", s>>] = 0
             /\ Expected[<<"cause", s>>] = 0
             /\ s > 0 => Expected[<<"incoming", s>>] = 0
             /\ Expected[<<"online", s, "First">>] = 0
             /\ Expected[<<"online", s, "Predecessor">>] = 0
             /\ Cardinality(Following(s)) = 0
  BY <1>3, <1>4, <1>5, CellTypes
<1>8. ASSUME NEW s \in Stages
      PROVE  StageBalance(s) /\ Recorded[s] = 0 /\ Classified[s] = 0
  <2>1. /\ Samples(Expected, s, "Local") = 0
        /\ Samples(Expected, s, "CumulativeAfter") = 0
        /\ Samples(Expected, s, "PreviousCumulative") = 0
    BY <1>6 DEF Populations
  <2>2. StageBalance(s)
    <3>1. PICK n \in Nat : n = 0 /\ n =< n /\ n + n + n =< n
      OBVIOUS
    <3>2. /\ Samples(Expected, s, "PreviousCumulative")
               =< Samples(Expected, s, "Local")
          /\ Samples(Expected, s, "PreviousCumulative")
               + Expected[<<"online", s, "Predecessor">>]
               + Cardinality(Following(s)) =< Expected[<<"cause", s>>]
      BY <1>7, <2>1, <3>1
    <3>3. QED
      BY <1>7, <2>1, <3>2 DEF StageBalance
  <2>3. Recorded[s] = 0
    BY <1>7 DEF Recorded
  <2>4. Classified[s] = 0 + 0 + 0
    BY <1>7, <2>1 DEF Classified
  <2>5. QED
    BY <2>2, <2>3, <2>4
<1>9. \A s \in Stages : Recorded[s] = 0 /\ Classified[s] = 0
  BY <1>8
<1>10. SumFunctionOnSet(Recorded, Stages) = 0 /\ SumFunctionOnSet(Classified, Stages) = 0
  BY <1>9, StagesFinite, SumZero
<1>11. /\ Expected[<<"diagnostics", "SkippedWhileFreezing">>] = 0
       /\ Expected[<<"diagnostics", "MissingPreviousThreshold">>] = 0
       /\ Cardinality(Unclassified) = 0
  BY <1>3, <1>4, <1>5, CellTypes DEF Diagnostics
<1>12. TotalBalance
  BY <1>10, <1>11 DEF TotalBalance, Accounted
<1>13. QED
  BY <1>2, <1>8, <1>12 DEF BalanceInv

LEMMA StepBalance ==
    ASSUME TypeOK, IInv, BalanceInv, [Next]_vars
    PROVE  BalanceInv'
<1>0. LiveContext /\ ContextInv /\ BundleInv /\ SingleClaim /\ TodoInv
  BY DEF IInv, BalanceInv
<1>1. ASSUME NEW m \in Markers, MarkerStep(m) PROVE BalanceInv'
  <2>1. TodoInv'
    BY <1>0, <1>1, TodoStep
  <2>2. (\A s \in Stages : StageBalance(s)') /\ TotalBalance'
    BY <1>0, <1>1, MarkerBalance
  <2>3. QED
    BY <2>1, <2>2 DEF BalanceInv
<1>2. ASSUME NEW f \in Freezers, FreezerStep(f), UNCHANGED markerVars
      PROVE  BalanceInv'
  BY <1>0, <1>2, FreezerBalance
<1>3. CASE UNCHANGED vars
  <2>1. UNCHANGED <<counters, todo, mpc, mark, ctx, calibration_state>>
    BY <1>3 DEF vars, recorderVars, markerVars
  <2>2. Expected' = Expected
    BY <2>1, ExpectedFrame
  <2>3. Unclassified' = Unclassified /\ \A s \in Stages : Following(s)' = Following(s)
    BY <2>1 DEF Unclassified, Following
  <2>4. TodoInv'
    BY <1>0, <2>1 DEF TodoInv
  <2>5. QED
    BY <2>1, <2>2, <2>3, <2>4, BalanceFrame DEF BalanceInv
<1>4. QED
  BY <1>1, <1>2, <1>3 DEF Next

\* At every moment, whatever checkpoints have been interrupted, the counters
\* and what has been announced balance, stage by stage and in total.
THEOREM BalanceInductive == Spec => []BalanceInv
<1>1. TypeOK /\ IInv /\ BalanceInv /\ [Next]_vars => BalanceInv'
  BY StepBalance
<1>2. QED
  BY <1>1, InitBalance, TypeCorrect, Inductive, PTL DEF Spec

LEMMA BalanceAccounts ==
    ASSUME TypeOK, BalanceInv
    PROVE  Accounting
<1> DEFINE recorded == [s \in Stages |-> counters[<<"local", s>>]]
           classified == [s \in Stages |->
                             Samples(counters, s, "Local")
                               + counters[<<"online", s, "First">>]
                               + counters[<<"online", s, "Predecessor">>]]
<1> SUFFICES ASSUME \A m \in Markers : mpc[m] = "idle"
             PROVE  /\ \A s \in Stages :
                          /\ counters[<<"cumulative", s>>] = recorded[s]
                          /\ Samples(counters, s, "CumulativeAfter")
                                = Samples(counters, s, "Local")
                          /\ Samples(counters, s, "PreviousCumulative")
                                + counters[<<"online", s, "Predecessor">>]
                                =< counters[<<"cause", s>>]
                          /\ s > 0 => counters[<<"incoming", s>>] = counters[<<"cause", s>>]
                    /\ SumFunction(classified)
                         + counters[<<"diagnostics", "SkippedWhileFreezing">>]
                         + counters[<<"diagnostics", "MissingPreviousThreshold">>]
                         =< SumFunction(recorded)
                    /\ calibration_state # "Frozen" =>
                         SumFunction(classified)
                           + counters[<<"diagnostics", "SkippedWhileFreezing">>]
                           + counters[<<"diagnostics", "MissingPreviousThreshold">>]
                           = SumFunction(recorded)
  BY Zenon DEF Accounting
<1>1. \A m \in Markers : todo[m] = <<>>
  BY DEF BalanceInv, TodoInv
<1>2. /\ \A c : Waiting(c) = {}
      /\ Unclassified = {} /\ \A s : Following(s) = {}
  BY <1>1, FewCells DEF Waiting, Unclassified, Following
<1>3. Cardinality({}) = 0
  BY FS_EmptySet
<1>4. Expected = counters
  <2>1. \A c \in Cells : Expected[c] = counters[c] + 0
    BY <1>2, <1>3 DEF Expected
  <2>2. \A c \in Cells : counters[c] \in Nat
    BY DEF TypeOK
  <2>3. QED
    BY <2>1, <2>2 DEF Expected, TypeOK
<1>5. Recorded = recorded /\ Classified = classified
  BY <1>4 DEF Recorded, Classified
<1>6. /\ SumFunction(recorded) = SumFunctionOnSet(recorded, Stages)
      /\ SumFunction(classified) = SumFunctionOnSet(classified, Stages)
  <2>1. DOMAIN recorded = Stages /\ DOMAIN classified = Stages
    OBVIOUS
  <2> HIDE DEF recorded, classified
  <2>2. QED
    BY <2>1, Zenon DEF SumFunction, SumFunctionOnSet, FoldFunction
<1>7. ASSUME NEW s \in Stages
      PROVE  /\ counters[<<"cumulative", s>>] = recorded[s]
             /\ Samples(counters, s, "CumulativeAfter") = Samples(counters, s, "Local")
             /\ Samples(counters, s, "PreviousCumulative")
                   + counters[<<"online", s, "Predecessor">>]
                   =< counters[<<"cause", s>>]
             /\ s > 0 => counters[<<"incoming", s>>] = counters[<<"cause", s>>]
  <2>1. StageBalance(s)
    BY DEF BalanceInv
  <2>2. /\ Samples(counters, s, "PreviousCumulative") \in Nat
        /\ counters[<<"online", s, "Predecessor">>] \in Nat
        /\ Cardinality(Following(s)) = 0
    BY <1>2, <1>3, <1>4, StageTypes DEF Populations
  <2>3. QED
    BY <1>4, <2>1, <2>2 DEF StageBalance
<1> HIDE DEF recorded, classified
<1>8. /\ Accounted = SumFunctionOnSet(classified, Stages)
                       + counters[<<"diagnostics", "SkippedWhileFreezing">>]
                       + counters[<<"diagnostics", "MissingPreviousThreshold">>] + 0
      /\ TotalBalance
  BY <1>2, <1>3, <1>4, <1>5 DEF Accounted, BalanceInv
<1>9. /\ counters[<<"diagnostics", "SkippedWhileFreezing">>] \in Nat
      /\ counters[<<"diagnostics", "MissingPreviousThreshold">>] \in Nat
      /\ SumFunctionOnSet(classified, Stages) \in Int
  <2>1. \A s \in Stages : classified[s] \in Int
    <3>1. ASSUME NEW s \in Stages PROVE classified[s] \in Int
      <4>1. /\ Samples(counters, s, "Local") \in Nat
            /\ counters[<<"online", s, "First">>] \in Nat
            /\ counters[<<"online", s, "Predecessor">>] \in Nat
        BY <1>4, StageTypes DEF Populations
      <4>2. QED
        BY <4>1 DEF classified
    <3>2. QED
      BY <3>1
  <2>2. QED
    BY <2>1, StagesFinite, SumType, CellTypes DEF TypeOK, Diagnostics
<1>10. /\ Accounted = SumFunctionOnSet(classified, Stages)
                       + counters[<<"diagnostics", "SkippedWhileFreezing">>]
                       + counters[<<"diagnostics", "MissingPreviousThreshold">>]
  BY <1>8, <1>9
<1>11. QED
  BY <1>5, <1>6, <1>7, <1>8, <1>10 DEF TotalBalance

\* Between checkpoints every recorded interval has been accounted for once, for
\* any number of markers, stages and requests.
THEOREM AccountingHolds == Spec => []Accounting
<1>1. TypeOK /\ BalanceInv => Accounting
  BY BalanceAccounts
<1>2. QED
  BY <1>1, TypeCorrect, BalanceInductive, PTL

-----------------------------------------------------------------------------
(* Counting what a freeze may miss.                                        *)

\* The scan is a bijection between its positions and the calibration cells.
LEMMA ScanOnce ==
    ASSUME NEW i \in 0 .. ScanLength - 1, NEW j \in 0 .. ScanLength - 1,
           ScanCell(i) = ScanCell(j)
    PROVE  i = j
<1>1. i \in Nat /\ j \in Nat
  BY DEF ScanLength
<1>2. i \div 9 = j \div 9
  BY DEF ScanCell
<1>3. (i \div 3) % 3 = (j \div 3) % 3
  <2>1. PICK a \in 0 .. 2, b \in 0 .. 2 : a = (i \div 3) % 3 /\ b = (j \div 3) % 3
    BY <1>1
  <2>2. PopulationOrder[a + 1] = PopulationOrder[b + 1]
    BY <2>1 DEF ScanCell
  <2>3. QED
    BY <2>1, <2>2 DEF PopulationOrder
<1>4. i % 3 = j % 3
  <2>1. PICK a \in 0 .. 2, b \in 0 .. 2 : a = i % 3 /\ b = j % 3
    BY <1>1
  <2>2. ClassOrder[a + 1] = ClassOrder[b + 1]
    BY <2>1 DEF ScanCell
  <2>3. QED
    BY <2>1, <2>2 DEF ClassOrder
<1>5. QED
  BY <1>1, <1>2, <1>3, <1>4

LEMMA ScanOnto ==
    ASSUME NEW c \in CalibrationCells
    PROVE  \E i \in 0 .. ScanLength - 1 : ScanCell(i) = c
<1>1. PICK s \in Stages, p \in Populations, k \in Classes :
         c = <<"calibration", s, p, k>>
  BY DEF CalibrationCells
<1>2. PICK a \in 0 .. 2 : PopulationOrder[a + 1] = p
  <2>1. /\ PopulationOrder[0 + 1] = "Local" /\ PopulationOrder[1 + 1] = "CumulativeAfter"
        /\ PopulationOrder[2 + 1] = "PreviousCumulative"
    BY DEF PopulationOrder
  <2>2. QED
    BY <2>1 DEF Populations
<1>3. PICK b \in 0 .. 2 : ClassOrder[b + 1] = k
  <2>1. /\ ClassOrder[0 + 1] = "Lower" /\ ClassOrder[1 + 1] = "Finite"
        /\ ClassOrder[2 + 1] = "Upper"
    BY DEF ClassOrder
  <2>2. QED
    BY <2>1 DEF Classes
<1>4. PICK i \in 0 .. ScanLength - 1 : i = 9 * s + 3 * a + b
  BY DEF ScanLength, Stages
<1>5. s \in Nat
  BY DEF Stages
<1>6. i \div 9 = s /\ (i \div 3) % 3 = a /\ i % 3 = b
  BY <1>4, <1>5
<1>7. ScanCell(i) = c
  BY <1>1, <1>2, <1>3, <1>6 DEF ScanCell
<1>8. QED
  BY <1>7

\* More in each cell is more in each population.
LEMMA SamplesGrow ==
    ASSUME NEW d, NEW e, NEW s \in Stages, NEW p \in Populations,
           \A c \in CalibrationCells : d[c] \in Nat /\ e[c] \in Nat /\ d[c] =< e[c]
    PROVE  /\ Samples(d, s, p) \in Nat /\ Samples(e, s, p) \in Nat
           /\ Samples(d, s, p) =< Samples(e, s, p)
<1>1. \A k \in Classes : <<"calibration", s, p, k>> \in CalibrationCells
  BY DEF CalibrationCells
<1>2. PICK x1 \in Nat, x2 \in Nat, x3 \in Nat, y1 \in Nat, y2 \in Nat, y3 \in Nat :
         /\ x1 = d[<<"calibration", s, p, "Lower">>]
         /\ x2 = d[<<"calibration", s, p, "Finite">>]
         /\ x3 = d[<<"calibration", s, p, "Upper">>]
         /\ y1 = e[<<"calibration", s, p, "Lower">>]
         /\ y2 = e[<<"calibration", s, p, "Finite">>]
         /\ y3 = e[<<"calibration", s, p, "Upper">>]
  BY <1>1 DEF Classes
<1>3. x1 =< y1 /\ x2 =< y2 /\ x3 =< y3
  BY <1>1, <1>2 DEF Classes
<1>4. Samples(d, s, p) = x1 + x2 + x3 /\ Samples(e, s, p) = y1 + y2 + y3
  BY <1>2 DEF Samples, ClassCount
<1>5. QED
  BY <1>3, <1>4

LEMMA SampleTypes ==
    ASSUME TypeOK, NEW s \in Stages, NEW p \in Populations
    PROVE  /\ Samples(counters, s, p) \in Nat /\ Samples(Expected, s, p) \in Nat
           /\ Samples(counters, s, p) =< Samples(Expected, s, p)
<1>1. \A c \in CalibrationCells :
         counters[c] \in Nat /\ Expected[c] \in Nat /\ counters[c] =< Expected[c]
  BY ExpectedType, CellTypes
<1>2. QED
  BY <1>1, SamplesGrow

\* Once a freezer has claimed, no checkpoint announces a sample.
LEMMA SamplesKept ==
    ASSUME TypeOK, TodoInv, calibration_state # "Collecting",
           NEW m \in Markers, MarkerStep(m)
    PROVE  /\ \A s \in Stages, p \in Populations :
                 Samples(Expected', s, p) = Samples(Expected, s, p)
           /\ \A c \in Cells : counters[c] =< counters'[c]
<1>0. \A c \in Cells : counters[c] \in Nat /\ counters[c] =< counters[c]
  BY DEF TypeOK
<1>1. CASE Increment(m)
  BY <1>1, IncrementKeeps
<1>2. CASE UNCHANGED <<counters, todo>>
  BY <1>0, <1>2, ExpectedFrame
<1>3. ASSUME NEW a \in Seq(Cells), NoSample(Range(a)), todo[m] = <<>>,
             todo' = [todo EXCEPT ![m] = a], counters' = counters
      PROVE  \A s \in Stages, p \in Populations :
                Samples(Expected', s, p) = Samples(Expected, s, p)
  <2>1. \A s \in Stages, p \in Populations, k \in Classes :
           <<"calibration", s, p, k>> \notin Range(a)
    BY <1>3 DEF NoSample, CalibrationCells
  <2>2. QED
    BY <1>3, <2>1, Announced, ZenonT(60)
<1>4. ASSUME NEW b \in Seq(Cells), NEW c \in Cells, b \in {<<>>, <<c>>},
             c[1] \in {"online", "diagnostics"}
      PROVE  /\ b \o CompletionCells(m) \in Seq(Cells)
             /\ NoSample(Range(b \o CompletionCells(m)))
  <2>1. \A d \in Range(b) : d[1] \in {"online", "diagnostics"}
    BY <1>4, FewCells
  <2>2. /\ CompletionCells(m) \in Seq(Cells)
        /\ \A d \in Range(CompletionCells(m)) : d[1] = "completion"
    BY CompletionRange
  <2>3. Range(b \o CompletionCells(m)) = Range(b) \cup Range(CompletionCells(m))
    BY <2>2, ConcatCells
  <2>4. \A d \in CalibrationCells : d[1] = "calibration"
    BY DEF CalibrationCells
  <2>5. QED
    BY <2>1, <2>2, <2>3, <2>4 DEF NoSample
<1>5. ASSUME NEW s \in Stages, NEW l \in Latencies, NEW o \in Endings,
             BeginMark(m, s, l, o)
      PROVE  \A r \in Stages, p \in Populations :
                Samples(Expected', r, p) = Samples(Expected, r, p)
  <2>1. /\ mpc[m] = "idle" /\ ctx[m] # None /\ (HasPrevious(m) => s > ctx[m].previous)
        /\ todo' = [todo EXCEPT ![m] = MatrixCells(m, s)] /\ counters' = counters
    BY <1>5 DEF BeginMark, recorderVars
  <2>2. /\ MatrixCells(m, s) \in Seq(Cells) /\ NoSample(Range(MatrixCells(m, s)))
        /\ todo[m] = <<>>
    BY <2>1, MatrixCellsType, MatrixRange DEF TodoInv
  <2>3. QED
    BY <1>3, <2>1, <2>2
<1>6. CASE LoadState(m)
  <2>1. /\ todo[m] = <<>> /\ counters' = counters
        /\ LoadFreezing(m) \/ LoadFrozen(m)
    BY <1>6 DEF LoadState, LoadCollecting, recorderVars
  <2>2. PICK c \in Cells : c = <<"diagnostics", "SkippedWhileFreezing">>
    BY CellTypes DEF Diagnostics
  <2>3. CASE LoadFreezing(m)
    <3>1. <<c>> \in Seq(Cells)
      OBVIOUS
    <3>2. /\ <<c>> \o CompletionCells(m) \in Seq(Cells)
          /\ NoSample(Range(<<c>> \o CompletionCells(m)))
      BY <1>4, <2>2, <3>1
    <3>3. todo' = [todo EXCEPT ![m] = <<c>> \o CompletionCells(m)]
      BY <2>2, <2>3 DEF LoadFreezing
    <3>4. QED
      BY <1>0, <1>3, <2>1, <3>2, <3>3
  <2>4. CASE LoadFrozen(m)
    <3>1. CASE ctx[m].startedFrozen
      BY <1>2, <2>1, <2>4, <3>1 DEF LoadFrozen
    <3>2. CASE ~ctx[m].startedFrozen
      <4>1. <<>> \in Seq(Cells) /\ <<>> \o CompletionCells(m) = CompletionCells(m)
        BY CompletionCellsType
      <4>2. /\ CompletionCells(m) \in Seq(Cells)
            /\ NoSample(Range(CompletionCells(m)))
        BY <1>4, <2>2, <4>1
      <4>3. todo' = [todo EXCEPT ![m] = CompletionCells(m)]
        BY <2>4, <3>2 DEF LoadFrozen
      <4>4. QED
        BY <1>0, <1>3, <2>1, <4>2, <4>3
    <3>3. QED
      BY <3>1, <3>2
  <2>5. QED
    BY <2>1, <2>3, <2>4
<1>7. CASE ReadThresholds(m)
  <2>1. /\ todo[m] = <<>> /\ counters' = counters
        /\ todo' = [todo EXCEPT ![m] = OnlineCells(m) \o CompletionCells(m)]
    BY <1>7 DEF ReadThresholds, TodoInv, recorderVars
  <2>2. mark[m].stage \in Stages
    BY DEF TypeOK, Marks
  <2>3. PICK x \in Cells, y \in Cells, z \in Cells :
           /\ x = <<"online", mark[m].stage, "First">>
           /\ y = <<"online", mark[m].stage, "Predecessor">>
           /\ z = <<"diagnostics", "MissingPreviousThreshold">>
    BY <2>2, CellTypes DEF Diagnostics
  <2>4. OnlineCells(m) \in {<<>>, <<x>>, <<y>>, <<z>>}
    BY <2>3 DEF OnlineCells
  <2>5. PICK d \in Cells : /\ OnlineCells(m) \in {<<>>, <<d>>}
                           /\ d[1] \in {"online", "diagnostics"}
    BY <2>3, <2>4
  <2>6. OnlineCells(m) \in Seq(Cells)
    BY OnlineCellsType
  <2>7. /\ OnlineCells(m) \o CompletionCells(m) \in Seq(Cells)
        /\ NoSample(Range(OnlineCells(m) \o CompletionCells(m)))
    BY <1>4, <2>5, <2>6
  <2>8. QED
    BY <1>0, <1>3, <2>1, <2>7
<1>8. CASE Start(m) \/ EndMark(m)
  BY <1>2, <1>8 DEF Start, EndMark, recorderVars
<1>9. CASE \E s \in Stages, l \in Latencies, o \in Endings : BeginMark(m, s, l, o)
  <2>1. counters' = counters
    BY <1>9 DEF BeginMark, recorderVars
  <2>2. QED
    BY <1>0, <1>5, <1>9, <2>1
<1>10. QED
  BY <1>1, <1>6, <1>7, <1>8, <1>9 DEF MarkerStep

\* The checkpoints that still owe a sample of a stage.
Late(s) ==
    {m \in Markers : \E p \in Populations, k \in Classes :
        <<"calibration", s, p, k>> \in Range(todo[m])}

\* No interrupted checkpoint owes two samples of a population.
LEMMA LateCounts ==
    ASSUME TypeOK, TodoInv
    PROVE  /\ \A s \in Stages : Cardinality(Late(s)) \in Nat
           /\ \A s, r \in Stages : s # r => Late(s) \cap Late(r) = {}
           /\ \A s \in Stages, p \in Populations :
                 Samples(Expected, s, p)
                    =< Samples(counters, s, p) + Cardinality(Late(s))
<1>1. ASSUME NEW s \in Stages
      PROVE  /\ IsFiniteSet(Late(s)) /\ Cardinality(Late(s)) \in Nat
             /\ \A T \in SUBSET Late(s) : Cardinality(T) =< Cardinality(Late(s))
  <2>1. Late(s) \in SUBSET Markers
    BY DEF Late
  <2>2. IsFiniteSet(Late(s))
    BY <2>1, FS_Subset, MarkersAssumption
  <2>3. QED
    BY <2>2, FS_CardinalityType, FS_Subset
<1>2. ASSUME NEW s \in Stages, NEW r \in Stages, s # r, NEW m \in Late(s) \cap Late(r)
      PROVE  FALSE
  <2>1. PICK p1 \in Populations, k1 \in Classes, p2 \in Populations, k2 \in Classes :
           /\ <<"calibration", s, p1, k1>> \in Range(todo[m])
           /\ <<"calibration", r, p2, k2>> \in Range(todo[m])
    BY DEF Late
  <2>2. OneStage(Range(todo[m]))
    BY DEF TodoInv, Late
  <2>3. QED
    BY <1>2, <2>1, <2>2 DEF OneStage
<1>3. ASSUME NEW s \in Stages, NEW p \in Populations
      PROVE  Samples(Expected, s, p) =< Samples(counters, s, p) + Cardinality(Late(s))
  <2> DEFINE W(k) == Waiting(<<"calibration", s, p, k>>)
  <2>1. \A k \in Classes : W(k) \subseteq Late(s) /\ IsFiniteSet(W(k))
    BY ExpectedType DEF Waiting, Late
  <2>2. ASSUME NEW k \in Classes, NEW l \in Classes, k # l PROVE W(k) \cap W(l) = {}
    <3>1. ASSUME NEW m \in W(k) \cap W(l) PROVE FALSE
      <4>1. /\ <<"calibration", s, p, k>> \in Range(todo[m])
            /\ <<"calibration", s, p, l>> \in Range(todo[m])
            /\ OneStage(Range(todo[m]))
        BY DEF Waiting, TodoInv
      <4>2. QED
        BY <2>2, <4>1 DEF OneStage
    <3>2. QED
      BY <3>1
  <2>3. PICK A, B, C : A = W("Lower") /\ B = W("Finite") /\ C = W("Upper")
    OBVIOUS
  <2>4. /\ A \subseteq Late(s) /\ B \subseteq Late(s) /\ C \subseteq Late(s)
        /\ IsFiniteSet(A) /\ IsFiniteSet(B) /\ IsFiniteSet(C)
        /\ A \cap B = {} /\ A \cap C = {} /\ B \cap C = {}
    BY <2>1, <2>2, <2>3 DEF Classes
  <2>5. Cardinality(A \cup B) = Cardinality(A) + Cardinality(B) - Cardinality({})
        /\ IsFiniteSet(A \cup B)
    BY <2>4, FS_Union
  <2>6. (A \cup B) \cap C = {}
    BY <2>4
  <2>7. Cardinality((A \cup B) \cup C)
           = Cardinality(A \cup B) + Cardinality(C) - Cardinality({})
    BY <2>4, <2>5, <2>6, FS_Union
  <2>8. Cardinality((A \cup B) \cup C) =< Cardinality(Late(s))
    BY <1>1, <2>4
  <2>9. PICK a \in Nat, b \in Nat, c \in Nat :
           a = Cardinality(A) /\ b = Cardinality(B) /\ c = Cardinality(C)
    BY <2>4, FS_CardinalityType
  <2>10. Cardinality({}) = 0
    BY FS_EmptySet
  <2>11. a + b + c =< Cardinality(Late(s))
    BY <2>5, <2>7, <2>8, <2>9, <2>10
  <2>12. \A k \in Classes : <<"calibration", s, p, k>> \in Cells
    BY CellTypes DEF CalibrationCells
  <2>13. PICK x \in Nat, y \in Nat, z \in Nat :
            /\ x = counters[<<"calibration", s, p, "Lower">>]
            /\ y = counters[<<"calibration", s, p, "Finite">>]
            /\ z = counters[<<"calibration", s, p, "Upper">>]
    BY <2>12 DEF TypeOK, Classes
  <2>14. Samples(counters, s, p) = x + y + z
    BY <2>13 DEF Samples, ClassCount
  <2>15. Samples(Expected, s, p) = (x + a) + (y + b) + (z + c)
    BY <2>3, <2>9, <2>12, <2>13 DEF Samples, ClassCount, Expected, Classes
  <2>16. QED
    BY <1>1, <2>11, <2>14, <2>15
<1>4. QED
  BY <1>1, <1>2, <1>3

\* Whatever shows the counters now has missed what is announced now.
LEMMA NearNow ==
    ASSUME TypeOK, TodoInv, NEW base,
           \A s \in Stages, p \in Populations : base[s][p] = Samples(counters, s, p)
    PROVE  Near(base)
<1> DEFINE late == [s \in Stages |-> Cardinality(Late(s))]
           part == [s \in Stages |-> Late(s)]
<1>1. late \in [Stages -> Nat]
  BY LateCounts
<1>2. SumFunctionOnSet(late, Stages) =< Cardinality(Markers)
  <2>1. \A s \in Stages : part[s] \subseteq Markers /\ late[s] = Cardinality(part[s])
    BY DEF Late
  <2>2. \A s, r \in Stages : s # r => part[s] \cap part[r] = {}
    BY LateCounts
  <2> HIDE DEF late, part
  <2>3. QED
    BY <2>1, <2>2, StagesFinite, MarkersAssumption, SumDisjoint
<1>3. ASSUME NEW s \in Stages, NEW p \in Populations
      PROVE  /\ base[s][p] =< Samples(counters, s, p)
             /\ Samples(Expected, s, p) =< base[s][p] + late[s]
  <2>1. Samples(counters, s, p) \in Nat
    BY SampleTypes
  <2>2. base[s][p] = Samples(counters, s, p)
    OBVIOUS
  <2>3. Samples(Expected, s, p) =< Samples(counters, s, p) + Cardinality(Late(s))
    BY LateCounts
  <2>4. QED
    BY <2>1, <2>2, <2>3
<1> HIDE DEF late
<1>4. QED
  BY <1>1, <1>2, <1>3 DEF Near

\* A count that has not fallen, of samples that nobody has added to, has missed
\* no more than before.
LEMMA NearKeeps ==
    ASSUME TypeOK, TypeOK', NEW base, NEW next, Near(base),
           \A s \in Stages, p \in Populations :
              /\ base[s][p] \in Nat /\ next[s][p] \in Nat
              /\ base[s][p] =< next[s][p]
              /\ next[s][p] =< Samples(counters', s, p)
              /\ Samples(Expected', s, p) = Samples(Expected, s, p)
    PROVE  Near(next)'
<1>1. PICK late \in [Stages -> Nat] :
         /\ SumFunctionOnSet(late, Stages) =< Cardinality(Markers)
         /\ \A s \in Stages, p \in Populations :
               Samples(Expected, s, p) =< base[s][p] + late[s]
  BY DEF Near
<1>2. ASSUME NEW s \in Stages, NEW p \in Populations
      PROVE  Samples(Expected', s, p) =< next[s][p] + late[s]
  <2>1. Samples(Expected, s, p) \in Nat /\ late[s] \in Nat
    BY SampleTypes
  <2>2. /\ Samples(Expected', s, p) = Samples(Expected, s, p)
        /\ Samples(Expected, s, p) =< base[s][p] + late[s]
        /\ base[s][p] \in Nat /\ next[s][p] \in Nat /\ base[s][p] =< next[s][p]
    BY <1>1
  <2>3. QED
    BY <2>1, <2>2
<1>3. QED
  BY <1>1, <1>2 DEF Near

-----------------------------------------------------------------------------
(* What each step leaves of the freeze's count.                            *)

LEMMA CompletedType ==
    ASSUME TypeOK, NEW f \in Freezers
    PROVE  /\ Completed(f) \in [CalibrationCells -> Nat]
           /\ \A s \in Stages, p \in Populations :
                 SamplesOf(Completed(f))[s][p] = Samples(Completed(f), s, p)
<1>1. \A c \in CalibrationCells : counters[c] \in Nat /\ seen[f][c] \in Nat
  BY CellTypes, ZenonT(60) DEF TypeOK
<1>2. QED
  BY <1>1 DEF Completed, SamplesOf

LEMMA ReportedType ==
    ASSUME NEW bundle \in [Stages -> StageReports]
    PROVE  \A s \in Stages, p \in Populations :
              /\ ReportedBy(bundle)[s][p] = bundle[s][p].samples
              /\ ReportedBy(bundle)[s][p] \in Nat
BY DEF ReportedBy, StageReports

\* A count that nobody changes stays near while the counters grow.
LEMMA NearStays ==
    ASSUME TypeOK, TypeOK', NEW base, Near(base),
           \A s \in Stages, p \in Populations :
              /\ base[s][p] \in Nat
              /\ Samples(Expected', s, p) = Samples(Expected, s, p),
           \A c \in Cells : counters[c] =< counters'[c]
    PROVE  Near(base)'
<1>1. ASSUME NEW s \in Stages, NEW p \in Populations
      PROVE  base[s][p] =< base[s][p] /\ base[s][p] =< Samples(counters', s, p)
  <2>1. \A c \in CalibrationCells :
           counters[c] \in Nat /\ counters'[c] \in Nat /\ counters[c] =< counters'[c]
    BY CellTypes DEF TypeOK
  <2>2. PICK d, e : d = counters /\ e = counters'
    OBVIOUS
  <2>3. /\ Samples(d, s, p) \in Nat /\ Samples(e, s, p) \in Nat
        /\ Samples(d, s, p) =< Samples(e, s, p)
    BY <2>1, <2>2, SamplesGrow
  <2>4. base[s][p] =< Samples(d, s, p) /\ base[s][p] \in Nat
    BY <2>2 DEF Near
  <2>5. base[s][p] =< Samples(e, s, p)
    BY <2>3, <2>4
  <2>6. QED
    BY <2>2, <2>4, <2>5
<1>2. QED
  BY <1>1, NearKeeps

LEMMA SamplesGain ==
    ASSUME NEW d, NEW e, NEW x, NEW y, NEW s \in Stages, NEW p \in Populations,
           \A c \in CalibrationCells :
              /\ d[c] \in Nat /\ e[c] \in Nat /\ x[c] \in Nat /\ y[c] \in Nat
              /\ e[c] + x[c] =< d[c] + y[c]
    PROVE  Samples(e, s, p) + Samples(x, s, p) =< Samples(d, s, p) + Samples(y, s, p)
<1>1. ASSUME NEW k \in Classes
      PROVE  LET c == <<"calibration", s, p, k>>
             IN  /\ d[c] \in Nat /\ e[c] \in Nat /\ x[c] \in Nat /\ y[c] \in Nat
                 /\ e[c] + x[c] =< d[c] + y[c]
  BY DEF CalibrationCells
<1>2. QED
  BY <1>1 DEF Samples, ClassCount, Classes

\* A scan that a checkpoint interrupts finds no less.
LEMMA ScanInterrupted ==
    ASSUME TypeOK, TypeOK', NEW f \in Freezers, Near(SamplesOf(Completed(f))),
           UNCHANGED <<position, seen>>,
           \A s \in Stages, p \in Populations :
              Samples(Expected', s, p) = Samples(Expected, s, p),
           \A c \in Cells : counters[c] =< counters'[c]
    PROVE  Near(SamplesOf(Completed(f)))'
<1>1. PICK d, e : d = Completed(f) /\ e = Completed(f)'
  OBVIOUS
<1>2. PICK base, next : base = SamplesOf(Completed(f)) /\ next = SamplesOf(Completed(f))'
  OBVIOUS
<1>3. /\ d \in [CalibrationCells -> Nat]
      /\ \A s \in Stages, p \in Populations : base[s][p] = Samples(d, s, p)
  BY <1>1, <1>2, CompletedType
<1>4. /\ \A c \in CalibrationCells :
            /\ counters[c] \in Nat /\ counters'[c] \in Nat
            /\ counters[c] =< counters'[c]
            /\ seen[f][c] \in Nat
  <2>1. /\ counters \in [Cells -> Nat] /\ counters' \in [Cells -> Nat]
        /\ seen[f] \in [CalibrationCells -> Nat]
    BY DEF TypeOK
  <2>2. QED
    BY <2>1, CellTypes
<1>5. /\ e = [c \in CalibrationCells |->
                 IF \E i \in 0 .. position[f] - 1 : ScanCell(i) = c
                 THEN seen[f][c] ELSE counters'[c]]
      /\ next = [s \in Stages |-> [p \in Populations |-> Samples(e, s, p)]]
  BY <1>1, <1>2 DEF Completed, SamplesOf, ScanCell
<1>6. \A c \in CalibrationCells : d[c] \in Nat /\ e[c] \in Nat /\ d[c] =< e[c]
  <2>1. d = [c \in CalibrationCells |->
                 IF \E i \in 0 .. position[f] - 1 : ScanCell(i) = c
                 THEN seen[f][c] ELSE counters[c]]
    BY <1>1 DEF Completed
  <2>2. QED
    BY <1>4, <1>5, <2>1
<1>7. \A c \in CalibrationCells : e[c] + counters[c] =< d[c] + counters'[c]
  <2>1. d = [c \in CalibrationCells |->
                 IF \E i \in 0 .. position[f] - 1 : ScanCell(i) = c
                 THEN seen[f][c] ELSE counters[c]]
    BY <1>1 DEF Completed
  <2>2. QED
    BY <1>4, <1>5, <2>1
<1>8. PICK x, y : x = counters /\ y = counters'
  OBVIOUS
<1>9. ASSUME NEW s \in Stages, NEW p \in Populations
      PROVE  /\ base[s][p] \in Nat /\ next[s][p] \in Nat
             /\ base[s][p] =< next[s][p]
             /\ next[s][p] =< Samples(counters', s, p)
  <2>1. /\ Samples(d, s, p) \in Nat /\ Samples(e, s, p) \in Nat
        /\ Samples(d, s, p) =< Samples(e, s, p)
    BY <1>6, SamplesGrow
  <2>2. /\ Samples(x, s, p) \in Nat /\ Samples(y, s, p) \in Nat
        /\ Samples(x, s, p) =< Samples(y, s, p)
    BY <1>4, <1>8, SamplesGrow
  <2>3. Samples(e, s, p) + Samples(x, s, p) =< Samples(d, s, p) + Samples(y, s, p)
    BY <1>4, <1>6, <1>7, <1>8, SamplesGain
  <2>4. base[s][p] = Samples(d, s, p) /\ next[s][p] = Samples(e, s, p)
    BY <1>3, <1>5
  <2>5. Samples(d, s, p) =< Samples(x, s, p)
    <3>1. base[s][p] =< Samples(counters, s, p)
      BY <1>2 DEF Near
    <3>2. QED
      BY <1>8, <2>4, <3>1
  <2>6. QED
    BY <1>8, <2>1, <2>2, <2>3, <2>4, <2>5
<1>10. Near(base)
  BY <1>2
<1>11. Near(next)'
  BY <1>9, <1>10, NearKeeps
<1>12. QED
  BY <1>2, <1>11 DEF Near

\* A load of the second scan does not change what the scan would find.
LEMMA ScanLoads ==
    ASSUME TypeOK, NEW f \in Freezers, ScanStep(f)
    PROVE  Completed(f)' = Completed(f)
<1>0. position[f] \in 0 .. ScanLength - 1
  BY DEF TypeOK, ScanStep, ScanLength
<1>1. PICK n \in 0 .. ScanLength - 1 : n = position[f]
  BY <1>0, Zenon
<1>2. /\ position'[f] = n + 1 /\ counters' = counters
      /\ \A c \in CalibrationCells :
            seen'[f][c] = IF c = ScanCell(n) THEN counters[c] ELSE seen[f][c]
  BY <1>1 DEF ScanStep, TypeOK, recorderVars
<1>3. ASSUME NEW c \in CalibrationCells
      PROVE  (IF \E i \in 0 .. (n + 1) - 1 : ScanCell(i) = c
              THEN seen'[f][c] ELSE counters'[c])
                = (IF \E i \in 0 .. n - 1 : ScanCell(i) = c
                   THEN seen[f][c] ELSE counters[c])
  <2>1. CASE c = ScanCell(n)
    <3>1. ~\E i \in 0 .. n - 1 : ScanCell(i) = c
      <4>1. \A i \in 0 .. n - 1 : i \in 0 .. ScanLength - 1 /\ i # n
        BY DEF ScanLength
      <4>2. QED
        BY <2>1, <4>1, ScanOnce
    <3>2. QED
      BY <1>2, <2>1, <3>1
  <2>2. CASE c # ScanCell(n)
    <3>1. (\E i \in 0 .. (n + 1) - 1 : ScanCell(i) = c)
             <=> (\E i \in 0 .. n - 1 : ScanCell(i) = c)
      BY <1>1, <2>2
    <3>2. QED
      BY <1>2, <2>2, <3>1
  <2>3. QED
    BY <2>1, <2>2
<1>4. Completed(f) = [c \in CalibrationCells |->
                        IF \E i \in 0 .. n - 1 : ScanCell(i) = c
                        THEN seen[f][c] ELSE counters[c]]
  BY <1>1 DEF Completed
<1>5. Completed(f)' = [c \in CalibrationCells |->
                         IF \E i \in 0 .. (n + 1) - 1 : ScanCell(i) = c
                         THEN seen'[f][c] ELSE counters'[c]]
  BY <1>2 DEF Completed, ScanCell
<1>6. QED
  BY <1>3, <1>4, <1>5, Zenon

\* Before the scan begins it would find the counters, and at its end it has
\* found what it reports.
LEMMA ScanEnds ==
    ASSUME TypeOK, NEW f \in Freezers, position[f] = ScanLength
    PROVE  Completed(f) = seen[f]
<1>1. \A c \in CalibrationCells : Completed(f)[c] = seen[f][c]
  BY ScanOnto DEF Completed
<1>2. seen[f] \in [CalibrationCells -> Nat]
  BY DEF TypeOK
<1>3. QED
  BY <1>1, <1>2, CompletedType

LEMMA ScanBegins ==
    \A f \in Freezers :
        TypeOK /\ TodoInv /\ position[f] = 0 => Near(SamplesOf(Completed(f)))
<1> SUFFICES ASSUME TypeOK, TodoInv, NEW f \in Freezers, position[f] = 0
             PROVE  Near(SamplesOf(Completed(f)))
  OBVIOUS
<1>1. ASSUME NEW s \in Stages, NEW p \in Populations
      PROVE  SamplesOf(Completed(f))[s][p] = Samples(counters, s, p)
  <2>1. \A c \in CalibrationCells : Completed(f)[c] = counters[c]
    BY DEF Completed
  <2>2. \A k \in Classes : <<"calibration", s, p, k>> \in CalibrationCells
    BY DEF CalibrationCells
  <2>3. Samples(Completed(f), s, p) = Samples(counters, s, p)
    BY <2>1, <2>2 DEF Samples, ClassCount, Classes
  <2>4. QED
    BY <2>3, CompletedType
<1>2. QED
  BY <1>1, NearNow

\* The same of the state that a step leads to.
LEMMA ScanBeginsNext ==
    \A f \in Freezers :
        TypeOK' /\ TodoInv' /\ position'[f] = 0 => Near(SamplesOf(Completed(f)))'
<1>1. (\A f \in Freezers :
          TypeOK /\ TodoInv /\ position[f] = 0 => Near(SamplesOf(Completed(f))))'
  BY ScanBegins, PTL
<1>2. QED
  BY <1>1

\* The report has the samples of the scan it was derived from.
LEMMA ReportOfScan ==
    ASSUME NEW scan
    PROVE  ReportedBy(DeriveReports(scan)) = SamplesOf(scan)
BY DEF ReportedBy, DeriveReports, SamplesOf

LEMMA InitNear == Init => NearInv
BY DEF Init, RecorderInit, NearInv

-----------------------------------------------------------------------------
(* The count survives every step.                                          *)

LEMMA NearSame ==
    ASSUME UNCHANGED <<counters, todo>>, NEW base, Near(base)
    PROVE  Near(base)'
<1>1. Expected' = Expected
  BY ExpectedFrame
<1>2. QED
  BY <1>1 DEF Near

\* What has been published is a report of every stage.
LEMMA PublishedType ==
    ASSUME TypeOK, IInv
    PROVE  /\ \A f \in Freezers :
                 fpc[f] = "publish" => report[f] \in [Stages -> StageReports]
           /\ calibration_state = "Frozen" =>
                 frozen_calibration \in [Stages -> StageReports]
           /\ \A f \in Freezers :
                 fpc[f] \in {"rescan", "publish"} => calibration_state = "Freezing"
<1>1. \A f \in Freezers : fpc[f] = "publish" => report[f] \in [Stages -> StageReports]
  BY DEF IInv, PublisherInv
<1>2. calibration_state = "Frozen" => frozen_calibration \in [Stages -> StageReports]
  BY DEF TypeOK, IInv, BundleInv
<1>3. \A f \in Freezers :
         fpc[f] \in {"rescan", "publish"} => calibration_state = "Freezing"
  BY DEF IInv, SingleClaim, Claimants
<1>4. QED
  BY <1>1, <1>2, <1>3

LEMMA MarkerNear ==
    ASSUME TypeOK, TypeOK', IInv, TodoInv, NearInv,
           NEW m \in Markers, MarkerStep(m), UNCHANGED freezerVars
    PROVE  NearInv'
<1>1. UNCHANGED <<fpc, seen, position, report, calibration_state, frozen_calibration>>
  BY MarkerFrame DEF freezerVars
<1>2. ASSUME calibration_state # "Collecting"
      PROVE  /\ \A s \in Stages, p \in Populations :
                   Samples(Expected', s, p) = Samples(Expected, s, p)
             /\ \A c \in Cells : counters[c] =< counters'[c]
  BY <1>2, SamplesKept
<1>3. ASSUME calibration_state # "Collecting", NEW base, Near(base),
             \A s \in Stages, p \in Populations : base[s][p] \in Nat
      PROVE  Near(base)'
  BY <1>2, <1>3, NearStays
<1>4. ASSUME NEW f \in Freezers, fpc'[f] = "rescan"
      PROVE  Near(SamplesOf(Completed(f)))'
  <2>1. calibration_state # "Collecting" /\ fpc[f] = "rescan"
    BY <1>1, <1>4, PublishedType
  <2>2. Near(SamplesOf(Completed(f)))
    BY <2>1 DEF NearInv
  <2>3. QED
    BY <1>1, <1>2, <2>1, <2>2, ScanInterrupted
<1>5. ASSUME NEW f \in Freezers, fpc'[f] = "publish"
      PROVE  Near(ReportedBy(report[f]))'
  <2>1. /\ calibration_state # "Collecting" /\ fpc[f] = "publish"
        /\ report[f] \in [Stages -> StageReports]
    BY <1>1, <1>5, PublishedType
  <2>2. PICK base : base = ReportedBy(report[f])
    OBVIOUS
  <2>3. Near(base) /\ \A s \in Stages, p \in Populations : base[s][p] \in Nat
    BY <2>1, <2>2, ReportedType DEF NearInv
  <2>4. Near(base)'
    BY <1>3, <2>1, <2>3
  <2>5. base = ReportedBy(report[f])'
    BY <1>1, <2>2 DEF ReportedBy
  <2>6. QED
    BY <2>4, <2>5 DEF Near
<1>6. ASSUME calibration_state' = "Frozen"
      PROVE  Near(ReportedBy(frozen_calibration))'
  <2>1. /\ calibration_state = "Frozen"
        /\ frozen_calibration \in [Stages -> StageReports]
    BY <1>1, <1>6, PublishedType
  <2>2. PICK base : base = ReportedBy(frozen_calibration)
    OBVIOUS
  <2>3. Near(base) /\ \A s \in Stages, p \in Populations : base[s][p] \in Nat
    BY <2>1, <2>2, ReportedType DEF NearInv
  <2>4. Near(base)'
    BY <1>3, <2>1, <2>3
  <2>5. base = ReportedBy(frozen_calibration)'
    BY <1>1, <2>2 DEF ReportedBy
  <2>6. QED
    BY <2>4, <2>5 DEF Near
<1>7. QED
  BY <1>4, <1>5, <1>6 DEF NearInv

\* What a freezer's step leaves of its own scan and report.
LEMMA FreezerMoves ==
    ASSUME TypeOK, NEW f \in Freezers, FreezerStep(f), UNCHANGED markerVars
    PROVE  /\ UNCHANGED <<counters, todo>>
           /\ \A g \in Freezers : g # f => seen'[g] = seen[g]
           /\ fpc'[f] = "rescan" =>
                 \/ position'[f] = 0
                 \/ fpc[f] = "rescan" /\ ScanStep(f)
           /\ fpc'[f] = "publish" =>
                 \/ fpc[f] = "publish" /\ report'[f] = report[f]
                 \/ /\ fpc[f] = "rescan" /\ position[f] = ScanLength
                    /\ report'[f] = DeriveReports(seen[f])
<1> USE DEF TypeOK, recorderVars, markerVars, Return, BeginScan
<1>1. ASSUME NEW min \in Minimums, Call(f, min)
      PROVE  /\ UNCHANGED <<counters, todo, seen>>
             /\ fpc'[f] = "load"
  BY <1>1 DEF Call
<1>2. CASE LoadEntry(f)
  BY <1>2 DEF LoadEntry
<1>3. CASE ScanStep(f)
  BY <1>3 DEF ScanStep
<1>4. CASE Judge(f)
  BY <1>4 DEF Judge
<1>5. CASE Claim(f)
  BY <1>5 DEF Claim
<1>6. CASE Decide(f)
  BY <1>6 DEF Decide
<1>7. CASE Restore(f)
  BY <1>7 DEF Restore
<1>8. CASE PublishStage(f)
  BY <1>8 DEF PublishStage
<1>9. CASE Release(f)
  BY <1>9 DEF Release
<1>10. QED
  BY <1>1, <1>2, <1>3, <1>4, <1>5, <1>6, <1>7, <1>8, <1>9
     DEF FreezerStep, Proceed

\* Frozen is reached by publishing the report of every stage.
LEMMA ReachesFrozen ==
    ASSUME TypeOK, IInv, NEW f \in Freezers, FreezerStep(f),
           calibration_state' = "Frozen"
    PROVE  \/ /\ calibration_state = "Frozen"
              /\ frozen_calibration' = frozen_calibration
           \/ /\ fpc[f] = "publish"
              /\ frozen_calibration' = report[f]
<1>1. CASE calibration_state = "Frozen"
  BY <1>1, FrozenStable DEF IInv
<1>2. CASE Release(f)
  <2>1. /\ fpc[f] = "publish" /\ position[f] = NumStages
        /\ frozen_calibration' = frozen_calibration
    BY <1>2 DEF Release
  <2>2. /\ \A s \in Stages : frozen_calibration[s] = report[f][s]
        /\ report[f] \in [Stages -> StageReports]
    BY <2>1 DEF IInv, PublisherInv, Stages
  <2>3. frozen_calibration \in [Stages -> StageReports \cup {None}]
    BY DEF TypeOK
  <2>4. frozen_calibration = report[f]
    BY <2>2, <2>3
  <2>5. QED
    BY <2>1, <2>4
<1>3. CASE calibration_state # "Frozen" /\ ~Release(f)
  BY <1>3 DEF FreezerStep, Proceed, Call, LoadEntry, ScanStep, Judge, Claim,
              Decide, Restore, PublishStage, recorderVars
<1>4. QED
  BY <1>1, <1>2, <1>3

LEMMA FreezerNear ==
    ASSUME TypeOK, TypeOK', IInv, TodoInv, TodoInv', NearInv,
           NEW f \in Freezers, FreezerStep(f), UNCHANGED markerVars
    PROVE  NearInv'
<1>1. /\ UNCHANGED <<counters, todo>>
      /\ \A g \in Freezers : g # f => seen'[g] = seen[g]
      /\ fpc'[f] = "rescan" =>
            position'[f] = 0 \/ (fpc[f] = "rescan" /\ ScanStep(f))
      /\ fpc'[f] = "publish" =>
            \/ fpc[f] = "publish" /\ report'[f] = report[f]
            \/ /\ fpc[f] = "rescan" /\ position[f] = ScanLength
               /\ report'[f] = DeriveReports(seen[f])
  BY FreezerMoves
<1>2. \A g \in Freezers : g # f =>
         fpc'[g] = fpc[g] /\ position'[g] = position[g] /\ report'[g] = report[g]
  BY OtherFreezers
<1>3. ASSUME NEW g \in Freezers, Near(SamplesOf(Completed(g))),
             Completed(g)' = Completed(g)
      PROVE  Near(SamplesOf(Completed(g)))'
  <2>1. PICK base : base = SamplesOf(Completed(g))
    OBVIOUS
  <2>2. base = SamplesOf(Completed(g))'
    BY <1>3, <2>1 DEF SamplesOf
  <2>3. Near(base)'
    BY <1>1, <1>3, <2>1, NearSame
  <2>4. QED
    BY <2>2, <2>3 DEF Near
<1>4. ASSUME NEW g \in Freezers, fpc'[g] = "rescan"
      PROVE  Near(SamplesOf(Completed(g)))'
  <2>1. CASE g # f
    <3>1. Near(SamplesOf(Completed(g)))
      BY <1>2, <1>4, <2>1 DEF NearInv
    <3>2. Completed(g)' = Completed(g)
      BY <1>1, <1>2, <2>1 DEF Completed, ScanCell
    <3>3. QED
      BY <1>3, <3>1, <3>2
  <2>2. CASE g = f /\ position'[f] = 0
    <3>1. Near(SamplesOf(Completed(f)))'
      BY <2>2, ScanBeginsNext
    <3>2. QED
      BY <2>2, <3>1
  <2>3. CASE g = f /\ fpc[f] = "rescan" /\ ScanStep(f)
    <3>1. Completed(f)' = Completed(f)
      BY <2>3, ScanLoads
    <3>2. Near(SamplesOf(Completed(f)))
      BY <2>3 DEF NearInv
    <3>3. QED
      BY <1>3, <2>3, <3>1, <3>2
  <2>4. QED
    BY <1>1, <1>4, <2>1, <2>2, <2>3
<1>5. ASSUME NEW g \in Freezers, fpc'[g] = "publish"
      PROVE  Near(ReportedBy(report[g]))'
  <2>1. CASE fpc[g] = "publish" /\ report'[g] = report[g]
    <3>1. PICK base : base = ReportedBy(report[g])
      OBVIOUS
    <3>2. base = ReportedBy(report[g])'
      BY <2>1, <3>1 DEF ReportedBy
    <3>3. Near(base)'
      BY <1>1, <2>1, <3>1, NearSame DEF NearInv
    <3>4. QED
      BY <3>2, <3>3 DEF Near
  <2>2. CASE /\ g = f /\ fpc[f] = "rescan" /\ position[f] = ScanLength
             /\ report'[f] = DeriveReports(seen[f])
    <3>1. Completed(f) = seen[f]
      BY <2>2, ScanEnds
    <3>2. PICK base : base = SamplesOf(seen[f])
      OBVIOUS
    <3>3. base = SamplesOf(Completed(f))
      BY <3>1, <3>2
    <3>4. Near(base)'
      BY <1>1, <2>2, <3>3, NearSame DEF NearInv
    <3>5. base = ReportedBy(report[g])'
      <4>1. ReportedBy(report[g])' = ReportedBy(report'[g])
        BY DEF ReportedBy
      <4>2. report'[g] = DeriveReports(seen[f])
        BY <2>2
      <4>3. QED
        BY <3>2, <4>1, <4>2, ReportOfScan
    <3>6. QED
      BY <3>4, <3>5 DEF Near
  <2>3. QED
    BY <1>1, <1>2, <1>5, <2>1, <2>2
<1>6. ASSUME calibration_state' = "Frozen"
      PROVE  Near(ReportedBy(frozen_calibration))'
  <2>1. \/ calibration_state = "Frozen" /\ frozen_calibration' = frozen_calibration
        \/ fpc[f] = "publish" /\ frozen_calibration' = report[f]
    BY <1>6, ReachesFrozen
  <2>2. PICK base : base = ReportedBy(frozen_calibration)'
    OBVIOUS
  <2>3. \/ calibration_state = "Frozen" /\ base = ReportedBy(frozen_calibration)
        \/ fpc[f] = "publish" /\ base = ReportedBy(report[f])
    BY <2>1, <2>2 DEF ReportedBy
  <2>4. Near(base)
    BY <2>3 DEF NearInv
  <2>5. Near(base)'
    BY <1>1, <2>4, NearSame
  <2>6. QED
    BY <2>2, <2>5 DEF Near
<1>7. QED
  BY <1>4, <1>5, <1>6 DEF NearInv

LEMMA StepNear ==
    ASSUME TypeOK, TypeOK', IInv, BalanceInv, BalanceInv', NearInv, [Next]_vars
    PROVE  NearInv'
<1>0. TodoInv /\ TodoInv'
  BY DEF BalanceInv
<1>1. CASE UNCHANGED vars
  <2>1. /\ UNCHANGED <<counters, todo, fpc, seen, position, report>>
        /\ UNCHANGED <<calibration_state, frozen_calibration>>
    BY <1>1 DEF vars, recorderVars, markerVars, freezerVars
  <2>2. ASSUME NEW f \in Freezers, fpc'[f] = "rescan"
        PROVE  Near(SamplesOf(Completed(f)))'
    <3>1. PICK base : base = SamplesOf(Completed(f))
      OBVIOUS
    <3>2. Completed(f)' = Completed(f)
      BY <2>1 DEF Completed, ScanCell
    <3>3. base = SamplesOf(Completed(f))'
      BY <3>1, <3>2 DEF SamplesOf
    <3>4. Near(base)'
      BY <2>1, <2>2, <3>1, NearSame DEF NearInv
    <3>5. QED
      BY <3>3, <3>4 DEF Near
  <2>3. ASSUME NEW f \in Freezers, fpc'[f] = "publish"
        PROVE  Near(ReportedBy(report[f]))'
    <3>1. PICK base : base = ReportedBy(report[f])
      OBVIOUS
    <3>2. base = ReportedBy(report[f])'
      BY <2>1, <3>1 DEF ReportedBy
    <3>3. Near(base)'
      BY <2>1, <2>3, <3>1, NearSame DEF NearInv
    <3>4. QED
      BY <3>2, <3>3 DEF Near
  <2>4. ASSUME calibration_state' = "Frozen"
        PROVE  Near(ReportedBy(frozen_calibration))'
    <3>1. PICK base : base = ReportedBy(frozen_calibration)
      OBVIOUS
    <3>2. base = ReportedBy(frozen_calibration)'
      BY <2>1, <3>1 DEF ReportedBy
    <3>3. Near(base)'
      BY <2>1, <2>4, <3>1, NearSame DEF NearInv
    <3>4. QED
      BY <3>2, <3>3 DEF Near
  <2>5. QED
    BY <2>2, <2>3, <2>4 DEF NearInv
<1>2. QED
  BY <1>0, <1>1, MarkerNear, FreezerNear DEF Next

\* From the claim to the end of the process, the second scan, the report and
\* the published thresholds have missed no more than was announced at the
\* claim.
THEOREM NearInductive == Spec => []NearInv
<1>1. TypeOK /\ TypeOK' /\ IInv /\ BalanceInv /\ BalanceInv' /\ NearInv /\ [Next]_vars
         => NearInv'
  BY StepNear
<1>2. QED
  BY <1>1, InitNear, TypeCorrect, Inductive, BalanceInductive, PTL DEF Spec

\* What the published report has missed, stage by stage.
LEMMA PublishedNear ==
    ASSUME TypeOK, IInv, NearInv, calibration_state = "Frozen"
    PROVE  \E late \in [Stages -> Nat] :
              /\ SumFunctionOnSet(late, Stages) =< Cardinality(Markers)
              /\ \A s \in Stages, p \in Populations :
                    /\ frozen_calibration[s][p].samples \in Nat
                    /\ frozen_calibration[s][p].samples =< Samples(counters, s, p)
                    /\ Samples(Expected, s, p)
                          =< frozen_calibration[s][p].samples + late[s]
<1>1. Near(ReportedBy(frozen_calibration))
  BY DEF NearInv
<1>2. frozen_calibration \in [Stages -> StageReports]
  BY PublishedType
<1>3. QED
  BY <1>1, <1>2, ReportedType DEF Near

LEMMA SumOverStages ==
    ASSUME NEW f, DOMAIN f = Stages
    PROVE  SumFunction(f) = SumFunctionOnSet(f, Stages)
BY Zenon DEF SumFunction, SumFunctionOnSet, FoldFunction

LEMMA NearIsLate ==
    ASSUME TypeOK, IInv, NearInv
    PROVE  LateSamplesBounded
<1> SUFFICES ASSUME calibration_state = "Frozen", NEW p \in Populations
             PROVE  LET late == [s \in Stages |-> Samples(counters, s, p)
                                                    - frozen_calibration[s][p].samples]
                    IN  /\ \A s \in Stages : late[s] >= 0
                        /\ SumFunction(late) =< Cardinality(Markers)
  BY DEF LateSamplesBounded
<1> DEFINE late == [s \in Stages |-> Samples(counters, s, p)
                                       - frozen_calibration[s][p].samples]
<1>1. PICK owed \in [Stages -> Nat] :
         /\ SumFunctionOnSet(owed, Stages) =< Cardinality(Markers)
         /\ \A s \in Stages, q \in Populations :
               /\ frozen_calibration[s][q].samples \in Nat
               /\ frozen_calibration[s][q].samples =< Samples(counters, s, q)
               /\ Samples(Expected, s, q) =< frozen_calibration[s][q].samples + owed[s]
  BY PublishedNear
<1>2. ASSUME NEW s \in Stages
      PROVE  late[s] \in Int /\ owed[s] \in Int /\ late[s] >= 0 /\ late[s] =< owed[s]
  <2>1. /\ Samples(counters, s, p) \in Nat /\ Samples(Expected, s, p) \in Nat
        /\ Samples(counters, s, p) =< Samples(Expected, s, p)
    BY SampleTypes
  <2>2. PICK b \in Nat, o \in Nat : b = frozen_calibration[s][p].samples /\ o = owed[s]
    BY <1>1
  <2>3. b =< Samples(counters, s, p) /\ Samples(Expected, s, p) =< b + o
    BY <1>1, <2>2
  <2>4. late[s] = Samples(counters, s, p) - b
    BY <2>2
  <2>5. QED
    BY <2>1, <2>2, <2>3, <2>4
<1>3. SumFunction(late) = SumFunctionOnSet(late, Stages)
  BY SumOverStages
<1> HIDE DEF late
<1>4. SumFunctionOnSet(late, Stages) =< SumFunctionOnSet(owed, Stages)
  BY <1>2, StagesFinite, SumLeq
<1>5. SumFunctionOnSet(late, Stages) \in Int /\ SumFunctionOnSet(owed, Stages) \in Int
  BY <1>2, StagesFinite, SumType
<1>6. Cardinality(Markers) \in Nat
  BY FS_CardinalityType
<1>7. SumFunction(late) =< Cardinality(Markers)
  BY <1>1, <1>3, <1>4, <1>5, <1>6
<1>8. QED
  BY <1>2, <1>7 DEF late

\* At most one late sample of each marker in each population, over all stages,
\* for any number of markers and stages, and the report is never ahead.
THEOREM LateSamplesBoundedHolds == Spec => []LateSamplesBounded
<1>1. TypeOK /\ IInv /\ NearInv => LateSamplesBounded
  BY NearIsLate
<1>2. QED
  BY <1>1, TypeCorrect, Inductive, NearInductive, PTL

LEMMA NearIsCoherent ==
    ASSUME TypeOK, IInv, BalanceInv, NearInv
    PROVE  ReportCoherent
<1> DEFINE samples(s, p) == frozen_calibration[s][p].samples
           excess(p, q) ==
               SumFunction([s \in Stages |-> Max({samples(s, p) - samples(s, q), 0})])
<1> SUFFICES ASSUME calibration_state = "Frozen"
             PROVE  /\ excess("Local", "CumulativeAfter")
                          + excess("CumulativeAfter", "Local") =< Cardinality(Markers)
                    /\ excess("PreviousCumulative", "Local") =< Cardinality(Markers)
  BY DEF ReportCoherent
<1>1. PICK owed \in [Stages -> Nat] :
         /\ SumFunctionOnSet(owed, Stages) =< Cardinality(Markers)
         /\ \A s \in Stages, q \in Populations :
               /\ samples(s, q) \in Nat
               /\ samples(s, q) =< Samples(counters, s, q)
               /\ Samples(Expected, s, q) =< samples(s, q) + owed[s]
  BY PublishedNear
<1> DEFINE over(p, q) == [s \in Stages |-> Max({samples(s, p) - samples(s, q), 0})]
           after == over("Local", "CumulativeAfter")
           before == over("CumulativeAfter", "Local")
           both == [s \in Stages |-> after[s] + before[s]]
           ahead == over("PreviousCumulative", "Local")
<1>2. ASSUME NEW s \in Stages
      PROVE  /\ owed[s] \in Int /\ after[s] \in Int /\ before[s] \in Int /\ ahead[s] \in Int
             /\ both[s] = after[s] + before[s] /\ both[s] \in Int
             /\ both[s] =< owed[s] /\ ahead[s] =< owed[s]
  <2>1. PICK a \in Nat, b \in Nat, c \in Nat, o \in Nat :
           /\ a = samples(s, "Local") /\ b = samples(s, "CumulativeAfter")
           /\ c = samples(s, "PreviousCumulative") /\ o = owed[s]
    BY <1>1 DEF Populations
  <2>2. PICK x \in Nat, y \in Nat, z \in Nat :
           /\ x = Samples(Expected, s, "Local")
           /\ y = Samples(Expected, s, "CumulativeAfter")
           /\ z = Samples(Expected, s, "PreviousCumulative")
    BY SampleTypes DEF Populations
  <2>3. x = y /\ z =< x
    BY <2>2 DEF BalanceInv, StageBalance
  <2>4. a =< x /\ b =< y /\ c =< z
    <3>1. ASSUME NEW q \in Populations PROVE samples(s, q) =< Samples(Expected, s, q)
      <4>1. /\ samples(s, q) \in Nat /\ samples(s, q) =< Samples(counters, s, q)
        BY <1>1
      <4>2. /\ Samples(counters, s, q) \in Nat /\ Samples(Expected, s, q) \in Nat
            /\ Samples(counters, s, q) =< Samples(Expected, s, q)
        BY SampleTypes
      <4> HIDE DEF samples
      <4>3. QED
        BY <4>1, <4>2
    <3> HIDE DEF samples
    <3>2. QED
      BY <2>1, <2>2, <3>1 DEF Populations
  <2>5. x =< a + o /\ y =< b + o /\ z =< c + o
    <3> HIDE DEF samples
    <3>1. QED
      BY <1>1, <2>1, <2>2 DEF Populations
  <2>6. /\ after[s] = Max({a - b, 0}) /\ before[s] = Max({b - a, 0})
        /\ ahead[s] = Max({c - a, 0}) /\ both[s] = after[s] + before[s]
    BY <2>1
  <2>7. /\ Max({a - b, 0}) = IF a - b >= 0 THEN a - b ELSE 0
        /\ Max({b - a, 0}) = IF b - a >= 0 THEN b - a ELSE 0
        /\ Max({c - a, 0}) = IF c - a >= 0 THEN c - a ELSE 0
    <3>1. a - b \in Int /\ b - a \in Int /\ c - a \in Int /\ 0 \in Int
      OBVIOUS
    <3>2. QED
      BY <3>1, MaxOfTwo
  <2> HIDE DEF after, before, both, ahead
  <2>8. /\ after[s] = (IF a - b >= 0 THEN a - b ELSE 0)
        /\ before[s] = (IF b - a >= 0 THEN b - a ELSE 0)
        /\ ahead[s] = (IF c - a >= 0 THEN c - a ELSE 0)
    BY <2>6, <2>7
  <2>9. /\ after[s] \in Int /\ before[s] \in Int /\ ahead[s] \in Int
        /\ after[s] + before[s] =< o /\ ahead[s] =< o
    BY <2>3, <2>4, <2>5, <2>8
  <2>10. owed[s] = o /\ both[s] = after[s] + before[s]
    BY <2>1, <2>6
  <2>11. QED
    BY <2>9, <2>10
<1>3. /\ excess("Local", "CumulativeAfter") = SumFunctionOnSet(after, Stages)
      /\ excess("CumulativeAfter", "Local") = SumFunctionOnSet(before, Stages)
      /\ excess("PreviousCumulative", "Local") = SumFunctionOnSet(ahead, Stages)
  <2>1. DOMAIN after = Stages /\ DOMAIN before = Stages /\ DOMAIN ahead = Stages
    OBVIOUS
  <2>2. /\ excess("Local", "CumulativeAfter") = SumFunction(after)
        /\ excess("CumulativeAfter", "Local") = SumFunction(before)
        /\ excess("PreviousCumulative", "Local") = SumFunction(ahead)
    OBVIOUS
  <2> HIDE DEF after, before, ahead, excess
  <2>3. QED
    BY <2>1, <2>2, SumOverStages
<1> HIDE DEF after, before, both, ahead, excess
<1>4. SumFunctionOnSet(both, Stages)
         = SumFunctionOnSet(after, Stages) + SumFunctionOnSet(before, Stages)
  BY <1>2, StagesFinite, SumPlus
<1>5. /\ SumFunctionOnSet(both, Stages) =< SumFunctionOnSet(owed, Stages)
      /\ SumFunctionOnSet(ahead, Stages) =< SumFunctionOnSet(owed, Stages)
  BY <1>2, StagesFinite, SumLeq
<1>6. /\ SumFunctionOnSet(both, Stages) \in Int /\ SumFunctionOnSet(owed, Stages) \in Int
      /\ SumFunctionOnSet(ahead, Stages) \in Int
  BY <1>2, StagesFinite, SumType
<1>7. Cardinality(Markers) \in Nat /\ SumFunctionOnSet(owed, Stages) =< Cardinality(Markers)
  BY <1>1, FS_CardinalityType
<1>8. QED
  BY <1>3, <1>4, <1>5, <1>6, <1>7

\* The published populations disagree by no more than one sample of each
\* marker, over all stages, for any number of markers and stages.
THEOREM ReportCoherentHolds == Spec => []ReportCoherent
<1>1. TypeOK /\ IInv /\ BalanceInv /\ NearInv => ReportCoherent
  BY NearIsCoherent
<1>2. QED
  BY <1>1, TypeCorrect, Inductive, BalanceInductive, NearInductive, PTL
=============================================================================

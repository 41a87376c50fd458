------------------------------ MODULE Recorder ------------------------------
(***************************************************************************)
(* The writer side of a tracegrams registry: the flat slice of atomic      *)
(* counters (recorder.rs) and the checkpoints that threads record into it  *)
(* (context.rs).  A marker is a thread that drives one request context     *)
(* after another.  Every atomic operation of a checkpoint is a step of its *)
(* own: each counter increment, the load of the calibration state and the  *)
(* read of a stage's published thresholds interleave with every other      *)
(* thread.                                                                 *)
(*                                                                         *)
(* Abstraction: a matrix is one cell per stage (its bucket dimensions are  *)
(* the business of module Context), the 250 calibration buckets are merged *)
(* into the three classes a freeze tells apart, and the tail bits of an    *)
(* online cell are left out.  Only valid checkpoints are recorded here:    *)
(* rejected ones touch one diagnostic counter and nothing else.            *)
(***************************************************************************)
EXTENDS Integers, Sequences, FiniteSets

CONSTANTS
    Markers,        \* threads that record checkpoints
    NumStages,      \* registered stages, indexed from 0
    Latencies,      \* local latencies a checkpoint may measure
    Floor,          \* first latency above the lowest calibration bucket
    Ceiling,        \* first latency of the highest calibration bucket
    Endings,        \* outcomes a checkpoint may carry; None is a mark
    MaxRequests,    \* bound: requests each marker starts
    None

ASSUME MarkersAssumption == IsFiniteSet(Markers)
ASSUME NumStagesAssumption == NumStages \in Nat \ {0}
ASSUME LatencyAssumption ==
    /\ Latencies \subseteq Nat
    /\ Floor \in Nat \ {0} /\ Ceiling \in Nat /\ Floor < Ceiling
ASSUME MaxRequestsAssumption == MaxRequests \in Nat

ASSUME EndingsAssumption == Endings \subseteq {"Success", "Error", None}

Stages == 0 .. NumStages - 1
Populations == {"Local", "CumulativeAfter", "PreviousCumulative"}
Classes == {"Lower", "Finite", "Upper"}
Outcomes == {"Success", "Error"}
Diagnostics == {"SkippedWhileFreezing", "MissingPreviousThreshold"}

\* The class of the calibration bucket a latency falls into.
CalibrationClass(ns) ==
    IF ns < Floor THEN "Lower" ELSE IF ns < Ceiling THEN "Finite" ELSE "Upper"

CalibrationCells == {"calibration"} \X Stages \X Populations \X Classes

\* One cell per counter the recorder tells apart, named by segment.
Cells ==
    ({"local", "cumulative", "cause"} \X Stages)
    \cup ({"incoming"} \X (Stages \ {0}))
    \cup CalibrationCells
    \cup ({"online"} \X Stages \X {"First", "Predecessor"})
    \cup ({"completion"} \X Stages \X Outcomes)
    \cup ({"diagnostics"} \X Diagnostics)

VARIABLES
    counters,            \* Inner::counters
    calibration_state,   \* Inner::calibration_state
    frozen_calibration,  \* Inner::frozen_calibration, one OnceLock per stage
    ctx,                 \* the live context of each marker, or None
    mpc,                 \* where each marker is inside a checkpoint
    mark,                \* the checkpoint being recorded
    todo,                \* counters it has still to increment, in order
    requests,            \* requests started, for the bound
    fed                  \* history: what the live context has contributed to

recorderVars == <<counters, calibration_state, frozen_calibration>>
markerVars == <<ctx, mpc, mark, todo, requests, fed>>

NoMark == [stage |-> 0, local |-> 0, cumulative |-> 0, outcome |-> None]

RecorderInit ==
    /\ counters = [c \in Cells |-> 0]
    /\ calibration_state = "Collecting"
    /\ frozen_calibration = [s \in Stages |-> None]
    /\ ctx = [m \in Markers |-> None]
    /\ mpc = [m \in Markers |-> "idle"]
    /\ mark = [m \in Markers |-> NoMark]
    /\ todo = [m \in Markers |-> <<>>]
    /\ requests = [m \in Markers |-> 0]
    /\ fed = [m \in Markers |-> {}]

-----------------------------------------------------------------------------
(* The counters one checkpoint increments, in program order.               *)

HasPrevious(m) == ctx[m].previous # None

\* Mutant: a first mark also fills the matrices that need a predecessor.
MatrixCellsUnconditional(m, s) ==
    <<<<"local", s>>, <<"cumulative", s>>, <<"cause", s>>, <<"incoming", s>>>>

MatrixCells(m, s) ==
    <<<<"local", s>>, <<"cumulative", s>>>>
    \o IF HasPrevious(m) THEN <<<<"cause", s>>, <<"incoming", s>>>> ELSE <<>>

CalibrationCell(m, population, ns) ==
    <<"calibration", mark[m].stage, population, CalibrationClass(ns)>>

\* Mutant: a first mark also counts towards the previous-cumulative samples.
CollectingCellsUnconditional(m) ==
    <<CalibrationCell(m, "Local", mark[m].local),
      CalibrationCell(m, "CumulativeAfter", mark[m].cumulative),
      CalibrationCell(m, "PreviousCumulative", ctx[m].cumulative)>>

CollectingCells(m) ==
    <<CalibrationCell(m, "Local", mark[m].local),
      CalibrationCell(m, "CumulativeAfter", mark[m].cumulative)>>
    \o IF HasPrevious(m)
       THEN <<CalibrationCell(m, "PreviousCumulative", ctx[m].cumulative)>>
       ELSE <<>>

\* A predecessor mark needs the stage's previous-cumulative threshold, which
\* is absent when calibration saw no predecessor there.
OnlineCells(m) ==
    LET s == mark[m].stage
        thresholds == frozen_calibration[s]
    IN  IF thresholds = None
        THEN <<>>
        ELSE IF ~HasPrevious(m)
        THEN <<<<"online", s, "First">>>>
        ELSE IF thresholds["PreviousCumulative"].terminal = None
        THEN <<<<"diagnostics", "MissingPreviousThreshold">>>>
        ELSE <<<<"online", s, "Predecessor">>>>

SegmentsOf(cells) == {cells[i][1] : i \in DOMAIN cells}

CompletionCells(m) ==
    IF mark[m].outcome = None
    THEN <<>>
    ELSE <<<<"completion", mark[m].stage, mark[m].outcome>>>>

-----------------------------------------------------------------------------
(* The steps of a marker.                                                  *)

\* start and start_manual: the context remembers whether calibration had
\* frozen.  A context that was never finished is dropped.
Start(m) ==
    /\ mpc[m] = "idle"
    /\ requests[m] < MaxRequests
    /\ ctx' = [ctx EXCEPT ![m] =
                 [startedFrozen |-> calibration_state = "Frozen",
                  previous |-> None,
                  cumulative |-> 0]]
    /\ requests' = [requests EXCEPT ![m] = @ + 1]
    /\ fed' = [fed EXCEPT ![m] = {}]
    /\ UNCHANGED <<recorderVars, mpc, mark, todo>>

\* A valid mark, or finish when it carries an outcome: the destination
\* follows the previous stage, and the latencies are computed once.
BeginMark(m, stage, local, outcome) ==
    /\ mpc[m] = "idle"
    /\ ctx[m] # None
    /\ HasPrevious(m) => stage > ctx[m].previous
    /\ mark' = [mark EXCEPT ![m] =
                  [stage |-> stage, local |-> local,
                   cumulative |-> ctx[m].cumulative + local,
                   outcome |-> outcome]]
    /\ todo' = [todo EXCEPT ![m] = MatrixCells(m, stage)]
    /\ mpc' = [mpc EXCEPT ![m] = "counting"]
    /\ UNCHANGED <<recorderVars, ctx, requests, fed>>

\* One relaxed fetch_add.
Increment(m) ==
    /\ todo[m] # <<>>
    /\ counters' = [counters EXCEPT ![Head(todo[m])] = @ + 1]
    /\ todo' = [todo EXCEPT ![m] = Tail(@)]
    /\ UNCHANGED <<calibration_state, frozen_calibration,
                   ctx, mpc, mark, requests, fed>>

\* After the matrices, the calibration state decides what else the checkpoint
\* counts towards; the increments that follow act on the state loaded here.
LoadCollecting(m) ==
    /\ calibration_state = "Collecting"
    /\ todo' = [todo EXCEPT ![m] = CollectingCells(m) \o CompletionCells(m)]
    /\ mpc' = [mpc EXCEPT ![m] = "classified"]
    /\ fed' = [fed EXCEPT ![m] = @ \cup {"calibration"}]

\* Mutant: checkpoints keep sampling while a freezer scans.
LoadFreezingSamples(m) ==
    /\ calibration_state = "Freezing"
    /\ todo' = [todo EXCEPT ![m] = CollectingCells(m) \o CompletionCells(m)]
    /\ mpc' = [mpc EXCEPT ![m] = "classified"]
    /\ fed' = [fed EXCEPT ![m] = @ \cup {"calibration"}]

\* Mutant: a checkpoint is classified as soon as a freezer has claimed.
LoadFreezingClassifies(m) ==
    /\ calibration_state = "Freezing"
    /\ mpc' = [mpc EXCEPT ![m] = "online"]
    /\ UNCHANGED <<todo, fed>>

LoadFreezing(m) ==
    /\ calibration_state = "Freezing"
    /\ todo' = [todo EXCEPT ![m] =
                  <<<<"diagnostics", "SkippedWhileFreezing">>>>
                  \o CompletionCells(m)]
    /\ mpc' = [mpc EXCEPT ![m] = "classified"]
    /\ UNCHANGED fed

\* Mutant: contexts started before publication are classified too.
LoadFrozenUnconditional(m) ==
    /\ calibration_state = "Frozen"
    /\ mpc' = [mpc EXCEPT ![m] = "online"]
    /\ UNCHANGED <<todo, fed>>

LoadFrozen(m) ==
    /\ calibration_state = "Frozen"
    /\ IF ctx[m].startedFrozen
       THEN /\ mpc' = [mpc EXCEPT ![m] = "online"]
            /\ UNCHANGED todo
       ELSE /\ mpc' = [mpc EXCEPT ![m] = "classified"]
            /\ todo' = [todo EXCEPT ![m] = CompletionCells(m)]
    /\ UNCHANGED fed

LoadState(m) ==
    /\ mpc[m] = "counting"
    /\ todo[m] = <<>>
    /\ LoadCollecting(m) \/ LoadFreezing(m) \/ LoadFrozen(m)
    /\ UNCHANGED <<recorderVars, ctx, mark, requests>>

\* record_frozen_online once the context is known to have started frozen.
ReadThresholds(m) ==
    /\ mpc[m] = "online"
    /\ todo' = [todo EXCEPT ![m] = OnlineCells(m) \o CompletionCells(m)]
    /\ fed' = [fed EXCEPT ![m] = @ \cup SegmentsOf(OnlineCells(m))]
    /\ mpc' = [mpc EXCEPT ![m] = "classified"]
    /\ UNCHANGED <<recorderVars, ctx, mark, requests>>

\* The context advances after every shared update; finish consumes it.
EndMark(m) ==
    /\ mpc[m] = "classified"
    /\ todo[m] = <<>>
    /\ ctx' = [ctx EXCEPT ![m] =
                 IF mark[m].outcome = None
                 THEN [@ EXCEPT !.previous = mark[m].stage,
                                !.cumulative = mark[m].cumulative]
                 ELSE None]
    /\ mpc' = [mpc EXCEPT ![m] = "idle"]
    /\ mark' = [mark EXCEPT ![m] = NoMark]
    /\ UNCHANGED <<recorderVars, todo, requests, fed>>

MarkerStep(m) ==
    \/ Start(m)
    \/ \E s \in Stages, l \in Latencies, o \in Endings :
          BeginMark(m, s, l, o)
    \/ Increment(m)
    \/ LoadState(m)
    \/ ReadThresholds(m)
    \/ EndMark(m)
=============================================================================

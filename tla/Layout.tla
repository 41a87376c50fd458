-------------------------------- MODULE Layout --------------------------------
(***************************************************************************)
(* The geometry of the flat counters slice (recorder.rs, StorageLayout):   *)
(* where each segment of each stage starts, and the index a hot increment  *)
(* of one of its cells writes to.  The widths of the segments are          *)
(* parameters; a registry may have any number of stages up to MaxStages.   *)
(***************************************************************************)
EXTENDS Integers, FiniteSets

CONSTANTS
    BUCKETS, CALIBRATION_BUCKETS, ONLINE_COUNTERS_PER_STAGE,
    COMPLETION_COUNTERS_PER_STAGE, DIAGNOSTIC_COUNTERS,
    MaxStages,
    None

ASSUME WidthAssumption ==
    /\ BUCKETS \in Nat \ {0} /\ CALIBRATION_BUCKETS \in Nat \ {0}
    /\ ONLINE_COUNTERS_PER_STAGE \in Nat \ {0}
    /\ COMPLETION_COUNTERS_PER_STAGE \in Nat \ {0}
    /\ DIAGNOSTIC_COUNTERS \in Nat \ {0}
ASSUME BoundAssumption == MaxStages \in Nat

MATRIX_CELLS == BUCKETS * BUCKETS
CALIBRATION_POPULATIONS_PER_STAGE == 3

VARIABLES
    stage_count,    \* fixed when the registry is built
    earlier,        \* the cell of the increment before the latest one
    latest          \* the cell of the latest increment

vars == <<stage_count, earlier, latest>>

\* The offsets of the segments.
CumulativeStart == stage_count * BUCKETS
CauseStart == CumulativeStart + stage_count * BUCKETS
IncomingStart == CauseStart + stage_count * MATRIX_CELLS
CalibrationStart == IncomingStart + (stage_count - 1) * MATRIX_CELLS
OnlineStart ==
    CalibrationStart
    + stage_count * CALIBRATION_POPULATIONS_PER_STAGE * CALIBRATION_BUCKETS
CompletionStart == OnlineStart + stage_count * ONLINE_COUNTERS_PER_STAGE
DiagnosticStart == CompletionStart + stage_count * COMPLETION_COUNTERS_PER_STAGE

\* Mutant: the first stage has room for an incoming matrix at the end.
CounterCountPadded == DiagnosticStart + DIAGNOSTIC_COUNTERS + MATRIX_CELLS

CounterCount == DiagnosticStart + DIAGNOSTIC_COUNTERS

Segments ==
    {"Local", "Cumulative", "Cause", "Incoming", "Calibration0",
     "Calibration1", "Calibration2", "Online", "Completion"}

CalibrationGeometry(offset) ==
    [base |-> CalibrationStart + offset * CALIBRATION_BUCKETS,
     stride |-> CALIBRATION_POPULATIONS_PER_STAGE * CALIBRATION_BUCKETS,
     length |-> CALIBRATION_BUCKETS]

Contiguous(start, length) == [base |-> start, stride |-> length, length |-> length]

\* Mutant: incoming matrices are addressed as if the first stage had one.
GeometryFromZero(segment) ==
    CASE segment = "Local" -> Contiguous(0, BUCKETS)
      [] segment = "Cumulative" -> Contiguous(CumulativeStart, BUCKETS)
      [] segment = "Cause" -> Contiguous(CauseStart, MATRIX_CELLS)
      [] segment = "Incoming" -> Contiguous(IncomingStart, MATRIX_CELLS)
      [] segment = "Calibration0" -> CalibrationGeometry(0)
      [] segment = "Calibration1" -> CalibrationGeometry(1)
      [] segment = "Calibration2" -> CalibrationGeometry(2)
      [] segment = "Online" -> Contiguous(OnlineStart, ONLINE_COUNTERS_PER_STAGE)
      [] segment = "Completion" ->
            Contiguous(CompletionStart, COMPLETION_COUNTERS_PER_STAGE)

\* Incoming matrices start one matrix early: stage 0 has none.
Geometry(segment) ==
    CASE segment = "Local" -> Contiguous(0, BUCKETS)
      [] segment = "Cumulative" -> Contiguous(CumulativeStart, BUCKETS)
      [] segment = "Cause" -> Contiguous(CauseStart, MATRIX_CELLS)
      [] segment = "Incoming" ->
            Contiguous(IncomingStart - MATRIX_CELLS, MATRIX_CELLS)
      [] segment = "Calibration0" -> CalibrationGeometry(0)
      [] segment = "Calibration1" -> CalibrationGeometry(1)
      [] segment = "Calibration2" -> CalibrationGeometry(2)
      [] segment = "Online" -> Contiguous(OnlineStart, ONLINE_COUNTERS_PER_STAGE)
      [] segment = "Completion" ->
            Contiguous(CompletionStart, COMPLETION_COUNTERS_PER_STAGE)

\* The cells hot increments name: a segment of a stage and an offset in it, or
\* a diagnostic.  Matrix cells are row-major pairs of buckets.
StagesOf(segment) == (IF segment = "Incoming" THEN 1 ELSE 0) .. stage_count - 1
MatrixOffset(row, column) == row * BUCKETS + column
Offsets(segment) ==
    IF segment \in {"Cause", "Incoming"}
    THEN {MatrixOffset(row, column) : row, column \in 0 .. BUCKETS - 1}
    ELSE 0 .. Geometry(segment).length - 1
SegmentCells ==
    UNION {{<<segment, stage, offset>> :
              stage \in StagesOf(segment), offset \in Offsets(segment)} :
              segment \in Segments}
Cells ==
    SegmentCells \cup {<<"Diagnostic", 0, d>> : d \in 0 .. DIAGNOSTIC_COUNTERS - 1}

\* The counter an increment of a cell writes to.
Index(cell) ==
    IF cell[1] = "Diagnostic" THEN DiagnosticStart + cell[3]
    ELSE Geometry(cell[1]).base + cell[2] * Geometry(cell[1]).stride + cell[3]

Init ==
    /\ stage_count \in 1 .. MaxStages
    /\ earlier = None
    /\ latest = None

Increment(cell) ==
    /\ earlier' = latest
    /\ latest' = cell
    /\ UNCHANGED stage_count

Next == \E cell \in Cells : Increment(cell)

Spec == Init /\ [][Next]_vars

-----------------------------------------------------------------------------
(* Properties.                                                             *)

\* Two increments share a counter only if they name the same cell: no offset
\* runs over into the next row, population, stage or segment.
CountersDistinct ==
    earlier # None /\ earlier # latest => Index(earlier) # Index(latest)

\* An increment stays inside the slice, and the slice has no counter that no
\* cell names: its length is the memory the recorder reports.
SliceExact ==
    /\ latest # None => Index(latest) \in 0 .. CounterCount - 1
    /\ earlier = None => Cardinality(Cells) = CounterCount
=============================================================================

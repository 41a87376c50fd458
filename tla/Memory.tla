-------------------------------- MODULE Memory --------------------------------
(***************************************************************************)
(* The memory estimate a builder makes before it allocates a recorder      *)
(* (init.rs, estimate_memory): every size is computed with checked usize   *)
(* arithmetic, from the geometry of module Layout, and building is refused *)
(* when one of them does not fit.                                          *)
(*                                                                         *)
(* Abstraction: a checked sum of numbers that are not negative overflows   *)
(* exactly when its total does, so the lengths of the stage names are      *)
(* given as their sum.                                                     *)
(***************************************************************************)
EXTENDS Layout

CONSTANTS
    UsizeMaxima,    \* usize::MAX of the targets considered
    NameBytes,      \* total lengths of the stage names
    CounterBytes,   \* size_of AtomicU64,
    ThresholdBytes, \*   OnceLock<FrozenStageCalibration>,
    HeaderBytes,    \*   Box<str>,
    InnerBytes,     \*   Inner
    WordBytes       \*   and usize

ASSUME SizeAssumption ==
    /\ UsizeMaxima \subseteq Nat /\ NameBytes \subseteq Nat
    /\ {CounterBytes, ThresholdBytes, HeaderBytes, InnerBytes, WordBytes}
          \subseteq Nat \ {0}

VARIABLES
    usize_max,  \* of the target
    name_bytes, \* of the stages that were registered
    memory      \* what building answered, or None: the estimate or a refusal

memoryVars == <<vars, usize_max, name_bytes, memory>>

MemoryInit ==
    /\ Init
    /\ usize_max \in UsizeMaxima
    /\ name_bytes \in {n \in NameBytes : n >= stage_count}
    /\ memory = None

\* The results of the checked operations of StorageLayout::new.
LayoutResults ==
    {stage_count * BUCKETS, CauseStart,
     stage_count * MATRIX_CELLS, IncomingStart,
     (stage_count - 1) * MATRIX_CELLS, CalibrationStart,
     stage_count * CALIBRATION_POPULATIONS_PER_STAGE,
     stage_count * CALIBRATION_POPULATIONS_PER_STAGE * CALIBRATION_BUCKETS,
     OnlineStart,
     stage_count * ONLINE_COUNTERS_PER_STAGE, CompletionStart,
     stage_count * COMPLETION_COUNTERS_PER_STAGE, DiagnosticStart,
     CounterCount}

MatrixCounterCount == CalibrationStart
CalibrationCounterCount == OnlineStart - CalibrationStart
AuxiliaryCounterCount ==
    CounterCount - MatrixCounterCount - CalibrationCounterCount

\* The items of the estimate, and the running totals of their sum.
matrix_bytes == MatrixCounterCount * CounterBytes
calibration_bytes == CalibrationCounterCount * CounterBytes
auxiliary_bytes == AuxiliaryCounterCount * CounterBytes
calibration_threshold_bytes == stage_count * ThresholdBytes
stage_headers == stage_count * HeaderBytes
stage_metadata_bytes == stage_headers + name_bytes
recorder_metadata_bytes == InnerBytes + 2 * WordBytes

CounterTotal == matrix_bytes + calibration_bytes + auxiliary_bytes
StageTotal == CounterTotal + calibration_threshold_bytes + stage_metadata_bytes
EstimateTotal == StageTotal + recorder_metadata_bytes

EstimateResults ==
    {matrix_bytes, calibration_bytes, auxiliary_bytes,
     calibration_threshold_bytes, stage_headers, name_bytes,
     stage_metadata_bytes, recorder_metadata_bytes,
     matrix_bytes + calibration_bytes, CounterTotal,
     CounterTotal + calibration_threshold_bytes, StageTotal, EstimateTotal}

Fit(results) == \A bytes \in results : bytes =< usize_max

\* Mutant: the calibration distributions are counted as metadata, too.
EstimateTwice ==
    IF Fit(LayoutResults) /\ Fit(EstimateResults)
    THEN [result |-> "Ok",
          matrix |-> matrix_bytes,
          calibration |-> calibration_bytes,
          metadata |-> EstimateTotal - matrix_bytes]
    ELSE [result |-> "SizeOverflow"]

\* The subtractions that leave the metadata cannot fail.
Estimate ==
    IF Fit(LayoutResults) /\ Fit(EstimateResults)
    THEN [result |-> "Ok",
          matrix |-> matrix_bytes,
          calibration |-> calibration_bytes,
          metadata |-> EstimateTotal - matrix_bytes - calibration_bytes]
    ELSE [result |-> "SizeOverflow"]

Build ==
    /\ memory = None
    /\ memory' = Estimate
    /\ UNCHANGED <<vars, usize_max, name_bytes>>

\* A recorder that was built counts.
Record ==
    /\ memory # None /\ memory.result = "Ok"
    /\ Next
    /\ UNCHANGED <<usize_max, name_bytes, memory>>

MemorySpec == MemoryInit /\ [][Build \/ Record]_memoryVars

-----------------------------------------------------------------------------
(* Properties.                                                             *)

\* Memory of the counters that increments can name, segment by segment.
CountersOf(segments) ==
    CounterBytes * Cardinality({cell \in Cells : cell[1] \in segments})
Matrices == {"Local", "Cumulative", "Cause", "Incoming"}
Calibrations == {"Calibration0", "Calibration1", "Calibration2"}

\* The memory a recorder takes: a counter for every cell, a publication cell and
\* a name for every stage, and the recorder itself behind its reference counts.
TrueTotal ==
    CountersOf(Segments \cup {"Diagnostic"})
    + stage_count * (ThresholdBytes + HeaderBytes) + name_bytes
    + InnerBytes + 2 * WordBytes

\* The estimate is exact: its parts are those of the counters that increments
\* address, total_bytes adds them up to all the memory of the recorder without
\* overflowing, and a build is refused only for a total that does not fit.
EstimateExact ==
    (memory # None /\ latest = None) =>
        IF TrueTotal > usize_max
        THEN memory.result = "SizeOverflow"
        ELSE /\ memory.result = "Ok"
             /\ memory.matrix = CountersOf(Matrices)
             /\ memory.calibration = CountersOf(Calibrations)
             /\ memory.matrix + memory.calibration + memory.metadata = TrueTotal
=============================================================================

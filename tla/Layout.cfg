\* Registries of one to three stages, with small bucket grids, the real widths of
\* the other segments, and the sizes of a 64-bit target but for its usize: one
\* and two stages just fit, or just do not, for the longer names.
SPECIFICATION MemorySpec
CONSTANTS
    BUCKETS = 2
    CALIBRATION_BUCKETS = 3
    ONLINE_COUNTERS_PER_STAGE = 12
    COMPLETION_COUNTERS_PER_STAGE = 2
    DIAGNOSTIC_COUNTERS = 8
    MaxStages = 3
    UsizeMaxima = {63, 511, 1023, 65535}
    NameBytes = {3, 31, 32, 207, 208}
    CounterBytes = 8
    ThresholdBytes = 40
    HeaderBytes = 16
    InnerBytes = 96
    WordBytes = 8
    None = None
INVARIANTS
    CountersDistinct
    SliceExact
    EstimateExact
\* A registry that is refused records nothing.
CHECK_DEADLOCK FALSE

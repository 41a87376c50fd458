\* The pinned tables, with samples in their first interval.
SPECIFICATION Spec
CONSTANTS
    DefaultBounds <- DEFAULT_BOUNDS
    CalibrationBounds <- CALIBRATION_BOUNDS
    Latencies = {99, 100, 101, 107, 108, 134, 135}
    Quantiles <- Median
    ProductBits = 6
    MaxSamples = 4
    None = None
INVARIANTS
    RelativeErrorBounded
\* The number of samples is bounded.
CHECK_DEADLOCK FALSE

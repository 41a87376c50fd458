\* Every population of up to four samples over two ordinary intervals.
SPECIFICATION Spec
CONSTANTS
    DefaultBounds <- SmallDefault
    CalibrationBounds <- SmallCalibration
    Latencies = {0, 1, 2, 4, 5, 7, 9, 11, 12}
    Quantiles <- SmallQuantiles
    ProductBits = 6
    MaxSamples = 4
    None = None
INVARIANTS
    NestedSearchExact
    EstimateEncloses
    ThresholdInBucket
\* The number of samples is bounded.
CHECK_DEADLOCK FALSE

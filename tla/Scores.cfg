\* Every three marks of a stage, first or not, seen whole and torn.
SPECIFICATION DiagnosisSpec
CONSTANTS
    Bounds <- TwoBuckets
    Latencies = {1, 2}
    Previouses = {1, 2}
    LocalThreshold = 2
    PreviousThreshold = 2
    AfterThreshold = 3
    PolicyThresholds <- AnyPolicy
    Quantiles <- UpperHalf
    ProductBits = 6
    MaxSamples = 3
    None = None
INVARIANTS
    TornScoresCoherent
    OnlineScoresExact
    LabelNeedsEvidence
\* A behaviour ends with its scan.
CHECK_DEADLOCK FALSE

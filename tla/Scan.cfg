\* Two markers straddle the second scan of a freezer, and one observer scans.
SPECIFICATION SnapshotSpec
CONSTANTS
    Markers = {m1, m2}
    Freezers = {f1}
    NumStages = 1
    Latencies = {1}
    Floor = 1
    Ceiling = 3
    Endings = {None}
    MaxRequests = 2
    Minimums = {1}
    QuantileNum = 1
    QuantileDen = 2
    MaxCalls = 1
    None = None
    Observers = {o1}
    MaxSnapshots = 1
    Scanned <- OnlineOnly
SYMMETRY Symmetry
INVARIANTS
    LateSamplesBounded
    ReportCoherent
    OnlineImpliesThresholds
    DiagnosisAnswered
\* Requests and calls are bounded, so a behaviour may end.
CHECK_DEADLOCK FALSE

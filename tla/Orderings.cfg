\* Three threads that may each record, freeze and look, with two stages: claims
\* that are given back, lost exchanges and contexts that change threads.
SPECIFICATION Spec
CONSTANTS
    Threads = {t1, t2, t3}
    NumStages = 2
    Minimum = 1
    MaxRequests = 2
    MaxCalls = 2
    MaxSnapshots = 1
    None = None
SYMMETRY Symmetry
INVARIANTS
    FrozenMeansPublished
    ReportNeverAhead
    ClaimsAccumulate
\* Requests, calls and snapshots are bounded, so a behaviour may end.
CHECK_DEADLOCK FALSE

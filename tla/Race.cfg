\* Two freezers race each other and a marker over one stage; samples below
\* Floor make a claim fail, so claims are also given back.  Only freezers are
\* fair: markers may stop anywhere.
SPECIFICATION FreezerFairSpec
CONSTANTS
    Markers = {m1}
    Freezers = {f1, f2}
    NumStages = 1
    Latencies = {0, 1}
    Floor = 1
    Ceiling = 3
    Endings = {None}
    MaxRequests = 2
    Minimums = {1}
    QuantileNum = 1
    QuantileDen = 2
    MaxCalls = 1
    None = None
INVARIANTS
    TypeOK
    SingleClaim
    PublicationNeverPanics
PROPERTIES
    ThresholdsFinal
    ImplementsContract
    ClaimResolved
\* Requests and calls are bounded, so a behaviour may end.
CHECK_DEADLOCK FALSE

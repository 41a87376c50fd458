\* Two stages and four requests: a bundle of more than one stage, contexts on
\* both sides of the freeze, predecessors without a threshold, and a
\* predecessor sample between the scans that makes a ready population unready.
SPECIFICATION Spec
CONSTANTS
    Markers = {m1}
    Freezers = {f1}
    NumStages = 2
    Latencies = {1}
    Floor = 1
    Ceiling = 3
    Endings = {None}
    MaxRequests = 4
    Minimums = {1, 2}
    QuantileNum = 1
    QuantileDen = 2
    MaxCalls = 1
    None = None
INVARIANTS
    AcceptedBundleIsReady
    NoPartialBundle
    OnlineNeedsFrozen
    PopulationsNeverMix
    Accounting
\* Requests and calls are bounded, so a behaviour may end.
CHECK_DEADLOCK FALSE

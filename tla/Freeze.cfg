\* A first scan that began before the freeze and ended after it.
SPECIFICATION WindowSpec
CONSTANTS
    Markers = {m1}
    Freezers = {f1}
    NumStages = 1
    Latencies = {1}
    Floor = 1
    Ceiling = 3
    Endings = {None}
    MaxRequests = 1
    Minimums = {1}
    QuantileNum = 1
    QuantileDen = 2
    MaxCalls = 1
    None = None
    Observers = {o1}
    MaxSnapshots = 2
    Scanned <- WrittenCells
INVARIANTS
    AcceptedWindowStartsFrozen
\* Requests and calls are bounded, so a behaviour may end.
CHECK_DEADLOCK FALSE

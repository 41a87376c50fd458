\* One observer scans twice while a marker completes a request and a freezer
\* freezes.
SPECIFICATION WindowSpec
CONSTANTS
    Markers = {m1}
    Freezers = {f1}
    NumStages = 1
    Latencies = {1}
    Floor = 1
    Ceiling = 3
    Endings = {"Error"}
    MaxRequests = 1
    Minimums = {1}
    QuantileNum = 1
    QuantileDen = 2
    MaxCalls = 1
    None = None
    Observers = {o1}
    MaxSnapshots = 2
    Scanned <- WrittenCells
INVARIANTS
    WindowBounded
    AcceptedWindowEndsFrozen
\* Requests and calls are bounded, so a behaviour may end.
CHECK_DEADLOCK FALSE

\* One context after another over three stages of two recorders, used where it
\* belongs and where it does not.  Recorder 6 was frozen before.
SPECIFICATION Spec
CONSTANTS
    Contexts = {c1}
    Recorders = {1, 6}
    FrozenRecorders = {6}
    NumStages = 3
    MaxNs = 2
    Bounds = {2}
    Outcomes = {"Success"}
    MaxCalls = 3
    None = None
INVARIANTS
    TypeOK
    FlowConserved
    ContextFollowsPath
    ElapsedTelescopes
    EveryCallAccounted
\* Calls are bounded, so a behaviour may end.
CHECK_DEADLOCK FALSE

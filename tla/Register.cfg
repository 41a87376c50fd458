\* Three builders compete for two cookies and register stages; exchanges fail,
\* also spuriously, and yet every claim ends.
SPECIFICATION FairSpec
CONSTANTS
    Builders = {b1, b2, b3}
    MaxCookie = 2
    MaxStages = 2
    Names = {n1, n2}
    EmptyName = empty
    Quantiles = {q99, bad}
    ValidQuantiles = {q99}
    DefaultQuantile = q99
    None = None
INVARIANTS
    TypeOK
    CookiesUnique
    ExhaustionHonest
    IdentifiersResolve
    BuiltRegistrySound
PROPERTIES
    ClaimTerminates
\* Builders are consumed, so a behaviour may end.
CHECK_DEADLOCK FALSE

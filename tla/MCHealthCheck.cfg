CONSTANTS
    Requests = {q1, q2}
    Zones <- MCZones
    CleanZone <- MCClean
    TTL = 2
    Duration = 2
    WriteTimeout = 1
    MaxTime = 4
SPECIFICATION Spec
SYMMETRY Symmetry
INVARIANTS
    FreshEnough
    ForcedRefreshIsFresh
    VerdictsAgree

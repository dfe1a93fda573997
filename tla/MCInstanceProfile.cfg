SPECIFICATION FairSpec
CONSTANTS
    None = None
    r1 = r1
    r2 = r2
    k1 = k1
    k2 = k2
    sys = sys
    v1 = v1
    v2 = v2
    Roles = {r1, r2}
    TagKeys = {k1, k2, sys}
    SystemKeys = {sys}
    TagValues = {v1, v2}
    ByName = TRUE
    Specs <- ProfileSpecs
    Budget <- ProfileBudget
INVARIANTS
    TypeOK
    RoomForRole
    SuccessMeansApplied
PROPERTIES
    Converges
CHECK_DEADLOCK FALSE

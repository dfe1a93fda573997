SPECIFICATION FairSpec
CONSTANTS
    p = p
    q = q
    r = r
    i = i
    Policies = {p, q}
    Roles = {r}
    Profiles = {i}
    Specs <- CRSpecs
    Creations <- CRCreations
    Budget <- SmallBudget
INVARIANTS
    TypeOK
    Grounded
    SpecsKept
PROPERTIES
    GrantsKept
    ComesUp
    Lingers
CHECK_DEADLOCK FALSE

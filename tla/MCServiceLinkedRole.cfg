SPECIFICATION SLRFairSpec
CONSTANTS
    None = None
    d1 = d1
    d2 = d2
    Descriptions = {d1, d2}
    ByName = FALSE
    SLRSpecs <- RoleSpecs
    Budget <- SLRBudget
INVARIANTS
    SLRTypeOK
    DeletionAsked
PROPERTIES
    SLRConverges
CHECK_DEADLOCK FALSE

SPECIFICATION FairSpec
CONSTANTS
    None = None
    t1 = t1
    t2 = t2
    c1 = c1
    c2 = c2
    bad = bad
    k1 = k1
    k2 = k2
    sys = sys
    v1 = v1
    v2 = v2
    Thumbprints = {t1, t2}
    Retrieved = t1
    Clients = {c1, c2, bad}
    BadClients = {bad}
    TagKeys = {k1, k2, sys}
    SystemKeys = {sys}
    TagValues = {v1, v2}
    ByName = FALSE
    Specs <- BareSpecs
    Budget <- LateInitBudget
PROPERTIES
    ThumbprintsInitialized
CHECK_DEADLOCK FALSE

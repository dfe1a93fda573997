CONSTANTS
    None = None
    d1 = d1
    d2 = d2
    bad = bad
    k1 = k1
    k2 = k2
    v1 = v1
    v2 = v2
    plain = plain
    other = other
    Docs = {d1, d2, bad}
    BadDocs = {bad}
    TagKeys = {k1, k2}
    TagValues = {v1, v2}
    Descriptions = {plain, other}
    Limit = 3
    Specs <- EditSpecs
    Budget <- PolicyBudget
SPECIFICATION FairSpec
INVARIANTS
    TypeOK
    RoomForVersion
    SuccessMeansApplied
PROPERTIES
    HistoryKept
    ImplementsLifecycle
    Converges
CHECK_DEADLOCK FALSE

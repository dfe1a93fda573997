SPECIFICATION FairSpec
CONSTANTS
    None = None
    p1 = p1
    p2 = p2
    n1 = n1
    n2 = n2
    d1 = d1
    d2 = d2
    bad = bad
    esc = esc
    pa = pa
    pb = pb
    PolicyARNs = {p1, p2}
    Quota = 2
    InlineNames = {n1, n2}
    Docs = {d1, d2, bad, esc}
    BadDocs = {bad}
    Unescape <- UnescapeDoc
    Paths = {pa, pb}
    DefaultPath = pa
    ByName = TRUE
    Specs <- GroupSpecs
    Budget <- GroupBudget
INVARIANTS
    TypeOK
    PoliciesNeverDip
    NothingForgotten
PROPERTIES
    Converges
CHECK_DEADLOCK FALSE

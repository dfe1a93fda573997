SPECIFICATION FairSpec
CONSTANTS
    None = None
    Nil = Nil
    Empty = Empty
    p1 = p1
    p2 = p2
    n1 = n1
    n2 = n2
    d1 = d1
    d2 = d2
    bad = bad
    esc = esc
    pa = pa
    pb = pb
    k1 = k1
    k2 = k2
    sys = sys
    own = own
    v1 = v1
    PolicyARNs = {p1, p2}
    InlineNames = {n1, n2}
    Docs = {d1, d2, bad, esc}
    BadDocs = {bad}
    Unescape <- UnescapeDoc
    Paths = {pa, pb}
    DefaultPath = pa
    TagKeys = {k1, k2, sys, own}
    TagValues = {v1, Empty}
    SystemKeys = {sys}
    ControllerTags <- OwnTag
    MaxListed = 2
    ByName = TRUE
    Specs <- UserSpecs
    Budget <- UserBudget
INVARIANTS
    TypeOK
    NothingForgotten
PROPERTIES
    Converges
CHECK_DEADLOCK FALSE

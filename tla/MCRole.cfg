CONSTANTS
    None = None
    p1 = p1
    p2 = p2
    p3 = p3
    n1 = n1
    n2 = n2
    k1 = k1
    k2 = k2
    sys = sys
    v1 = v1
    v2 = v2
    d1 = d1
    d2 = d2
    bad = bad
    raw = raw
    s1 = s1
    s2 = s2
    huge = huge
    slash = slash
    team = team
    e1 = e1
    e2 = e2
    InlineNames = {n1, n2}
    Docs = {d1, d2, bad, raw}
    BadDocs = {bad}
    Unescape <- MCUnescape
    TagValues = {v1, v2}
    Sessions = {s1, s2, huge}
    DefaultSession = s1
    BadSessions = {huge}
    Paths = {slash, team}
    DefaultPath = slash
    Descriptions = {e1, e2}
    PolicyARNs = {p1, p2, p3}
    TagKeys = {k1, k2, sys}
    SystemKeys = {sys}
    Specs <- UpdateSpecs
    Budget <- OneOfEach
SPECIFICATION FairSpec
INVARIANTS
    TypeOK
    GrantsNeverDip
    InlineNeverMissing
    SuccessMeansApplied
    NoOrphan
PROPERTIES
    SystemTagsKept
    ImplementsLifecycle
    Converges
CHECK_DEADLOCK FALSE

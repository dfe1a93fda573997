CONSTANTS
    w1 = w1
    w2 = w2
    w3 = w3
    Workers = {w1, w2, w3}
    Ids = {1, 2}
    MaxCalls = 2
SPECIFICATION MFFairSpec
INVARIANTS
    MFTypeOK
    AtMostOnePerWorker
PROPERTIES
    CallsReturn
CHECK_DEADLOCK FALSE

CONSTANTS
    q1 = q1  i1 = i1  x1 = x1
    w1 = w1  w2 = w2
    Query = {}
    Ingest = {i1}
    Malformed = {}
    Garbage = {}
    Worker = {w1, w2}
    MaxRetries = 2
    FaultLimit = 0
    StopLimit = 1
    NoMsg = NoMsg
SPECIFICATION Spec
PROPERTY ShutdownLeavesNoTask
CHECK_DEADLOCK FALSE

CONSTANTS
    q1 = q1  i1 = i1  x1 = x1
    w1 = w1  w2 = w2
    Query = {q1}
    Ingest = {i1}
    Malformed = {x1}
    Garbage = {}
    Worker = {w1, w2}
    MaxRetries = 2
    FaultLimit = 1
    StopLimit = 1
    NoMsg = NoMsg
SPECIFICATION FairSpec
INVARIANTS
    TypeOK
    QueryNeverLost
    OneResult
    BoundedExecutions
    SilentRetries
    NoRedeliveryWhileIngesting
PROPERTIES
    EverySettled
    EveryQueryAnswered
CHECK_DEADLOCK FALSE

SPECIFICATION FairSpec
CONSTANTS
    a = a
    b = b
    c = c
    ghost = ghost
    NoValue = NoValue
    NoTarget = NoTarget
    Node = {a, b, c}
    Key = {"bok_id", "topic", "docs", "result"}
    Reply = {"yes", "other"}
    RecursionLimit = 4
    Payload <- Payloads
INVARIANTS
    TypeOK
    OwnCollection
    FreeRefusal
    CeilingIsForCycles
PROPERTIES
    NothingDropped
    RequestEnds

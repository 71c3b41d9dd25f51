\* Any requests in any order, each of which may fail.
SPECIFICATION Spec
CONSTANTS
    KeyHeads = 2
    Repeat = 3
    HeadWidth = 2
    Semantic <- MCSemantic
    NoExpert = 9
    Bytes <- MCBytes
    Budget = 5
    MaxSemantics = 2
    MaxCount = 2
    TraceCapacity <- MCTraceCapacity
    Layer = {0}
    Routable = {0, 1}
    MaxEvents = 4
    MaxUncounted = 1
CHECK_DEADLOCK FALSE
INVARIANTS AccountsServed TracesTruthful CanonicalOrder

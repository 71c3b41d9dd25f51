\* The mixture of experts over the weight provider.
SPECIFICATION MoeSpec
CONSTANTS
    KeyHeads = 1
    Repeat = 1
    HeadWidth = 1
    Semantic <- MCSemantic
    NoExpert = 9
    Bytes <- MCBytes
    Budget = 30
    MaxSemantics = 7
    MaxCount = 40
    TraceCapacity <- MCTraceCapacity
    Layer = {0}
    Routable = {0, 1, 2, 3}
    MaxEvents = 60
    MaxUncounted = 0
    ExpertCount = 4
    TopK = 2
    Probability = {0, 1, 2}
    MaxTokens = 3
    MaxCalls = 1
CHECK_DEADLOCK FALSE
INVARIANTS RouteAsDocumented OutputOfRoute TracesAgree

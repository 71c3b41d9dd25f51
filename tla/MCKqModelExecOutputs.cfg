\* An observer that requests expert weights during a call: the request counters
\* are then no multiple of three, and the call fails after the greedy prefill
\* has decoded into the caller's buffer.
CONSTANTS
    Token = {t, eog}
    Padded = {pad}
    Eog = {eog}
    NLayers = 2
    QsaLayers = {2}
    Capacity = 3
    MaxDraws = 1
    NoToken = none
    ObserverProvider = TRUE
SPECIFICATION Spec
INVARIANTS
    OutputsPublished

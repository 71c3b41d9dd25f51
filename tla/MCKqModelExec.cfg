CONSTANTS
    Token = {t, eog}
    Padded = {pad}
    Eog = {eog}
    NLayers = 3
    QsaLayers = {2}
    Capacity = 3
    MaxDraws = 2
    NoToken = none
    ObserverProvider = TRUE
SPECIFICATION Spec
INVARIANTS
    Lockstep
    RollbackSound
    LogitsOfLayers

\* The executor against the atomic session.  The observer does not use the
\* provider (with one that does, the session is not implemented: see
\* MCKqModelExecOutputs.cfg).
CONSTANTS
    Token = {t, eog}
    Padded = {pad}
    Eog = {eog}
    NLayers = 2
    QsaLayers = {2}
    Capacity = 3
    MaxDraws = 1
    NoToken = none
    ObserverProvider = FALSE
SPECIFICATION Spec
INVARIANTS
    OutputsPublished
    AnnouncedOutputs
PROPERTIES
    ImplementsSession

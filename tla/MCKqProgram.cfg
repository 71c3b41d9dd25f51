\* The whole program: every stage may fail.
SPECIFICATION ProgramSpec
CONSTANTS
    Token = {a, b, eog}
    Eog = {eog}
    NoToken = none
    Capacity = 4
    MaxNewTokens = 3
    MaxPrompt = 5
    Need <- MCNeed
    LayerKinds <- MCLayerKinds
    ContextCapacity = 4
    Base <- MCBase
CHECK_DEADLOCK FALSE
INVARIANTS OwnersOutliveUsers DecodeAdmitted TranscriptWhole CallHasRoom BuffersHold
PROPERTY EndsReleased

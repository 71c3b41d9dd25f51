SPECIFICATION TextSpec
CONSTANTS
    Handle = {v1, v2}
    Files <- MCFiles
    Image <- MCImage
    MaxWord <- MCMaxWord
    DirectoryLimit = 12000
    MaxMetadata = 60
    MaxTensors = 80
    MaxArray = 60
    EntryBytes = 16
    TextBytes = 4
    TooLong = TooLong
    NotUtf8 = NotUtf8
    Dim <- MCDim
    InitialSemantics = 64
    Call <- MCCall
    Granularity = 64
    Letter <- MCLetter
    Number <- MCNumber
    Compose <- MCCompose
    Unassigned <- MCUnassigned
    BaseVocabulary <- MCBaseVocabulary
    ModelVocabulary = 49
    Special <- MCSpecial
    Vocabulary <- MCVocabulary
    ByteValues <- MCByteValues
    MaxInput = 120
    Text <- MCText
    Ids <- MCIds
    Messages <- MCMessages
    Capacity = {2, 200}
    Vocabulary32 = 4
    CanonicalTokens = 3
    MaxScore = 2
    Weight <- MCWeight
    Words = 8
    StateSize = 16
    Multiplier = 5
    Permuted <- MCPermuted
    MaxStream = 1
    MaxDraws = 3
    NotFinite = NotFinite
    Policies <- MCPolicies
    Seeds = {3}
    Streams = {1, 2}
    Logits <- MCLogits
INVARIANTS SpansDisjoint RefusalLeavesNothing ViewsShowTheirElements PretokensAsRegex MergesAsReference RoundTrip FilterAsContract WordsProportional StreamUnbroken
PROPERTIES EveryTensorBoundOnce RegisteredTensorsViewable

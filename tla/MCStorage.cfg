SPECIFICATION MCSpec
CONSTANTS
    Keys <- MCKeys
    Values = {1}
    NumTables = 3
    TableSize = 2
    MaxTrials = 4
    Hash <- MCHash
    CountMod = 2
    LupCap = 1
    UpdCap = 1
    ClassCount = 2
    CacheDepth = 4
    MemoryWidth = 4
    Depth = 2
    MaxHeld <- MCHeld
INVARIANTS InPlace NoDoubleAlloc UseIsMarked AnswerOnTime
PROPERTIES IsStore NobodyWaits
VIEW MCView

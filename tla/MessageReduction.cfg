SPECIFICATION ReductionSpec
CONSTANTS
    Tools = {"read", "run"}
    ResultSizes = {1, 4, 6}
    Threshold = 4
    StubSize = 1
    TextSize = 1
    ToolSize = 2
    Caps = {0, 7, 12}
    MaxMessages = 6
    MaxCalls = 2
INVARIANTS
    PairingKept
    RepairIsIdempotent
    NewestTurnKept
    UsedToolsDefined
    CapMetOrExhausted
    EjectsFewest
CHECK_DEADLOCK FALSE

SPECIFICATION Spec
CONSTANTS
    FiveMin = 1
    OneHour = 2
    CompactNum = 1
    CompactDen = 2
    MinPrefix = 1
    ColdCap = 2
    GapRingCap = 1
    ForecastWindow = 2
    NoTs = NoTs
    Lanes = {k1}
    Requests = {r1, r2}
    PromptSizes = {2, 4}
    HarnessMarkers = {"none", "long"}
    SweepMinLen = 0
    IdleEvict = 2
    MaxClock = 4
SYMMETRY Symmetry
INVARIANTS
    TypeOK
    WarmIsAlive
    DecisionAddsUp
PROPERTY
    NewestSuccessWins
CHECK_DEADLOCK FALSE

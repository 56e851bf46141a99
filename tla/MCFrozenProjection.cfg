SPECIFICATION Spec
CONSTANTS
    FiveMin = 1
    OneHour = 2
    CompactNum = 1
    CompactDen = 2
    MinPrefix = 1
    ColdCap = 1
    GapRingCap = 1
    ForecastWindow = 1
    NoTs = NoTs
    Models = {m1}
    Conversations = {c1, c2}
    Requests = {r1, r2}
    Messages = {x}
    Texts = {t1, t2}
    PromptSize = 1
    SweepMinLen = 0
    IdleEvict = 2
    HandlingTime = 0
    MaxClock = 3
    MaxTurns = 3
SYMMETRY Symmetry
INVARIANTS
    ProjectionIsStable
    HistoryIsComplete
CHECK_DEADLOCK FALSE

SPECIFICATION Spec
CONSTANTS
    Sessions = {"s"}
    Requests = {1, 2}
    RingCap = 2
    MinObservations = 2
    Hour = 1
    HintLife = 1
    MaxClock = 4
    MaxChanges = 1
INVARIANTS DemotionHasEvidence HintIsRecent
CHECK_DEADLOCK FALSE

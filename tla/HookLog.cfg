SPECIFICATION Spec
CONSTANTS
    Interval = 2
    Hiccups = {"create", "copy", "truncate"}
    CrashAt = {"check", "create", "copy", "truncate", "stamp", "append"}
    MaxClock = 6
    MaxRows = 4
INVARIANTS
    TypeOK
    NoRowLost
PROPERTY
    SkipsOnlyYoungLog
CHECK_DEADLOCK FALSE

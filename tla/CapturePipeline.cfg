SPECIFICATION Spec
CONSTANTS
    Keys = {a, b}
    Capacity = 1
    WindowSecs = 0
    ChannelCap = 1
    MaxEntries = 2
    SlackDivisor = 16
    StartFailures = {"mkdir", "body"}
    ScanFailures = {"read", "delete"}
    MaxCaptures = 3
    MaxClock = 1
INVARIANTS
    WithinSlack
    OncePerWindow
PROPERTIES
    NoEntryFromNothing
    ChannelDrains
CHECK_DEADLOCK FALSE

SPECIFICATION MarkersSpec
CONSTANTS
    Modes = {"rebuild"}
    Tiers = {0, 1, 12}
    LeadingMarks <- Leading
    MessageMarks <- Trailing
    MarkerLimit = 4
    HudFigures = {1}
    MaxConversation = 4
INVARIANT OrderAccepted
CHECK_DEADLOCK FALSE

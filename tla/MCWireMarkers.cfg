SPECIFICATION MarkersSpec
CONSTANTS
    Modes = {"passthrough", "mutate", "rebuild"}
    Tiers = {0, 1, 12}
    LeadingMarks <- Leading
    MessageMarks <- Trailing
    MarkerLimit = 4
    HudFigures = {1, 2}
    MaxConversation = 4
INVARIANTS PromptRemindersDelivered NoShortBeforeLong LimitKept LifetimeCoversWire
PROPERTIES PrefixSurvivesTheTurn
CHECK_DEADLOCK FALSE

SPECIFICATION ContentSpec
CONSTANTS
  Locks = {"l"}
  CallKinds = {"monitor","create","release"}
  NativeCap = 1
  ThreadCap = 1
  SectionSize <- Sizes
  SectionSets <- AllOrTwo
  Budgets = {4}
  MaxMessages = 6
  MaxCalls = 2
INVARIANTS FrontierTellsLocks NothingPendingForgotten ElisionIsMinimal
PROPERTIES EnvelopeNeverGoesBack
CHECK_DEADLOCK FALSE

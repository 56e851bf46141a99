SPECIFICATION StreamSpec
CONSTANTS
  Inputs = {1, 3}
  CacheReads = {0, 2}
  Estimates = {0, 4}
  MaxEvents = 2
INVARIANTS ChunkingInvisible LedgerHonest
CHECK_DEADLOCK FALSE

SPECIFICATION Spec
CONSTANTS
  Seats = {"s", "p"}
  Matching = {"s", "p"}
  Sockets = {"near", "far"}
  Walk <- TwoSockets
  Pinned = "none"
  NoSocket = "none"
  NoFile = "none"
  OwnCap = 1
  PeerCap = 1
  MaxTurns <- TwoAndOne
  MaxTears = 1
INVARIANTS DigestsAreOwn ModeIsTruthful ThreadCompletesTail
PROPERTY RequestsProceed
CHECK_DEADLOCK FALSE

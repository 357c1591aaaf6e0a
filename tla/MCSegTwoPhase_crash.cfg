SPECIFICATION Spec
CONSTANTS
  Backends = {b1, b2}
  Xacts = {x1, x2}
  NoBackend = NoBackend
  MaxPrepared = 2
  MaxRestarts = 1
  MaxCheckpoints = 0
INVARIANTS PreparedHeld CommitAnswerIsDurable
PROPERTY EntryIsReleased
CHECK_DEADLOCK FALSE

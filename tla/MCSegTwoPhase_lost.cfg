SPECIFICATION Spec
CONSTANTS
  Backends = {b1, b2}
  Xacts = {x1}
  NoBackend = NoBackend
  MaxPrepared = 1
  MaxRestarts = 1
  MaxCheckpoints = 1
INVARIANT PreparedHeld
CHECK_DEADLOCK FALSE

SPECIFICATION Spec
CONSTANTS
  Backends = {b1, b2}
  Xacts = {x1, x2}
  NoBackend = NoBackend
  MaxPrepared = 1
  MaxRestarts = 1
  MaxCheckpoints = 1
SYMMETRY Interchange
INVARIANTS TypeOK FinishOnce UnlockedCanFinish NothingFinishedIsReloaded
           TableFits LostOnlyToCheckpoint NotFoundOnlyIfLost SegInv
CHECK_DEADLOCK FALSE

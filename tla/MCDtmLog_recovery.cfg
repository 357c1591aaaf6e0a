SPECIFICATION Spec
CONSTANTS
  Gxacts = {g1, g2}
  MaxRestarts = 2
  MaxCheckpoints = 1
INVARIANT LostOnlyIfSkipped
PROPERTY CommitReachesSegments
CHECK_DEADLOCK FALSE

SPECIFICATION Spec
CONSTANTS
  Gxacts = {g1, g2}
  MaxRestarts = 1
  MaxCheckpoints = 1
INVARIANTS RedoFindsCommits StartedAfterDelivery
PROPERTY CheckpointEnds
CHECK_DEADLOCK FALSE

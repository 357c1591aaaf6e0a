SPECIFICATION Spec
CONSTANTS
  Gxacts = {g1, g2}
  MaxRestarts = 2
  MaxCheckpoints = 0
SYMMETRY Interchange
INVARIANT RedoFindsCommits
CHECK_DEADLOCK FALSE

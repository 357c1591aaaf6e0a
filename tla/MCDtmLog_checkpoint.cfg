SPECIFICATION Spec
CONSTANTS
  Gxacts = {g1, g2}
  MaxRestarts = 0
  MaxCheckpoints = 2
SYMMETRY Interchange
INVARIANTS TypeOK CrashSafe
CHECK_DEADLOCK FALSE

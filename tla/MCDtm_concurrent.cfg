SPECIFICATION Spec
CONSTANTS
  Segs = {s1, s2}
  Gxacts = {g1, g2}
  Rec = Rec
  RetryCount = 0
  MaxFaults = 2
SYMMETRY Interchange
INVARIANT Inv
CHECK_DEADLOCK FALSE

SPECIFICATION Spec
CONSTANTS
  Segs = {s1, s2}
  Gxacts = {g1}
  Rec = Rec
  RetryCount = 1
  MaxFaults = 4
SYMMETRY Interchange
PROPERTIES ImplementsDistCommit NoVoteAfterCommit
CHECK_DEADLOCK FALSE

SPECIFICATION Spec
CONSTANTS
  Segs = {s1, s2}
  Gxacts = {g1}
  Rec = Rec
  RetryCount = 1
  MaxFaults = 3
PROPERTIES CommitDelivered RecoveryCompletes PhaseTwoEnds
CHECK_DEADLOCK FALSE

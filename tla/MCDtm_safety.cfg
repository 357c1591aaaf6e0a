SPECIFICATION Spec
CONSTANTS
  Segs = {s1, s2, s3}
  Gxacts = {g1}
  Rec = Rec
  RetryCount = 1
  MaxFaults = 3
SYMMETRY Interchange
INVARIANTS TypeOK Atomicity CommitNeedsDurableRecord CommittedEverywhere ForgetSafe AbortedNotLogged NoUndeliveredCommit
CHECK_DEADLOCK FALSE

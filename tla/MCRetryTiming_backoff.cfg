SPECIFICATION TimingSpec
CONSTANTS
  t1 = t1  t2 = t2  w1 = w1  w2 = w2  None = None
  Task = {t1, t2}  Worker = {w1, w2}
  Policies <- FourPolicies
  Width = 8
  NsPerMs = 2
  MaxTime = 4
  MaxEnds = 1
SYMMETRY TimingSymmetry
INVARIANTS
  SaneKeepsChannel
  NotBeforeNextRetryAt
  LatenessBounded
\* The clock stops at MaxTime.
CHECK_DEADLOCK FALSE

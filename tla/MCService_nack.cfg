SPECIFICATION Spec
CONSTANTS
  n1 = n1  n2 = n2  e1 = e1  e2 = e2  e3 = e3  v1 = v1  v2 = v2
  w1 = w1  w2 = w2  h1 = h1  h2 = h2  None = None
  Notif = {n1}  Event = {e1}  Vendor = {v1}
  Handler = {h1}  Worker = {w1}
  Routes <- OneVendor
  Deliverable <- AllPairs
  MaxAttempts <- TwoOrNone
  MaxSubmits = 1
  MaxDbFaults = 1
  MaxRestarts = 0
  MaxConnLosses = 0
PROPERTIES
  RejectedIsRequeued
\* The server waits for requests when nothing is left to do.
CHECK_DEADLOCK FALSE

SPECIFICATION QuerySpec
CONSTANTS
  n1 = n1  e1 = e1  v1 = v1  v2 = v2  w1 = w1  w2 = w2  h1 = h1  None = None
  Notif = {n1}  Event = {e1}  Vendor = {v1, v2}
  Handler = {h1}  Worker = {w1}
  Routes <- TwoVendors
  Deliverable <- AllPairs
  MaxAttempts <- OneAttempt
  MaxSubmits = 1
  MaxDbFaults = 1
  MaxRestarts = 1
  MaxConnLosses = 0
  MaxQueries = 2
INVARIANTS
  QueryTypeOK
  TerminalAnswerIsComplete
PROPERTIES
  AnswersMoveForward
\* The server waits for requests when nothing is left to do.
CHECK_DEADLOCK FALSE

SPECIFICATION ShutdownSpec
CONSTANTS
  n1 = n1  e1 = e1  e2 = e2  v1 = v1  v2 = v2
  w1 = w1  w2 = w2  h1 = h1  None = None
  Notif = {n1}  Event = {e1, e2}  Vendor = {v1, v2}
  Handler = {h1}  Worker = {w1, w2}
  Routes <- TwoVendorsOrNone
  Deliverable <- FirstOnly
  MaxAttempts <- TwoAttempts
  MaxSubmits = 1
  MaxDbFaults = 8
  MaxRestarts = 1
  MaxConnLosses = 0
INVARIANTS
  ClosingIsQuiet
  ConfirmedIsRecorded
PROPERTIES
  ShutdownCompletes
  NotRepeatedAfterExit
  AcceptedTerminates
  DispatchedTerminates
\* The server waits for requests when nothing is left to do.
CHECK_DEADLOCK FALSE

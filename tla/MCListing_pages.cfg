SPECIFICATION ListSpec
CONSTANTS
  r1 = r1  r2 = r2  r3 = r3  r4 = r4
  Row = {r1, r2, r3, r4}
  DefaultPageSize = 2
  MaxPageSize = 3
  RequestedSize <- Sizes
INVARIANTS
  ListTypeOK
  NothingSkipped
  PagesPartition
\* The client stops after the last page.
CHECK_DEADLOCK FALSE

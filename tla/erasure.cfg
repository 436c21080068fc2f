SPECIFICATION Spec
CONSTANTS
  None = None
  q1 = q1
  q2 = q2
  r1 = r1
  r2 = r2
  r3 = r3
  r4 = r4
  Questions <- OneQuestion
  Requests <- TwoRequests
INVARIANTS
  ErasedForGood
CHECK_DEADLOCK FALSE

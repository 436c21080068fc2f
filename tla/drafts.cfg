SPECIFICATION Spec
CONSTANTS
  None = None
  p1 = p1
  p2 = p2
  Pages <- TwoPages
  First = p1
  Events = {"hide", "reload", "withdraw", "resume"}
  MaxAnswers = 2
  MaxHides = 2
  MaxOutages = 0
INVARIANTS
  TypeOK
PROPERTIES
  InOrder
CHECK_DEADLOCK FALSE

SPECIFICATION Spec
CONSTANTS
  None = None
  NoAnswers = NoAnswers
  t1 = t1
  t2 = t2
  r1 = r1
  r2 = r2
  r3 = r3
  l1 = l1
  a1 = a1
  s1 = s1
  s2 = s2
  d1 = d1
  d2 = d2
  Tokens <- TwoTokens
  Requests <- ThreeRequests
  Links <- OneLink
  Capacity <- CapacityOne
  Answers <- OnlyNoAnswers
  Sorts <- OneSort
  Drafts <- TwoDrafts
  MaxRevision = 1
  RoughSortEnabled = FALSE
  Kinds = {"consent", "submit", "draft", "progress", "withdraw", "revoke"}
INVARIANTS
  InductiveInv
  UsageNotOvercounted
  UsageWithinCapacity
  CompletedConsented
  ConsentKnewPassword
PROPERTIES
  FirstConsentWins
  CompletedForGood
  ProgressForward
  DraftWatermark
SYMMETRY Symmetry
CHECK_DEADLOCK FALSE

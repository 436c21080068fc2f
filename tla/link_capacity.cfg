SPECIFICATION Spec
CONSTANTS
  None = None
  NoAnswers = NoAnswers
  t1 = t1
  t2 = t2
  r1 = r1
  r2 = r2
  r3 = r3
  l1 = l1
  a1 = a1
  s1 = s1
  s2 = s2
  d1 = d1
  d2 = d2
  Tokens <- TwoTokens
  Requests <- TwoRequests
  Links <- OneLink
  Capacity <- CapacityOne
  Answers <- TwoAnswers
  Sorts <- OneSort
  Drafts <- OneDraft
  MaxRevision = 1
  RoughSortEnabled = TRUE
  Kinds = {"consent"}
INVARIANTS
  AdmittedWithinCapacity
CHECK_DEADLOCK FALSE

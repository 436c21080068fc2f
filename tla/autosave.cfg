SPECIFICATION FairSpec
CONSTANTS
  None = None
  p1 = p1
  p2 = p2
  Pages <- OnePage
  First = p1
  Events = {"hide", "reload", "submit"}
  MaxAnswers = 2
  MaxHides = 1
  MaxOutages = 2
INVARIANTS
  NothingForgotten
PROPERTIES
  AnswersSettle
CHECK_DEADLOCK FALSE

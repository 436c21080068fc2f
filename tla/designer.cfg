SPECIFICATION Spec
CONSTANTS
  None = None
  e1 = e1
  e2 = e2
  r1 = r1
  r2 = r2
  r3 = r3
  config = config
  texts = texts
  Editors <- TwoEditors
  Fields <- TwoFields
  Columns <- OneColumn
  Requests <- TwoRequests
  MaxEdits = 1
  MaxWrites = 2
INVARIANTS
  TypeOK
  UnsavedKept
  UnsavedGuarded
  SavingEnds
SYMMETRY Symmetry

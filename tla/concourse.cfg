SPECIFICATION Spec
CONSTANTS
  Editors = {ann, bob}
  Languages = {english, french}
  Statuses = {proposed, accepted}
  FirstStatus = proposed
  Requests = {r1, r2}
  None = None
  MaxClock = 2
SYMMETRY Symmetric
INVARIANTS
  TypeOK
  HistoryComplete
PROPERTIES
  OtherLanguagesKept
  StaleStaysReported
  EditsAreAtomic

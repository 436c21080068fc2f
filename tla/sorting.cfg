SPECIFICATION Spec
CONSTANTS
  Piles <- TwoPiles
  Studies <- WithEdits
  FirstStudies <- EveryKind
  MaxHistory = 2
  MaxSwipes = 2
  MaxRow = 2
INVARIANTS
  TypeOK
  OneSlotEach
  NoCardLost
  GridShown
  NoDropRefused
  PostComplete
  ConfirmLeadsOn
PROPERTIES
  OnlyFullColumnsDisplace
  PilesRemembered

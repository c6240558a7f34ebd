CONSTANTS
  a = a
  b = b
  Players <- TwoPlayers
  Faces = 2
  MAX_BUFFERED = 3
  Overtakes = 0
  QuickScreen = FALSE
  MaxGames = 2
  MaxRolls = 2
  MaxEvents = 2
  MaxRepeats = 0
SPECIFICATION MCSpec
INVARIANTS
  TypeOK
  FifoNeverStalls
  OpeningAgrees
PROPERTIES
  FifoUndisturbed
  HeardInOrderLoose
CHECK_DEADLOCK FALSE

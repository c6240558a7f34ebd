CONSTANTS
  a = a
  b = b
  Players <- TwoPlayers
  Faces = 2
  MAX_BUFFERED = 3
  Overtakes = 1
  QuickScreen = TRUE
  MaxGames = 1
  MaxRolls = 2
  MaxEvents = 1
  MaxRepeats = 0
SPECIFICATION Spec
INVARIANTS
  NoFalseAccusation
CHECK_DEADLOCK FALSE

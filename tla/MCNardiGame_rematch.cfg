CONSTANTS
  a = a
  b = b
  Players <- TwoPlayers
  Faces = 2
  MAX_BUFFERED = 3
  Overtakes = 1
  QuickScreen = TRUE
  MaxGames = 2
  MaxRolls = 1
  MaxEvents = 2
  MaxRepeats = 0
SPECIFICATION Spec
INVARIANTS
  NoFalseAccusation
  HeardAll
  
CHECK_DEADLOCK FALSE

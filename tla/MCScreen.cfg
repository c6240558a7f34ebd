CONSTANTS
  m1 = m1
  h1 = h1
  p1 = p1
  q1 = q1
  v1 = v1
  Messages = {m1, h1}
  First = {h1}
  MaxCopies = 2
  Activities = {i, j}
  None = None
  MAX_AGE = 0
  RETENTION = 1
  MaxSkew = 1
  Horizon = 3
  MaxFaults = 2
  Transfers = {p1, q1, v1}
  Bytes <- TheBytes
  CHUNK_SIZE = 2
  MAX_TRANSFER = 4
  MAX_ACTIVE = 2
  TTL = 0
  MediaHorizon = 1
SPECIFICATION ScreenSpec
SYMMETRY Alike
CONSTRAINT Scope
INVARIANTS
  ScreenTypeOK
  ShownAtMostOnce
  
  
  NothingWaits
  CompletedOnce
  ReservedWithinLimit
CHECK_DEADLOCK FALSE

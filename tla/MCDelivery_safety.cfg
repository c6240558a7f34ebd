CONSTANTS
  a = a
  b = b
  m1 = m1
  m2 = m2
  Clients = {a, b}
  Msgs = {m1, m2}
  From <- OneWayFrom
  To <- OneWayTo
  UnackedMax = 1
  SeenMax = 2
  MaxGen <- Gen22
  MaxFaults = 1
SPECIFICATION Spec
CONSTRAINT Scope
INVARIANTS
  TypeOK
  SenderKeepsUntilStored
  
  
  
  NoStrandedDownlink

  
CHECK_DEADLOCK FALSE

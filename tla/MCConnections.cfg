CONSTANTS
  f1 = f1
  f2 = f2
  MaxSockets = 2
  Frames = {f1, f2}
  OUTBOX_MAX = 1
  MAX_CONNECTIONS_PER_IP = 1
SPECIFICATION FairSpec
CONSTRAINT Scope
INVARIANTS
  TypeOK
  ConnectedMeansOpen
  RetryAtHand
  OneLiveSocket
  OutboxKeeps
  SlotsNeverLeak
PROPERTIES
  EventuallyOnline
CHECK_DEADLOCK FALSE

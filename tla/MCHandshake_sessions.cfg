CONSTANTS
  a = a
  b = b
  c = c
  t1 = t1
  t2 = t2
  t3 = t3
  Devices = {a, b}
  Texts = {t1, t2, t3}
  Ready = {a, b}
  From <- BothFrom
  To <- BothTo
  Batch = 1
  MaxPublish = 1
  MaxVersion = 2
  MaxFaults = 2
SPECIFICATION MCSpec
CONSTRAINT Scope
INVARIANTS
  TypeOK
  AcceptedOnce
  SessionsAgree
  OneTimeKeysSuffice
PROPERTIES
  NoRollback
CHECK_DEADLOCK FALSE

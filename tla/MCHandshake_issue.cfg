CONSTANTS
  a = a
  b = b
  c = c
  t1 = t1
  t2 = t2
  t3 = t3
  Devices = {a, b, c}
  Texts = {t1, t2}
  Ready = {a, b, c}
  From <- FanFrom
  To <- FanTo
  Batch = 1
  MaxPublish = 2
  MaxVersion = 1
  MaxFaults = 0
SPECIFICATION Spec
INVARIANTS
  OpkIssuedOnce
CHECK_DEADLOCK FALSE

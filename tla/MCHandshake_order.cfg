CONSTANTS
  a = a
  b = b
  c = c
  t1 = t1
  t2 = t2
  t3 = t3
  Devices = {a, b}
  Texts = {t1, t2}
  Ready = {a, b}
  From <- PairFrom
  To <- PairTo
  Batch = 1
  MaxPublish = 1
  MaxVersion = 1
  MaxFaults = 0
SPECIFICATION Spec
INVARIANTS
  ShownInSocketOrder
CHECK_DEADLOCK FALSE

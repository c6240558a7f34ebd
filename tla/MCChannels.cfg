SPECIFICATION Spec
CONSTANTS
  d1 = d1 d2 = d2 d3 = d3 r1 = r1
  Drafts = {d1, d2, d3}
  Readers = {r1}
  None = None
  LIMIT = 2
  MaxFaults = 1
CONSTRAINT InOrder
CHECK_DEADLOCK FALSE
INVARIANTS TypeOK OnePostPerNumber NothingSkipped
 

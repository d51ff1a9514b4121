SPECIFICATION FairSpec
CONSTANTS
  None = None
  c1 = c1
  c2 = c2
  m1 = m1
  m2 = m2
  q1 = q1
PROPERTIES
  RemindersEnd
  OriginIsDecided
CHECK_DEADLOCK FALSE

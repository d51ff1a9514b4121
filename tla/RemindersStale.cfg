SPECIFICATION Spec
CONSTANTS
  i1 = i1
  i2 = i2
  None = None
  Item = {i1}
  Reminder = {1}
  ItemOf <- SameItem
  MaxVersion = 1
  MaxTime = 3
  Gap = 1
  DefaultCatchUp = 1
  Policies <- SavedPolicies
  MaxSettings = 0
  MaxStops = 1
  MaxFaults = 1
PROPERTIES
  StaleNeverClaimed
CHECK_DEADLOCK FALSE

SPECIFICATION Spec
CONSTANTS
  i1 = i1
  i2 = i2
  None = None
  Item = {i1}
  Reminder = {1}
  ItemOf <- SameItem
  MaxVersion = 2
  MaxTime = 2
  Gap = 1
  DefaultCatchUp = 1
  Policies <- SavedPolicies
  MaxSettings = 1
  MaxStops = 2
  MaxFaults = 1
INVARIANTS
  TypeOK
  ClaimInv
  HaltedIsOver
  DispatchingIsWatched
PROPERTIES
  TerminalNeedsNewVersion
  HaltedNeverShown
CHECK_DEADLOCK FALSE

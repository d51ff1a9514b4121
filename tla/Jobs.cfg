SPECIFICATION Spec
CONSTANTS
  None = None
  Round = {1, 2}
  Budget = 1
  AttemptLimit = 2
  MaxDay = 1
  MaxConfig = 2
  MaxMoves = 1
  MaxRetries = 1
  MaxStops = 1
  MaxFaults = 1
INVARIANTS
  BudgetHolds
  NoSecondCallUnasked
  ChapterIsWhole
  OpenIsHeld
PROPERTIES
  AcceptsCurrent
  KeepsWorkPromise
CHECK_DEADLOCK FALSE

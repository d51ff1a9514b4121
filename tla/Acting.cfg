SPECIFICATION Spec
CONSTANTS
  None = None
INVARIANTS
  RemindersHold
  WorkHolds
PROPERTIES
  ActingSteps
CHECK_DEADLOCK FALSE

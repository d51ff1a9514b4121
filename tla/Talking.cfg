SPECIFICATION Spec
CONSTANTS
  None = None
INVARIANTS
  SendingHolds
  ShownHolds
PROPERTIES
  TalkingSteps
CHECK_DEADLOCK FALSE

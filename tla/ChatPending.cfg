SPECIFICATION Spec
CONSTANTS
  q1 = q1
  q2 = q2
  a1 = a1
  a2 = a2
  Request = {q1}
  AssistantOf <- OwnAssistant
  Tooled = {q1}
  MaxCalls = 1
  Argument = {"x"}
  MaxGovernance = 1
  MaxStops = 1
  MaxFaults = 0
INVARIANT
  PendingIsInFlight
CHECK_DEADLOCK FALSE

SPECIFICATION Spec
CONSTANTS
  q1 = q1
  q2 = q2
  a1 = a1
  a2 = a2
  Request = {q1}
  AssistantOf <- OwnAssistant
  Tooled = {q1}
  MaxCalls = 3
  Argument = {"x", "y"}
  MaxGovernance = 1
  MaxStops = 2
  MaxFaults = 1
INVARIANTS
  TypeOK
  LedgerTellsTruth
  LedgerInv
  OneEffectPerRound
  CompletedIsWhole
  OpenHasOwner
PROPERTIES
  NothingAfterGiveUp
  KeepsPromise
  BlankAfterGovernance
CHECK_DEADLOCK FALSE

SPECIFICATION Spec
CONSTANTS
  None = None
  m1 = m1
  p1 = p1
  p2 = p2
  k1 = k1
  k2 = k2
  k3 = k3
  Mem = {m1}
  Preview = {p1, p2}
  Call = {k1, k2, k3}
  Target <- OneText
  Intent <- Clearing
  PreviewOf <- TwoForTheFirst
  Batch = 2
  MaxVersion = 2
  MaxEpoch = 4
  MaxPuts = 1
  MaxStops = 1
  MaxFaults = 1
  MaxRetries = 1
INVARIANTS
  EmptiedIsGone
  TheirsAreKept
  ConfirmedOnce
CHECK_DEADLOCK FALSE

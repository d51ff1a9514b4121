SPECIFICATION Spec
CONSTANTS
  None = None
  a0 = a0
  b0 = b0
  m1 = m1
  m2 = m2
  m3 = m3
  g1 = g1
  c1 = c1
  c2 = c2
  c3 = c3
  c4 = c4
  q1 = q1
  q2 = q2
  r1 = r1
  r2 = r2
  r3 = r3
  i1 = i1
  i2 = i2
  i3 = i3
  p1 = p1
  refusal = refusal
  c0 = c0
  d0 = d0
  g0 = g0
  h0 = h0
  i0 = i0
  k0 = k0
  p0 = p0
  q0 = q0
  r0 = r0
  k1 = k1
  k2 = k2
  p2 = p2
INVARIANTS
  KeptHolds
  DataHold
PROPERTIES
  StoringSteps
CHECK_DEADLOCK FALSE

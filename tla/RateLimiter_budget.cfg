CONSTANTS
  s1 = s1
  s2 = s2
  n1 = n1
  n2 = n2
  Workers = {w1, w2}
  Subnets = {s1, s2}
  Names = {n1, n2}
  Capacity = 2
  RefillPerSec = 1
  Millis = 2
  PenaltySecs = 3
  MaxTracked = 1
  MaxAge = 8
  MaxBack = 1
  MaxWait = 1
  MaxTime = 11
  Workloads <- MCWorkloads
  NoBucket = NoBucket
SPECIFICATION Spec
INVARIANTS
  TokenBudget
  OneAllowPerSecond
  OvershootBounded
SYMMETRY WorkerSymmetry
CHECK_DEADLOCK FALSE

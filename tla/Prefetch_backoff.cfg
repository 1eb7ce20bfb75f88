CONSTANTS
  Keys = {k, l, m}
  Workers = {v, w}
  Slots = {x, y}
  MaxEntries = 1
  MinHits = 1
  Ttl = 2
  Threshold = 1
  BackoffBase = 1
  MaxBackoff = 2
  MaxShift = 1
  MaxIdle = 3
  MaxFailures = 1
  MaxClock = 4
  NoInfo = NoInfo
  NoTask = NoTask
  NoKey = NoKey
SPECIFICATION PrefetchSpec
INVARIANTS
  PrefetchTypeOK
  TrackerBounded
PROPERTIES
  BackoffHeld
SYMMETRY Symmetry
CHECK_DEADLOCK FALSE

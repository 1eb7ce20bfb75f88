CONSTANTS
  Callers = {c1, c2, c3, c4}
  Cancellable = {c1, c2}
  Keys = {k1, k2}
  Values = {v1}
  NoCaller = NoCaller
  NoValue = NoValue
SPECIFICATION FairSpec
CHECK_DEADLOCK FALSE
INVARIANTS DuplicateOnlyAfterDrop
PROPERTIES CallsEnd FlightsEnd

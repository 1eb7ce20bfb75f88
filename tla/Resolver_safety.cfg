CONSTANTS
  Requests = {r1, r2}
  DohRequests = {r1, r2}
  Flags <- SomeFlags
  Prefetches = {}
  Revalidations = {t1, t2}
  Keys = {k1}
  WarmKeys = {k1}
  Outcomes <- SafetyOutcomes
  Unreadable = {}
  Failed = Failed
  CacheModes = {TRUE, FALSE}
  DnssecEnforce = TRUE
  MaxStale = 1
  StaleServeTtl = 3
  PrefetchPct = 50
  MaxTime = 3
  NoCaller = NoCaller
  NoValue = NoValue
  NoEntry = NoEntry
  NoResponse = NoResponse
SPECIFICATION Spec
INVARIANTS
  FreshWithinSignature
  AuthenticAnswers
  TtlAged
  BogusOnlyToCheckingDisabled
  RevalidationGate
SYMMETRY ActorSymmetry
CHECK_DEADLOCK FALSE

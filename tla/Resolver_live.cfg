CONSTANTS
  Requests = {r1, r2}
  DohRequests = {r1}
  Flags <- AdFlags
  Prefetches = {p1}
  Revalidations = {t1, t2}
  Keys = {k1}
  WarmKeys = {}
  Outcomes <- LiveOutcomes
  Unreadable <- LiveUnreadable
  Failed = Failed
  CacheModes = {TRUE, FALSE}
  DnssecEnforce = TRUE
  MaxStale = 2
  StaleServeTtl = 3
  PrefetchPct = 50
  MaxTime = 2
  NoCaller = NoCaller
  NoValue = NoValue
  NoEntry = NoEntry
  NoResponse = NoResponse
SPECIFICATION FairSpec
PROPERTIES
  RequestsAnswered
  GatesReopen
  UsesSingleFlight
CHECK_DEADLOCK FALSE

CONSTANTS
  Tlds <- MCTlds
  Published <- MCPublished
  MinDelegations = 2
  MaxAgeDays = 1
  RefreshDays = 1
  MaxDays = 2
  MaxCrashes = 2
  MaxRefreshFailures = 1
  NoDelegation = NoDelegation
  NoFile = NoFile
SPECIFICATION RootSpec
INVARIANTS
  OneVersion
  StatusMatchesCache
  InstallComplete
  JsonWhole
CHECK_DEADLOCK FALSE

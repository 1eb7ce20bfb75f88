CONSTANTS
  Tasks = {t1}
  t1 = t1
  Depth = 2
  Messages <- MCMessages
  Kinds <- MCKinds
  DsTtl = 1
  KeyTtl = 2
  DefaultTtl = 1
  MaxSigChecks = 6
  MaxTries = 1
  MaxFetch = 1
  MaxChanges = 1
  Horizon = 3
  NoKeys = NoKeys
  NoEntry = NoEntry
SPECIFICATION Spec
INVARIANTS
  TypeOK
  RolloverHeals
  VerdictEarned
PROPERTIES
  SecureIsFresh
  CacheGuarantee
  UnsignedIsProven
  WorkShrinks

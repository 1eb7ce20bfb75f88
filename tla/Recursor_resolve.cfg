CONSTANTS
  t1 = t1
  t2 = t2
  Tasks = {t1, t2}
  Names <- MCNames
  Questions <- MCQuestions
  Responses <- MCResponses
  Yields = {0, 2}
  RootZoneTlds <- MCTlds
  MaxDepth = 1
  MaxSteps = 6
  MaxServers = 2
  MaxDelegationTtl = 1
  MaxTime = 1
  NoZone = NoZone
  NoFrame = NoFrame
  NoEntry = NoEntry
  NoOutcome = NoOutcome
SPECIFICATION FairSpec
INVARIANTS
  StepsBoundedByLabels
  WorkBounded
PROPERTIES
  ResolutionsEnd
CHECK_DEADLOCK FALSE

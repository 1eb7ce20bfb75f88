CONSTANTS
  V4 = {a, b}
  V6 = {c, d, e}
  Safe = {a, b, c, e}
  ChunkSize = 3
  QueryTimeout = 1
  TcpTimeout = 2
  MaxStall = 1
  NoAnswer = NoAnswer
SPECIFICATION FairSpec
INVARIANTS
  NoAnswerLost
  RoundBounded
PROPERTIES
  RoundEnds
CHECK_DEADLOCK FALSE

CONSTANTS
  Conns = {c1, c2}
  Scripts <- MCScripts
  Answers <- MCAnswers
  maxConnections = 1
  MaxClientBytes = 12
  MaxHeader = 2
SPECIFICATION FairSpec
INVARIANTS
  PayloadInOrder
  RepliesInOrder
  UpstreamBounded
PROPERTIES
  PlaceFreed
  CloseReturns
CHECK_DEADLOCK FALSE

\* One connection, three sessions of which it may hold two, one worker.
SPECIFICATION FairSpec
CONSTANTS
  c1 = c1
  c2 = c2
  s1 = s1
  s2 = s2
  s3 = s3
  Conns <- OneConn
  Sessions <- ThreeSessions
  MaxHandles = 2
  Workers = 1
  MaxTurns = 2
INVARIANTS
  ServeInv
PROPERTIES
  TeardownEnds
CHECK_DEADLOCK FALSE

SPECIFICATION FairSpec
CONSTANTS
  c1 = c1
  c2 = c2
  NoConn = NoConn
  Conns = {c1, c2}
  MaxConnectAttempts = 2
CHECK_DEADLOCK FALSE
INVARIANTS
  TypeOK
  KeepaliveFollowsStream
  NoLeakedSocket
  ClosedForGood
  FloodBounded
PROPERTIES
  DisconnectReturns
  Recovers

SPECIFICATION FairSpec
CONSTANTS
  a = a
  r = r
  q = q
  c1 = c1
  c2 = c2
  Consumer = Consumer
  NoConn = NoConn
  NoCall = NoCall
  Calls = {a, q}
  StatusRequests = {q}
  Queries = {q}
  Refused = {}
  Conns = {c1, c2}
  MaxConnectAttempts = 2
PROPERTY
  CallsReturn

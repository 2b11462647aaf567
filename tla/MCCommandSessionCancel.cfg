SPECIFICATION CancelSpec
CONSTANTS
  a = a
  b = b
  q = q
  c1 = c1
  c2 = c2
  Consumer = Consumer
  NoConn = NoConn
  NoCall = NoCall
  Calls = {a, b, q}
  StatusRequests = {q}
  Queries = {q}
  Refused = {}
  Conns = {c1, c2}
  MaxConnectAttempts = 2
INVARIANT
  AnswersMatch

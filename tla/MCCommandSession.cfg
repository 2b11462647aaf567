SPECIFICATION Spec
CONSTANTS
  a = a
  r = r
  q = q
  c1 = c1
  c2 = c2
  Consumer = Consumer
  NoConn = NoConn
  NoCall = NoCall
  Calls = {a, q, r}
  StatusRequests = {q}
  Queries = {q}
  Refused = {r}
  Conns = {c1, c2}
  MaxConnectAttempts = 2
SYMMETRY ConnSymmetry
INVARIANTS
  AnswersMatch
  OwnExchange
  NoLeakedSocket
  ConnectedIsOpen
PROPERTY
  ImplementsRpc

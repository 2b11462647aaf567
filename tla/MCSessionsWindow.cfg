SPECIFICATION MCSpec
CONSTANTS
  w1 = w1
  k1 = k1
  k2 = k2
  o1 = o1
  s1 = s1
  Nobody = Nobody
  Workers = {w1}
  Pings = {k1, k2}
  Sockets = {1, 2}
  MaxConnectAttempts = 2
  Owners = {o1}
  Senders = {s1}
  MaxPairs = 2
  MaxAttempts = 2
  Passwords <- MCPasswords
  MaxDigits = 3
  g1 = g1
  g2 = g2
  h1 = h1
  h2 = h2
  secret = secret
  mac = mac
  Null = Null
  Gateways = {g1, g2}
  Firmwares <- MCFirmwares
  Hosts = {h1, h2}
  Networks <- MCNetworks
  Asked <- MCAsked
  MaxAnswers = 2
CHECK_DEADLOCK FALSE
INVARIANT
  FullWindow

SPECIFICATION Spec
CONSTANTS
  o1 = o1
  o2 = o2
  Owners = {o1, o2}
  Senders = {}
  MaxPairs = 2
  MaxAttempts = 2
CHECK_DEADLOCK FALSE
INVARIANT
  DisconnectReleases

SPECIFICATION FairSpec
CONSTANTS
  a = a
  b = b
  r = r
  NoCall = NoCall
  Calls = {a, b, r}
  Refused = {r}
  Topic <- OwnTopic
  MaxFrames = 1
  MaxInbox = 2
CHECK_DEADLOCK FALSE
INVARIANTS
  TypeOK
  OneExchange
  TimelyAnswersMatch
  ConnectedIsRead
  DisconnectReleases
PROPERTY
  CallsReturn

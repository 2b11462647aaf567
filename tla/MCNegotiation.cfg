SPECIFICATION FairSpec
CONSTANTS
  MaxConnectAttempts = 2
  MaxFrames = 5
  Slots = 1
CHECK_DEADLOCK FALSE
INVARIANTS
  ReleasedBeforeRetry
  CleanHandover
  FatalMeansCredentials
  OutcomeReported
  BudgetSuffices
PROPERTIES
  NoFlap
  ConnectReturns

SPECIFICATION Spec
CONSTANTS
  Jobs <- HeteroJob
  Leader = 1
  Asks <- OwnQpu
  MaxAttempts = 2
  Retries = 1
  RetryDelay = 1
  RetryBudget = 2
  WaitInterval = 1
  WaitBudget = 2
  ClusterConfigured = TRUE
  CallTimes = {0}
  MaxRestarts = 0
  Horizon = 6
  Events = {}
INVARIANTS
  AcceptedIsReported
CHECK_DEADLOCK FALSE

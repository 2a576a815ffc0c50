SPECIFICATION Spec
CONSTANTS
  Jobs <- PlainJob
  Leader = 1
  Asks <- SameQpu
  MaxAttempts = 4
  Retries = 2
  RetryDelay = 1
  RetryBudget = 7
  WaitInterval = 2
  WaitBudget = 7
  ClusterConfigured = TRUE
  CallTimes = {0, 1, 3}
  MaxRestarts = 1
  Horizon = 12
  Events = {"fail", "incomplete", "lost", "unresolved", "cancel", "requeue"}
INVARIANTS
  RunsReserved
  PreRunBounded
  RanIsReleased
CHECK_DEADLOCK FALSE

SPECIFICATION Spec
CONSTANTS
  Jobs <- HeteroJob
  Leader = 1
  Asks <- MoreQpus
  MaxAttempts = 2
  Retries = 1
  RetryDelay = 0
  RetryBudget = 1
  WaitInterval = 1
  WaitBudget = 1
  ClusterConfigured = FALSE
  CallTimes = {0}
  MaxRestarts = 0
  Horizon = 4
  Events = {"fail", "incomplete", "lost", "unwritable", "unresolved", "cancel"}
INVARIANTS
  RunsReserved
  RanIsReleased
PROPERTIES
  PreRunEnds
  UnresolvedKept
CHECK_DEADLOCK FALSE

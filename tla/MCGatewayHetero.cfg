SPECIFICATION Spec
CONSTANTS
  Services <- MCServices
  Reserves <- ThreeShared
  Releases = {}
  NoRequest = NoRequest
  NoOwner = NoOwner
  Events = {"down", "lost", "refuse", "journal", "cancel", "crash"}
  MaxReservations = 4
  MaxRuntime <- NoneRestarts
INVARIANTS
  LookupIsBacked
  AnswersAgree
  ReplayIsCurrent
CHECK_DEADLOCK FALSE

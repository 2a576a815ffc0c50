SPECIFICATION Spec
CONSTANTS
  Services <- MCServices
  Reserves <- PlainReserves
  Releases <- OneRelease
  NoRequest = NoRequest
  NoOwner = NoOwner
  Events = {"down", "journal", "verify", "restart", "cancel", "crash"}
  MaxReservations = 4
  MaxRuntime <- EachRestarts
INVARIANTS
  TypeOK
  PlainInv
  ReleasedIsFree
  AtMostOneReservation
  IncompleteRollbackRefused
PROPERTIES
  NeverForget
  KeepsPromise
CHECK_DEADLOCK FALSE

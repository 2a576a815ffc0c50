SPECIFICATION OperatorSpec
CONSTANTS
  Services <- MCServices
  Reserves <- OneReserve
  Releases <- OneRelease
  NoRequest = NoRequest
  NoOwner = NoOwner
  Events = {"down", "restart", "admin"}
  MaxReservations = 2
  MaxRuntime <- FirstRestarts
INVARIANTS
  RolledBackIsFree
PROPERTIES
  OperatorResolves
CHECK_DEADLOCK FALSE

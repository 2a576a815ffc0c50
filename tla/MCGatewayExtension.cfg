SPECIFICATION Spec
CONSTANTS
  Services <- MCHeteroServices
  Reserves <- HeteroReserves
  Releases = {}
  NoRequest = NoRequest
  NoOwner = NoOwner
  Events = {"down"}
  MaxReservations = 5
  MaxRuntime <- NoneRestarts
INVARIANT
  IncompleteRollbackRefused
CHECK_DEADLOCK FALSE

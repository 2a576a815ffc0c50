SPECIFICATION Spec
CONSTANTS
  alice = alice
  bob = bob
  Root = Root
  NoUser = NoUser
  JobIds = {1, 2}
  Users <- MCUsers
  Trusted = {}
  Requests <- MCRequests
  Procs = {p1, p2}
  EndStates = {"CANCELLED"}
  NoVal = 98
  Infinite = 99
  MaxJobs = 3
CHECK_DEADLOCK FALSE
SYMMETRY MCSymmetry
INVARIANTS
  OwnReservations
  JournalNamesOwner
  
  InUseIsServed
PROPERTY
  OnlyOwnerReleases

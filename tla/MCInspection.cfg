SPECIFICATION Spec
CONSTANTS
  JobIds <- MCJobIds
  JobStates <- MCJobStates
  Alphabet <- MCAlphabet
  Cluster = "a"
  Keys <- MCKeys
  Standings = {"ACTIVE", "REJECTED"}
  Services <- MCServices
  Hosts <- MCHosts
  Manifest = {"q1", "q2"}
  Queues <- MCQueues
  Reserved <- MCReserved
  MaxEvents = 1
INVARIANTS
  SqueueComplete
  RowIsOneAllocation
  
  ServicesListed

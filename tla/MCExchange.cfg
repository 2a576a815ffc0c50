SPECIFICATION Spec
CONSTANTS
  Calls <- MCCalls
  Mixes <- MCMixes
CHECK_DEADLOCK FALSE
INVARIANTS
  OutcomeIsTrue
PROPERTIES
  CallEnds
  StopEnds

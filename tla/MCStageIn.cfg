SPECIFICATION Spec
CONSTANTS
  Services <- MCServices
  Slots <- MCSlots
  NoSlot = NoSlot
  Events = {"down", "delay", "verify", "giveup", "journal", "cancel", "crash"}
INVARIANTS
  StagedOnDecision
  FailuresRepeatable
PROPERTIES
  DecisionIsFinal
  StageInEnds
CHECK_DEADLOCK FALSE

SPECIFICATION Spec
CHECK_DEADLOCK FALSE
CONSTANTS
  U32 = 16
  U64 = 20
  Samples <- MCSamples
  MaxEdits = 2
INVARIANTS
  RoundTrip
  DecodersAgree
  AcceptedIsWritable
  ReplayIdentical
  AnswerIsUnderstood

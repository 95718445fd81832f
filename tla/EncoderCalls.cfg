SPECIFICATION Spec
CONSTANTS
  Rows <- SomeRows
  Calls <- SomeCalls
  MaxRounds = 3
INVARIANTS
  Delivered
  CandidatesIndependent
  ReEncodes
  EgprReported
  TargetReached
  AbsoluteRoundTrip

CONSTANTS
  Size = 3
  Program <- Mixed
  Rounds = 3
  PhaseBarrier = {3}
SPECIFICATION FairSpec
INVARIANTS
  SameBarrier
  AllTakePart
  SequenceContained
  NothingOutlives
PROPERTIES
  EndIsReported
CHECK_DEADLOCK FALSE

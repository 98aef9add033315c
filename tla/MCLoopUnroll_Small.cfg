SPECIFICATION Spec
CONSTANTS
  Loops <- SmallLoops
  TripWidth = 4
  CountBits = 5
  maxUnrollCount = 8
  Missing = Missing
INVARIANT TypeOK EnoughCopies
PROPERTY RunsOriginal LoopEnds
CHECK_DEADLOCK FALSE

SPECIFICATION Spec
CONSTANTS
  Functions <- SmallFunctions
  SplitThreshold = 3
  PathLimit = 8
  CounterMax = 3
  MaxTaken = 10
INVARIANT TypeOK NumbersUnique PathsCounted EdgesFromPaths
PROPERTY InstrumentationEnds
CHECK_DEADLOCK FALSE

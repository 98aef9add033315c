SPECIFICATION Spec
CONSTANTS
  Functions <- SmallFunctions
  Uncounted = 3
  MaxTaken = 4
INVARIANT TypeOK SpanningForest LoadedExact
PROPERTY RebuildEnds
CHECK_DEADLOCK FALSE

SPECIFICATION Spec
CONSTANTS
  Functions <- SmallFunctions
  MissingValue <- Missing
INVARIANT AppendMovesWholeChain

SPECIFICATION Spec
CONSTANTS
  Functions <- SmallFunctions
  MaxBlock = 5
  MaxFlow = 2
  MaxUpdates = 3
  Infinity = 100
INVARIANT TypeOK WeightsTrue FlowBalanced
PROPERTY CountsStay

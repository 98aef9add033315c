SPECIFICATION Spec
CONSTANTS
  Functions <- SmallFunctions
  MissingValue <- Missing
INVARIANTS
  TypeOK
  ArcsSorted
  WalkComplete
  ChainsPartition
  ChainsArePaths
  EntryHeadsChain
  LayoutValid
  AllChainsPlaced
  ChainsContiguous
PROPERTY
  Termination

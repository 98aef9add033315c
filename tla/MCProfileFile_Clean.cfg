SPECIFICATION Spec
CONSTANTS
  Proc = {p1, p2}
  Registered <- AllKinds
  Vectors <- MixedVectors
  BlockIds = {1}
  BufferSize = 2
  MaxHits = 3
  MaxTorn = 2
  ArgBytes = 3
  CharWord = 14
  Uncounted = 15
  Faults = {"openfail"}
INVARIANT TypeOK
PROPERTY StoreSpec ExitEnds
CHECK_DEADLOCK FALSE

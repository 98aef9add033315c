SPECIFICATION Spec
CONSTANTS
  Proc = {p1, p2}
  Registered <- EdgeAndOpt
  Vectors <- MixedVectors
  BlockIds = {1}
  BufferSize = 2
  MaxHits = 0
  MaxTorn = 2
  ArgBytes = 3
  CharWord = 14
  Uncounted = 15
  Faults = {"openfail", "kill", "writefail", "short"}
SYMMETRY Perms
INVARIANT LoadedExact RefusedForCause
PROPERTY AppendOnly
CHECK_DEADLOCK FALSE

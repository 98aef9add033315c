SPECIFICATION Spec
CONSTANTS
  Storage <- ArrayAndHash
  Paths <- TwoPaths
  Times = {1, 6}
  ArgData <- TwoWords
  ArgBytes = 5
  WordMax = 7
  Faults = {"kill", "writefail"}
  MaxRuns = 2
  MaxSteps = 2
INVARIANT TypeOK LoadedLatest
PROPERTY OwnHolesOnly
CHECK_DEADLOCK FALSE

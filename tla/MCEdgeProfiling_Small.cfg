SPECIFICATION Spec
CONSTANTS
  Programs <- SmallModules
  Uncounted = 3
  MaxTaken = 5
INVARIANT TypeOK LoadedExact
PROPERTY RunsOriginal InstrumentationEnds
CHECK_DEADLOCK FALSE

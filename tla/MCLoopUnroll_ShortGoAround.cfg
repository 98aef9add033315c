SPECIFICATION Spec
CONSTANTS
  Loops <- WrappingLoop
  TripWidth = 4
  CountBits = 5
  maxUnrollCount = 8
  Missing = Missing
PROPERTY ShortGoAround
CHECK_DEADLOCK FALSE

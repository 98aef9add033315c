SPECIFICATION Spec
CONSTANTS
  Functions <- DeadBlock
  Uncounted = 3
  MaxTaken = 4
INVARIANT EdgeCalculated
CHECK_DEADLOCK FALSE

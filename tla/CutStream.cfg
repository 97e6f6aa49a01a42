CONSTANTS
  Cap = 2
  MaxDeltas = 2
SPECIFICATION Spec
INVARIANT AbortedNotCounted
CHECK_DEADLOCK FALSE

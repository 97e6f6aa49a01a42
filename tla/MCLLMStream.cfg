CONSTANTS
  Cap = 2
  MaxDeltas = 4
SPECIFICATION Spec
INVARIANTS
  TypeOK
  DoneMeansAll
  ErrorNotCharged
  TerminalFrame
PROPERTIES
  StreamEnds
  NoGoroutineLeak
CHECK_DEADLOCK FALSE

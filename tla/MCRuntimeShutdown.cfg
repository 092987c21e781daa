SPECIFICATION ShutFair
CONSTANTS
  Streams = {s1, s2}
  Jobs = {j1, j2}
CHECK_DEADLOCK FALSE
INVARIANTS
  NeverUnderWork
PROPERTIES
  ShutdownEnds

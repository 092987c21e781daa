SPECIFICATION LeaseFair
CONSTANTS
  Procs = {p, q, r}
  MaxConns = 3
  MaxDeaths = 1
  MaxCancels = 1
  FinalCancels = 0
INVARIANTS
  LeaseCount
  NoUseAfterClose
PROPERTIES
  WaitersServed

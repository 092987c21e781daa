SPECIFICATION PoolFair
CONSTANTS
  q1 = q1
  q2 = q2
  q3 = q3
  re = re
  sh = sh
  t1 = t1
  t2 = t2
  Procs <- Everyone
  OpOf <- MCOps
  Size = 2
  Targets <- Databases
  Settings <- MCSettings
  NoTarget = none
  MaxCancels = 1
CHECK_DEADLOCK FALSE
INVARIANTS
  SessionsAccounted
  BoundToCaller
  ClosedIsDown
PROPERTIES
  BorrowersServed

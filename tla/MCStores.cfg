SPECIFICATION Spec
CONSTANTS
  r1 = r1
  r2 = r2
  h1 = h1
  h2 = h2
  q1 = q1
  Runs = {r1, r2}
  Hosts = {h1, h2}
  Reqs = {q1}
  MaxSession = 2
  MaxWrites = 2
  Plans <- MCPlans
  Legacy = {r1}
  MaxEvents = 2
SYMMETRY HostSymmetry
INVARIANTS
  OwnSession
  NeverAhead
  ListsAgree
PROPERTY
  CellKept
CHECK_DEADLOCK FALSE

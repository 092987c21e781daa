SPECIFICATION Spec
CONSTANTS
  a = a
  b = b
  d = d
  e = e
  h1 = h1
  h2 = h2
  h3 = h3
  Tasks <- TwoTasks
  Host <- MCHost
  Rank <- MCRank
  Optional = {}
  MaxAttempt = 2
  Limit = 2
  Turns = {c1, c2}
  MaxStops = 1
  MaxFaults = 1
INVARIANTS
  VerdictBacked
PROPERTIES
  CallsRegistry
SYMMETRY TurnSymmetry

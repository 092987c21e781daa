SPECIFICATION FairSpec
CONSTANTS
  a = a
  b = b
  d = d
  e = e
  h1 = h1
  h2 = h2
  h3 = h3
  Tasks <- FourTasks
  Host <- MCHost
  Rank <- MCRank
  Optional = {}
  MaxAttempt = 1
  Limit = 3
  Turns = {c1}
  MaxStops = 3
  MaxFaults = 0
INVARIANTS
  HostExclusive
  TasksAccounted
  NothingLeftBehind
PROPERTIES
  RunCloses

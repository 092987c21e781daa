SPECIFICATION PlanSpec
SYMMETRY PlanSymmetry
CONSTANTS
  Procs = {p, q}
  Invs = {i, j}
  Facts = {f, g}
  None = none
  Bad = bad
  MaxOps = 3
  MaxChanges = 1
  MaxFaults = 2
  MaxCrashes = 1
INVARIANTS
  PointerPublished
  ViewsAgree
  DecisionKept
PROPERTIES
  DecidesCurrent

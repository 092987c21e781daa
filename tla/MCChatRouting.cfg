SPECIFICATION ChatSpec
SYMMETRY ChatSymmetry
CONSTANTS
  Threads = {t, u}
  Chats = {c}
  Jobs = {i, j}
  None = none
  MaxRuns = 2
  MaxTurns = 5
  MaxFaults = 3
INVARIANTS
  OneRunPerIntake
  DiscoveredOnce
  ConfirmedIsShown

SPECIFICATION ReplaySpec
CONSTANTS
  Setups <- MCSetups
  Period = 2
  MinBars = 2
  MaxBars <- MCMaxBars
  MaxRestarts = 1
INVARIANTS
  LiveFollowsStrategy
PROPERTIES
  SignalsAreEarned
CHECK_DEADLOCK FALSE

SPECIFICATION Spec
CONSTANTS
  GridNum = 4
  Step = 2
  Base = 10
  Open = {5, 7, 10, 13, 15}
  Failures = TRUE
  MaxOrders = 8
INVARIANTS
  OneOrderPerGap
  EveryOrderIsTracked
  ExposureFollowsGrid
CHECK_DEADLOCK FALSE

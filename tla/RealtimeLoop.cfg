SPECIFICATION FairSpec
CONSTANTS
  Iterations = {2, Unlimited}
  Unlimited = Unlimited
  Window = 2
  MaxAlerts = 1
  Failures <- MCFailures
  MaxLives = 2
  MaxOrders = 2
  MaxEvents = 2
INVARIANTS
  FilesAreHonest
  FillsAreReported
  AlertsAreLatest
PROPERTIES
  LoopEnds

SPECIFICATION FairSpec
CONSTANTS
  Interval = 2
  Price = {1, 2}
  Window <- TwoWindows
  Batch = {1, 2}
  Files <- OneFile
  Fault = {"fetch", "partial", "older", "invalid", "disk", "fallback"}
  Horizon = 3
  MaxTrades = 2
  MaxWrites = 2
  MaxCommands = 3
INVARIANTS
  LivePricesAreSpanned
PROPERTIES
  RowsOnlyWiden
  StorageIsHonest
  DownloadsEnd
CHECK_DEADLOCK FALSE

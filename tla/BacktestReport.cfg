SPECIFICATION ReportSpec
CONSTANTS
  BarPrice = {2, 3, 5}
  Buy = {1, 2}
  Sell = {1, 2, 3}
  Capital = 200
  Unit = 10
  Fee = 2
  BarsPerDay = 1
  MaxBars = 5
  MaxPosition = 3
INVARIANTS
  RecordExplainsProfit
  LogAddsUp
  ReportAgrees
CHECK_DEADLOCK FALSE

SPECIFICATION BooksSpec
CONSTANTS
  Symbol = {"S"}
  Process = {"loop", "order"}
  Valuer = {"loop"}
  Price = {2, 3}
  Amount = {1, 2}
  MaxTrades = 3
  MaxTime = 2
INVARIANTS
  BooksAddUp
  ValuationIsConsistent
PROPERTIES
  RebuildKeepsHoldings
CHECK_DEADLOCK FALSE

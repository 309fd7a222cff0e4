SPECIFICATION RiskSpec
CONSTANTS
  A = A
  B = B
  Shop = Shop
  Limits = Limits
  Cli = Cli
  Live = Live
  Symbol = {A, B}
  Engine = {Shop, Limits}
  Deployments <- OneOrTwo
  Owner <- TwoProcesses
  Valuer = {Live}
  Price = {1, 2}
  Slipped <- BadPrices
  Amount = {1, 2}
  Capital = 5
  SizeLimit = 80
  TotalLimit = 90
  DrawdownLimit = 20
  MaxOrders = 3
INVARIANTS
  NeverOverspent
PROPERTIES
  TotalPositionLimited
  DrawdownIsMeasured

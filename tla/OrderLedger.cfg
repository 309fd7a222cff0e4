SPECIFICATION Spec
CONSTANTS
  USDT = USDT
  BTC = BTC
  BTCUSDT = BTCUSDT
  ETHBTC = ETHBTC
  NoPrice = NoPrice
  Currency <- MCCurrency
  Symbol <- MCSymbol
  Quote <- MCQuote
  Requests <- MCRequests
  OrderId = {o1, o2}
  TradePrice = {1, 2}
  Deposits = {0, 4}
  MaxBalance = 5
  MaxTrades = 3
INVARIANTS
  FrozenIsHeld
  AlwaysCancelable
PROPERTIES
  OrdersFollowTrades
  ImplementsEscrow

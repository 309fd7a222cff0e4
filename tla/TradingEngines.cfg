SPECIFICATION Spec
CONSTANTS
  BTC = BTC
  ETH = ETH
  ETHBTC = ETHBTC
  BTCETH = BTCETH
  NoPrice = NoPrice
  Currency <- MCCurrency
  Symbol = {ETHBTC, BTCETH}
  Base <- MCBase
  Quote <- MCQuote
  BaseCurrency = BTC
  Capital = 6
  Price = {1, 3}
  Amount = {1, 2, 3}
  Slipped <- MCSlipped
  Tolerance = 1
  MaxOrders = 3
INVARIANTS
  BooksFollowTrades
  SweepsFailByToleranceOnly
  LimitOrdersAreServed
PROPERTIES
  PriorityIsRespected

---------------------------- MODULE MCOrderLedger ----------------------------
(***************************************************************************)
(* A small instance of OrderLedger: two ids, two symbols paid in two       *)
(* different currencies, buys and sells of one and two units at two        *)
(* prices, a market sell without a price.                                  *)
(***************************************************************************)
EXTENDS OrderLedger

CONSTANTS USDT, BTC, BTCUSDT, ETHBTC

MCCurrency == {USDT, BTC}
MCSymbol   == {BTCUSDT, ETHBTC}
MCQuote    == [s \in MCSymbol |-> IF s = BTCUSDT THEN USDT ELSE BTC]

Req(s, t, d, p, n) ==
  [symbol |-> s, type |-> t, side |-> d, price |-> p, amount |-> n]

MCRequests ==
  {Req(BTCUSDT, "limit", "buy", 1, 2), Req(BTCUSDT, "limit", "buy", 2, 2),
   Req(BTCUSDT, "market", "buy", 2, 1), Req(ETHBTC, "limit", "buy", 1, 2),
   Req(BTCUSDT, "limit", "sell", 1, 2),
   Req(BTCUSDT, "market", "sell", NoPrice, 1)}

=============================================================================

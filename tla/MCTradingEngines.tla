-------------------------- MODULE MCTradingEngines --------------------------
(***************************************************************************)
(* Small instances of TradingEngines: slippage of one unit, prices and     *)
(* amounts such that orders are triggered by some prices only, limits are  *)
(* crossed by the slippage, and buys and sells compete.  Each of two       *)
(* currencies is traded against the other, so that an account can hold     *)
(* more than the position; with a tolerance of one unit sales of one unit  *)
(* too much pass the check.                                                *)
(***************************************************************************)
EXTENDS TradingEngines

CONSTANTS BTC, ETH, ETHBTC, BTCETH

MCCurrency == {BTC, ETH}
MCBase     == [s \in Symbol |-> IF s = ETHBTC THEN ETH ELSE BTC]
MCQuote    == [s \in Symbol |-> IF s = ETHBTC THEN BTC ELSE ETH]
MCSlipped  == [side \in OrderSide |->
                 [p \in Price |-> IF side = "buy" THEN p + 1
                                  ELSE IF p = 1 THEN 1 ELSE p - 1]]

=============================================================================

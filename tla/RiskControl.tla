---------------------------- MODULE RiskControl ----------------------------
(***************************************************************************)
(* Pre-order risk control (src/src/core/risk.py) between the engines that  *)
(* ask it and the portfolio it looks at.                                   *)
(*                                                                         *)
(* Every engine owns a RiskControl, with a peak equity of its own in       *)
(* memory.  A check reads the cash in one transaction and the positions in *)
(* another, and the order is placed in a third, so other processes (the    *)
(* command line beside the live loop) may act in between.  A market order  *)
(* is checked and filled at the latest price after slippage; a limit order *)
(* is checked at its limit and waits, its cost frozen but its position not *)
(* counted by the check.                                                   *)
(*                                                                         *)
(* Fees are left out.  Module TradingEngines models the engines' own       *)
(* checks and settlement.                                                  *)
(***************************************************************************)
EXTENDS Sums

CONSTANTS
  Symbol,
  Engine,       \* the matching engines, one RiskControl each
  Deployments,  \* what may run: the engines in use, the kinds, symbols and number of orders
  Owner,        \* Owner[e]: the process engine e runs in
  Valuer,       \* the processes that value the positions: the live loop
  Price,        \* market and limit prices
  Slipped,      \* Slipped[side][p]: price p after adverse slippage
  Amount,       \* order sizes
  Capital,      \* the cash at the start
  SizeLimit, TotalLimit, DrawdownLimit,   \* max_position_size, max_total_position,
                                          \* max_drawdown, in percent
  MaxOrders     \* bound: the orders placed in a deployment of the most orders

ASSUME OwnerAssumption == DOMAIN Owner = Engine
ASSUME SymbolAssumption == IsFiniteSet(Symbol)
ASSUME NumberAssumption ==
  /\ Price \subseteq Nat \ {0} /\ Amount \subseteq Nat \ {0} /\ Capital \in Nat
  /\ MaxOrders \in Nat
ASSUME SlippedAssumption ==
  /\ Slipped \in [{"buy", "sell"} -> [Price -> Nat \ {0}]]
  /\ \A p \in Price : Slipped["sell"][p] <= p /\ p <= Slipped["buy"][p]
ASSUME DeploymentsAssumption ==
  Deployments \subseteq [engines : SUBSET Engine, kinds : SUBSET {"market", "limit"},
                          symbols : SUBSET Symbol, orders : 0..MaxOrders]
\* RiskLimits.from_config
ASSUME LimitsAssumption ==
  /\ SizeLimit \in 1..100 /\ TotalLimit \in 1..100 /\ DrawdownLimit \in 0..100
  /\ SizeLimit <= TotalLimit

VARIABLES
  deployed,    \* the deployment, chosen once
  cash,        \* available + frozen of the base currency's account
  positions,   \* symbol deployed -> amount held, average entry price, current price
  open,        \* the limit orders in the queue
  placed,      \* how many orders were placed
  market,      \* the price of each symbol in the market
  peaks,       \* engine -> _peak_equity, NoPeak before the first check
  asked,       \* process -> the order whose check has read the cash, and the cash it read
  checked,     \* process -> the order that passed its check and is not placed yet
  best         \* history: the highest equity so far, at the prices buys would execute at

portfolio == <<cash, positions, open, placed>>
riskVars == <<deployed, portfolio, market, peaks, asked, checked, best>>

Process == {Owner[e] : e \in Engine}
Running == {Owner[e] : e \in deployed.engines}
NoOrder == [kind |-> "none"]
NoPeak == [num |-> 0, den |-> 0]
ExecutionPrice == Price \cup {Slipped[side][p] : side \in {"buy", "sell"}, p \in Price}
Order == [kind : {"market", "limit"}, side : {"buy", "sell"}, symbol : Symbol, amount : Amount,
          price : ExecutionPrice]
Fraction == [num : Int, den : Nat \ {0}]
Position == [amount : Nat, entry : Fraction, current : ExecutionPrice \cup {0}]

RiskTypeOK ==
  /\ deployed \in Deployments
  /\ cash \in Int
  /\ positions \in [deployed.symbols -> Position]
  /\ open \subseteq [id : 1..MaxOrders, order : Order]
  /\ placed \in 0..MaxOrders
  /\ market \in [deployed.symbols -> Price]
  /\ peaks \in [Engine -> Fraction \cup {NoPeak}]
  /\ asked \in [Process -> [engine : Engine, order : Order, cash : Int] \cup {NoOrder}]
  /\ checked \in [Process -> [engine : Engine, order : Order] \cup {NoOrder}]
  /\ best \in Nat

-----------------------------------------------------------------------------
(***************************************************************************)
(* Fractions: entry prices are averages                                    *)
(***************************************************************************)
Whole(n) == [num |-> n, den |-> 1]
Plus(q, r) == [num |-> q.num * r.den + r.num * q.den, den |-> q.den * r.den]
Times(n, q) == [num |-> n * q.num, den |-> q.den]
Exceeds(q, r) == q.num * r.den > r.num * q.den
Larger(q, r) == IF Exceeds(q, r) THEN q ELSE r

-----------------------------------------------------------------------------
(***************************************************************************)
(* What the check computes                                                 *)
(***************************************************************************)
Held == {s \in DOMAIN positions : positions[s].amount > 0}

\* Value of the positions at these prices.
ValueAt(prices) == Total([t \in DOMAIN positions |-> positions[t].amount * prices[t]])

\* Every fill and every valuation records a price.
Recorded == [t \in DOMAIN positions |-> positions[t].current]

\* Value of the positions, symbol s at the order's price and the others at
\* their recorded price.
PositionsValue(s, price) == ValueAt([Recorded EXCEPT ![s] = price])

TotalAssets(money, s, price) == money + PositionsValue(s, price)

\* base_cash + cost_basis_value, one position after the other
CashAtCost(money) ==
  LET cost[T \in SUBSET Held] ==
        IF T = {} THEN Whole(money)
        ELSE LET t == CHOOSE t \in T : TRUE IN
             Plus(cost[T \ {t}], Times(positions[t].amount, positions[t].entry))
  IN  cost[Held]

\* Faulty variant of UpdatePeak: what was paid for the positions is forgotten.
UpdatePeakAssets(e, money, total) ==
  IF peaks[e] = NoPeak THEN Whole(total) ELSE Larger(peaks[e], Whole(total))

\* _update_peak_equity
UpdatePeak(e, money, total) ==
  LET estimated == Larger(Whole(total), CashAtCost(money)) IN
  IF peaks[e] = NoPeak THEN estimated ELSE Larger(peaks[e], estimated)

\* (peak - total) / peak > max_drawdown
TooDeep(total, peak) ==
  peak.num > 0 /\ (peak.num - total * peak.den) * 100 > DrawdownLimit * peak.num

\* Faulty variant of Acceptable: what is held is not added to the order.
AcceptableAlone(o, total, peak) ==
  o.side = "buy" =>
    /\ ~TooDeep(total, peak)
    /\ o.amount * o.price * 100 <= SizeLimit * total

\* check_pre_order refuses buys only.
Acceptable(o, total, peak) ==
  o.side = "buy" =>
    /\ ~TooDeep(total, peak)
    /\ o.amount * o.price * 100 <= SizeLimit * total
    /\ (PositionsValue(o.symbol, o.price) + o.amount * o.price) * 100
         <= TotalLimit * total

-----------------------------------------------------------------------------
(***************************************************************************)
(* Checking and placing orders                                             *)
(***************************************************************************)
Idle(p) == asked[p] = NoOrder /\ checked[p] = NoOrder

\* The price an order is checked at: the latest price after slippage, or the limit.
IsReferencePrice(o) ==
  IF o.kind = "market" THEN o.price = Slipped[o.side][market[o.symbol]] ELSE o.price \in Price

\* The first transaction of a check reads the cash.
Ask(e, o) ==
  LET p == Owner[e] IN
  /\ e \in deployed.engines /\ o.kind \in deployed.kinds /\ o.symbol \in deployed.symbols
  /\ Idle(p)
  /\ placed < deployed.orders
  /\ IsReferencePrice(o)
  /\ asked' = [asked EXCEPT ![p] = [engine |-> e, order |-> o, cash |-> cash]]
  /\ UNCHANGED <<portfolio, market, peaks, checked, best>>

\* The second one reads the positions, and the check decides.  A portfolio that
\* is worth nothing is refused before the peak is updated.
Check(p) ==
  /\ asked[p] # NoOrder
  /\ LET e     == asked[p].engine
         o     == asked[p].order
         total == TotalAssets(asked[p].cash, o.symbol, o.price)
         peak  == UpdatePeak(e, asked[p].cash, total)
     IN  /\ peaks' = IF total > 0 THEN [peaks EXCEPT ![e] = peak] ELSE peaks
         /\ checked' = IF total > 0 /\ Acceptable(o, total, peak)
                       THEN [checked EXCEPT ![p] = [engine |-> e, order |-> o]] ELSE checked
  /\ asked' = [asked EXCEPT ![p] = NoOrder]
  /\ UNCHANGED <<portfolio, market, best>>

FrozenCash ==
  Total([x \in open |-> IF x.order.side = "buy" THEN x.order.amount * x.order.price ELSE 0])

\* Faulty variant of CanPlace: the money was there when the order was checked.
CanPlaceChecked(o) ==
  o.side = "sell" => positions[o.symbol].amount >= o.amount

\* create_order freezes the money of a buy; a sell must be covered.
CanPlace(o) ==
  IF o.side = "buy" THEN cash - FrozenCash >= o.amount * o.price
  ELSE positions[o.symbol].amount >= o.amount

\* The position after order o was filled at price p.
Filled(o, p) ==
  LET pos == positions[o.symbol] IN
  IF o.side = "sell"
  THEN [pos EXCEPT !.amount = @ - o.amount, !.current = p]
  ELSE [amount  |-> pos.amount + o.amount,
        entry   |-> IF pos.amount = 0 THEN Whole(p)
                    ELSE [num |-> pos.amount * pos.entry.num
                                    + o.amount * p * pos.entry.den,
                          den |-> (pos.amount + o.amount) * pos.entry.den],
        current |-> p]

Settle(o, p) ==
  /\ positions' = [positions EXCEPT ![o.symbol] = Filled(o, p)]
  /\ cash' = IF o.side = "buy" THEN cash - o.amount * p ELSE cash + o.amount * p

\* The second transaction: a market order is filled, a limit order queued.  It
\* raises, and the order is gone, when the order is not covered.
Place(p) ==
  /\ checked[p] # NoOrder
  /\ checked' = [checked EXCEPT ![p] = NoOrder]
  /\ LET o == checked[p].order IN
     \/ /\ CanPlace(o) /\ placed < deployed.orders
        /\ placed' = placed + 1
        /\ IF o.kind = "market"
           THEN Settle(o, o.price) /\ UNCHANGED open
           ELSE /\ open' = open \cup {[id |-> placed + 1, order |-> o]}
                /\ UNCHANGED <<cash, positions>>
     \/ ~CanPlace(o) /\ UNCHANGED portfolio
  /\ UNCHANGED <<market, peaks, asked>>

\* What a limit order that the market has reached executes at: the market's
\* price after slippage, never worse than the limit.
FillPrice(o) ==
  LET q == Slipped[o.side][market[o.symbol]] IN
  IF o.side = "buy" THEN IF q > o.price THEN o.price ELSE q
  ELSE IF q < o.price THEN o.price ELSE q

\* A sweep fills a limit order.
Fill(p, x) ==
  LET o == x.order IN
  /\ Idle(p)
  /\ IF o.side = "buy" THEN market[o.symbol] <= o.price
     ELSE market[o.symbol] >= o.price /\ positions[o.symbol].amount >= o.amount
  /\ Settle(o, FillPrice(o))
  /\ open' = open \ {x}
  /\ UNCHANGED <<placed, market, peaks, asked, checked>>

CancelOpen(p, x) ==
  /\ Idle(p)
  /\ open' = open \ {x}
  /\ UNCHANGED <<cash, positions, placed, market, peaks, asked, checked>>

-----------------------------------------------------------------------------
\* The market moves.
Move(s, p) ==
  /\ market' = [market EXCEPT ![s] = p]
  /\ UNCHANGED <<portfolio, peaks, asked, checked>>

\* valuate_portfolio writes the latest prices into the positions.
Revalue(p) ==
  /\ p \in Valuer
  /\ Idle(p)
  /\ positions' = [s \in DOMAIN positions |-> IF positions[s].current = 0 THEN positions[s]
                                    ELSE [positions[s] EXCEPT !.current = market[s]]]
  /\ UNCHANGED <<cash, open, placed, market, peaks, asked, checked>>

\* A process ends and is started again: what is in memory is lost.
Restart(p) ==
  /\ peaks' = [e \in Engine |-> IF Owner[e] = p THEN NoPeak ELSE peaks[e]]
  /\ asked' = [asked EXCEPT ![p] = NoOrder]
  /\ checked' = [checked EXCEPT ![p] = NoOrder]
  /\ UNCHANGED <<portfolio, market>>

\* What the portfolio is worth at the prices that buys would execute at.
Equity == cash + ValueAt([t \in DOMAIN positions |-> Slipped["buy"][market[t]]])

RiskInit ==
  /\ deployed \in Deployments
  /\ cash = Capital
  /\ positions = [s \in deployed.symbols |-> [amount |-> 0, entry |-> Whole(0), current |-> 0]]
  /\ open = {}
  /\ placed = 0
  /\ market \in [deployed.symbols -> Price]
  /\ peaks = [e \in Engine |-> NoPeak]
  /\ asked = [p \in Process |-> NoOrder]
  /\ checked = [p \in Process |-> NoOrder]
  /\ best = Capital

Trade ==
  \/ \E p \in Running :
       \/ Place(p) \/ Revalue(p) \/ Restart(p)
       \/ \E x \in open : Fill(p, x) \/ CancelOpen(p, x)
  \/ \E s \in deployed.symbols, q \in Price : Move(s, q)

RiskNext ==
  /\ UNCHANGED deployed
  /\ \/ \E e \in Engine, o \in Order : Ask(e, o)
     \/ \E p \in Running : Check(p)
     \/ Trade /\ best' = (IF Equity' > best THEN Equity' ELSE best)

RiskSpec == RiskInit /\ [][RiskNext]_riskVars

-----------------------------------------------------------------------------
(***************************************************************************)
(* What risk control promises                                              *)
(***************************************************************************)
\* The value of all positions, at the recorded prices, as a share of the total.
TotalWithinLimit ==
  ValueAt(Recorded) * 100 <= TotalLimit * (cash + ValueAt(Recorded))

\* One engine that places market orders only: its orders are filled before it
\* checks the next, and no other process is there.
MarketOnly == (\E e \in Engine : deployed.engines = {e}) /\ deployed.kinds = {"market"}

OneSymbol == \E s \in Symbol : deployed.symbols = {s}

\* Total position control (product-requirement-document.md:100): whenever a fill
\* makes a position larger, all positions together are within the limit, although
\* the check came a transaction earlier.  Open limit orders are not counted by the
\* check, nor what another process has checked: with either it is refuted.
TotalPositionLimited ==
  [][(\E s \in DOMAIN positions : positions'[s].amount > positions[s].amount) /\ MarketOnly
       => TotalWithinLimit']_riskVars

\* No holding of one symbol grows beyond max_position_size of the total assets
\* (product-requirement-document.md:101).
HoldingLimited ==
  [][\A s \in DOMAIN positions : positions'[s].amount > positions[s].amount =>
       positions'[s].amount * positions'[s].current * 100
         <= SizeLimit * (cash + ValueAt(Recorded))']_riskVars

\* Orders are paid from the portfolio's own money: however checks and placements
\* of several processes interleave, what is frozen and what was paid never exceed
\* the cash there is.
NeverOverspent == RiskTypeOK /\ cash >= FrozenCash

Accepts(p) == checked[p] = NoOrder /\ checked'[p] # NoOrder /\ checked'[p].order.side = "buy"

Alone == \E p \in Process : Running = {p}

\* No buy passes the check while the open losses of the portfolio exceed the
\* drawdown limit: this much of the drawdown is known from the positions' entry
\* prices to every engine, freshly restarted ones included.  A buy of another
\* process between the two reads of a check is counted twice, as cash and as a
\* position, and may let the order pass: without the condition this is refuted.
OpenLossBlocksBuys ==
  \A p \in Process : Accepts(p) /\ (Alone \/ asked[p].cash = cash) =>
    LET o == checked'[p].order IN
    ~TooDeep(TotalAssets(cash, o.symbol, o.price), CashAtCost(cash))

\* The peak of an engine is an equity the portfolio really had, but for slippage:
\* orders are checked at the price they would execute at, so it may be above every
\* equity at market prices, and never above the highest one at the prices of buys.
\* The drawdown is a fall of the equity curve (product-requirement-document.md:490).
\* Refuted with limit orders, which are checked at their own price, and with two
\* symbols: a loss that is not sold yet is left out of the cost basis, and the
\* recorded price of the other symbol may be an old one.
PeakWasReached ==
  MarketOnly /\ OneSymbol =>
    \A e \in Engine : peaks[e] # NoPeak => ~Exceeds(peaks[e], Whole(best))

\* The drawdown that risk control acts on is a real one: the peak it is measured
\* from was reached, and the part of it that is open losses blocks every buy.
DrawdownIsMeasured == [][PeakWasReached' /\ OpenLossBlocksBuys]_riskVars

=============================================================================

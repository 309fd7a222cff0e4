--------------------------- MODULE TradingEngines ---------------------------
(***************************************************************************)
(* The three matching engines over the order ledger: market orders         *)
(* (src/src/core/matching.py), the limit order queue                       *)
(* (limit_matching.py, limit_settlement.py) and stop-loss / take-profit    *)
(* orders (stop_trigger.py), with slippage (execution_cost.py) and the     *)
(* positions table.                                                        *)
(*                                                                         *)
(* Placing an order and executing a market order are one transaction each  *)
(* and one step each.  A sweep of the queue is one transaction too; it is  *)
(* modelled order by order, so that the orders of one sweep can be seen    *)
(* competing for the same money and holdings.  Nothing else happens to     *)
(* these tables in between: the transaction holds the database.  An order  *)
(* whose settlement raises undoes all of it.                               *)
(*                                                                         *)
(* Amounts are counted in grains so fine that the code's 1e-12, by which a *)
(* check of a sale may miss, is a number of them; a refund that is not     *)
(* nothing is above 1e-12, the threshold below which the code drops it.    *)
(*                                                                         *)
(* Risk control may refuse any new order before it reaches the ledger; the *)
(* model lets every order through that the ledger accepts.                 *)
(***************************************************************************)
EXTENDS Accounts, Orders, Sums, Sequences

CONSTANTS
  Base, Quote,     \* the two currencies of a symbol
  BaseCurrency,    \* the account currency ...
  Capital,         \* ... and the capital the account starts with
  Price,           \* market, limit and trigger prices
  Amount,          \* order sizes
  Slipped,         \* Slipped[side][p]: price p after adverse slippage
  Tolerance,       \* the 1e-12 of the code, in grains of an amount
  MaxOrders        \* bound: rows of the orders table

ASSUME SymbolAssumption ==
  /\ Base \in [Symbol -> Currency] /\ Quote \in [Symbol -> Currency]
  /\ \A s \in Symbol : Base[s] # Quote[s]
  /\ BaseCurrency \in Currency /\ Capital \in Nat
ASSUME PriceAssumption ==
  Price \subseteq Nat \ {0} /\ Amount \subseteq Nat \ {0} /\ Tolerance \in Nat
\* apply_slippage, whose rate is below 1: never in the trader's favour.
ASSUME SlippedAssumption ==
  /\ Slipped \in [OrderSide -> [Price -> Nat \ {0}]]
  /\ \A p \in Price : Slipped["sell"][p] <= p /\ p <= Slipped["buy"][p]

VARIABLES
  accounts, orders, trades,   \* the tables of the ledger
  positions,                  \* symbol -> row of the positions table
  sweep,                      \* the sweep in progress
  undo                        \* the tables as they were when it began

ledger == <<accounts, orders, trades>>
running == <<sweep, undo>>
vars == <<ledger, positions, running>>

\* Orders are numbered in the order of their creation.
OrderId == 1..MaxOrders

L == INSTANCE OrderLedger WITH
       Requests <- {}, TradePrice <- Nat \ {0}, Deposits <- {},
       MaxBalance <- 0, MaxTrades <- 0

\* Fractions, for the average entry price and the realized profit.
Fraction == [num : Int, den : Nat \ {0}]

Position == [amount : Nat, entry : Fraction, realized : Fraction]

Tables == [accounts |-> accounts, orders |-> orders, trades |-> trades, positions |-> positions]
NoTables == [accounts |-> <<>>, orders |-> <<>>, trades |-> <<>>, positions |-> <<>>]

NoSweep == [kind |-> "none"]
Sweep == [kind : {"limit", "trigger"}, symbol : Symbol, market : Price,
          queue : SUBSET OrderId]

TypeOK ==
  /\ L!TypeOK
  /\ DOMAIN positions \subseteq Symbol
  /\ positions \in [DOMAIN positions -> Position]
  /\ sweep \in Sweep \cup {NoSweep}

Rest(o) == o.request.amount - o.filled

-----------------------------------------------------------------------------
(***************************************************************************)
(* Positions (matching.py and limit_settlement.py hold the same code)      *)
(***************************************************************************)
\* The entry price becomes the average over what is held.
BuyPosition(pos, s, n, p) ==
  LET new == IF s \in DOMAIN pos
             THEN [amount   |-> pos[s].amount + n,
                   entry    |-> [num |-> pos[s].amount * pos[s].entry.num
                                           + n * p * pos[s].entry.den,
                                 den |-> (pos[s].amount + n) * pos[s].entry.den],
                   realized |-> pos[s].realized]
             ELSE [amount   |-> n,
                   entry    |-> [num |-> p, den |-> 1],
                   realized |-> [num |-> 0, den |-> 1]]
  IN  [t \in DOMAIN pos \cup {s} |-> IF t = s THEN new ELSE pos[t]]

\* The realized profit grows by (p - entry) for each unit sold, also for those
\* that the position did not have.
SellPosition(pos, s, n, p) ==
  LET e == pos[s].entry
      r == pos[s].realized
  IN  [pos EXCEPT ![s] =
         [amount   |-> IF @.amount > n THEN @.amount - n ELSE 0,
          entry    |-> e,
          realized |-> [num |-> r.num * e.den + (p * e.den - e.num) * n * r.den,
                        den |-> r.den * e.den]]]

\* Faulty variant of HasSellCapacity: the account is not looked at.
HasPosition(acc, s, n) == s \in DOMAIN positions /\ positions[s].amount + Tolerance >= n

\* The position covers the sale, or almost.
HasUnits(s, n) == s \in DOMAIN positions /\ positions[s].amount + Tolerance >= n

\* has_sell_capacity: the account and the position cover the sale, or almost.
HasSellCapacity(acc, s, n) ==
  /\ Base[s] \in DOMAIN acc
  /\ acc[Base[s]].available + Tolerance >= n
  /\ HasUnits(s, n)

-----------------------------------------------------------------------------
(***************************************************************************)
(* record_trade of all that is left of order o, and its settlement         *)
(***************************************************************************)
\* Faulty variant of Refund: nothing is given back.
NoRefund(o, p) == 0

\* A limit buy executed below its limit gets the difference back.
Refund(o, p) ==
  IF o.request.type = "limit" /\ IsBuy(o) /\ p < o.request.price
  THEN (o.request.price - p) * Rest(o) ELSE 0

\* Everything record_trade and settle check on the way: consume_available, for
\* one, tolerates nothing.
CanFill(acc, o) ==
  LET s == o.request.symbol IN
  /\ o.status \in Fillable
  /\ {Base[s], Quote[s]} \subseteq DOMAIN acc
  /\ IF IsBuy(o)
     THEN CanConsumeFrozen(acc, Quote[s], Cost(o, Rest(o)))
     ELSE CanConsumeAvailable(acc, Base[s], Rest(o)) /\ HasUnits(s, Rest(o))

FillAccounts(acc, o, p) ==
  LET s == o.request.symbol
      n == Rest(o)
  IN  IF IsBuy(o)
      THEN Credit(Credit(ConsumeFrozen(acc, Quote[s], L!TradeCost(o, p, n)),
                         Base[s], n),
                  Quote[s], Refund(o, p))
      ELSE Credit(ConsumeAvailable(acc, Base[s], n), Quote[s], n * p)

FillPosition(o, p) ==
  IF IsBuy(o)
  THEN BuyPosition(positions, o.request.symbol, Rest(o), p)
  ELSE SellPosition(positions, o.request.symbol, Rest(o), p)

\* Order id, in the state o, is filled at price p from the accounts acc.
Fill(acc, id, o, p) ==
  /\ CanFill(acc, o)
  /\ accounts' = FillAccounts(acc, o, p)
  /\ positions' = FillPosition(o, p)
  /\ trades' = Append(trades, [order |-> id, price |-> p, amount |-> Rest(o)])
  /\ orders' = [i \in DOMAIN orders \cup {id} |->
                  IF i # id THEN orders[i]
                  ELSE [request |-> o.request, filled |-> o.request.amount,
                        status |-> L!StatusAfter(o, o.request.amount)]]

-----------------------------------------------------------------------------
(***************************************************************************)
(* Placing orders                                                          *)
(***************************************************************************)
\* ensure_accounts
WithAccounts(s) == OpenAccount(OpenAccount(accounts, Base[s], 0), Quote[s], 0)

\* create_order followed by update_order_status(OPEN).
Opened(req) == [NewOrder(req) EXCEPT !.status = "open"]

\* What create_order and the check before it require, and the accounts after.
CanCreate(req) ==
  IF req.side = "buy"
  THEN CanFreeze(WithAccounts(req.symbol), Quote[req.symbol], req.amount * req.price)
  ELSE HasSellCapacity(WithAccounts(req.symbol), req.symbol, req.amount)

Created(req) ==
  IF req.side = "buy"
  THEN Freeze(WithAccounts(req.symbol), Quote[req.symbol], req.amount * req.price)
  ELSE WithAccounts(req.symbol)

Fresh(id) == id = Cardinality(DOMAIN orders) + 1 /\ id <= MaxOrders

\* execute_market_order: created, opened, filled and settled in one go at the
\* latest price with slippage.
ExecuteMarketOrder(id, s, side, n, market) ==
  LET p   == Slipped[side][market]
      req == [symbol |-> s, type |-> "market", side |-> side, price |-> p, amount |-> n]
  IN  /\ sweep = NoSweep
      /\ Fresh(id)
      /\ CanCreate(req)
      /\ Fill(Created(req), id, Opened(req), p)
      /\ UNCHANGED running

\* place_limit_order and place_trigger_order.  A sell checks the holdings and
\* sets nothing aside.
PlaceOrder(id, s, type, side, n, price) ==
  LET req == [symbol |-> s, type |-> type, side |-> side, price |-> price, amount |-> n]
  IN  /\ sweep = NoSweep
      /\ Fresh(id)
      /\ CanCreate(req)
      /\ accounts' = Created(req)
      /\ orders' = [i \in DOMAIN orders \cup {id} |->
                      IF i = id THEN Opened(req) ELSE orders[i]]
      /\ UNCHANGED <<trades, positions, running>>

\* The cancel command.
Cancel(id) ==
  /\ sweep = NoSweep
  /\ L!CancelOrder(id)
  /\ UNCHANGED <<positions, running>>

-----------------------------------------------------------------------------
(***************************************************************************)
(* Sweeps                                                                  *)
(***************************************************************************)
TypesOf(kind) == IF kind = "limit" THEN {"limit"} ELSE {"stop_loss", "take_profit"}

\* _load_open_limit_orders and _load_open_trigger_orders
Book(kind, s) ==
  {i \in DOMAIN orders : /\ orders[i].request.symbol = s
                         /\ orders[i].request.type \in TypesOf(kind)
                         /\ orders[i].status \in Fillable}

\* Faulty variant of RanksBefore: sells are taken from the highest price.
RanksHighestFirst(kind, i, j) ==
  LET a == orders[i].request
      b == orders[j].request
  IN  IF kind = "trigger" THEN i < j
      ELSE IF a.side # b.side THEN a.side = "buy"
      ELSE IF a.price # b.price THEN a.price > b.price
      ELSE i < j

\* Limit orders: buys from the highest price, then sells from the lowest, the
\* older first at the same price.  Trigger orders: the older first.
RanksBefore(kind, i, j) ==
  LET a == orders[i].request
      b == orders[j].request
  IN  IF kind = "trigger" THEN i < j
      ELSE IF a.side # b.side THEN a.side = "buy"
      ELSE IF a.price # b.price THEN (a.price > b.price) = (a.side = "buy")
      ELSE i < j

\* Faulty variant of Triggered: a price that just meets the limit is missed.
TriggeredBeyond(o, market) ==
  IF \/ o.request.type \in {"limit", "take_profit"} /\ IsBuy(o)
     \/ o.request.type = "stop_loss" /\ ~IsBuy(o)
  THEN market < o.request.price
  ELSE market > o.request.price

\* _is_price_triggered and _is_triggered
Triggered(o, market) ==
  IF \/ o.request.type \in {"limit", "take_profit"} /\ IsBuy(o)
     \/ o.request.type = "stop_loss" /\ ~IsBuy(o)
  THEN market <= o.request.price
  ELSE market >= o.request.price

\* The better of limit and market, with slippage, but never beyond the limit.
LimitPrice(o, market) ==
  LET limit == o.request.price IN
  IF IsBuy(o)
  THEN LET slipped == Slipped["buy"][IF market < limit THEN market ELSE limit]
       IN  IF slipped < limit THEN slipped ELSE limit
  ELSE LET slipped == Slipped["sell"][IF market > limit THEN market ELSE limit]
       IN  IF slipped > limit THEN slipped ELSE limit

\* Trigger orders execute at their trigger price, with slippage.
ExecutionPrice(kind, o, market) ==
  IF kind = "limit" THEN LimitPrice(o, market)
  ELSE Slipped[o.request.side][o.request.price]

\* An order waits in the queue if next to nothing of it is left, and a sell
\* while there is not enough to sell.
Waits(o, market) ==
  \/ ~Triggered(o, market)
  \/ Rest(o) <= Tolerance
  \/ ~IsBuy(o) /\ ~HasSellCapacity(accounts, o.request.symbol, Rest(o))

StartSweep(kind, s, market) ==
  /\ sweep = NoSweep
  /\ sweep' = [kind |-> kind, symbol |-> s, market |-> market, queue |-> Book(kind, s)]
  /\ undo' = Tables
  /\ UNCHANGED <<ledger, positions>>

\* The order that comes first of those left.
IsNext(id) ==
  /\ sweep # NoSweep
  /\ id \in sweep.queue
  /\ \A j \in sweep.queue \ {id} : RanksBefore(sweep.kind, id, j)

SweepOrder(id) ==
  /\ IsNext(id)
  /\ sweep' = [sweep EXCEPT !.queue = @ \ {id}]
  /\ undo' = undo
  /\ IF Waits(orders[id], sweep.market)
     THEN UNCHANGED <<ledger, positions>>
     ELSE Fill(accounts, id, orders[id],
               ExecutionPrice(sweep.kind, orders[id], sweep.market))

\* A check fails on the way to the settlement: what is raised leaves the
\* transaction, which is rolled back with all the fills of the sweep.
SweepFails(id) ==
  /\ IsNext(id)
  /\ ~Waits(orders[id], sweep.market)
  /\ ~CanFill(accounts, orders[id])
  /\ accounts' = undo.accounts /\ orders' = undo.orders
  /\ trades' = undo.trades /\ positions' = undo.positions
  /\ sweep' = NoSweep /\ undo' = NoTables

EndSweep ==
  /\ sweep # NoSweep
  /\ sweep.queue = {}
  /\ sweep' = NoSweep /\ undo' = NoTables
  /\ UNCHANGED <<ledger, positions>>

-----------------------------------------------------------------------------
\* AccountService.from_config opens the account before anything is traded.
Init ==
  /\ accounts = OpenAccount([c \in {} |-> 0], BaseCurrency, Capital)
  /\ orders = [i \in {} |-> 0]
  /\ trades = <<>>
  /\ positions = [s \in {} |-> 0]
  /\ sweep = NoSweep /\ undo = NoTables

Place ==
  \E id \in OrderId, s \in Symbol, side \in OrderSide, n \in Amount, p \in Price :
    \/ ExecuteMarketOrder(id, s, side, n, p)
    \/ \E type \in OrderType \ {"market"} : PlaceOrder(id, s, type, side, n, p)

Process ==
  \/ \E kind \in {"limit", "trigger"}, s \in Symbol, p \in Price : StartSweep(kind, s, p)
  \/ \E id \in OrderId : SweepOrder(id) \/ SweepFails(id)
  \/ EndSweep

Next == Place \/ Process \/ \E id \in OrderId : Cancel(id)

Spec == Init /\ [][Next]_vars

-----------------------------------------------------------------------------
(***************************************************************************)
(* What the engines promise                                                *)
(***************************************************************************)
\* The trades table as sequences of numbers: what each trade moved into and
\* out of an account or a position.
OrderOf(t) == orders[t.order]
SymbolOf(t) == OrderOf(t).request.symbol

Bought(s) ==
  [k \in DOMAIN trades |->
     IF SymbolOf(trades[k]) = s /\ IsBuy(OrderOf(trades[k])) THEN trades[k].amount ELSE 0]
Sold(s) ==
  [k \in DOMAIN trades |->
     IF SymbolOf(trades[k]) = s /\ ~IsBuy(OrderOf(trades[k])) THEN trades[k].amount ELSE 0]
Worth(amounts) == [k \in DOMAIN trades |-> amounts[k] * trades[k].price]

\* What a trade is worth to the account that pays for it: the price at which
\* the order froze the money if it is a trigger order, its own price otherwise.
Charged(amounts) ==
  [k \in DOMAIN trades |->
     amounts[k] * IF OrderOf(trades[k]).request.type \in TypesOf("trigger")
                  THEN OrderOf(trades[k]).request.price ELSE trades[k].price]

SumOver(S, f(_)) == Total([x \in S |-> Total(f(x))])
BasedOn(c) == {s \in Symbol : Base[s] = c}
PaidIn(c) == {s \in Symbol : Quote[s] = c}
Start(c) == IF c = BaseCurrency THEN Capital ELSE 0

\* No money is made or lost: the balance of every account is the starting
\* capital plus what the recorded trades brought in less what they cost,
\* through freezing, slippage, refunds, cancellations and both copies of the
\* settlement.
BalancesFollowTrades ==
  \A c \in DOMAIN accounts :
    accounts[c].balance + SumOver(PaidIn(c), LAMBDA s : Charged(Bought(s)))
      = Start(c) + SumOver(BasedOn(c), Bought) + SumOver(PaidIn(c), LAMBDA s : Worth(Sold(s)))
        - SumOver(BasedOn(c), Sold)

\* The same, with every trade charged at the price it was recorded at.
BalancesFollowTradePrices ==
  \A c \in DOMAIN accounts :
    accounts[c].balance + SumOver(PaidIn(c), LAMBDA s : Worth(Bought(s)))
      = Start(c) + SumOver(BasedOn(c), Bought) + SumOver(PaidIn(c), LAMBDA s : Worth(Sold(s)))
        - SumOver(BasedOn(c), Sold)

\* The frozen money is what the live buys hold, whichever engine placed,
\* filled or canceled them.
FrozenIsHeld == L!FrozenIsHeld

\* A position is what was bought less what was sold, but for the sales that the
\* position covered only almost, each of at most Tolerance units it did not
\* have; and while there was none, its realized profit and average entry price
\* account for every unit of money in between: realized = sales - purchases +
\* amount * entry.
PositionsFollowTrades ==
  \A s \in DOMAIN positions :
    LET pos == positions[s]
        missing == pos.amount + Total(Sold(s)) - Total(Bought(s))
    IN
    /\ missing \in 0..(Tolerance * Cardinality({k \in DOMAIN trades : Sold(s)[k] # 0}))
    /\ missing = 0 =>
         (pos.realized.num - (Total(Worth(Sold(s))) - Total(Worth(Bought(s))))
                               * pos.realized.den) * pos.entry.den
           = pos.amount * pos.entry.num * pos.realized.den

\* The two books, accounts and positions, both tell what the trades tell: no
\* trade is booked twice, in part or in one book only.
BooksFollowTrades == TypeOK /\ BalancesFollowTrades /\ PositionsFollowTrades

\* No limit order is ever executed at a price worse than its limit, although
\* slippage is applied after the limit was compared with the market.
LimitsAreRespected ==
  \A k \in DOMAIN trades :
    LET o == OrderOf(trades[k]) IN
    o.request.type = "limit" =>
      IF IsBuy(o) THEN trades[k].price <= o.request.price
                  ELSE trades[k].price >= o.request.price

\* A sweep fails only by the tolerance: when an order's turn comes and it does
\* not wait, every check on the way to its settlement succeeds, whatever the
\* orders before it took from the accounts and the positions, unless it is a
\* sale that the check before it let pass although the account falls short of
\* it by at most Tolerance (has_sell_capacity against consume_available).
SweepsFailByToleranceOnly ==
  sweep # NoSweep =>
    \A id \in sweep.queue :
      LET o == orders[id]
          c == Base[o.request.symbol]
      IN  ~Waits(o, sweep.market) =>
            \/ CanFill(accounts, o)
            \/ ~IsBuy(o) /\ Rest(o) - accounts[c].available \in 1..Tolerance

\* Price-time priority: when a limit order is filled, no order that the rule
\* puts first is left behind that could have been filled too.
PriorityIsRespected ==
  [][\A id \in DOMAIN orders :
       ( /\ sweep # NoSweep /\ sweep' # NoSweep /\ sweep.kind = "limit"
         /\ orders'[id] # orders[id] ) =>
         \A i \in Book("limit", sweep.symbol) :
           LET a == orders[i].request
               b == orders[id].request
           IN  ( /\ i # id /\ a.side = b.side
                 /\ \/ a.price = b.price /\ i < id
                    \/ a.side = "buy" /\ a.price > b.price
                    \/ a.side = "sell" /\ a.price < b.price )
                 => Waits(orders[i], sweep.market)]_vars

\* A sweep of the limit queue is exhaustive: when it ends, no order is left
\* that the market price reaches and that could be filled, even by what the
\* sweep itself brought in, but for remainders within the tolerance.
LimitSweepExhausts ==
  sweep # NoSweep /\ sweep.kind = "limit" /\ sweep.queue = {} =>
    \A i \in Book("limit", sweep.symbol) :
      LET o == orders[i] IN
      \/ Rest(o) <= Tolerance
      \/ IF IsBuy(o) THEN sweep.market > o.request.price
         ELSE \/ sweep.market < o.request.price
              \/ ~HasSellCapacity(accounts, sweep.symbol, Rest(o))

\* Both: a limit order is filled by every sweep that can fill it, and never
\* at a worse price than its limit.
LimitOrdersAreServed == LimitSweepExhausts /\ LimitsAreRespected

=============================================================================

---------------------------- MODULE OrderLedger ----------------------------
(***************************************************************************)
(* The order ledger: AccountService, OrderService and TradeService over    *)
(* the tables accounts, orders and trades.                                 *)
(*                                                                         *)
(* Every service call runs in one database transaction, so every call is   *)
(* one step; a call that raises is rolled back and takes no step (module   *)
(* TransactionManager models what this relies on).                         *)
(* A buy order freezes its whole cost when it is created; fills consume    *)
(* the frozen money and a cancellation or rejection releases the rest.     *)
(***************************************************************************)
EXTENDS Accounts, Orders, Sums, Sequences

CONSTANTS
  OrderId,      \* the ids callers may use
  Quote,        \* Quote[s]: the currency that pays for symbol s
  Requests,     \* the order requests callers make
  TradePrice,   \* prices at which an order may be executed
  Deposits,     \* amounts that may be credited or debited directly
  MaxBalance,   \* bound: no credit takes a balance above it
  MaxTrades     \* bound: rows of the trades table

ASSUME QuoteAssumption == Quote \in [Symbol -> Currency]
ASSUME RequestAssumption == Requests \subseteq Request
ASSUME DepositAssumption == Deposits \subseteq Nat
ASSUME TradePriceAssumption == TradePrice \subseteq Nat \ {0}

VARIABLES
  accounts,     \* currency -> row
  orders,       \* order id -> row
  trades        \* the trades table, in insertion order

vars == <<accounts, orders, trades>>

Trade == [order : OrderId, price : TradePrice, amount : Nat \ {0}]

TypeOK ==
  /\ IsAccounts(accounts)
  /\ DOMAIN orders \subseteq OrderId
  /\ orders \in [DOMAIN orders -> Order]
  /\ trades \in Seq(Trade)

QuoteOf(o) == Quote[o.request.symbol]

-----------------------------------------------------------------------------
(***************************************************************************)
(* AccountService                                                          *)
(***************************************************************************)
InitializeAccounts(c, n) ==
  /\ accounts' = OpenAccount(accounts, c, n)
  /\ UNCHANGED <<orders, trades>>

\* deposit, and add_to_available (the proceeds of a sale).
Deposit(c, n) ==
  /\ CanCredit(accounts, c, n)
  /\ accounts[c].balance + n <= MaxBalance
  /\ accounts' = Credit(accounts, c, n)
  /\ UNCHANGED <<orders, trades>>

\* consume_available (the settlement of a sale spends the base currency).
Spend(c, n) ==
  /\ CanConsumeAvailable(accounts, c, n)
  /\ accounts' = ConsumeAvailable(accounts, c, n)
  /\ UNCHANGED <<orders, trades>>

-----------------------------------------------------------------------------
(***************************************************************************)
(* OrderService                                                            *)
(***************************************************************************)
\* create_order is idempotent in the caller's order id: a repeated request
\* is answered with the existing row, and one that differs raises.
CreateOrder(id, req) ==
  /\ ValidRequest(req)
  /\ \/ /\ id \in DOMAIN orders
        /\ MatchesRequest(orders[id], req)
        /\ UNCHANGED vars
     \/ /\ id \notin DOMAIN orders
        /\ LET o == NewOrder(req) IN
           /\ IF IsBuy(o)
              THEN /\ CanFreeze(accounts, QuoteOf(o), Cost(o, req.amount))
                   /\ accounts' =
                        Freeze(accounts, QuoteOf(o), Cost(o, req.amount))
              ELSE UNCHANGED accounts
           /\ orders' = [i \in DOMAIN orders \cup {id} |->
                           IF i = id THEN o ELSE orders[i]]
        /\ UNCHANGED trades

\* Faulty variant of ReleaseRest: the filled part is released once more.
ReleaseAll(acc, o, n) ==
  IF IsBuy(o) THEN Release(acc, QuoteOf(o), Cost(o, o.request.amount)) ELSE acc

\* The release branch that update_order_status and cancel_order share, for a
\* buy order of which n units are filled: guard and resulting table.
CanReleaseRest(acc, o, n) ==
  IsBuy(o) /\ n < o.request.amount
    => CanRelease(acc, QuoteOf(o), Cost(o, o.request.amount - n))

ReleaseRest(acc, o, n) ==
  IF IsBuy(o) /\ n < o.request.amount
  THEN Release(acc, QuoteOf(o), Cost(o, o.request.amount - n))
  ELSE acc

\* update_order_status(id, s, filled): n is the new filled amount, the old
\* one when the caller passes none.  A buy whose filled amount grows consumes
\* the difference; one that is rejected or canceled releases what is left.
UpdateOrderStatus(id, s, n) ==
  /\ id \in DOMAIN orders
  /\ LET o     == orders[id]
         rest  == IF s \in {"rejected", "canceled"}
                  THEN ReleaseRest(accounts, o, n) ELSE accounts
         grows == IsBuy(o) /\ n > o.filled
     IN  /\ CanTransition(o.status, s)
         /\ n <= o.request.amount
         /\ s \in {"rejected", "canceled"} => CanReleaseRest(accounts, o, n)
         /\ grows => CanConsumeFrozen(rest, QuoteOf(o), Cost(o, n - o.filled))
         /\ accounts' = IF grows
                        THEN ConsumeFrozen(rest, QuoteOf(o), Cost(o, n - o.filled))
                        ELSE rest
         /\ orders' = UpdateOrder(orders, id, s, n)
  /\ UNCHANGED trades

\* cancel_order returns a terminal order as it is.
CancelOrder(id) ==
  /\ id \in DOMAIN orders
  /\ LET o == orders[id] IN
     \/ /\ o.status \in Terminal
        /\ UNCHANGED <<accounts, orders>>
     \/ /\ o.status \notin Terminal
        /\ CanReleaseRest(accounts, o, o.filled)
        /\ accounts' = ReleaseRest(accounts, o, o.filled)
        /\ orders' = UpdateOrder(orders, id, "canceled", o.filled)
  /\ UNCHANGED trades

-----------------------------------------------------------------------------
(***************************************************************************)
(* TradeService                                                            *)
(***************************************************************************)
\* Faulty variant of FilledAfter: the fills before are forgotten.
FilledByLast(o, n) == n

\* The order's price is charged, whatever the trade's price is.
TradeCost(o, price, n) == Cost(o, n)

FilledAfter(o, n) == o.filled + n

StatusAfter(o, filled) ==
  IF filled = o.request.amount THEN "filled" ELSE "partially_filled"

RecordTrade(id, price, n) ==
  /\ id \in DOMAIN orders
  /\ Len(trades) < MaxTrades
  /\ LET o      == orders[id]
         filled == FilledAfter(o, n)
         status == StatusAfter(o, filled)
         cost   == TradeCost(o, price, n)
     IN  /\ n > 0
         /\ o.status \in Fillable
         /\ filled <= o.request.amount
         /\ IF IsBuy(o)
            THEN /\ CanConsumeFrozen(accounts, QuoteOf(o), cost)
                 /\ accounts' = ConsumeFrozen(accounts, QuoteOf(o), cost)
            ELSE UNCHANGED accounts
         /\ CanTransition(o.status, status)
         /\ trades' = Append(trades, [order |-> id, price |-> price, amount |-> n])
         /\ orders' = UpdateOrder(orders, id, status, filled)

-----------------------------------------------------------------------------
Init ==
  /\ accounts = [c \in {} |-> 0]
  /\ orders = [i \in {} |-> 0]
  /\ trades = <<>>

AccountStep ==
  \E c \in Currency, n \in Deposits :
    \/ InitializeAccounts(c, n)
    \/ Deposit(c, n)
    \/ Spend(c, n)

\* The calls the engines and the command line make: they fill orders through
\* record_trade only and never pass `filled` to update_order_status.
Next ==
  \/ AccountStep
  \/ \E id \in OrderId :
       \/ \E req \in Requests : CreateOrder(id, req)
       \/ /\ id \in DOMAIN orders
          /\ \E s \in OrderStatus \ {"partially_filled", "filled"} :
               UpdateOrderStatus(id, s, orders[id].filled)
       \/ CancelOrder(id)
       \/ /\ id \in DOMAIN orders
          /\ \E p \in TradePrice, n \in 1..orders[id].request.amount :
               RecordTrade(id, p, n)

Spec == Init /\ [][Next]_vars

\* Every public call of the three services, with every argument.
ApiNext ==
  \/ Next
  \/ \E id \in DOMAIN orders, s \in OrderStatus :
       \E n \in 0..orders[id].request.amount : UpdateOrderStatus(id, s, n)

ApiSpec == Init /\ [][ApiNext]_vars

-----------------------------------------------------------------------------
(***************************************************************************)
(* What the ledger promises                                                *)
(***************************************************************************)
Live(o) == o.status \notin Terminal

\* The money an order has a claim on: the unfilled part of a live buy.
Held(o) ==
  IF IsBuy(o) /\ Live(o) THEN Cost(o, o.request.amount - o.filled) ELSE 0

BuysIn(c) == {i \in DOMAIN orders : IsBuy(orders[i]) /\ QuoteOf(orders[i]) = c}

\* What each order holds of currency c.
HeldIn(c) == [i \in DOMAIN orders |-> IF i \in BuysIn(c) THEN Held(orders[i]) ELSE 0]

\* What each row of the trades table executed for order i.
TradedFor(i) ==
  [k \in DOMAIN trades |-> IF trades[k].order = i THEN trades[k].amount ELSE 0]

\* Every account row splits its balance exactly into the available and the
\* frozen part: the five updates of the row (freeze, release, consume frozen,
\* consume available, credit) never let the three columns drift apart.
AccountsBalanced == Balanced(accounts)

\* The status an order shows agrees with how much of it is filled: orders are
\* FILLED exactly when nothing is left, PARTIALLY_FILLED strictly in between.
FillMatchesStatus ==
  \A i \in DOMAIN orders :
    LET o == orders[i] IN
    /\ o.filled <= o.request.amount
    /\ o.status \in {"pending", "open", "rejected"} => o.filled = 0
    /\ o.status = "partially_filled" => o.filled > 0
    /\ o.status = "filled" <=> o.filled = o.request.amount

\* No money leaks: the frozen column of every account is exactly what its live
\* buy orders still have a claim on, whatever was created, repeated, filled in
\* parts, canceled or rejected before (OrderService and TradeService freeze,
\* consume and release piecewise and never look at each other's orders).
FrozenIsHeld ==
  \A c \in DOMAIN accounts : accounts[c].frozen = Total(HeldIn(c))

\* Every live buy order can still be filled to the end or canceled: the
\* account exists and the frozen-balance checks of cancel_order,
\* update_order_status and record_trade can never refuse it.
AlwaysCancelable ==
  \A i \in DOMAIN orders :
    Held(orders[i]) > 0 =>
      /\ QuoteOf(orders[i]) \in DOMAIN accounts
      /\ accounts[QuoteOf(orders[i])].frozen >= Held(orders[i])

\* The orders and the trades tables tell the same story: what an order shows as
\* filled is the sum of the trades recorded for it.
FillsAreTraded ==
  \A i \in DOMAIN orders : orders[i].filled = Total(TradedFor(i))

\* An order never disappears, never changes its terms, never un-fills, and
\* changes its row only along the state machine: a retried create_order or
\* a repeated cancel_order leaves the row as it is.
OrdersOnlyProgress ==
  \A i \in DOMAIN orders :
    /\ i \in DOMAIN orders'
    /\ orders'[i].request = orders[i].request
    /\ orders'[i].filled >= orders[i].filled
    /\ orders'[i] # orders[i] =>
         CanTransition(orders[i].status, orders'[i].status)

\* The two tables agree and the orders only progress: no trade is recorded
\* without its order, no order fills without a trade, none is filled twice.
OrdersFollowTrades == [][FillsAreTraded' /\ OrdersOnlyProgress]_vars

\* Whatever arguments callers pass, a finished order is never touched again:
\* record_trade, update_order_status and cancel_order each check the status
\* on their own, against three separately written lists.
TerminalIsFinal ==
  [][\A i \in DOMAIN orders :
       orders[i].status \in Terminal => orders'[i] = orders[i]]_vars

\* The transitions the docstring of update_order_status lists as valid
\* (order_service.py:191-194).
DocumentedTransitions ==
  [pending          |-> {"open", "rejected"},
   open             |-> {"partially_filled", "filled", "canceled"},
   partially_filled |-> {"filled", "canceled"},
   filled |-> {}, canceled |-> {}, rejected |-> {}]

\* update_order_status takes an order only along the documented transitions.
FollowsDocumentedTransitions ==
  [][\A i \in DOMAIN orders, s \in OrderStatus :
       (s # orders[i].status /\ UpdateOrderStatus(i, s, orders[i].filled))
         => s \in DocumentedTransitions[orders[i].status]]_vars

\* A cancellation is a cancel_order: it leaves the filled amount alone and only
\* returns frozen money (findings.md: update_order_status(..., canceled) is
\* routed to cancel_order()).
CanceledByCancelOrder ==
  [][\A i \in DOMAIN orders :
       (orders[i].status # "canceled" /\ orders'[i].status = "canceled")
         => orders'[i].filled = orders[i].filled]_vars

-----------------------------------------------------------------------------
(***************************************************************************)
(* The ledger implements an escrow: the available column is the free money *)
(* and every buy order's escrow is what it holds.                          *)
(***************************************************************************)
Buys == {i \in DOMAIN orders : IsBuy(orders[i])}

E == INSTANCE Escrow WITH
       Id     <- OrderId,
       free   <- [c \in Currency |->
                    IF c \in DOMAIN accounts THEN accounts[c].available ELSE 0],
       escrow <- [i \in Buys |-> [currency |-> QuoteOf(orders[i]),
                                  amount   |-> Held(orders[i])]]

\* Every run of the ledger is a run of Escrow: freeze_funds, release_funds and
\* _consume_frozen_funds, which only see one account row and an amount, never
\* pay or return one order out of what was set aside for another.
ImplementsEscrow == E!Spec

=============================================================================

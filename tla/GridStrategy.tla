---------------------------- MODULE GridStrategy ----------------------------
(***************************************************************************)
(* The grid strategy (src/src/strategies/grid_strategy.py) in a backtest:  *)
(* limit buys below and limit sales above the first price; every fill is   *)
(* answered by an order one level away on the other side.                  *)
(*                                                                         *)
(* The broker is external (Backtrader): on each bar it fills, rejects or   *)
(* leaves every open order; the notifications are delivered one by one,    *)
(* in any order, before the next bar.  An order fills at its own price, or *)
(* at the open when the bar opens beyond it.                               *)
(***************************************************************************)
EXTENDS Integers, FiniteSets, Functions

CONSTANTS
  GridNum,     \* params.grid_num
  Step,        \* grid_step: the distance of two levels
  Base,        \* the close of the first bar
  Open,        \* the prices at which bars open
  Failures,    \* whether the broker may reject orders
  MaxOrders    \* bound: orders placed

ASSUME GridAssumption == GridNum \in Nat \ {0}    \* __init__ raises otherwise
ASSUME PriceAssumption == Step \in Nat \ {0} /\ Base \in Int /\ Open \subseteq Int
ASSUME BoundAssumption == MaxOrders \in Nat /\ Failures \in BOOLEAN

VARIABLES
  started,   \* grid_initialized
  buys,      \* buy_orders: the order of each level
  sells,     \* sell_orders
  open,      \* the broker's orders: [id, side, price] of each
  notices,   \* notifications on their way: the order, its outcome and price
  placed,    \* how many orders were placed
  position   \* what the account holds, in units of position_size

vars == <<started, buys, sells, open, notices, placed, position>>

(* At least one level on either side. *)
Half == IF GridNum \div 2 < 1 THEN 1 ELSE GridNum \div 2

Id == 1..MaxOrders
Level == (0 - Half)..Half
LevelPrice(level) == Base + level * Step
NoOrders == [l \in {} |-> 0]

(* The gap below a level is between it and the next lower one: a buy at    *)
(* level l and a sale at level l + 1 belong to the gap above l.            *)
Gap == (0 - Half)..(Half - 1)

TypeOK ==
  /\ started \in BOOLEAN
  /\ DOMAIN buys \subseteq Level /\ Range(buys) \subseteq Id
  /\ DOMAIN sells \subseteq Level /\ Range(sells) \subseteq Id
  /\ \A o \in open : o.id \in Id /\ o.side \in {"buy", "sell"} /\ o.price \in Int
  /\ \A n \in notices : n.order.id \in Id /\ n.outcome \in {"filled", "failed"} /\ n.price \in Int
  /\ placed \in 0..MaxOrders
  /\ position \in Int

Init ==
  /\ started = FALSE
  /\ buys = NoOrders /\ sells = NoOrders
  /\ open = {} /\ notices = {}
  /\ placed = 0 /\ position = 0

-----------------------------------------------------------------------------
With(orders, level, id) == [l \in DOMAIN orders \cup {level} |-> IF l = level THEN id ELSE orders[l]]
Without(orders, level) == Restrict(orders, DOMAIN orders \ {level})
LevelsOf(orders, id) == {l \in DOMAIN orders : orders[l] = id}

(* How many orders each side gets: range(1, half_grid + 1). *)
Depth == Half

(* _initialize_grid, in the first next: buys from the level below down,    *)
(* then sales from the level above up.                                     *)
Start ==
  /\ ~started /\ 2 * Depth <= MaxOrders
  /\ started' = TRUE
  /\ buys' = [l \in (0 - Depth)..(0 - 1) |-> 0 - l]
  /\ sells' = [l \in 1..Depth |-> Depth + l]
  /\ open' = {[id |-> 0 - l, side |-> "buy", price |-> LevelPrice(l)] : l \in (0 - Depth)..(0 - 1)}
               \cup {[id |-> Depth + l, side |-> "sell", price |-> LevelPrice(l)] : l \in 1..Depth}
  /\ placed' = 2 * Depth
  /\ UNCHANGED <<notices, position>>

(* The broker on a bar that opens at price and moves to reach: every order *)
(* the bar touches is filled, or refused for want of money.                *)
Better(o, price) == IF o.side = "buy" THEN price < o.price ELSE price > o.price
Touched(o, price, reach) ==
  IF o.side = "buy" THEN o.price >= price \/ o.price >= reach
                    ELSE o.price <= price \/ o.price <= reach

Bar(price, reach, failed) ==
  LET hit == {o \in open : Touched(o, price, reach)}
      gone == {o \in hit : o.id \in failed}
      done == hit \ gone
      bought == Cardinality({o \in done : o.side = "buy"})
  IN  /\ started /\ notices = {} /\ hit # {}
      /\ failed \subseteq {o.id : o \in hit}
      /\ failed # {} => Failures
      /\ open' = open \ hit
      /\ notices' =
           {[order |-> o, outcome |-> "filled", price |-> IF Better(o, price) THEN price ELSE o.price] : o \in done}
           \cup {[order |-> o, outcome |-> "failed", price |-> o.price] : o \in gone}
      /\ position' = position + bought - (Cardinality(done) - bought)
      /\ UNCHANGED <<started, buys, sells, placed>>

(* Faulty variant of NewOrder: a new sale is not entered. *)
NewOrderUnknown(side, level, price) ==
  /\ placed' = placed + 1
  /\ open' = open \cup {[id |-> placed + 1, side |-> side, price |-> price]}
  /\ IF side = "sell" THEN UNCHANGED sells ELSE buys' = With(buys, level, placed + 1)

(* Faulty variant of NewOrder: the order is entered under the old level. *)
NewOrderHere(side, level, price) ==
  /\ placed' = placed + 1
  /\ open' = open \cup {[id |-> placed + 1, side |-> side, price |-> price]}
  /\ IF side = "sell"
     THEN sells' = With(sells, level - 1, placed + 1)
     ELSE buys' = With(buys, level + 1, placed + 1)

NewOrder(side, level, price) ==
  /\ placed' = placed + 1
  /\ open' = open \cup {[id |-> placed + 1, side |-> side, price |-> price]}
  /\ IF side = "sell"
     THEN sells' = With(sells, level, placed + 1)
     ELSE buys' = With(buys, level, placed + 1)

(* notify_order of a completed buy: a sale one level higher, priced from   *)
(* the price of the fill.                                                  *)
BuyFilled(n) ==
  /\ n \in notices /\ n.outcome = "filled" /\ n.order.side = "buy"
  /\ placed < MaxOrders
  /\ notices' = notices \ {n}
  /\ IF LevelsOf(buys, n.order.id) = {} THEN UNCHANGED <<buys, sells, open, placed>>
     ELSE \E l \in LevelsOf(buys, n.order.id) :
            /\ NewOrder("sell", l + 1, n.price + Step)
            /\ buys' = Without(buys, l)
  /\ UNCHANGED <<started, position>>

SellFilled(n) ==
  /\ n \in notices /\ n.outcome = "filled" /\ n.order.side = "sell"
  /\ placed < MaxOrders
  /\ notices' = notices \ {n}
  /\ IF LevelsOf(sells, n.order.id) = {} THEN UNCHANGED <<buys, sells, open, placed>>
     ELSE \E l \in LevelsOf(sells, n.order.id) :
            /\ NewOrder("buy", l - 1, n.price - Step)
            /\ sells' = Without(sells, l)
  /\ UNCHANGED <<started, position>>

(* Faulty variant of OrderFailed: a failed order is answered like a fill. *)
OrderFailedAnswered(n) ==
  /\ n \in notices /\ n.outcome = "failed"
  /\ placed < MaxOrders
  /\ notices' = notices \ {n}
  /\ IF n.order.side = "buy"
     THEN \E l \in LevelsOf(buys, n.order.id) :
            NewOrder("sell", l + 1, n.price + Step) /\ buys' = Without(buys, l)
     ELSE \E l \in LevelsOf(sells, n.order.id) :
            NewOrder("buy", l - 1, n.price - Step) /\ sells' = Without(sells, l)
  /\ UNCHANGED <<started, position>>

(* notify_order of a canceled, refused or unaffordable order:              *)
(* _remove_failed_order.                                                   *)
OrderFailed(n) ==
  /\ n \in notices /\ n.outcome = "failed"
  /\ notices' = notices \ {n}
  /\ IF LevelsOf(buys, n.order.id) # {}
     THEN \E l \in LevelsOf(buys, n.order.id) : buys' = Without(buys, l) /\ UNCHANGED sells
     ELSE /\ UNCHANGED buys
          /\ IF LevelsOf(sells, n.order.id) = {} THEN UNCHANGED sells
             ELSE \E l \in LevelsOf(sells, n.order.id) : sells' = Without(sells, l)
  /\ UNCHANGED <<started, open, placed, position>>

Next ==
  \/ Start
  \/ \E price, reach \in Open : \E failed \in SUBSET {o.id : o \in open} : Bar(price, reach, failed)
  \/ \E n \in notices : BuyFilled(n)
  \/ \E n \in notices : SellFilled(n)
  \/ \E n \in notices : OrderFailed(n)

Spec == Init /\ [][Next]_vars

-----------------------------------------------------------------------------
(***************************************************************************)
(* What the grid promises                                                  *)
(***************************************************************************)
BuyIn(gap) == gap \in DOMAIN buys
SellIn(gap) == gap + 1 \in DOMAIN sells

(* Between two neighbouring levels there is at most one order, whatever    *)
(* bars skip levels and in whatever order fills are reported: no order is  *)
(* overwritten in buy_orders or sell_orders, where it could never be       *)
(* answered (GridStrategy.notify_order).                                   *)
OneOrderPerGap ==
  /\ DOMAIN buys \subseteq Gap
  /\ DOMAIN sells \subseteq {g + 1 : g \in Gap}
  /\ \A g \in Gap : ~(BuyIn(g) /\ SellIn(g))

(* Every order of the broker, and every fill not yet reported, is known to *)
(* the strategy under one level, so that its fill will be answered.        *)
EveryOrderIsTracked ==
  \A o \in open \cup {n.order : n \in notices} :
    Cardinality(LevelsOf(IF o.side = "buy" THEN buys ELSE sells, o.id)) = 1

(* What is held is what the grid says: a unit for each sale that waits     *)
(* below the first price, less a unit for each buy that waits above it, as *)
(* long as the grid has all its orders: an order that failed is not        *)
(* replaced.                                                               *)
PositionMatchesGrid ==
  started /\ notices = {} /\ Cardinality(DOMAIN buys) + Cardinality(DOMAIN sells) = 2 * Half =>
    position = Cardinality({g \in Gap : g < 0 /\ SellIn(g)})
                 - Cardinality({g \in Gap : g >= 0 /\ BuyIn(g)})

(* The strategy never holds, or owes, more than half a grid, even when     *)
(* orders fail (grid_num bounds the exposure).                             *)
PositionBounded == (0 - Half) <= position /\ position <= Half

(* The exposure is what the grid says, and bounded when orders fail.       *)
ExposureFollowsGrid == PositionMatchesGrid /\ PositionBounded

(* An order of a level has the price of that level (_initialize_grid and   *)
(* the answers of notify_order).                                           *)
PricesAreOfTheGrid ==
  \A o \in open : \A l \in LevelsOf(IF o.side = "buy" THEN buys ELSE sells, o.id) :
    o.price = LevelPrice(l)
=============================================================================

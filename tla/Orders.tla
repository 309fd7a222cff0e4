------------------------------- MODULE Orders -------------------------------
(***************************************************************************)
(* Orders and their state machine (src/src/core/order_state_machine.py,    *)
(* src/src/core/order.py and the request of                                *)
(* src/src/core/order_service.py).                                         *)
(***************************************************************************)
EXTENDS Integers

CONSTANTS
  Symbol,       \* trading pairs
  NoPrice       \* the price of an order that has none (None in the code)

ASSUME NoPriceAssumption == NoPrice \notin Nat

OrderType   == {"market", "limit", "stop_loss", "take_profit"}
OrderSide   == {"buy", "sell"}
OrderStatus ==
  {"pending", "open", "partially_filled", "filled", "canceled", "rejected"}

\* VALID_ORDER_STATUS_TRANSITIONS, which order_service.py repeats.
ValidTransitions ==
  [pending          |-> {"open", "rejected", "canceled"},
   open             |-> {"partially_filled", "filled", "canceled"},
   partially_filled |-> {"partially_filled", "filled", "canceled"},
   filled           |-> {},
   canceled         |-> {},
   rejected         |-> {}]

CanTransition(current, target) == target \in ValidTransitions[current]

Terminal == {"filled", "canceled", "rejected"}
Fillable == {"open", "partially_filled"}

\* CreateOrderRequest; order_id is the key it is created under.
Request == [symbol : Symbol, type : OrderType, side : OrderSide,
            price : (Nat \ {0}) \cup {NoPrice}, amount : Nat \ {0}]

\* The checks of create_order: a non-market order needs a price, and so does
\* a market buy, which has to freeze its cost.
ValidRequest(req) ==
  (req.type # "market" \/ req.side = "buy") => req.price # NoPrice

Order == [request : {r \in Request : ValidRequest(r)},
          filled : Nat, status : OrderStatus]

NewOrder(req) == [request |-> req, filled |-> 0, status |-> "pending"]

\* UPDATE orders SET status, filled: the only columns ever written.
UpdateOrder(os, id, s, n) ==
  [os EXCEPT ![id] = [request |-> os[id].request, filled |-> n, status |-> s]]

\* The row columns other than filled and status never change: an existing
\* order matches a request when all of them agree.
MatchesRequest(o, req) == o.request = req

IsBuy(o) == o.request.side = "buy"

\* What an order of this side, price and size freezes, releases and consumes.
Cost(o, n) == n * o.request.price

=============================================================================

--------------------------- MODULE StrategyReplay ---------------------------
(***************************************************************************)
(* The built-in strategies (src/src/strategies/sma_strategy.py,            *)
(* bollinger_strategy.py) run twice: once over all bars, as in a backtest, *)
(* and once as the live adapter does (src/src/strategies/adapter.py),      *)
(* which replays a window of the last bars from nothing at every tick and  *)
(* takes for its signal what the strategy ordered on the last bar.         *)
(*                                                                         *)
(* A bar is what the strategy's indicators say of it.  They need Period    *)
(* bars before next is called.  Backtrader is external: a market order     *)
(* fills at the open of the next bar, before the strategy sees that bar;   *)
(* only the broker of a backtest may lack the cash for a buy.  The live    *)
(* engines may refuse what the replay takes as filled.                     *)
(* Of the grid strategy only the placement on its first bar is replayed    *)
(* here; GridStrategy has the rest.                                        *)
(***************************************************************************)
EXTENDS Integers, Sequences

CONSTANTS
  Setups,       \* the configurations: see Setup
  Period,       \* bars before the indicators have values
  MinBars,      \* BacktraderAdapter._min_bars
  MaxBars,      \* bound: kind -> bars
  MaxRestarts   \* bound: restarts of the live process

Kind == {"sma", "bollinger", "grid"}

ASSUME NumberAssumption ==
  /\ Period \in Nat \ {0} /\ MinBars \in Nat \ {0}
  /\ MaxBars \in [Kind -> Nat] /\ MaxRestarts \in Nat

(* How a strategy is run: its kind, the adapter's _lookback_window, and    *)
(* whether a restart gets its history as warmup_candles.                   *)
Setup == [kind : Kind, lookback : Nat \ {0}, warmup : BOOLEAN]
ASSUME SetupAssumption == Setups \subseteq Setup

VARIABLES
  setup,     \* the configuration, chosen once
  bars,      \* all bars so far
  window,    \* BacktraderAdapter._history
  backtest,  \* the strategy that saw every bar
  signal,    \* what the adapter returned for the last bar
  real,      \* what the live account holds, in position sizes of the strategy
  short,     \* history: the backtest lacked the cash for a buy
  bought,    \* history: the last buy signal was executed
  unsold,    \* history: sales that were refused although the units were there
  dipped,    \* history: the price was below the lower band since the last buy
  peaked,    \* history: the price was above the upper band since the last buy
  restarts

account == <<real, bought, unsold>>
marks == <<dipped, peaked>>
replayVars == <<setup, bars, window, backtest, signal, short, account, marks, restarts>>

(* What a strategy can tell of a bar: a cross of the averages; the part of *)
(* the bands the close lies in, and how it moved.                          *)
Blank == [cross |-> "none", place |-> "none", move |-> "flat"]
Bar ==
  CASE setup.kind = "sma" ->
         [cross : {"golden", "dead", "none"}, place : {"none"}, move : {"flat"}]
    [] setup.kind = "bollinger" ->
         {Blank} \cup [cross : {"none"}, place : {"under", "lower", "upper", "over"},
                       move : {"rise", "fall", "flat"}]
    [] setup.kind = "grid" -> {Blank}

Order == {"none", "buy", "close", "exit", "grid"}
Strategy == [held : BOOLEAN, order : Order, below : BOOLEAN, above : BOOLEAN, age : Nat]
Fresh == [held |-> FALSE, order |-> "none", below |-> FALSE, above |-> FALSE, age |-> 0]

ReplayTypeOK ==
  /\ setup \in Setups
  /\ bars \in Seq(Bar) /\ window \in Seq(Bar) /\ Len(window) <= setup.lookback
  /\ backtest \in Strategy
  /\ signal \in Order
  /\ short \in BOOLEAN
  /\ real \in Nat /\ bought \in BOOLEAN /\ unsold \in Nat
  /\ dipped \in BOOLEAN /\ peaked \in BOOLEAN /\ restarts \in 0..MaxRestarts

ReplayInit ==
  /\ setup \in Setups
  /\ bars = <<>> /\ window = <<>>
  /\ backtest = Fresh
  /\ signal = "none" /\ short = FALSE
  /\ real = 0 /\ bought = FALSE /\ unsold = 0
  /\ dipped = FALSE /\ peaked = FALSE
  /\ restarts = 0

-----------------------------------------------------------------------------
(***************************************************************************)
(* The strategies: next, with the order it leaves                          *)
(***************************************************************************)
SMA(s, bar) ==
  [s EXCEPT !.order = IF ~s.held /\ bar.cross = "golden" THEN "buy"
                      ELSE IF s.held /\ bar.cross = "dead" THEN "close" ELSE "none"]

Entered(s) == [s EXCEPT !.order = "buy", !.below = FALSE]

(* A rise inside the bands or above them, after a close below, buys.  A    *)
(* fall inside the bands or below them, after a close above, exits; and at *)
(* the middle band or above it the position is closed.                     *)
Bollinger(s, bar) ==
  LET t == [s EXCEPT !.below = @ \/ bar.place = "under", !.above = @ \/ bar.place = "over"]
      rebound == t.below /\ bar.place # "under" /\ bar.move = "rise"
      pullback == t.above /\ bar.place # "over" /\ bar.move = "fall"
      middle == bar.place \in {"upper", "over"}
  IN  CASE ~t.held /\ rebound -> Entered(t)
        [] t.held /\ pullback -> [t EXCEPT !.order = "exit", !.above = FALSE]
        [] t.held /\ ~pullback /\ middle -> [t EXCEPT !.order = "close"]
        [] OTHER -> t

Grid(s, bar) == [s EXCEPT !.order = IF s.age = 1 THEN "grid" ELSE "none"]

(* The position once the order that is open has filled. *)
HeldAfter(s) == s.order = "buy" \/ (s.held /\ s.order \notin {"close", "exit"})

(* The grid has no indicators to wait for.                                 *)
Warm == IF setup.kind = "grid" THEN 1 ELSE Period

(* notify_order, Completed: the open order has filled.                     *)
Filled(s) == [s EXCEPT !.held = HeldAfter(s), !.order = "none", !.age = @ + 1]

(* notify_order, Margin: there was no cash for the buy that was open.      *)
Refused(s) == [s EXCEPT !.order = "none", !.age = @ + 1]

(* The strategy's next. *)
Decide(s, bar) ==
  CASE setup.kind = "sma" -> SMA(s, bar)
    [] setup.kind = "bollinger" -> Bollinger(s, bar)
    [] setup.kind = "grid" -> Grid(s, bar)

(* Once the indicators have values the strategy decides.                   *)
Seeing(s, bar) == IF s.age < Warm THEN s ELSE Decide(s, bar)

(* One bar, before which the open order fills.                             *)
Step(s, bar) == Seeing(Filled(s), bar)

-----------------------------------------------------------------------------
(***************************************************************************)
(* The adapter                                                             *)
(***************************************************************************)
(* A strategy that starts from nothing and sees the bars of a history.      *)
Replay(history) ==
  LET after[n \in 0..Len(history)] ==
        IF n = 0 THEN Fresh ELSE Step(after[n - 1], history[n])
  IN  after[Len(history)]

(* Faulty variant of Signal: orders of earlier bars count as well. *)
SignalOfAnyBar(history) ==
  IF Len(history) < MinBars THEN "none"
  ELSE LET Seen(n) == Replay(SubSeq(history, 1, n)).order
           some == {n \in 1..Len(history) : Seen(n) # "none"}
       IN  IF some = {} THEN "none" ELSE Seen(CHOOSE n \in some : \A m \in some : m <= n)

(* _run_cerebro: the order placed on the last bar, if any. *)
Signal(history) == IF Len(history) < MinBars THEN "none" ELSE Replay(history).order

(* execute_signal.  A buy is for the strategy's size; a close goes through *)
(* the overridden sell with the size of the replayed position, the same.   *)
(* What the engines refuse (risk control, no cash, no price; always when   *)
(* there is nothing to sell) is printed and forgotten.                     *)
Execute(order, accepted) ==
  LET sale == order \in {"close", "exit"} /\ real > 0
  IN  /\ real' = CASE order = "buy" /\ accepted -> real + 1
                   [] sale /\ accepted -> real - 1
                   [] OTHER -> real
      /\ bought' = IF order = "buy" THEN accepted ELSE bought
      /\ unsold' = IF sale /\ ~accepted THEN unsold + 1 ELSE unsold

(* The new bar pushes the oldest one out of the full window. *)
Push(bar) == Append(IF Len(window) = setup.lookback THEN Tail(window) ELSE window, bar)

(* on_run, and the same bar in a backtest.                                  *)
OnRun(bar, poor, accepted) ==
  LET history == Push(bar)
      order == Signal(history)
  IN  /\ Len(bars) < MaxBars[setup.kind]
      /\ Len(bars) + 1 < Warm => bar = Blank
      /\ bars' = Append(bars, bar)
      /\ window' = history
      /\ poor => backtest.order = "buy"
      /\ short' = (short \/ poor)
      /\ backtest' = IF poor THEN Seeing(Refused(backtest), bar) ELSE Step(backtest, bar)
      /\ signal' = order
      /\ Execute(order, accepted)
      /\ dipped' = (IF order = "buy" THEN FALSE ELSE dipped \/ bar.place = "under")
      /\ peaked' = (IF order = "buy" THEN FALSE ELSE peaked \/ bar.place = "over")
      /\ UNCHANGED <<setup, restarts>>

Recent == SubSeq(bars, IF Len(bars) > setup.lookback THEN Len(bars) - setup.lookback + 1 ELSE 1, Len(bars))

(* Faulty variant of Restart: warmup_candles are not read. *)
RestartCold ==
  /\ restarts < MaxRestarts
  /\ restarts' = restarts + 1
  /\ window' = <<>>
  /\ signal' = "none"
  /\ UNCHANGED <<setup, bars, backtest, short, account, marks>>

(* A live process starts with an empty window; on_initialize fills it when *)
(* the context has warmup_candles.  The account stays.                     *)
Restart ==
  /\ restarts < MaxRestarts
  /\ restarts' = restarts + 1
  /\ window' = IF setup.warmup THEN Recent ELSE <<>>
  /\ signal' = "none"
  /\ UNCHANGED <<setup, bars, backtest, short, account, marks>>

ReplayNext ==
  \/ \E bar \in Bar, poor \in BOOLEAN, accepted \in BOOLEAN : OnRun(bar, poor, accepted)
  \/ Restart

ReplaySpec == ReplayInit /\ [][ReplayNext]_replayVars

-----------------------------------------------------------------------------
(***************************************************************************)
(* What the adapter and the strategies promise                             *)
(***************************************************************************)

(* The window can still hold every bar there was, and a restart fills it.  *)
AllInWindow == setup.warmup /\ Len(bars) <= setup.lookback

(* On every bar the adapter gives the signal that the same strategy gives  *)
(* in a backtest over all bars, restarts included, while its window holds  *)
(* them all (BacktraderAdapter.on_run) and the backtest never lacked cash  *)
(* (the adapter's broker has 1e12).  It is refuted once the window slides, *)
(* after a refused buy of the backtest, and for the orders that a grid     *)
(* places on its first bar.                                                *)
SameSignals ==
  setup.kind # "grid" /\ bars' # bars /\ AllInWindow' /\ ~short' => signal' = backtest'.order

(* What the replayed strategy believes it holds.                           *)
Believed == IF HeldAfter(Replay(window)) THEN 1 ELSE 0

(* The live account and the strategy, which never hears of a refusal, part *)
(* only by refused orders (execute_signal, _SignalInterceptor): the        *)
(* account never holds more than the strategy believes but for sales that  *)
(* were refused, and what the strategy believes it bought is there when    *)
(* its purchase was executed, through restarts.  It is refuted once the    *)
(* window slides.                                                          *)
LiveFollowsStrategy ==
  /\ ReplayTypeOK
  /\ AllInWindow /\ setup.kind # "grid" =>
       /\ real <= Believed + unsold
       /\ Believed = 1 /\ bought => real >= 1

(* No two buys rest on one dip while the window holds every bar: below the *)
(* lower band again, or no buy (BollingerStrategy.next resets              *)
(* was_below_lower).  It is refuted once the window slides: replays that   *)
(* start at different bars need not agree on what was bought.              *)
BuysNeedADip ==
  setup.kind = "bollinger" /\ AllInWindow' /\ signal' = "buy" => dipped

(* A sale "from above the upper band" never answers a peak of its own      *)
(* position: a close above the band is above the middle one and closes     *)
(* the position at once, so that was_above_upper is always left over from  *)
(* before the purchase (BollingerStrategy.next).                           *)
UpperExitsAreLate ==
  setup.kind = "bollinger" /\ AllInWindow' /\ signal' = "exit" => ~peaked'

(* What every purchase of a strategy starts with.                          *)
IsCause(bar) == IF setup.kind = "sma" THEN bar.cross = "golden" ELSE bar.place = "under"

(* Whatever the window holds and whenever the live process started, it     *)
(* shows why there is a signal: the cross or the dip that a purchase, and  *)
(* so a sale, needs, at a bar at which the indicators have values.         *)
SignalsAreShown ==
  setup.kind # "grid" /\ signal' # "none" =>
    \E i \in Period..Len(window') : IsCause(window'[i])

(* A signal is earned: by the bars that a backtest would have acted on, a  *)
(* buy of the bands by a dip of its own, an exit at the upper band by a    *)
(* peak before the purchase, and any by what the window shows.             *)
SignalsAreEarned ==
  [][SameSignals /\ BuysNeedADip /\ UpperExitsAreLate /\ SignalsAreShown]_replayVars

(* Once the adapter runs the strategy, the orders of the grid are placed   *)
(* (GridStrategy._initialize_grid through _SignalInterceptor).             *)
GridIsPlaced == [][setup.kind = "grid" /\ Len(bars') = MinBars => "grid" \in {signal, signal'}]_replayVars
=============================================================================

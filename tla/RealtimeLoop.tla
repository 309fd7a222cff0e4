---------------------------- MODULE RealtimeLoop ----------------------------
(***************************************************************************)
(* The live command: the realtime loop (src/src/live/realtime_loop.py) with *)
(* its stages, the strategy's lifecycle, the signal executor, the runtime  *)
(* monitor and its file, and the runtime state file that the commands      *)
(* start, stop and live share.                                             *)
(*                                                                         *)
(* Every stage of a round is one step, and writing the monitor's file is a *)
(* step of its own, so that interrupts, kills and other commands fall      *)
(* between the stages and into the writes.  What the engines, the price service  *)
(* and the market data do inside a stage is modelled elsewhere            *)
(* (TradingEngines, RiskControl, RealtimeMarket, CandleStorage): here a    *)
(* stage succeeds in one of the ways that matter to the loop, or raises.   *)
(***************************************************************************)
EXTENDS Integers, Sequences, FiniteSets

CONSTANTS
  Iterations,     \* the values of config.max_iterations
  Unlimited,      \* sentinel for None
  Window,         \* how many orders notify_strategy_updates looks at
  MaxAlerts,      \* the alerts the monitor keeps
  Failures,       \* sets of calls that may raise: see failing
  MaxLives,       \* bound: live commands started
  MaxOrders,      \* bound: orders placed
  MaxEvents       \* bound: alerts raised (see MayAlert)

ASSUME IterationAssumption == Iterations \subseteq Nat \cup {Unlimited} /\ Unlimited \notin Nat
ASSUME NumberAssumption ==
  /\ Window \in Nat \ {0} /\ MaxAlerts \in Nat \ {0}
  /\ MaxLives \in Nat /\ MaxOrders \in Nat /\ MaxEvents \in Nat

Calls == {"on_initialize", "fetch", "value", "sweep", "on_run", "signal", "on_order",
          "on_stop", "disk"}
ASSUME FailuresAssumption == Failures \subseteq SUBSET Calls

VARIABLES
  maxIterations, \* config.max_iterations
  failing,    \* the calls that may raise in this behaviour
  pc,         \* the next stage of the live process, "off" when there is none
  after,      \* while the monitor's file is written: the stage after the write,
              \* and the one that the exception of a failed write leads to
  running,    \* RealtimeSimulationLoop._running
  iteration,  \* _iteration_count (not counted when unlimited)
  strategy,   \* the status of the strategy object
  signal,     \* what the strategy asks for in this round
  monitor,    \* RuntimeMonitor._state, in the memory of the live process
  saved,      \* monitor_state.json as _load_state reads it: the default state
              \* when it is missing, empty or only partly written
  runtime,    \* runtime_state.json
  orders,     \* the orders of the symbol, oldest first: their status
  due,        \* history: fills of this process the strategy was not told of
  told,       \* history: the trades the strategy was told of
  lives,      \* live commands started
  crashed,    \* history: the last live process was killed, or interrupted
              \* between mark_started and the try block, or again in finally
  unsaved     \* history: the last write of monitor_state.json failed or was
              \* broken off

process == <<pc, after, running, iteration, strategy, signal>>
files == <<saved, runtime>>
setup == <<maxIterations, failing>>
vars == <<setup, process, monitor, files, orders, due, told, lives, crashed, unsaved>>

Round == {"top", "fetch", "unavailable", "value", "value_failed", "limits", "triggers",
          "run", "execute", "notify", "caught", "sleep"}
Stage == Round \cup {"off", "init", "mark", "marked", "writing", "closing", "leaving"}
Nowhere == [next |-> "off", raised |-> "off"]

Alert == [no : Nat, category : {"network", "account_change", "valuation",
                                "strategy_error", "loop_iteration"}]
Monitor == [status : {"idle", "running", "stopped"}, iteration : Nat, total : Nat,
            alerts : Seq(Alert)]
DefaultMonitor == [status |-> "idle", iteration |-> 0, total |-> 0, alerts |-> <<>>]

TypeOK ==
  /\ maxIterations \in Iterations /\ failing \in Failures
  /\ pc \in Stage /\ after \in [next : Stage, raised : Stage]
  /\ running \in BOOLEAN
  /\ iteration \in Nat
  /\ strategy \in {"none", "pending", "running", "stopped"}
  /\ signal \in {"none", "market", "limit"}
  /\ monitor \in Monitor /\ saved \in Monitor
  /\ Len(monitor.alerts) <= MaxAlerts /\ Len(saved.alerts) <= MaxAlerts
  /\ runtime \in [running : BOOLEAN, mode : {"none", "initialized", "live", "idle", "stopped"}]
  /\ orders \in Seq({"open", "filled", "canceled"})
  /\ due \subseteq DOMAIN orders /\ told \subseteq DOMAIN orders
  /\ lives \in 0..MaxLives
  /\ crashed \in BOOLEAN /\ unsaved \in BOOLEAN

-----------------------------------------------------------------------------
(***************************************************************************)
(* The runtime monitor                                                     *)
(***************************************************************************)
\* Faulty variant of AddAlert: the oldest alerts are kept.
AddAlertOldest(mon, category) ==
  [mon EXCEPT !.total = @ + 1,
              !.alerts = IF Len(@) < MaxAlerts
                         THEN Append(@, [no |-> mon.total + 1, category |-> category])
                         ELSE @]

\* record_alert: the newest MaxAlerts are kept, all are counted.
AddAlert(mon, category) ==
  LET all == Append(mon.alerts, [no |-> mon.total + 1, category |-> category])
      cut == IF Len(all) > MaxAlerts THEN Len(all) - MaxAlerts ELSE 0
  IN  [mon EXCEPT !.total = @ + 1, !.alerts = SubSeq(all, cut + 1, Len(all))]

\* _load_state takes over what the file holds.
LoadState(file) == [file EXCEPT !.alerts = SubSeq(@, IF Len(@) > MaxAlerts
                                                     THEN Len(@) - MaxAlerts + 1 ELSE 1, Len(@))]

\* Bounds the alerts: nothing goes wrong any more after MaxEvents of them.
MayAlert == monitor.total < MaxEvents

\* _persist: the memory has changed, whether or not the file can be opened, which
\* empties it.
Save(mon, next, raised) ==
  /\ monitor' = mon
  /\ \/ /\ saved' = DefaultMonitor /\ unsaved' = unsaved
        /\ pc' = "writing" /\ after' = [next |-> next, raised |-> raised]
     \/ /\ "disk" \in failing /\ MayAlert
        /\ pc' = raised /\ unsaved' = TRUE /\ UNCHANGED <<saved, after>>

\* A stage that does not come to its _persist.
NoSave(next) == pc' = next /\ UNCHANGED <<after, monitor, saved, unsaved>>

\* The rest of _persist: the text is written, or a part of it.
Write ==
  /\ pc = "writing"
  /\ \/ saved' = monitor /\ pc' = after.next /\ unsaved' = FALSE
     \/ /\ "disk" \in failing /\ MayAlert
        /\ saved' = saved /\ pc' = after.raised /\ unsaved' = TRUE
  /\ after' = Nowhere
  /\ UNCHANGED <<running, iteration, strategy, signal, monitor, runtime, orders, due, told,
                 lives, crashed>>

-----------------------------------------------------------------------------
(***************************************************************************)
(* handle_live and RealtimeSimulationLoop.start                            *)
(***************************************************************************)
\* Nothing asks whether another live command is running.
GoLive ==
  /\ pc = "off"
  /\ lives < MaxLives
  /\ lives' = lives + 1
  /\ runtime' = [running |-> TRUE, mode |-> "live"]
  /\ monitor' = LoadState(saved)
  /\ pc' = "init" /\ after' = Nowhere /\ running' = FALSE /\ iteration' = 0
  /\ strategy' = "pending" /\ signal' = "none"
  /\ due' = {} /\ told' = {}
  /\ UNCHANGED <<saved, orders, crashed, unsaved>>

\* LiveStrategy.initialize
Initialize ==
  /\ pc = "init"
  /\ \/ strategy' = "running" /\ pc' = "mark"
     \/ "on_initialize" \in failing /\ UNCHANGED strategy /\ pc' = "leaving"
  /\ UNCHANGED <<after, running, iteration, signal, monitor, files, orders, due, told, lives,
                 crashed, unsaved>>

\* mark_started comes before the try block: when it raises, nothing is stopped.
MarkStarted ==
  /\ pc = "mark"
  /\ Save([monitor EXCEPT !.status = "running", !.iteration = 0], "marked", "leaving")
  /\ crashed' = FALSE
  /\ UNCHANGED <<running, iteration, strategy, signal, runtime, orders, due, told, lives>>

\* The try block is entered.
EnterLoop ==
  /\ pc = "marked"
  /\ pc' = "top" /\ running' = TRUE
  /\ UNCHANGED <<after, iteration, strategy, signal, monitor, files, orders, due, told, lives,
                 crashed, unsaved>>

\* Faulty variant of Ended: stop() is not looked at.
EndedByCount == maxIterations # Unlimited /\ iteration >= maxIterations

Ended == ~running \/ (maxIterations # Unlimited /\ iteration >= maxIterations)

Top ==
  /\ pc = "top"
  /\ IF Ended THEN pc' = "closing" /\ UNCHANGED iteration
     ELSE /\ pc' = "fetch"
          /\ iteration' = IF maxIterations = Unlimited THEN 0 ELSE iteration + 1
  /\ UNCHANGED <<after, running, strategy, signal, monitor, files, orders, due, told, lives,
                 crashed, unsaved>>

\* get_latest_price and mark_iteration.  A fallback snapshot counts as a price.
Fetch ==
  /\ pc = "fetch"
  /\ \/ /\ \E next \in {"value"} \cup (IF "fetch" \in failing /\ MayAlert THEN {"unavailable"} ELSE {}) :
              Save([monitor EXCEPT !.iteration = iteration], next, "caught")
     \/ "fetch" \in failing /\ MayAlert /\ NoSave("caught")
  /\ UNCHANGED <<running, iteration, strategy, signal, runtime, orders, due, told, lives, crashed>>

\* record_network_issue, a pause and the next round.
Unavailable ==
  /\ pc = "unavailable"
  /\ Save(AddAlert(monitor, "network"), "sleep", "caught")
  /\ UNCHANGED <<running, iteration, strategy, signal, runtime, orders, due, told, lives, crashed>>

\* Storing the candle never raises; valuate_portfolio may, and so may
\* record_account_change, which alerts when the total has changed.
Value ==
  /\ pc = "value"
  /\ \/ Save(monitor, "limits", "value_failed")
     \/ MayAlert /\ Save(AddAlert(monitor, "account_change"), "limits", "value_failed")
     \/ "value" \in failing /\ MayAlert /\ NoSave("value_failed")
  /\ UNCHANGED <<running, iteration, strategy, signal, runtime, orders, due, told, lives, crashed>>

ValueFailed ==
  /\ pc = "value_failed"
  /\ Save(AddAlert(monitor, "valuation"), "limits", "caught")
  /\ UNCHANGED <<running, iteration, strategy, signal, runtime, orders, due, told, lives, crashed>>

Open == {o \in DOMAIN orders : orders[o] = "open"}

FillOrders(S) == [o \in DOMAIN orders |-> IF o \in S THEN "filled" ELSE orders[o]]

\* process_limit_order_queue, then process_trigger_orders: any of the open orders
\* are filled; a sweep that raises fills none.
Sweep(this, next) ==
  /\ pc = this
  /\ \/ /\ pc' = next
        /\ \E S \in SUBSET Open : orders' = FillOrders(S) /\ due' = due \cup S
     \/ "sweep" \in failing /\ MayAlert /\ pc' = "caught" /\ UNCHANGED <<orders, due>>
  /\ UNCHANGED <<after, running, iteration, strategy, signal, monitor, files, told, lives,
                 crashed, unsaved>>

\* Faulty variant of AfterStrategyError: the rest of the round is skipped.
SleepAfterError == "sleep"

\* The round goes on without a signal.
AfterStrategyError == "notify"

\* LiveStrategy.run
RunStrategy ==
  /\ pc = "run"
  /\ \/ /\ strategy = "running"
        /\ signal' \in {"none", "market", "limit"}
        /\ NoSave(IF signal' = "none" THEN "notify" ELSE "execute")
     \/ /\ strategy # "running" \/ "on_run" \in failing
        /\ MayAlert
        /\ signal' = "none"
        /\ Save(AddAlert(monitor, "strategy_error"), AfterStrategyError, "caught")
  /\ UNCHANGED <<running, iteration, strategy, runtime, orders, due, told, lives, crashed>>

\* execute_signal: an order that cannot be placed is printed and forgotten.
ExecuteSignal ==
  /\ pc = "execute"
  /\ pc' = "notify" /\ signal' = "none"
  /\ \/ /\ Len(orders) < MaxOrders
        /\ orders' = Append(orders, IF signal = "market" THEN "filled" ELSE "open")
        /\ due' = IF signal = "market" THEN due \cup {Len(orders) + 1} ELSE due
     \/ /\ "signal" \in failing \/ Len(orders) >= MaxOrders
        /\ UNCHANGED <<orders, due>>
  /\ UNCHANGED <<after, running, iteration, strategy, monitor, files, told, lives,
                 crashed, unsaved>>

\* list_orders(limit=10): the newest orders.
Recent == {o \in DOMAIN orders : o > Len(orders) - Window}

\* The orders whose status the strategy is told.  on_order may raise at any of
\* them, and the rest, from newer to older, is silently skipped.
Notified == Recent

\* The attributes of Trade.
TradeFields == {"order_id", "symbol", "side", "price", "amount", "fee", "timestamp"}

\* notify_strategy_updates.  Trades come last, each with its id; an attribute that
\* is missing raises, and `except Exception: pass` hides it.
NotifyStrategy ==
  /\ pc = "notify"
  /\ pc' = "sleep"
  /\ \/ /\ due' = due \ Notified
        /\ told' = IF "id" \in TradeFields
                   THEN told \cup {o \in Recent : orders[o] = "filled"} ELSE told
     \/ /\ "on_order" \in failing
        /\ \E o \in Recent : due' = due \ {i \in Notified : i > o}
        /\ UNCHANGED told
  /\ UNCHANGED <<after, running, iteration, strategy, signal, monitor, files, orders, lives,
                 crashed, unsaved>>

\* The outer except of the round.  An alert that cannot be written ends the loop.
Caught ==
  /\ pc = "caught"
  /\ Save(AddAlert(monitor, "loop_iteration"), "sleep", "closing")
  /\ UNCHANGED <<running, iteration, strategy, signal, runtime, orders, due, told, lives, crashed>>

Sleep ==
  /\ pc = "sleep"
  /\ pc' = "top"
  /\ UNCHANGED <<after, running, iteration, strategy, signal, monitor, files, orders, due, told,
                 lives, crashed, unsaved>>

\* The finally block of start: strategy.stop, then mark_stopped, which is skipped
\* when the strategy's on_stop raises.
Closing ==
  /\ pc = "closing"
  /\ running' = FALSE
  /\ \/ strategy' = "stopped" /\ Save([monitor EXCEPT !.status = "stopped"], "leaving", "leaving")
     \/ /\ "on_stop" \in failing
        /\ NoSave("leaving") /\ UNCHANGED strategy
  /\ UNCHANGED <<iteration, signal, runtime, orders, due, told, lives, crashed>>

\* Faulty variant of Gone: the state file is only written after a normal end.
GoneQuietly == [running |-> strategy # "stopped", mode |-> IF strategy = "stopped" THEN "idle" ELSE "live"]

\* What the finally block of handle_live writes.
Gone == [running |-> FALSE, mode |-> "idle"]

Leave ==
  /\ pc = "leaving"
  /\ pc' = "off"
  /\ \/ runtime' = Gone
     \/ "disk" \in failing /\ UNCHANGED runtime
  /\ UNCHANGED <<after, running, iteration, strategy, signal, monitor, saved, orders, due, told,
                 lives, crashed, unsaved>>

-----------------------------------------------------------------------------
(***************************************************************************)
(* What happens around the loop                                            *)
(***************************************************************************)
\* The try block of start is entered, and its finally block not yet.
InTry == pc \in Round \/ (pc = "writing" /\ after.raised # "leaving")

\* KeyboardInterrupt passes every `except Exception` and reaches the finally
\* blocks.  Before the try block and in its finally block nothing more is marked.
Interrupt ==
  /\ pc \in Stage \ {"off", "leaving"}
  /\ pc' = (IF InTry THEN "closing" ELSE "leaving") /\ after' = Nowhere
  /\ crashed' = (crashed \/ pc \in {"marked", "closing"})
  /\ unsaved' = (unsaved \/ pc = "writing")
  /\ UNCHANGED <<running, iteration, strategy, signal, monitor, files, orders, due, told, lives>>

\* The process is killed: the files stay as they are.
Kill ==
  /\ pc # "off"
  /\ pc' = "off" /\ after' = Nowhere
  /\ crashed' = TRUE
  /\ unsaved' = (unsaved \/ pc = "writing")
  /\ UNCHANGED <<running, iteration, strategy, signal, monitor, files, orders, due, told, lives>>

\* RealtimeSimulationLoop.stop, called from another thread.
Stop ==
  /\ InTry
  /\ running /\ running' = FALSE
  /\ UNCHANGED <<pc, after, iteration, strategy, signal, monitor, files, orders, due, told, lives,
                 crashed, unsaved>>

\* The start and stop commands write the state file and nothing else.
StartCommand ==
  /\ ~runtime.running
  /\ runtime' = [running |-> TRUE, mode |-> "initialized"]
  /\ UNCHANGED <<process, monitor, saved, orders, due, told, lives, crashed, unsaved>>

StopCommand ==
  /\ runtime' = [running |-> FALSE, mode |-> "stopped"]
  /\ UNCHANGED <<process, monitor, saved, orders, due, told, lives, crashed, unsaved>>

\* The order commands of another process.
PlaceCommand ==
  /\ Len(orders) < MaxOrders
  /\ orders' = Append(orders, "open")
  /\ UNCHANGED <<process, monitor, files, due, told, lives, crashed, unsaved>>

CancelCommand(o) ==
  /\ orders[o] = "open"
  /\ orders' = [orders EXCEPT ![o] = "canceled"]
  /\ UNCHANGED <<process, monitor, files, due, told, lives, crashed, unsaved>>

-----------------------------------------------------------------------------
Init ==
  /\ maxIterations \in Iterations /\ failing \in Failures
  /\ pc = "off" /\ after = Nowhere /\ running = FALSE /\ iteration = 0
  /\ strategy = "none" /\ signal = "none"
  /\ monitor = DefaultMonitor /\ saved = DefaultMonitor
  /\ runtime = [running |-> FALSE, mode |-> "none"]
  /\ orders = <<>> /\ due = {} /\ told = {}
  /\ lives = 0
  /\ crashed = FALSE /\ unsaved = FALSE

\* The steps the live process takes by itself.
LoopStep ==
  /\ UNCHANGED setup
  /\ \/ Initialize \/ MarkStarted \/ EnterLoop \/ Write \/ Top \/ Fetch \/ Unavailable \/ Value \/ ValueFailed
     \/ Sweep("limits", "triggers") \/ Sweep("triggers", "run")
     \/ RunStrategy \/ ExecuteSignal \/ NotifyStrategy \/ Caught \/ Sleep
     \/ Closing \/ Leave

Commands ==
  \/ GoLive \/ StartCommand \/ StopCommand \/ PlaceCommand
  \/ \E o \in DOMAIN orders : CancelCommand(o)

Next ==
  \/ LoopStep
  \/ (Commands \/ Interrupt \/ Kill \/ Stop) /\ UNCHANGED setup

Spec == Init /\ [][Next]_vars

\* A process that is not killed keeps running: every stage has a timeout or is
\* local work.  Nobody has to start, stop, interrupt or kill it.
FairSpec == Spec /\ WF_vars(LoopStep)

-----------------------------------------------------------------------------
(***************************************************************************)
(* What the live command promises                                          *)
(***************************************************************************)
\* However a live command ends, whatever stage raises and wherever in its rounds it
\* is interrupted, neither file says afterwards that it runs.  (Left out: a kill, an
\* interrupt in the gap before the try block, a second one in the finally block,
\* an on_stop that raises, a disk that refuses the last write.)
FilesAreHonest ==
  pc = "off" /\ ~crashed /\ failing \cap {"on_stop", "disk"} = {} => saved.status # "running" /\ runtime.mode # "live"

\* While a live command is in its loop, the state file that `status` shows says
\* that the system runs (architecture.md:98).
LiveIsShown == InTry => runtime.running

\* Every fill of a round, by a market signal or a sweep, is told to the strategy
\* before the round ends, also when the strategy, the valuation or a signal
\* failed in between, as long as the sweeps and on_order do not raise and the
\* order is among the Window newest of the symbol.
FillsAreReported ==
  pc = "sleep" /\ failing \cap {"sweep", "on_order", "disk"} = {} => due \cap Recent = {}

\* With every stage succeeding, the strategy has been told of all trades when the
\* round ends (loop_signal_executor.py:51).
TradesAreReported == pc = "sleep" => {o \in DOMAIN orders : orders[o] = "filled"} = told

\* The newest MaxAlerts alerts are kept, without a gap.
Latest(mon) ==
  LET n == Len(mon.alerts) IN
  /\ n = IF mon.total < MaxAlerts THEN mon.total ELSE MaxAlerts
  /\ \A i \in 1..n : mon.alerts[i].no = mon.total - n + i

\* What the monitor's file shows is never a part of a state: the latest alerts
\* without a gap, and as many as the monitor keeps.  And it is all that the live
\* process knows, whatever stage failed and wherever the process was killed or
\* interrupted, so that the next live command goes on from there; unless the last
\* write failed or was broken off, which leaves the default state or an older one.
AlertsAreLatest ==
  /\ TypeOK
  /\ Latest(saved)
  /\ ~unsaved /\ pc # "writing" => saved = monitor

\* Every live command comes to its end, whatever raises, when the number of
\* rounds is limited; and without a limit its loop ends after stop().
LoopEnds ==
  (IF maxIterations # Unlimited THEN pc # "off" ELSE InTry /\ ~running)
    ~> (pc = "off")

=============================================================================

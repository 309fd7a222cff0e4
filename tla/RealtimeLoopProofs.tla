------------------------- MODULE RealtimeLoopProofs -------------------------
(***************************************************************************)
(* Theorems about the live command, for any round limits, window, number   *)
(* of alerts kept, sets of calls that may raise, and bounds.               *)
(*                                                                         *)
(* What each stage leaves behind is stated by stage: which stages may end  *)
(* with a file that says that the command runs (Honest), and in which a    *)
(* fill may wait to be told (Reported).  While the monitor's file is       *)
(* written, the stage that comes next decides (Aimed).  The alerts are     *)
(* right in memory and in the file, because a failed write leaves the two  *)
(* apart, and a write that succeeds brings them together (Fresh).          *)
(***************************************************************************)
EXTENDS RealtimeLoop, SequenceTheorems, TLAPS

\* What a write is followed by.
Goals == {"marked", "value", "unavailable", "sleep", "limits", "notify", "leaving"}
Rescues == {"leaving", "caught", "value_failed", "closing"}

Aimed == pc = "writing" => after.next \in Goals /\ after.raised \in Rescues

\* Only inside its rounds and on the way out of them may a live command leave a
\* file that says that it runs.
Honest ==
  failing \cap {"on_stop", "disk"} = {} /\ ~crashed =>
    /\ pc \in {"off", "init", "mark", "writing", "leaving"} => saved.status # "running"
    /\ pc = "writing" /\ after.next = "leaving" => monitor.status # "running"
    /\ pc = "off" => runtime.mode # "live"

\* Fills wait to be told only between the sweeps and the end of the round.
Told == {"init", "mark", "marked", "top", "fetch", "unavailable", "value", "value_failed",
         "limits", "caught", "sleep"}

Reported ==
  /\ failing \cap {"sweep", "on_order", "disk"} = {}
  /\ pc \in Told \/ (pc = "writing" /\ after.next \in Told)
  => due \cap Recent = {}

Alerts == Latest(monitor) /\ Latest(saved)

\* The file holds what the process knows, unless its last write failed.
Fresh == ~unsaved /\ pc # "writing" => saved = monitor

IInv == TypeOK /\ Alerts /\ Fresh /\ Aimed /\ Honest /\ Reported

-----------------------------------------------------------------------------
(***************************************************************************)
(* The monitor's alerts                                                    *)
(***************************************************************************)
Kept(mon) == mon \in Monitor /\ Len(mon.alerts) <= MaxAlerts /\ Latest(mon)

LEMMA MonitorFields ==
  ASSUME NEW mon \in Monitor
  PROVE  /\ mon.alerts \in Seq(Alert) /\ Len(mon.alerts) \in Nat
         /\ mon.total \in Nat
         /\ mon.status \in {"idle", "running", "stopped"}
  <1>1. mon.alerts \in Seq(Alert) /\ mon.total \in Nat /\ mon.status \in {"idle", "running", "stopped"}
    BY DEF Monitor
  <1> QED
    BY <1>1, LenProperties

\* Another status or iteration leaves the alerts alone.
LEMMA KeptUpdate ==
  ASSUME NEW mon, Kept(mon), NEW s \in {"idle", "running", "stopped"}, NEW i \in Nat
  PROVE  /\ Kept([mon EXCEPT !.status = s, !.iteration = i])
         /\ Kept([mon EXCEPT !.status = s])
         /\ Kept([mon EXCEPT !.iteration = i])
  BY DEF Kept, Latest, Monitor

\* A part of a sequence, element by element.
LEMMA PartFacts ==
  ASSUME NEW S, NEW s \in Seq(S), NEW k \in 0..Len(s)
  PROVE  /\ SubSeq(s, k + 1, Len(s)) \in Seq(S)
         /\ Len(SubSeq(s, k + 1, Len(s))) = Len(s) - k
         /\ \A i \in 1..(Len(s) - k) : SubSeq(s, k + 1, Len(s))[i] = s[k + i]
  <1> DEFINE n == Len(s)
  <1>1. n \in Nat /\ k \in Nat /\ k <= n
    BY LenProperties
  <1>2. \A i \in (k + 1)..n : s[i] \in S
    BY <1>1, ElementOfSeq
  <1>3. SubSeq(s, k + 1, n) = [i \in 1..(n - k) |-> s[i + k]]
    BY <1>1
  <1>4. SubSeq(s, k + 1, n) \in Seq(S)
    BY <1>1, <1>2, <1>3, SubSeqProperties
  <1>5. Len(SubSeq(s, k + 1, n)) = n - k
    BY <1>1, <1>2, SubSeqProperties
  <1> QED
    BY <1>1, <1>3, <1>4, <1>5

\* record_alert drops the oldest alert when there are too many.
LEMMA KeptAlert ==
  ASSUME NEW mon, Kept(mon),
         NEW category \in {"network", "account_change", "valuation",
                           "strategy_error", "loop_iteration"}
  PROVE  Kept(AddAlert(mon, category))
  <1> DEFINE a   == [no |-> mon.total + 1, category |-> category]
             all == Append(mon.alerts, a)
             n   == Len(mon.alerts)
             cut == IF Len(all) > MaxAlerts THEN Len(all) - MaxAlerts ELSE 0
             new == SubSeq(all, cut + 1, Len(all))
             out == AddAlert(mon, category)
  <1>1. mon.alerts \in Seq(Alert) /\ n \in Nat /\ mon.total \in Nat /\ n <= MaxAlerts
    BY MonitorFields DEF Kept
  <1>2. a \in Alert /\ a.no = mon.total + 1
    BY <1>1 DEF Alert
  <1>3. /\ all \in Seq(Alert) /\ Len(all) = n + 1 /\ all[n + 1] = a
        /\ \A i \in 1..n : all[i] = mon.alerts[i]
    BY <1>1, <1>2, AppendProperties
  <1>4. cut \in 0..Len(all) /\ cut \in {0, 1} /\ (cut = 1 <=> n = MaxAlerts)
    BY <1>1, <1>3, NumberAssumption
  <1>5. /\ new \in Seq(Alert) /\ Len(new) = n + 1 - cut
        /\ \A i \in 1..(n + 1 - cut) : new[i] = all[cut + i]
    <2> HIDE DEF all, cut
    <2> QED
      BY <1>3, <1>4, PartFacts
  <1>6. out = [mon EXCEPT !.total = @ + 1, !.alerts = new]
    BY DEF AddAlert
  <1> HIDE DEF all, cut, new, a, out
  <1>7. out \in Monitor /\ out.total = mon.total + 1 /\ out.alerts = new
    <2>1. mon \in Monitor /\ mon.total + 1 \in Nat
      BY <1>1 DEF Kept
    <2> QED
      BY <1>5, <1>6, <2>1 DEF Monitor
  <1>8. n = (IF mon.total < MaxAlerts THEN mon.total ELSE MaxAlerts)
        /\ \A i \in 1..n : mon.alerts[i].no = mon.total - n + i
    BY DEF Kept, Latest, n
  <1> HIDE DEF n
  <1>9. Len(new) = IF mon.total + 1 < MaxAlerts THEN mon.total + 1 ELSE MaxAlerts
    BY <1>1, <1>4, <1>5, <1>8, NumberAssumption
  <1>10. ASSUME NEW i \in 1..Len(new)
         PROVE  new[i].no = mon.total + 1 - Len(new) + i
    <2>1. i \in 1..(n + 1 - cut) /\ new[i] = all[cut + i] /\ i \in Nat
      BY <1>1, <1>4, <1>5
    <2>2. CASE cut + i = n + 1
      <3>1. i = Len(new)
        BY <1>1, <1>4, <1>5, <2>1, <2>2
      <3> QED
        BY <1>1, <1>2, <1>3, <2>1, <2>2, <3>1
    <2>3. CASE cut + i # n + 1
      <3>1. cut + i \in 1..n
        BY <1>1, <1>4, <2>1, <2>3
      <3>2. new[i].no = mon.total - n + (cut + i)
        BY <1>3, <1>8, <2>1, <3>1
      <3> QED
        BY <1>1, <1>4, <1>5, <2>1, <3>2
    <2> QED
      BY <2>2, <2>3
  <1>11. Len(new) <= MaxAlerts
    BY <1>9, <1>1, NumberAssumption
  <1>12. Latest(out)
    <2>1. Len(out.alerts) = Len(new) /\ out.total = mon.total + 1
      BY <1>7
    <2>2. \A i \in 1..Len(new) : out.alerts[i].no = out.total - Len(new) + i
      <3>1. Len(new) \in Nat
        BY <1>5, LenProperties
      <3> QED
        BY <1>1, <1>7, <1>10, <3>1
    <2> QED
      BY <1>7, <1>9, <2>1, <2>2 DEF Latest
  <1> QED
    BY <1>7, <1>11, <1>12 DEF Kept, out

\* A file that holds no more alerts than are kept is taken over as it is.
LEMMA LoadsAll ==
  ASSUME NEW mon, Kept(mon)
  PROVE  LoadState(mon) = mon
  <1> DEFINE all == mon.alerts
  <1>1. all \in Seq(Alert) /\ Len(all) \in Nat /\ Len(all) <= MaxAlerts
    BY MonitorFields DEF Kept
  <1>2. (IF Len(all) > MaxAlerts THEN Len(all) - MaxAlerts + 1 ELSE 1) = 1
    BY <1>1, NumberAssumption
  <1>3. SubSeq(all, 1, Len(all)) = all
    <2>1. SubSeq(all, 1, Len(all)) = [i \in 1..Len(all) |-> all[i]]
      BY <1>1
    <2>2. all = [i \in 1..Len(all) |-> all[i]]
      BY <1>1
    <2> QED
      BY <2>1, <2>2
  <1>4. LoadState(mon) = [mon EXCEPT !.alerts = all]
    BY <1>2, <1>3 DEF LoadState
  <1> QED
    BY <1>4 DEF Kept, Monitor
-----------------------------------------------------------------------------
(***************************************************************************)
(* Types and alerts: what each step does to the variables                  *)
(***************************************************************************)
Runtime == [running : BOOLEAN, mode : {"none", "initialized", "live", "idle", "stopped"}]

\* The conjuncts of TypeOK that are not about the monitor or its file.
Typed ==
  /\ maxIterations \in Iterations /\ failing \in Failures
  /\ pc \in Stage /\ after \in [next : Stage, raised : Stage]
  /\ running \in BOOLEAN
  /\ iteration \in Nat
  /\ strategy \in {"none", "pending", "running", "stopped"}
  /\ signal \in {"none", "market", "limit"}
  /\ runtime \in Runtime
  /\ orders \in Seq({"open", "filled", "canceled"})
  /\ due \subseteq DOMAIN orders /\ told \subseteq DOMAIN orders
  /\ lives \in 0..MaxLives
  /\ crashed \in BOOLEAN /\ unsaved \in BOOLEAN

LEMMA TypesSplit ==
  /\ TypeOK /\ Alerts <=> Typed /\ Kept(monitor) /\ Kept(saved)
  /\ (TypeOK /\ Alerts)' <=> Typed' /\ Kept(monitor)' /\ Kept(saved)'
  BY DEF TypeOK, Alerts, Typed, Kept, Runtime

\* What the commands write to the state file.
LEMMA RuntimeTyped ==
  \A b \in BOOLEAN, m \in {"none", "initialized", "live", "idle", "stopped"} :
    [running |-> b, mode |-> m] \in Runtime
  BY Zenon DEF Runtime

LEMMA DefaultKept == Kept(DefaultMonitor) /\ DefaultMonitor.status = "idle"
  <1>1. DefaultMonitor \in Monitor /\ Len(DefaultMonitor.alerts) = 0 /\ DefaultMonitor.total = 0
    BY EmptySeq DEF DefaultMonitor, Monitor
  <1>2. Kept(DefaultMonitor)
    BY <1>1, NumberAssumption DEF Kept, Latest
  <1> QED
    BY <1>2 DEF DefaultMonitor

\* Saving a monitor that is kept keeps the memory and the file.
LEMMA SaveKeeps ==
  ASSUME NEW mon, Kept(mon), Kept(saved), NEW next, NEW raised, Save(mon, next, raised)
  PROVE  Kept(monitor)' /\ Kept(saved)'
  <1>1. monitor' = mon /\ (saved' = DefaultMonitor \/ saved' = saved)
    BY DEF Save
  <1> QED
    BY <1>1, DefaultKept DEF Kept, Latest

\* The alerts are kept by every step.
LEMMA KeptStep ==
  ASSUME IInv, [Next]_vars
  PROVE  Kept(monitor)' /\ Kept(saved)'
  <1>1. Kept(monitor) /\ Kept(saved) /\ iteration \in Nat
    BY TypesSplit DEF IInv, Typed
  <1>2. \A c \in {"network", "account_change", "valuation", "strategy_error", "loop_iteration"} :
          Kept(AddAlert(monitor, c))
    BY <1>1, KeptAlert
  <1>3. /\ Kept([monitor EXCEPT !.status = "running", !.iteration = 0])
        /\ Kept([monitor EXCEPT !.iteration = iteration])
        /\ Kept([monitor EXCEPT !.status = "stopped"])
    BY <1>1, KeptUpdate
  <1>4. UNCHANGED <<monitor, saved>> => Kept(monitor)' /\ Kept(saved)'
    BY <1>1 DEF Kept, Latest
  <1>5. CASE GoLive
    <2>1. Kept(LoadState(saved))
      BY <1>1, LoadsAll
    <2>2. monitor' = LoadState(saved) /\ saved' = saved
      BY <1>5 DEF GoLive
    <2> QED
      BY <1>1, <2>1, <2>2 DEF Kept, Latest
  <1>6. CASE MarkStarted
    BY <1>1, <1>3, <1>6, SaveKeeps DEF MarkStarted
  <1>7. CASE Fetch
    BY <1>1, <1>3, <1>4, <1>7, SaveKeeps DEF Fetch, NoSave
  <1>8. CASE Unavailable
    BY <1>1, <1>2, <1>8, SaveKeeps DEF Unavailable
  <1>9. CASE Value
    BY <1>1, <1>2, <1>4, <1>9, SaveKeeps DEF Value, NoSave
  <1>10. CASE ValueFailed
    BY <1>1, <1>2, <1>10, SaveKeeps DEF ValueFailed
  <1>11. CASE RunStrategy
    BY <1>1, <1>2, <1>4, <1>11, SaveKeeps DEF RunStrategy, NoSave
  <1>12. CASE Caught
    BY <1>1, <1>2, <1>12, SaveKeeps DEF Caught
  <1>13. CASE Closing
    BY <1>1, <1>3, <1>4, <1>13, SaveKeeps DEF Closing, NoSave
  <1>14. CASE Write
    <2>1. monitor' = monitor /\ (saved' = monitor \/ saved' = saved)
      BY <1>14 DEF Write
    <2> QED
      BY <1>1, <2>1 DEF Kept, Latest
  <1>15. UNCHANGED <<monitor, saved>> \/ GoLive \/ MarkStarted \/ Fetch \/ Unavailable \/ Value
         \/ ValueFailed \/ RunStrategy \/ Caught \/ Closing \/ Write
    BY DEF Next, LoopStep, Commands, vars, process, files, setup, Initialize, EnterLoop, Top, Sweep,
           ExecuteSignal, NotifyStrategy, Sleep, Leave, StartCommand, StopCommand, PlaceCommand,
           CancelCommand, Interrupt, Kill, Stop
  <1> QED
    BY <1>4, <1>5, <1>6, <1>7, <1>8, <1>9, <1>10, <1>11, <1>12, <1>13, <1>14, <1>15

\* Where a save leads to.
LEMMA SaveGoes ==
  ASSUME TypeOK, NEW mon, NEW next \in Goals, NEW raised \in Rescues, Save(mon, next, raised)
  PROVE  /\ pc' \in Stage /\ pc' \in {"writing", raised}
         /\ after' \in [next : Stage, raised : Stage] /\ unsaved' \in BOOLEAN
         /\ pc' = "writing" => after'.next = next /\ after'.raised = raised
  <1>1. next \in Stage /\ raised \in Stage /\ "writing" \in Stage /\ raised # "writing"
    BY DEF Goals, Rescues, Stage, Round
  <1>2. CASE pc' = "writing"
    <2>1. after' = [next |-> next, raised |-> raised] /\ unsaved' = unsaved
      BY <1>1, <1>2 DEF Save
    <2> QED
      BY <1>1, <1>2, <2>1 DEF TypeOK
  <1>3. CASE pc' # "writing"
    <2>1. pc' = raised /\ after' = after /\ unsaved' = TRUE
      BY <1>3 DEF Save
    <2> QED
      BY <1>1, <1>3, <2>1 DEF TypeOK
  <1> QED
    BY <1>2, <1>3

\* Where the process goes, and the types of everything that is not the monitor.
LEMMA TypedStep ==
  ASSUME IInv, [Next]_vars
  PROVE  Typed'
  <1>28. TypeOK
    BY DEF IInv
  <1> USE DEF Typed
  <1>1. Typed
    BY TypesSplit DEF IInv
  <1>2. Len(orders) \in Nat /\ DOMAIN orders = 1..Len(orders)
    BY <1>1, LenProperties
  <1>3. \A x \in {"open", "filled", "canceled"} :
          /\ Append(orders, x) \in Seq({"open", "filled", "canceled"})
          /\ DOMAIN Append(orders, x) = DOMAIN orders \cup {Len(orders) + 1}
    <2> SUFFICES ASSUME NEW x \in {"open", "filled", "canceled"}
                 PROVE  /\ Append(orders, x) \in Seq({"open", "filled", "canceled"})
                        /\ DOMAIN Append(orders, x) = DOMAIN orders \cup {Len(orders) + 1}
      OBVIOUS
    <2>1. /\ Append(orders, x) \in Seq({"open", "filled", "canceled"})
          /\ Len(Append(orders, x)) = Len(orders) + 1
      BY <1>1, AppendProperties
    <2>2. DOMAIN Append(orders, x) = 1..(Len(orders) + 1)
      BY <2>1, LenProperties
    <2> QED
      BY <1>2, <2>1, <2>2
  <1>4. ASSUME NEW f, DOMAIN f = DOMAIN orders,
               f \in [DOMAIN orders -> {"open", "filled", "canceled"}]
        PROVE  f \in Seq({"open", "filled", "canceled"})
    <2>1. f \in [1..Len(orders) -> {"open", "filled", "canceled"}]
      BY <1>2, <1>4
    <2> QED
      BY <1>2, <2>1, IsASeq
  <1>5. \A o \in DOMAIN orders : orders[o] \in {"open", "filled", "canceled"}
    BY <1>1, <1>2, ElementOfSeq
  <1>6. ASSUME NEW S PROVE FillOrders(S) \in Seq({"open", "filled", "canceled"})
                          /\ DOMAIN FillOrders(S) = DOMAIN orders
    BY <1>4, <1>5 DEF FillOrders
  <1>7. UNCHANGED setup
    BY DEF Next, LoopStep, vars
  <1> USE <1>1, <1>7 DEF setup
  <1>8. CASE GoLive
    <2>1. lives' \in 0..MaxLives
      BY <1>8, NumberAssumption DEF GoLive
    <2>2. runtime' \in Runtime
      BY <1>8, RuntimeTyped DEF GoLive
    <2>3. /\ pc' = "init" /\ after' = Nowhere /\ running' = FALSE /\ iteration' = 0 /\ strategy' = "pending"
          /\ signal' = "none" /\ due' = {} /\ told' = {} /\ UNCHANGED <<orders, crashed, unsaved>>
      BY <1>8 DEF GoLive
    <2>4. "init" \in Stage /\ Nowhere \in [next : Stage, raised : Stage]
      BY DEF Stage, Nowhere
    <2> QED
      BY <2>1, <2>2, <2>3, <2>4
  <1>9. CASE Initialize
    BY <1>9 DEF Initialize, files, Stage
  <1>25. CASE EnterLoop
    BY <1>25 DEF EnterLoop, files, Stage, Round
  <1>26. CASE Top
    BY <1>26 DEF Top, files, Stage, Round
  <1>10. CASE MarkStarted \/ Fetch \/ Unavailable \/ Value \/ ValueFailed
    <2>1. pc' \in Stage /\ after' \in [next : Stage, raised : Stage] /\ unsaved' \in BOOLEAN
      <3>1. CASE MarkStarted
        BY <3>1, <1>28, SaveGoes DEF MarkStarted, Goals, Rescues
      <3>2. CASE Fetch
        BY <3>2, <1>28, SaveGoes DEF Fetch, NoSave, Stage, Round, Goals, Rescues
      <3>3. CASE Unavailable
        BY <3>3, <1>28, SaveGoes DEF Unavailable, Goals, Rescues
      <3>4. CASE Value
        BY <3>4, <1>28, SaveGoes DEF Value, NoSave, Stage, Round, Goals, Rescues
      <3>5. CASE ValueFailed
        BY <3>5, <1>28, SaveGoes DEF ValueFailed, Goals, Rescues
      <3> QED
        BY <1>10, <3>1, <3>2, <3>3, <3>4, <3>5
    <2>2. /\ UNCHANGED <<running, iteration, strategy, signal, runtime, orders, due, told, lives>>
          /\ crashed' \in BOOLEAN
      BY <1>10 DEF MarkStarted, Fetch, Unavailable, Value, ValueFailed
    <2> QED
      BY <2>1, <2>2
  <1>11. ASSUME NEW this, NEW next \in Stage, Sweep(this, next)
         PROVE  Typed'
    BY <1>6, <1>11 DEF Sweep, Open, files, Stage, Round
  <1>12. CASE RunStrategy
    <2>1. pc' \in Stage /\ after' \in [next : Stage, raised : Stage] /\ unsaved' \in BOOLEAN
      BY <1>12, <1>28, SaveGoes DEF RunStrategy, AfterStrategyError, NoSave, Stage, Round, Goals, Rescues
    <2>2. /\ UNCHANGED <<running, iteration, strategy, runtime, orders, due, told, lives, crashed>>
          /\ signal' \in {"none", "market", "limit"}
      BY <1>12 DEF RunStrategy
    <2> QED
      BY <2>1, <2>2
  <1>13. CASE ExecuteSignal
    BY <1>2, <1>3, <1>13 DEF ExecuteSignal, files, Stage, Round
  <1>14. CASE NotifyStrategy
    BY <1>14 DEF NotifyStrategy, Recent, files, Stage, Round
  <1>15. CASE Caught \/ Closing
    <2>1. pc' \in Stage /\ after' \in [next : Stage, raised : Stage] /\ unsaved' \in BOOLEAN
      <3>1. CASE Caught
        BY <3>1, <1>28, SaveGoes DEF Caught, Goals, Rescues
      <3>2. CASE Closing
        BY <3>2, <1>28, SaveGoes DEF Closing, NoSave, Stage, Round, Goals, Rescues
      <3> QED
        BY <1>15, <3>1, <3>2
    <2>2. /\ UNCHANGED <<iteration, signal, runtime, orders, due, told, lives, crashed>>
          /\ strategy' \in {strategy, "stopped"} /\ running' \in {running, FALSE}
      BY <1>15 DEF Caught, Closing
    <2> QED
      BY <2>1, <2>2
  <1>16. CASE Sleep \/ Leave
    BY <1>16, RuntimeTyped DEF Sleep, Leave, Gone, files, Stage, Round
  <1>22. Nowhere \in [next : Stage, raised : Stage]
    BY DEF Nowhere, Stage
  <1>23. CASE Interrupt \/ Kill
    <2>1. pc' \in Stage /\ after' = Nowhere /\ crashed' \in BOOLEAN /\ unsaved' \in BOOLEAN
      BY <1>23 DEF Interrupt, Kill, Stage, Round
    <2>2. UNCHANGED <<running, iteration, strategy, signal, runtime, orders, due, told, lives>>
      BY <1>23 DEF Interrupt, Kill, files
    <2> QED
      BY <1>22, <2>1, <2>2
  <1>27. CASE Stop
    BY <1>27 DEF Stop, files
  <1>24. CASE Write
    BY <1>22, <1>24 DEF Write, files
  <1>17. CASE StartCommand \/ StopCommand
    BY <1>17, RuntimeTyped DEF StartCommand, StopCommand, process
  <1>18. CASE PlaceCommand
    BY <1>3, <1>18 DEF PlaceCommand, process, files
  <1>19. ASSUME NEW o \in DOMAIN orders, CancelCommand(o)
         PROVE  Typed'
    <2>1. /\ orders' \in Seq({"open", "filled", "canceled"}) /\ DOMAIN orders' = DOMAIN orders
      BY <1>4, <1>5, <1>19 DEF CancelCommand
    <2> QED
      BY <1>19, <2>1 DEF CancelCommand, process, files
  <1>20. CASE UNCHANGED vars
    BY <1>20 DEF vars, process, files
  <1>21. "triggers" \in Stage /\ "run" \in Stage
    BY DEF Stage, Round
  <1> QED
    BY <1>8, <1>9, <1>10, <1>11, <1>12, <1>13, <1>14, <1>15, <1>16, <1>17, <1>18, <1>19,
       <1>20, <1>21, <1>23, <1>24, <1>25, <1>26, <1>27 DEF Next, LoopStep, Commands

-----------------------------------------------------------------------------
(***************************************************************************)
(* What each stage leaves behind                                           *)
(***************************************************************************)
\* Where the disk does not fail, a save goes on to the write.
LEMMA SaveOpens ==
  ASSUME NEW mon, NEW next, NEW raised, Save(mon, next, raised), "disk" \notin failing
  PROVE  /\ saved' = DefaultMonitor /\ monitor' = mon /\ pc' = "writing"
         /\ after' = [next |-> next, raised |-> raised]
  BY DEF Save

\* Only the stages that save go on to a write, and to which stage then.
LEMMA AimedStep ==
  ASSUME IInv, [Next]_vars
  PROVE  Aimed'
  <1> SUFFICES ASSUME pc' = "writing" PROVE after'.next \in Goals /\ after'.raised \in Rescues
    BY DEF Aimed
  <1>1. pc = "writing" => after.next \in Goals /\ after.raised \in Rescues
    BY DEF IInv, Aimed
  <1>2. ASSUME NEW mon, NEW next \in Goals, NEW raised \in Rescues, Save(mon, next, raised)
        PROVE  after'.next \in Goals /\ after'.raised \in Rescues
    BY <1>2, SaveGoes DEF IInv
  <1>3. CASE MarkStarted \/ Unavailable \/ ValueFailed \/ Caught
    BY <1>2, <1>3 DEF MarkStarted, Unavailable, ValueFailed, Caught, Goals, Rescues
  <1>4. CASE Fetch
    BY <1>2, <1>4 DEF Fetch, NoSave, Goals, Rescues
  <1>8. CASE Value
    BY <1>2, <1>8 DEF Value, NoSave, Goals, Rescues
  <1>9. CASE RunStrategy
    BY <1>2, <1>9 DEF RunStrategy, NoSave, AfterStrategyError, Goals, Rescues
  <1>10. CASE Closing
    BY <1>2, <1>10 DEF Closing, NoSave, Goals, Rescues
  <1>5. CASE Write
    <2>1. pc = "writing" /\ pc' \in {after.next, after.raised}
      BY <1>5 DEF Write
    <2> QED
      BY <1>1, <2>1 DEF Goals, Rescues
  <1>6. CASE UNCHANGED <<pc, after>>
    BY <1>1, <1>6
  <1>7. pc' # "writing" \/ UNCHANGED <<pc, after>> \/ MarkStarted \/ Unavailable \/ ValueFailed
        \/ Caught \/ Fetch \/ Value \/ RunStrategy \/ Closing \/ Write
    BY DEF Next, LoopStep, Commands, vars, process, Initialize, EnterLoop, Top, Sweep, GoLive,
           ExecuteSignal, NotifyStrategy, Sleep, Leave, StartCommand, StopCommand, PlaceCommand,
           CancelCommand, Interrupt, Kill, Stop
  <1> QED
    BY <1>3, <1>4, <1>5, <1>6, <1>7, <1>8, <1>9, <1>10

\* The file is what the process knows, but in the middle of a write and after one
\* that failed.
LEMMA FreshStep ==
  ASSUME IInv, [Next]_vars
  PROVE  Fresh'
  <1>1. ~unsaved /\ pc # "writing" => saved = monitor
    BY DEF IInv, Fresh
  <1>2. ASSUME NEW mon, NEW next, NEW raised, Save(mon, next, raised)
        PROVE  Fresh'
    BY <1>2 DEF Save, Fresh
  <1>3. ASSUME NEW next, NoSave(next), pc # "writing"
        PROVE  Fresh'
    BY <1>1, <1>3 DEF NoSave, Fresh
  <1>4. CASE MarkStarted \/ Unavailable \/ ValueFailed \/ Caught
    BY <1>2, <1>4 DEF MarkStarted, Unavailable, ValueFailed, Caught
  <1>5. CASE Fetch \/ Value \/ RunStrategy \/ Closing
    BY <1>2, <1>3, <1>5 DEF Fetch, Value, RunStrategy, Closing
  <1>6. CASE Write
    BY <1>6 DEF Write, Fresh
  <1>7. CASE GoLive
    <2>1. saved' = saved /\ unsaved' = unsaved /\ monitor' = LoadState(saved) /\ pc = "off"
      BY <1>7 DEF GoLive
    <2>2. LoadState(saved) = saved
      BY LoadsAll, TypesSplit DEF IInv
    <2> QED
      BY <2>1, <2>2 DEF Fresh
  <1>8. CASE Interrupt \/ Kill
    BY <1>1, <1>8 DEF Interrupt, Kill, Fresh, files
  <1>9. CASE UNCHANGED <<monitor, saved, unsaved>> /\ pc # "writing"
    BY <1>1, <1>9 DEF Fresh
  <1>10. CASE UNCHANGED <<pc, monitor, saved, unsaved>>
    BY <1>1, <1>10 DEF Fresh
  <1>11. \/ UNCHANGED <<pc, monitor, saved, unsaved>>
         \/ UNCHANGED <<monitor, saved, unsaved>> /\ pc # "writing"
         \/ Interrupt \/ Kill \/ GoLive \/ Write \/ Fetch \/ Value \/ RunStrategy \/ Closing
         \/ MarkStarted \/ Unavailable \/ ValueFailed \/ Caught
    BY DEF Next, LoopStep, Commands, vars, process, files, Initialize, EnterLoop, Top, Sweep,
           ExecuteSignal, NotifyStrategy, Sleep, Leave, StartCommand, StopCommand, PlaceCommand,
           CancelCommand, Stop
  <1> QED
    BY <1>4, <1>5, <1>6, <1>7, <1>8, <1>9, <1>10, <1>11

\* No end but a kill or an interrupt in a gap leaves a file that says it runs.
LEMMA HonestStep ==
  ASSUME IInv, [Next]_vars
  PROVE  Honest'
  <1>1. UNCHANGED setup
    BY DEF Next, LoopStep, vars
  <1> DEFINE Ends == {"off", "init", "mark", "writing", "leaving"}
  <1> SUFFICES ASSUME failing \cap {"on_stop", "disk"} = {}, ~crashed'
               PROVE  /\ pc' \in Ends => saved'.status # "running"
                      /\ pc' = "writing" /\ after'.next = "leaving" => monitor'.status # "running"
                      /\ pc' = "off" => runtime'.mode # "live"
    BY <1>1 DEF Honest, setup
  <1>2. "on_stop" \notin failing /\ "disk" \notin failing
    OBVIOUS
  <1>3. /\ ~crashed /\ pc \in Ends => saved.status # "running"
        /\ ~crashed /\ pc = "writing" /\ after.next = "leaving" => monitor.status # "running"
        /\ ~crashed /\ pc = "off" => runtime.mode # "live"
    BY DEF IInv, Honest
  <1>4. Kept(monitor) /\ monitor \in Monitor
    BY TypesSplit DEF IInv, Kept
  <1>5. ASSUME NEW mon, NEW next, NEW raised, next # "leaving", Save(mon, next, raised)
        PROVE  /\ saved'.status # "running" /\ pc' = "writing" /\ after'.next # "leaving"
    BY <1>2, <1>5, SaveOpens, DefaultKept
  <1>6. CASE MarkStarted
    BY <1>5, <1>6 DEF MarkStarted
  <1>7. CASE Fetch
    BY <1>2, <1>5, <1>7 DEF Fetch, NoSave
  <1>8. CASE Unavailable \/ ValueFailed \/ Caught
    BY <1>5, <1>8 DEF Unavailable, ValueFailed, Caught
  <1>9. CASE Value
    BY <1>2, <1>5, <1>9 DEF Value, NoSave
  <1>10. CASE RunStrategy
    BY <1>2, <1>5, <1>10 DEF RunStrategy, NoSave, AfterStrategyError
  <1>11. CASE Closing
    <2>1. /\ saved' = DefaultMonitor /\ monitor' = [monitor EXCEPT !.status = "stopped"]
          /\ pc' = "writing"
      BY <1>2, <1>11, SaveOpens DEF Closing
    <2> QED
      BY <1>4, <2>1, DefaultKept DEF Monitor
  <1>12. CASE Write
    <2>1. saved' = monitor /\ pc' = after.next /\ pc = "writing" /\ crashed' = crashed
      BY <1>2, <1>12 DEF Write
    <2>2. after.next \in Goals
      BY <2>1 DEF IInv, Aimed
    <2> QED
      BY <1>3, <2>1, <2>2 DEF Goals
  <1>13. CASE GoLive
    <2>1. pc = "off" /\ pc' = "init" /\ saved' = saved /\ crashed' = crashed
      BY <1>13 DEF GoLive
    <2> QED
      BY <1>3, <2>1
  <1>14. CASE Initialize
    BY <1>3, <1>14 DEF Initialize, files
  <1>15. CASE EnterLoop \/ Top \/ Sleep
    BY <1>15 DEF EnterLoop, Top, Sleep
  <1>16. CASE Sweep("limits", "triggers") \/ Sweep("triggers", "run")
    BY <1>16 DEF Sweep
  <1>17. CASE ExecuteSignal \/ NotifyStrategy
    BY <1>17 DEF ExecuteSignal, NotifyStrategy
  <1>18. CASE Leave
    BY <1>2, <1>3, <1>18 DEF Leave, Gone
  <1>19. CASE Interrupt
    <2>1. saved' = saved /\ pc' \in {"closing", "leaving"} /\ ~crashed
          /\ pc \notin {"marked", "closing"} /\ (pc' = "leaving" => ~InTry)
      BY <1>19 DEF Interrupt, files
    <2>2. pc \in Stage
      BY DEF IInv, TypeOK
    <2>3. ~InTry /\ pc \notin {"marked", "closing"} => pc \in Ends
      BY <2>2 DEF InTry, Stage
    <2> QED
      BY <1>3, <2>1, <2>3
  <1>20. CASE Kill
    BY <1>20 DEF Kill
  <1>21. CASE Stop
    BY <1>3, <1>21 DEF Stop, files
  <1>22. CASE StartCommand \/ StopCommand
    BY <1>3, <1>22 DEF StartCommand, StopCommand, process
  <1>23. CASE PlaceCommand \/ \E o \in DOMAIN orders : CancelCommand(o)
    BY <1>3, <1>23 DEF PlaceCommand, CancelCommand, process, files
  <1>24. CASE UNCHANGED vars
    BY <1>3, <1>24 DEF vars, process, files
  <1> QED
    BY <1>6, <1>7, <1>8, <1>9, <1>10, <1>11, <1>12, <1>13, <1>14, <1>15, <1>16, <1>17,
       <1>18, <1>19, <1>20, <1>21, <1>22, <1>23, <1>24 DEF Next, LoopStep, Commands

\* A fill that the strategy was not told of waits only between the sweeps and the
\* end of the round, unless it is too old to be looked at.
LEMMA ReportedStep ==
  ASSUME IInv, [Next]_vars
  PROVE  Reported'
  <1>1. UNCHANGED setup
    BY DEF Next, LoopStep, vars
  <1> DEFINE Quiet == pc \in Told \/ (pc = "writing" /\ after.next \in Told)
  <1> SUFFICES ASSUME failing \cap {"sweep", "on_order", "disk"} = {}, Quiet'
               PROVE  (due \cap Recent)' = {}
    BY <1>1 DEF Reported, setup
  <1>2. "sweep" \notin failing /\ "on_order" \notin failing /\ "disk" \notin failing
    OBVIOUS
  <1>3. Quiet => due \cap Recent = {}
    BY DEF IInv, Reported
  <1>4. /\ orders \in Seq({"open", "filled", "canceled"}) /\ due \subseteq DOMAIN orders
        /\ Len(orders) \in Nat /\ DOMAIN orders = 1..Len(orders)
    BY LenProperties DEF IInv, TypeOK
  <1>5. Quiet /\ UNCHANGED <<orders, due>> => (due \cap Recent)' = {}
    BY <1>3 DEF Recent
  <1>6. CASE GoLive
    BY <1>6 DEF GoLive
  <1>7. CASE Initialize \/ EnterLoop \/ Top \/ Sleep
    BY <1>5, <1>7 DEF Initialize, EnterLoop, Top, Sleep, Told
  <1>8. CASE MarkStarted
    BY <1>5, <1>8 DEF MarkStarted, Told
  <1>9. CASE Fetch \/ Unavailable \/ Value \/ ValueFailed
    BY <1>5, <1>9 DEF Fetch, Unavailable, Value, ValueFailed, Told
  <1>10. CASE Sweep("limits", "triggers") \/ Sweep("triggers", "run")
    BY <1>2, <1>10 DEF Sweep, Told
  <1>11. CASE RunStrategy
    <2>1. \/ pc' \in {"notify", "execute"}
          \/ pc' = "writing" /\ after'.next = "notify"
      BY <1>2, <1>11, SaveOpens DEF RunStrategy, NoSave, AfterStrategyError
    <2> QED
      BY <2>1 DEF Told
  <1>12. CASE ExecuteSignal
    BY <1>12 DEF ExecuteSignal, Told
  <1>13. CASE NotifyStrategy
    <2>1. due' = due \ Notified /\ orders' = orders
      BY <1>2, <1>13 DEF NotifyStrategy
    <2> QED
      BY <2>1 DEF Notified, Recent
  <1>14. CASE Caught
    BY <1>5, <1>14 DEF Caught, Told
  <1>15. CASE Closing
    <2>1. pc' = "leaving" \/ (pc' = "writing" /\ after'.next = "leaving")
      BY <1>2, <1>15, SaveOpens DEF Closing, NoSave
    <2> QED
      BY <2>1 DEF Told
  <1>20. CASE Write
    <2>1. pc = "writing" /\ pc' = after.next /\ UNCHANGED <<orders, due>>
      BY <1>2, <1>20 DEF Write
    <2>2. after.next # "writing"
      BY <2>1 DEF IInv, Aimed, Goals
    <2> QED
      BY <1>5, <2>1, <2>2
  <1>21. CASE Leave \/ Interrupt \/ Kill
    BY <1>21 DEF Leave, Interrupt, Kill, Told
  <1>16. CASE Stop \/ StartCommand \/ StopCommand
    BY <1>5, <1>16 DEF Stop, StartCommand, StopCommand, process
  <1>17. CASE PlaceCommand
    <2>1. due' = due /\ Quiet
      BY <1>17 DEF PlaceCommand, process
    <2>2. Len(orders') = Len(orders) + 1
      BY <1>4, <1>17, AppendProperties DEF PlaceCommand
    <2>3. due \cap Recent' \subseteq due \cap Recent
      BY <1>4, <2>2, NumberAssumption DEF Recent
    <2> QED
      BY <1>3, <2>1, <2>3
  <1>18. ASSUME NEW o \in DOMAIN orders, CancelCommand(o)
         PROVE  (due \cap Recent)' = {}
    <2>1. due' = due /\ Quiet
      BY <1>18 DEF CancelCommand, process
    <2>2. orders' \in Seq({"open", "filled", "canceled"}) /\ Len(orders') = Len(orders)
      BY <1>4, <1>18, ExceptSeq DEF CancelCommand
    <2>3. Recent' = Recent
      BY <1>4, <2>2, LenProperties DEF Recent
    <2> QED
      BY <1>3, <2>1, <2>3
  <1>19. CASE UNCHANGED vars
    BY <1>5, <1>19 DEF vars, process
  <1> QED
    BY <1>6, <1>7, <1>8, <1>9, <1>10, <1>11, <1>12, <1>13, <1>14, <1>15, <1>16, <1>17,
       <1>18, <1>19, <1>20, <1>21 DEF Next, LoopStep, Commands

-----------------------------------------------------------------------------
LEMMA InitInv == Init => IInv
  <1> SUFFICES ASSUME Init PROVE IInv
    OBVIOUS
  <1>2. Kept(DefaultMonitor)
    BY DefaultKept
  <1>3. Typed
    <2>1. orders \in Seq({"open", "filled", "canceled"})
      BY EmptySeq DEF Init
    <2> QED
      <3>1. runtime \in Runtime
        BY RuntimeTyped DEF Init
      <3>2. 0 \in 0..MaxLives /\ "off" \in Stage /\ Nowhere \in [next : Stage, raised : Stage]
        BY NumberAssumption DEF Stage, Nowhere
      <3> QED
        BY <2>1, <3>1, <3>2 DEF Init, Typed
  <1>4. TypeOK /\ Alerts
    BY <1>2, <1>3, TypesSplit DEF Init
  <1>5. Fresh /\ Aimed /\ Honest /\ Reported
    BY DEF Init, Fresh, Aimed, Honest, Reported, DefaultMonitor
  <1> QED
    BY <1>4, <1>5 DEF IInv

LEMMA StepInv == IInv /\ [Next]_vars => IInv'
  <1> SUFFICES ASSUME IInv, [Next]_vars PROVE IInv'
    OBVIOUS
  <1>1. (TypeOK /\ Alerts)'
    BY KeptStep, TypedStep, TypesSplit
  <1> QED
    BY <1>1, FreshStep, AimedStep, HonestStep, ReportedStep DEF IInv

\* The invariant holds in every state.
THEOREM Inductive == Spec => []IInv
  BY InitInv, StepInv, PTL DEF Spec

\* However a live command ends, neither file says afterwards that it runs, unless
\* it was killed or interrupted in one of the two gaps, or its on_stop or its
\* last write failed.
THEOREM HonestFiles == Spec => []FilesAreHonest
  <1>1. IInv => FilesAreHonest
    BY DEF IInv, Honest, FilesAreHonest
  <1> QED
    BY <1>1, Inductive, PTL

\* When a round ends, the strategy has been told of every fill among the newest
\* orders, whatever failed in the round but the sweeps and on_order.
THEOREM ReportedFills == Spec => []FillsAreReported
  <1>1. IInv => FillsAreReported
    BY DEF IInv, Reported, FillsAreReported, Told
  <1> QED
    BY <1>1, Inductive, PTL

\* All variables keep their types; the file of the monitor never shows a part of a
\* state, but the newest alerts without a gap; and it is all that the live process
\* knows, through failing stages, kills, interrupts and restarts, unless the last
\* write of the file failed or was broken off.
THEOREM LatestAlerts == Spec => []AlertsAreLatest
  <1>1. IInv => AlertsAreLatest
    BY DEF IInv, Alerts, Fresh, AlertsAreLatest
  <1> QED
    BY <1>1, Inductive, PTL

=============================================================================

# Verification of the Quantitative Trading Simulator

This directory holds TLA+ models of the simulator under `src/`, the TLC
configurations that check them on small instances, and TLAPS proofs of the
facts that matter most for every value of the constants. `PROJECT.json` maps
every definition to the lines it models and lists the runs, the hazards and
the theorems. Paths below are relative to `src/src/`.

## 1. The system: parts, state, interactions

| part | state | operations | interacts with |
|---|---|---|---|
| `core/database.py` SQLiteDatabase | connection, transaction depth | open, close, transaction (nested by savepoints) | every service; shared by one process, other processes open the same file |
| `core/account_service.py` | table `accounts` (balance, available, frozen) | initialize, deposit, freeze, release, consume, add | called by the order service and the settlements |
| `core/order_service.py`, `order_state_machine.py` | table `orders` | create, update status, cancel | freezes and releases money through the account service |
| `core/trade_service.py` | table `trades` | record_trade | fills orders, consumes frozen money |
| `core/matching.py`, `limit_matching.py`, `stop_trigger.py`, `limit_settlement.py`, `execution_cost.py` | table `positions` | market orders, limit queue sweep, stop triggers, settlement | all three services, risk control, market data |
| `core/risk.py` | peak equity (in memory, per engine) | check_pre_order | reads accounts, positions, prices |
| `live/*` | loop flags, failure counts, alerts, runtime and monitor state files | start/stop, one round: fetch, persist, value, sweep, strategies, signals, notify | engines, strategies, realtime data, monitor |
| `strategies/*` | lifecycle state, grid levels | initialize, on_bar, on_order, on_trade, stop | called by the loop |
| `data/realtime_market.py`, `market.py`, `market_retry.py` | snapshot cache, rate limiter | request with timeout, retry, fallback | exchange (external), abandoned worker threads |
| `data/storage.py` | tables `candles`, `candle_download_cache` | download, insert, is-cached, cleanup | exchange, live loop (writes candles too) |
| `cli*.py` | runtime state file | start, stop, live, cleanup, order commands | everything |
| `backtest/*`, `analysis/*` | trade log and equity of one run | run, extract analyzers, analyse, draw | Backtrader (external) |
| `utils/credential_vault.py`, `cli_context.py` | the vault file | persist, load at every start | every command |
| `benchmarking/*`, rest of `utils/*`, `core/validation.py` | none that outlives a call | timing, configuration, field checks | the others |

How a request travels: a command or a strategy's signal reaches an engine; the
engine asks risk control, opens one database transaction, and inside it calls
the order, account and trade services, each of which opens a nested
transaction of its own. The live loop runs in one process and sweeps the limit
and trigger queues every round; commands (`order place`, `order cancel`,
`cleanup`, `reconcile`) run in processes of their own on the same SQLite file.
There is one thread per process except in `data/realtime_market.py`, which runs
exchange requests in worker threads that a timeout abandons.

What is hard here:

- money: one frozen column per account is shared by all buys in that currency,
  and frozen, consumed and released by three services that never look at each
  other's orders; sells freeze nothing and compete when they are filled;
- two copies of settlement and position update, two of the fill, three of the
  list of finished statuses;
- sweeps that fill many orders in one transaction, in an order that decides who
  gets the money;
- nesting by a depth counter, with exceptions, interrupts, refused BEGINs and
  timed-out COMMITs between the counter's updates and SQLite's;
- stale data: snapshots of unknown age, a download cache beside the candles it
  describes, peak equity that lives in memory;
- the loop: which stage's failure hides which other stage's work.

## 2. What makes each part correct

| part | properties |
|---|---|
| accounts, orders, trades | balance = available + frozen; the frozen column is exactly what live buys hold; every live buy can be filled or canceled; status, filled amount and trades agree; orders only progress; frozen money is returned or paid; the whole is an escrow |
| transactions | a failed block has no effect, a finished one all of its effect; only the end of a root block reaches the disk; no savepoint is confused with another; a connection is idle between calls |
| engines | balances and positions are what the trades say; limits and price-time priority hold; a sweep leaves no fillable limit order behind, and nothing but the tolerance of its own check makes it fail |
| risk control | the limits hold for what is placed, not only for what is filled; the drawdown is measured from a peak the portfolio had, but for slippage; open losses block buys after a restart too |
| positions table | its row is the net of the trades; realized profit and book value are the cash that flowed; a valuation and a rebuild leave rows consistent |
| live loop | no stage's failure loses another stage's work; stop() ends the loop; the state files tell the truth after a crash, and a part-written one loses nothing but what it says it lost; every fill reaches the strategy |
| strategies | the live signals are the backtest's; account and strategy part only by refused orders; grid: one order between two levels, each known to the strategy |
| market data | a late answer belongs to its request; every question ends; what is shown never goes back in time; the rate limit holds |
| candle storage | a range called cached is stored; stored candles only widen; prices of the live loop stay within their candle; a download ends |
| reports | a trade record explains its profit; two implementations of one figure agree; the curve is the account's |
| credential vault | a start with credentials and a key succeeds whatever was killed before; no mixed pairs; no credentials without a key |

## 3. Modules

| module | models | state |
|---|---|---|
| `Accounts` | the row updates of `account_service.py`, and `_consume_frozen_funds` | none (operators on the table) |
| `Orders` | enums, requests, order rows, the state machine | none |
| `Sums` | the sum of a function over its domain, by counting unit cells, so that it can be proved about | none |
| `OrderLedger` | AccountService, OrderService, TradeService | `accounts`, `orders`, `trades`: the three tables |
| `Escrow` | abstract: money set aside for an order is that order's alone | `free`, `escrow` |
| `TransactionManager` | `SQLiteDatabase.transaction`, `open`, `close`, over SQLite's savepoints and locks, several processes | `disk`, and per process `depth`, the open `with` blocks, SQLite's `inTx`, `saves`, `work`, `lock`, and whether it is `stopping` |
| `AtomicStore` | abstract: what one process may expect of a store changed in nested blocks | `disk`, `pending` |
| `TradingEngines` | market, limit and trigger engines, settlement, positions, slippage, over `OrderLedger`'s operators | the ledger's tables, `positions`, the `sweep` in progress and what it would `undo` |
| `RiskControl` | `risk.py` and the two transactions of an order, over a portfolio of cash, positions and queue | `cash`, `positions`, `open`, per engine the `peaks`, per process the order it `asked` about and the one it `checked` |
| `RealtimeLoop` | `realtime_loop.py`, `loop_signal_executor.py`, `monitor.py`, `simulator.py`, strategy lifecycle, `live`/`start`/`stop` | `pc`, `running`, `iteration`, the strategy's status, `monitor` in memory and `saved`, `after` a write in progress, `runtime` file, `orders` |
| `RealtimeMarket` | `realtime_market.py` over `market.py` and `market_retry.py` | `now`, the owner's `question`, the `thread` of every question, limiter's `last`, fallback `cache` |
| `CandleStorage` | `storage.py`, the loop's upsert, window statistics, `import`, `export`, `cleanup` | `candles`, `recorded` (download cache), `memory`, the running `download`, the `exchange` |
| `StrategyReplay` | SMA and Bollinger strategies, `adapter.py`, `execute_signal` | the strategy that saw all `bars`, the adapter's `window`, its `signal`, what the account `real`ly holds |
| `GridStrategy` | `grid_strategy.py` in a backtest | `buys`, `sells` by level, the broker's `open` orders, `notices` on their way |
| `PositionBooks` | the three writers of the positions table: fills, `price_service.py`, `reconcile` | `trades`, `positions`, what each valuation has `loaded` |
| `BacktestReport` | `backtest/engine.py`, `result_builder.py`, `performance*.py`, drawdown series of `visualization.py` | the `trade`, what the broker `closed`, the engine's `log`, `values` |
| `CredentialVault` | `credential_vault.py`, the start of a command in `cli_context.py` | the `file`, per command `phase`, `env`, `config` |
| `MC*` | small instances that need definitions (symbols, requests, windows, owners); the other modules get their constants from the cfg alone | |
| `*Proofs` | theorems | |

**OrderLedger.** One action per public call. A call that raises is rolled back
(that is what `TransactionManager` is about), so only successful calls are
steps, and a call is one step. `Next` has the calls the engines and the command
line make; `ApiNext` adds what the public `update_order_status` accepts from
anybody (any status, any filled amount). Amounts and prices are exact
non-negative integers: the rounding of floats is abstracted away. Timestamps and fees are columns that nothing
reads back, and are left out.

**TransactionManager.** A process executes a stack of `with` blocks. A block is
entered by BEGIN or SAVEPOINT, and left by COMMIT, RELEASE, ROLLBACK or
ROLLBACK TO; an exception may leave a block at any time, and the block around
it may catch it or not. `BeginRefused` is the handler running for a BEGIN that
itself raised, `CommitFails` a COMMIT that raised in the `else` branch, which
no handler guards. `Interrupt` is KeyboardInterrupt, which
`except Exception` does not see; in this program it only ever reaches code that
closes the database. `Kill` ends the process at any point. A row is a member of
`Item`, the store the set of rows present. SQLite itself (`Read`, `Write`,
`Rollback`, `Release`, `Named`, `Kill`) is external: rollback-journal mode,
deferred BEGIN. A command that could not get its lock raises, which is one of
the exceptions above.

**TradingEngines.** Placing an order and executing a market order are one
transaction and one step. A sweep is also one transaction; it is modelled order
by order, so that the properties can speak of what each order finds. Nothing
interleaves with it, because the transaction has read the tables and so no
other process can commit. An exception in the middle of a sweep
undoes all of it: `undo` holds the tables as they were when it began, and
`SweepFails` puts them back. Amounts are counted in grains so fine that the
code's `1e-12` is a number of them, `Tolerance`: `has_sell_capacity` lets a sale
pass that is short by as much, while `consume_available` compares exactly and
raises. A position that was almost enough ends at zero. `Slipped` is
`apply_slippage` with any rate below one: never in the trader's favour. Orders
are numbered by creation, which is the tie-break at equal prices (orders created in
the same millisecond, which the code orders by their random id, are not told
apart). Risk control may refuse any order before it reaches the ledger: the model
lets every order through, so what holds here holds under any limits. Fees are
written to the trade and move no money. `current_price` and unrealized profit
are not read by any of this and are left out. Positions hold exact fractions.

**RiskControl.** A deployment says which engines (a kind of order each, in a
process each) and which symbols there are; only the running processes act. The
check of an order is two transactions, and its placement a third: `Ask` reads the
cash, `Check` reads the positions and decides, `Place` fills or queues. Another
process may act between any two. A market order is checked and filled at the
latest price after slippage (`Slipped`); a limit order is checked at its limit, and
filled at the market's price after slippage, clamped to the limit (`FillPrice`).
Every engine has a peak of its own, which a restart forgets, and only the live
loop values positions. Fees are left out; `TradingEngines` has the engines' own
checks. Equity and entry prices are exact fractions. `best` is a history variable:
the highest equity so far, at the prices that buys would execute at.

**RealtimeLoop.** A round is the sequence of its stages, one step each, so that
interrupts (`Interrupt`), kills and other commands fall between them. What a
stage does inside is modelled in the module of the component it calls; here it
succeeds in one of the ways the loop distinguishes, or raises where `failing`
lets it. Where the code catches an exception and counts an alert, so does the
action, and it writes the monitor file as the code does at that point. Every
`_persist` is two steps: `Save` changes the memory and opens the file, which empties
it, or fails to; `Write` writes the text, or a part of it, or the process is gone
before. A file that is empty or torn is read as the default state, which is
what the model holds for it (a file cut within a character, for which `_load_state`
has no handler, is left out). `Caught`
is the `except` around a round, `Closing` and `Leave` the `finally` blocks.
Which fills are `due` and which trades were `told` are history variables.

**RealtimeMarket.** One question at a time, each in a daemon thread that nobody
stops. A thread waits for the limiter (`Wait`, `WakeUp`), sends, gets an answer
or a failure, backs off and tries again; the owner receives its result or times
out. Time is discrete and passes freely between steps; sleeps may be overrun. The
exchange may never answer. The limiter reads its last time before it sleeps and
writes it after, as in the code. The cache has an entry per channel, symbol,
timeframe and limit, which are the keys of the model; a key of `kline` leaves `since`
out, so that questions about different pasts share an entry, and the model's keys
stand for one past each.

**CandleStorage.** Separate processes over one file, a transaction a step. The
download fetches and stores page after page, of any size it was given. `Fetch` returns
what the exchange was asked for, or candles older than asked for; `FetchShort` leaves
any candles out, to an empty page; `PageFault` is a malformed row or a request that
raises. `owed` is a history variable: what a download has to deliver, which is what
the exchange had when it began less what it left out and all that comes after a page
that left something out. `Import` inserts any CSV of `Files`, with rows that lie
between two buckets or have a low above their high, or the file that `Export`
wrote. A candle is its low and high; open, close and volume follow the same two
rules (first writer keeps, or merge). Prices are positive.

**StrategyReplay.** The same strategy is run over all bars (as in a backtest)
and, at every tick, over the adapter's window from a flat start. A bar is what
its indicators say of it: a cross of the averages or none, or in which of the four
parts of the bands the close lies and whether it rose, fell or stayed. The averages
and the bands have values after `Period` bars, the grid waits for none (`Warm`).
Orders fill at the next bar, before the strategy sees it; the broker of a backtest
may lack the cash for a buy (`Refused`), the adapter's has `1e12`. `Replay` is a
recursive function of the bars, `Step` one bar. The live engines may refuse any
signal, which `execute_signal` prints and forgets. A close goes through the
adapter's own `sell`, so that its size is that of the replayed position: a purchase
and a sale are of one size, in which `real` counts. `short`, `bought`, `unsold`,
`dipped` and `peaked` are history variables.

**GridStrategy.** Bars may open beyond several levels and fill them at once; the
notifications are then handled one by one in any order, and each places the
answering order.

**PositionBooks.** Unlike in `TradingEngines`, the row carries its realized and
unrealized profit, and a trade the time at which its price was asked for, which
is what `reconcile` sorts by. A valuation is the two transactions of
`valuate_portfolio`.

**BacktestReport.** Every state is a possible end of the data, and the report a
function of it. `closed` is what Backtrader's TradeAnalyzer sees, `log` what
`notify_trade` collected; the two are compared. A loop over a list is `Running`, the
list of what it carried before the first and after each item: the curve is all of it
but the first, a sum the last of it, the peaks of a curve the largest value so far.
Fractions are exact and kept in lowest terms.

**CredentialVault.** `write_text` empties the file before it writes; a command
may be killed, or another may read, in between. Encryption is the key it takes
to read the file.

## 4. Runs

One run per part of the system. Where a module has several situations to be
checked in, they are initial values (`failing`, `deployed`, `setup`,
`maxIterations`), so that one run visits all of them.

| run | instance | what it checks |
|---|---|---|
| `ledger` | 2 ids, 2 symbols paid in 2 currencies, 6 requests (buys of 2 units at 2 prices, sells, market orders), 3 trades, balances up to 5 | `FrozenIsHeld`, `AlwaysCancelable`: nothing leaks from or into the frozen column; `OrdersFollowTrades`; `ImplementsEscrow` (refinement) |
| `transactions` | 2 processes, 2 rows, 3 nested blocks, depth followed to -2 | `ImplementsAtomicStore` (refinement), `OutcomesAreHonest`, `OnlyRefusedCommitsLeak` |
| `engines` | 2 symbols that trade 2 currencies each against the other, 3 orders of any type and side, prices 1 and 3, amounts 1 to 3, tolerance 1, slippage 1, capital 6 | `BooksFollowTrades`, `SweepsFailByToleranceOnly`, `LimitOrdersAreServed`, `PriorityIsRespected` |
| `risk` | one engine of market orders in one symbol or in two (3 orders each), or two engines in two processes with market and limit orders (2 orders); prices 1 and 2, buys slip up by 1, sales down to 1; restarts | `NeverOverspent`, `TotalPositionLimited`, `DrawdownIsMeasured` |
| `loop` | 2 live commands, of 2 rounds or without limit, with everything raising or everything but sweeps, `on_order`, `on_stop` and the disk; writes refused or broken off, interrupts, kills, other commands | `FilesAreHonest`, `FillsAreReported`, `AlertsAreLatest`, `LoopEnds` (liveness) |
| `market` | 2 keys, 3 questions, 2 attempts, timeout 2, 5 ticks | `FreshIsFresh`, `RequestsAreSpaced`, `AnswersNeverGoBack`, `EveryQuestionIsAnswered` (liveness) |
| `candles` | candles of 2 ticks, 3 ticks, 2 overlapping windows one of which begins within a candle, pages of 1 and of 2, a file with a row off the grid and a low above its high, 2 trades, 2 writes, 3 commands, every fault | `LivePricesAreSpanned`, `RowsOnlyWiden`, `StorageIsHonest`, `DownloadsEnd` (liveness) |
| `replay` | averages over 7 bars, bands over 5, the grid over 4, all with a window of 8 and history; bands also with a window of 4 and no history; buys without cash, refused signals, 1 restart | `LiveFollowsStrategy`, `SignalsAreEarned` |
| `grid` | 4 levels, 5 opening prices, 8 orders, a broker that may refuse any of them | `OneOrderPerGap`, `EveryOrderIsTracked`, `ExposureFollowsGrid` |
| `positions` | 2 processes, one of which values, 3 trades, rebuilds at any time | `BooksAddUp`, `ValuationIsConsistent`, `RebuildKeepsHoldings` |
| `report` | 5 bars, 3 prices, 5 order sizes, positions up to 3 either side | `RecordExplainsProfit`, `LogAddsUp`, `ReportAgrees` |
| `vault` | 2 commands, 3 starts, 2 credentials, 2 keys, kills anywhere | `GoodStartSucceeds`, `PairsStayTogether`, `NoKeyNoCredentials` |

Composed properties. Some properties are conjunctions of named parts, each with a
comment of its own in the module: `BooksFollowTrades` (accounts and positions
against the trades), `LimitOrdersAreServed` (exhaustive sweeps, limits kept
through slippage), `DrawdownIsMeasured` (a peak that was reached, open losses
that block), `StorageIsHonest` (the cache, the memory, the statistics),
`SignalsAreEarned` (the backtest's, a dip for every buy, a peak for every exit, a
cause in the window), `ExposureFollowsGrid`, `BooksAddUp`, `ReportAgrees`,
`OrdersFollowTrades`. The type invariants of the ledger, the transactions, the
grid and the vault are theorems of their own; in the other modules the type
invariant is a part of one of the run's properties (`BooksFollowTrades`,
`NeverOverspent`, `AlertsAreLatest`, `RequestsAreSpaced`, `StorageIsHonest`,
`LiveFollowsStrategy`, `BooksAddUp`, `ReportAgrees`), and proved with it.

Conditions. Some properties hold only where the code can keep them; the
condition is part of the property, and section 5 says what happens without it:
`TotalPositionLimited` for market orders of one engine (`MarketOnly`), and
`PeakWasReached` when these are in one symbol (`OneSymbol`); `OpenLossBlocksBuys`
unless another process moved the cash between the two reads of the check;
`FillsAreReported` while the sweeps, `on_order` and the disk do not raise, for orders
among the newest `Window`; `FilesAreHonest` unless the process is killed, interrupted
in one of two one-statement gaps, or stopped by an `on_stop` or a disk that raises;
that the monitor's file is all that the process knows (`AlertsAreLatest`) unless the
last write failed or was broken off (`unsaved`), while that what it holds is without
a gap needs no condition; `RequestsAreSpaced` until a thread is abandoned;
`RecordedWhenComplete` of what the exchange did not leave out of its answers, and
`CoverageIsExplained` up to imported rows off the grid and one candle;
`SameSignals`, `BuysNeedADip`, `UpperExitsAreLate` and `LiveFollowsStrategy` while the
window holds every bar (`SignalsAreShown` in every window), `SameSignals` besides until
the backtest lacks the cash for a buy, and `LiveFollowsStrategy` up to sales that were
refused and for purchases that were executed; `PositionMatchesGrid` while no order
has failed; `RebuildSucceeds` and `RebuildKeepsHoldings` while trades bear the times of
their order; `ProfitIsCashFlow` for rows that no rebuild has dropped;
`ValuationIsConsistent` for rows not filled in the middle of a valuation.
`SweepsFailByToleranceOnly` names the one way in which a sweep fails: a sale that its
check let pass is short by no more than the tolerance.

Why the bounds are enough. Two live buys in one currency are what it takes to
confuse their holdings, and three fills what it takes for one to be filled in
parts while another moves. Three levels of nesting are the deepest the program
has (engine, service, service), and two processes are what it takes to collide.
Three orders let one buy bring in what two sells then compete for, and with two
symbols let one symbol's orders spend what those of the other count on; as each
currency is bought by one symbol and pays for the other, an account may hold more
than its position. With a tolerance of one unit and amounts up to three a sale can be
short by less than its amount, and a remainder can be nothing. With
prices 1 and 3 and slippage 1, a buy can be filled below its limit (and be
refunded), at it, and with slippage clamped to it.

Two live commands are what it takes to find the file of the first one; two
rounds let a failure of one be seen in the next. Three questions are an
abandoned one, the one that runs beside it and the one that would read its
answer. Two candles, pages of one make a download of several pages whose last
candle is still forming, and pages of two one that can be answered in part. Seven
bars have room for two purchases by the averages and their sales, and five let the
bands see a peak, a dip, the rebound and a fall after it; a window one bar
shorter than the run is enough to forget. Four levels give a grid with an inner
and an outer gap on each side. A reversal of a trade that was built up needs four bars. Two processes and
three trades put a fill of one between the halves of a valuation of the other.

The models of the engines, the ledger, the risk control, the loop and the
transactions never stop: something can always be repeated. The others end at
their bounds (the last tick, bar, trade, order or start), where the model stops
and the program would go on: their cfgs say `CHECK_DEADLOCK FALSE`.

Fairness. Three runs check liveness, each under weak fairness of one sequential
thread and nothing more:

- `RealtimeLoop!FairSpec`: the live process keeps taking its stages. Each is local
  work, a call with a timeout, or a transaction with SQLite's busy timeout. Nobody has
  to start, stop or kill anything. (A round that runs for ever inside a
  strategy's code would break it; the built-in strategies have no such loop.)
- `RealtimeMarket!FairSpec`: the clock ticks, and `queue.get` returns once there is
  a result or the timeout has passed. Nothing is assumed of threads or exchange.
- `CandleStorage!FairSpec`: the download's own loop goes on: a fetch returns or raises.
  The candles that keep forming meanwhile are the environment's.

The ledger, the engines and the transactions wait for nothing but another
process's lock, which SQLite's busy timeout bounds; no liveness is stated there.

Every property has a mutant: the definition named in `PROJECT.json` replaced by
the faulty variant defined just before it makes TLC find the property violated.

## 5. Divergences

Statements of the repository's documents, comments and names that the code does
not keep, met while modelling. Each is a definition of its module: one that no run
lists, or one that a run lists with a condition. Checking it under the cfg of the
run named here, with the change in parentheses, makes TLC print a behaviour that
breaks it.

The ledger, the transactions and the engines:

1. `FrozenIsHeld` (`ledger`, with `SPECIFICATION ApiSpec`):
   `update_order_status(FILLED)` without `filled` finishes a buy whose money
   stays frozen for ever. The engines never call it so.
2. `CanceledByCancelOrder` (`ledger`, with `ApiSpec`):
   `update_order_status(CANCELED)` is not routed to `cancel_order` as
   `findings.md` says: it can change the filled amount and consume money for
   which there is no trade.
3. `FollowsDocumentedTransitions` (`ledger`): PENDING -> CANCELED is accepted; the
   docstring does not list it.
4. `IdleBetweenCalls` (`transactions`): a COMMIT that times out because another
   process reads leaves the transaction open between calls. The next BEGIN fails
   and takes the depth to -1; every call fails from then on until the database is
   closed. The store as such stays atomic: nothing of that transaction reaches
   the disk. `OnlyRefusedCommitsLeak` shows that nothing else does this.
5. `BalancesFollowTradePrices` (`engines`): a triggered stop buy is recorded at
   trigger price plus slippage but charged the trigger price;
   `BalancesFollowTrades` states the balance with what is really charged.
6. `SweepsFailByToleranceOnly` (`engines`, with `CanFill` alone): a sale whose account is
   short by no more than `1e-12` passes its check (`limit_settlement.py:33`) and raises
   when it is consumed (`account_service.py:146`), which nobody catches within the sweep
   (`limit_matching.py:190`): every fill of the sweep is undone, and again each round
   until the order is canceled. Floats get there by themselves: buy 0.3, sell 0.1, offer 0.2.

Risk control:

7. `TotalPositionLimited` (`risk`, without `MarketOnly`): open buy orders do not
   count towards the position limit; two accepted limit buys fill to more than it
   allows.
8. `HoldingLimited` (`risk`): `max_position_size` limits one order, not the holding
   of a symbol.
9. `PeakWasReached` (`risk`): the peak is not an equity the portfolio had. With `best` taken at
   market prices: a market order is checked at its price after slippage, and values
   what is held at it too. Without `MarketOnly`: a limit order values the
   holdings at its own limit price. Without `OneSymbol` (prices 1 to 3, no slippage): an
   order in one symbol values the other at the price recorded last, and what a sale lost
   is not in the cost basis of what is still held.
10. `OpenLossBlocksBuys` (`risk`, without `Alone \/ asked[p].cash = cash`): a purchase of
    another process between the two reads of a check (`risk.py:169` and `173`) is counted
    twice, as the cash it cost and as the position it bought, so that a buy passes while
    the open losses exceed the limit.

The live loop and the strategies:

11. `TradesAreReported` (`loop`): strategies are never told of a trade; the event
    reads an attribute that `Trade` does not have, and the exception is swallowed.
12. `FillsAreReported` (`loop`, of all that is `due`, with `Window = 1`): the fill of an
    order outside the newest ones is never reported.
13. `LiveIsShown` (`loop`): `stop` writes running=false while the live loop goes on.
14. `AlertsAreLatest` (`loop`, without `~unsaved`): a write that fails or is cut off leaves
    an empty or a torn file (`monitor.py:211-215`); the next live command reads it as the
    default state (`190-209`), and all stored alerts are lost.
15. `LiveFollowsStrategy` and `SameSignals` (`replay`, without `AllInWindow`): a
    position whose purchase has left the replay window is never closed.
    `BuysNeedADip` without it (bands, `lookback` 7, 8 bars): once the
    window slides, the next replay starts one bar later, need not have bought
    what the one before did, and may buy on the same dip on two bars in a row.
16. `SameSignals` (`replay`, without `~short`): the broker of a backtest refuses a buy for lack
    of cash, the adapter's (`adapter.py:141`) fills it; from then on the two strategies
    hold different positions and give different signals.
17. `UpperExitsAreLate` (`replay`, with `peaked'` for `~peaked'`): an exit at the upper band
    never answers a peak of its own position, which the comment at
    `bollinger_strategy.py:67` describes. A close above that band is above the middle
    band too and closes the position at once; `was_above_upper` is left over from
    before the purchase, and sells it on the first falling bar.
18. `GridIsPlaced` (`replay`): live, the grid strategy never places its grid.
19. `PricesAreOfTheGrid` (`grid`): the answer to a fill at an opening price is off
    the grid.

Market data, positions and reports:

20. `RequestsAreSpaced` (`market`, without the condition): an abandoned thread and
    the next question may send at the same moment; the limiter has no lock around
    its sleep.
21. `CachedIsComplete` (`candles`): a range recorded before its last candles exist, or
    cleaned up later, is never downloaded again.
22. `RecordedWhenComplete` (`candles`, with `UNCHANGED owed` in `FetchShort`): an exchange
    whose pages are shorter than `batch_size`, or whose answer is empty or in part, ends
    the download (`storage.py:84`), and the range is recorded (`87`) for ever. The batch
    size is only checked to be positive (`264-267`).
23. `LivePricesWereTraded` (`candles`): a fallback price is stored as a candle of the
    present.
24. `CoverageIsAtMostWhole` (`candles`): rows that a CSV brings between two candles
    (`cli_workflows.py:229-249`, nothing checks their time) are counted, so that a window
    holds more candles than there can be.
25. `CompleteIsNotAlarmed` (`candles`, with `Horizon = 6`, four trades and one window
    from 1 to 5): a window that does not start on a boundary expects one candle
    too many.
26. `ProfitSurvives` (`positions`): a reconcile drops the realized profit of closed
    positions.
27. `ValuationIsConsistent` (`positions`, without `raced`): a fill between the two
    transactions of a valuation leaves the unrealized profit of another amount.
28. `RebuildSucceeds` (`positions`, without `InOrder`): with two processes, a sale may
    bear an earlier time than its purchase, and reconcile fails.
29. `StatsAgree` (`report`, with 1 in place of 100): one win rate is a percentage
    (`result_builder.py:41`), the other a fraction (`performance_trade.py:34`).
30. `NoLosersNoFactor` (`report`): with no losers and no gain the profit factor is 0
    and not None.
31. `DurationIsInDays` (`report`, with `BarsPerDay = 24`): the drawdown's days are bars.
32. `AnnualizedIsReal` (`report`, with `Capital = 50`): the annualized return of a
    negative final value is a complex number.
33. `StartedWithBoth` (`vault`, with `Partial = TRUE`): a configuration with one of two
    credentials overwrites the stored pair with half of it.

Two more are in no definition: live,
a configured `position_size` never takes effect for the averages and the bands (the
factory keeps it from the strategy, `factory.py:26`, which passes its default size to
`buy`, and a close sells the replayed position), and nobody tells a strategy that its
order was refused (`loop_signal_executor.py:46-48`), so that `LiveFollowsStrategy` can only
say how far account and strategy may part.

## 6. Proofs

Every theorem holds for all values of the constants that satisfy the named
assumptions of its module: any sets of currencies, symbols, orders, processes and
keys, any amounts, prices and limits, any nesting depth, any bound that only keeps
TLC finite. The results on the replay and `TransactionsIdle` have a hypothesis of their own,
stated with them below. The
definitions marked external in `PROJECT.json` (SQLite, Backtrader, the exchange)
are part of what is assumed.

The pattern is the same everywhere: an inductive invariant that says more than the
property, one lemma for each action (or for each kind of step that several actions
take), and a temporal theorem that combines them.

**The ledger** (`OrderLedgerProofs`). Types and balanced rows are inductive by
themselves (`TypedAndBalanced`), and for every argument of `update_order_status`:
`ApiTyped`, `ApiBalanced`, `LedgerTyped`. That every live buy can be canceled is not
inductive: the frozen column is shared, so one must know that it is the sum of what
*all* live buys hold, and what a buy holds depends on its filled amount, which its
status must agree with. The inductive invariant is therefore

    LedgerInv == TypedAndBalanced /\ FillMatchesStatus /\ HeldInv

where `HeldInv` says, per currency, that the frozen column is the sum of the
orders' holdings. `Sums` counts unit cells: the sum of f is the cardinality of
{ <<x, k>> : k in 1..f[x] }, and the module shows from the library's facts on
cardinality that changing one value changes the sum by the difference. There is
one lemma per call (`create`, `update`, `record_trade`, `cancel`, account calls),
each saying by how much the frozen column and the holding of the one order move.
Results: `LedgerFillMatchesStatus`, `LedgerFrozenIsHeld`, `LedgerAlwaysCancelable`.

`LedgerOrdersFollowTrades` needs its own invariant, `TradedInv`: what the trades
add up to for *every* id, also one not in use yet, since the first fill of an
order must find nothing recorded for it. Every call either keeps the trades and
the fills (`QuietStep`) or records one trade of one order (`FillStep`).
`FinishedIsFinal` follows from the types alone and holds for every argument of
the services.

**The escrow** (`OrderLedgerProofs`). The refinement mapping takes the free money of
a currency from the available column and the escrow of an order from what it holds.
`EscrowSteps` says each abstract action in terms of the two; then every call is a
step or a stutter: account calls are `Fund`, a buy is `Hold`, a rejection or
cancellation `Return`, a fill `Pay`, sells and repeated calls stutter. `LedgerInv` is
needed where the ledger's guard alone does not do it: a buy that is closed is not
filled to the end, and what it holds splits into what is paid and what is kept.
Result: `LedgerImplementsEscrow`.

**Transactions** (`TransactionManagerProofs`). The inductive invariant is

    Inv == TypeOK /\ \A p \in Process : Nesting(p) /\ Reading(p)

`Nesting(p)` ties the three stacks together: inside a block the depth is the
number of open blocks, the i-th block was entered at depth i - 1, and block
i + 1 owns the i-th savepoint, called i. None of the three holds without the
others: the name used to release a savepoint is computed from the depth.
`Reading(p)` says that a connection that only reads sees the disk. A step of p
leaves the other connections alone (`Alone`), and it changes the disk only by a
COMMIT that no reader forbids, so the invariant of the others is kept
(`StepOfOne`). Results:

- `TransactionsTyped`, `TransactionsMatch`: the invariant implies `TypeOK` and
  `SavepointsMatchBlocks`.
- `TransactionsImplement`: `Spec => ImplementsAtomicStore`. The refinement
  mapping is `Pending`, what each open block sees. `PendingShows` describes it
  pointwise; then each action of the process is shown to be a step of the
  abstract store or a stutter (`ReadRefines` ... `CutShortRefines`), and a step
  of any other process a stutter or `Elsewhere` (`OthersRefine`).
- `TransactionOutcomes`: which abstract step each end of a block is.
- `TransactionsLeakOnlyRefused`: for any number of processes, a call that returns
  leaves its connection idle unless its COMMIT was refused (`ReturnsIdle`).
- `TransactionsIdle`: under the hypothesis `Process = {Self}`, every call finds
  an idle connection. The hypothesis is needed: divergence 4 is its failure with
  two processes.

**The engines** (`TradingEnginesProofs`), for any symbols and currencies (a currency
may be bought by one symbol and pay for another), any number of orders, any prices,
amounts and slippage.

    EngineInv == LedgerInv /\ Swept /\ Traded /\ Undone

`LedgerInv` is the ledger's fact in the engines' terms: per currency the frozen
column is the sum of what the open buys claim (`Frozen`); it reuses the lemmas on
sums and on account rows of `OrderLedgerProofs` (instance `LP`). A sweep fills many
orders in one transaction, and each fill changes what the others can count on, so
`Swept` says of every order of the symbol that the sweep has already passed why it
is still open: a buy because it does not trigger, a sell because no buy is left in
the queue (so nothing more comes in) and it does not trigger or its holding does not cover it. `Traded`
says that every trade belongs to an order and respects its limit. A sweep that fails goes
back to the tables of its beginning, so `Undone` says that these satisfied the same
(`Kept`). Results:

- `EngineInductive`, `EnginesFrozenIsHeld`.
- `SweepsFailOnlyShort`: of all that `record_trade` and the settlement check, only the
  consumption of a sale can fail, and only within the tolerance: the money of an open
  buy is frozen (`ClaimIsFrozen`), and a sale was found covered, or almost, in the same
  step. For `Tolerance = 0` no sweep fails.
- `LimitsAreServed` (with `Swept` when the queue is empty), `PriorityHolds` (an
  action property: the sweep takes the head of its queue).
- `BooksAgree`: balances and positions are what the trades say. The trades' book is
  a sum over the log; the lemmas show what one more entry does to it, per currency and
  symbol, and `BooksStep` that settlement does the same. A position lacks at most
  `Tolerance` for every sale (`Missing`), which is where an almost sufficient one was
  cut off at zero.

**Risk control** (`VaultAndRiskProofs`), for any engines, deployments, symbols and
limits:

    RiskInv == Sound /\ Vetted /\ Reached

`Sound` has the types, that open orders are of known kinds, that the money frozen for
them is there, and that equity is never above `best`. `Vetted` says that what a check
found about the total position still holds when the order is placed, for one engine of
market orders: nothing disturbs the portfolio between its two reads and the placement
(`Undisturbed`, `OnlyOneAsks`). `Reached` says of the peak that the peaks, the cost
basis and what a check in progress takes the portfolio to be worth at its slipped price
are not above `best`. It rests on the cost of what is held being a sum over symbols, of
which a purchase and a sale move one term (`CostBought`, `CostSold`); that recursion
runs over subsets of the symbols. Results: `RiskInductive`, `NothingOverspent`,
`PositionsWithinLimit`, `DrawdownIsReal` (which also needs that a fall measured from a
higher peak is deeper).

**The live loop** (`RealtimeLoopProofs`), for any windows, alert limits, round limits
and sets of calls that raise. The invariant is stated by stage:

    IInv == TypeOK /\ Alerts /\ Fresh /\ Aimed /\ Honest /\ Reported

`Honest` names the stages at which a file may say that the command runs, `Reported`
those at which a fill may be waiting for its `on_order`, and `Aimed` where a write in
progress goes on. `Alerts` says that the monitor's alerts are the newest ones without a
gap, in memory *and* in the file, also in a file that was emptied and not written;
`Fresh` that the two are the same unless a write failed, was broken off or is still in
progress. Results: `HonestFiles`, `ReportedFills`, `LatestAlerts`.

**Market data** (`MarketAndReplayProofs`), for any number of keys, questions, attempts
and ticks. Threads that were abandoned go on, so the invariant speaks of all of them:
`Threads` (none has an answer of the future), `Current` (the last thread works on the
present question, and its answer is younger), `Alone` (until a question times out, no
other thread is at work, and the limiter knows when the last request left) and `Known`
(the cache is no younger than the question). Results: `FreshAnswers`,
`SpacedRequests`, and `AnswersOnlyAdvance`, an action property.

**The replay** (`MarketAndReplayProofs`), for any strategies' setups, period, lookback
and number of bars, with the hypothesis `MinBars <= Period`: the adapter does not wait
for more bars than the indicators do (its `_min_bars` is 2). Without it the adapter
would keep silent about an order that the backtest gives.

    ReplayInv == /\ ReplayTypeOK
                 /\ (~short => backtest = Replay(bars))
                 /\ (AllInWindow => window = bars /\ Ideal(Replay(bars)))

The live side starts from nothing on every tick and the backtest goes on from the bar
before, so the heart is that the two are the same function while the backtest has cash:
`ReplayGrows`, a replay of one bar more is one step more. `Ideal` says what the account,
whose orders may be refused, and the history variables have to do with what the replayed
strategy believes. `RunShows` says of any run over any window that what it holds, orders
or waits for has its cause among the bars. Results: `ReplayInductive`, `LiveFollows`,
`SignalsEarned`.

**The grid** (`PositionProofs`), for every size of the grid, every price and any
number of orders. `OneOrderPerGap` is inductive: a fill moves an order across one
level and empties the gap it moves into. That every order is tracked
(`OrdersAreTracked`) needs it, since a new order would otherwise overwrite
another's entry, and needs that ids are unique among live orders and in the books:

    IInv == TypeOK /\ IsFiniteSet(open) /\ (~started => notices = {})
              /\ OneOrderPerGap /\ IdsAreUnique /\ BooksAreInjective /\ OrdersAreEntered

`ExposureIsTheGrid` counts: there is a set W of gaps, those whose last fill bought, such
that the position is Cardinality(W) less the half of the grid bought at the start, and a
fill adds its gap to W or takes it out. With every order tracked the open orders are as
many as the gaps they stand in (`SameNumber`), which is how the counters, the books and
the position come to agree. Backtrader (external) is free to fill, report and refuse in
any order. The assumptions are the module's: a positive `grid_num` and step, integer
prices.

**The positions table** (`PositionProofs`), for any symbols, processes and trades.
`BooksInv` has, besides the types and what the run checks, that every traded symbol has
a row or lost it to a rebuild, and that (while trades bear the times of their order)
replaying the trades of a symbol succeeds and ends at the row's entry price (`Tracks`).
That the realized profit is the cash that flowed is an equation between fractions; it is
brought to integers (`Explains`) before a fill is treated. Results: `BooksInductive`,
`PositionsAddUp`, `ValuationsAgree`, `RebuildsKeepHoldings`.

**The candles** (`CandleAndReportProofs`), for any interval, windows, page sizes and
faults, and any number of downloads, trades and commands. The rows are written
by five actions; `TableSteps` reduces them to four kinds of step (the present row
is widened, rows are added where there were none, rows are deleted together with
what is remembered of them, nothing), and `TableStepInv` treats the four. The
invariant

    IInv == CandlesTyped /\ LivePricesAreSpanned /\ MemoryIsBacked

has the prices of every source of rows in `CandlesTyped` (the exchange, the page
of the running download, an exported file), since a row that is not a candle
could not be compared when it is widened. Results: `LivePricesSpanned`,
`OnlyWidened` (an action property), `MemoryBacked`.

`HonestStorage` is about any sizes of pages, and any answers. Its invariant `Delivered`
says that what the running download still owes lies ahead of its cursor or is stored: a
page shorter than asked for leaves nothing owed behind it, and a full one moves the
cursor past its last candle. The statistics of a window count buckets: it holds one
in every `Interval` ticks (`MultipleIsBucket`, `WindowHolds`, `WindowFills`), so that
what is stored exceeds what is expected by the rows off the grid, and a complete window
misses one at most (`CoverageOf`). `DownloadInductive` is the invariant.

**The report** (`CandleAndReportProofs`), for any prices, order sizes, capital and fee,
and any number of bars. A record is computed from the fills of its trade, the profit
from its average price, so the invariant follows the two beside each other while a trade
is open:

    ReportInv == ... /\ Ledger(trade, cash, closed, log) /\ ...

`Ledger` says of the open trade that its fills account for it (`Accounted`): what opened
it less what closed it is its size, and its profit is what its closing fills brought in
less what its opening fills cost, plus the cost of what is still held at the average
price (`Makes`, an equation between integers). That is kept by a fill that changes the
average (`MakesAfterAdding`) and by one that changes the profit (`MakesAfterReducing`).
When the trade holds nothing, what remains of the equation is what the record says of
itself (`RecordOf`). `Ledger` also says that every record is of the trade the broker
closed at its place, and that the profits of the log, summed as fractions, are the cash
less the capital, plus the fees and the cost of what is open (`LedgerCloses`,
`LedgerGoesOn`); an order that turns the position does both, one after the other
(`BarAccounted`). Results: `ReportInductive`, `RecordsExplain`, `LogsAddUp`.

`ReportsAgree` has a lemma per part. The statistics agree since the log holds the same
net profits in the same order (`SameProfits`): the counts but for open trades and those
that break even, the win rates but for these and the factor 100 between a percentage and
a fraction (`RatesTheSame`), the profit factors as they are (`StatsTheSame`). The curve is the account's since each
return takes it from one value to the next (`CompoundIs`). The drawdowns agree, and are
the largest fall there was, since the peak is always one of the values and none so far
is larger (`LargestIs`), and from a higher peak the fall is no smaller (`HigherPeak`).
Each is about a loop over a list, and is shown by its least counterexample from what
`RunningIs` says of any loop: it starts with its base, and each thing it carried is the
one before put together with the item.

**The vault** (`VaultAndRiskProofs`), for any number of commands, credentials
and keys, with partial configurations or without. A running command's pair comes
from the file, so the invariant carries what is in the file: a pair of some
configuration, under a key that is not empty (`FileFromConfig`), and that a
command past the first check has a key or nothing to store (`KeyBeforeUse`).
Results: `PairsTogether`, `KeyIsNeeded`. That a good start succeeds needs
`QuietInv`: a command whose start overlaps no other is the only one starting, so
that the file it loads is the one it wrote. Result: `GoodStarts`.

Which theorem proves what a run checks:

| run | property: theorem |
|---|---|
| `ledger` | `FrozenIsHeld`: `LedgerFrozenIsHeld`; `AlwaysCancelable`: `LedgerAlwaysCancelable`; `OrdersFollowTrades`: `LedgerOrdersFollowTrades`; `ImplementsEscrow`: `LedgerImplementsEscrow` |
| `transactions` | `ImplementsAtomicStore`: `TransactionsImplement`; `OutcomesAreHonest`: `TransactionOutcomes`; `OnlyRefusedCommitsLeak`: `TransactionsLeakOnlyRefused` |
| `engines` | `BooksFollowTrades`: `BooksAgree`; `SweepsFailByToleranceOnly`: `SweepsFailOnlyShort`; `LimitOrdersAreServed`: `LimitsAreServed`; `PriorityIsRespected`: `PriorityHolds` |
| `risk` | `NeverOverspent`: `NothingOverspent`; `TotalPositionLimited`: `PositionsWithinLimit`; `DrawdownIsMeasured`: `DrawdownIsReal` |
| `loop` | `FilesAreHonest`: `HonestFiles`; `FillsAreReported`: `ReportedFills`; `AlertsAreLatest`: `LatestAlerts` |
| `market` | `FreshIsFresh`: `FreshAnswers`; `RequestsAreSpaced`: `SpacedRequests`; `AnswersNeverGoBack`: `AnswersOnlyAdvance` |
| `candles` | `LivePricesAreSpanned`: `LivePricesSpanned`; `RowsOnlyWiden`: `OnlyWidened`; `StorageIsHonest`: `HonestStorage` |
| `replay` | `LiveFollowsStrategy`: `LiveFollows`; `SignalsAreEarned`: `SignalsEarned` |
| `grid` | `OneOrderPerGap`: `GapsAreShared`; `EveryOrderIsTracked`: `OrdersAreTracked`; `ExposureFollowsGrid`: `ExposureIsTheGrid` |
| `positions` | `BooksAddUp`: `PositionsAddUp`; `ValuationIsConsistent`: `ValuationsAgree`; `RebuildKeepsHoldings`: `RebuildsKeepHoldings` |
| `report` | `RecordExplainsProfit`: `RecordsExplain`; `LogAddsUp`: `LogsAddUp`; `ReportAgrees`: `ReportsAgree` |
| `vault` | `GoodStartSucceeds`: `GoodStarts`; `PairsStayTogether`: `PairsTogether`; `NoKeyNoCredentials`: `KeyIsNeeded` |

Proved and in no run: the inductive invariants, the type invariants of the ledger, the
transactions, the grid and the vault, `AccountsBalanced`, `FillMatchesStatus`,
`TerminalIsFinal`, `SavepointsMatchBlocks`, `IdleBetweenCalls` for one process.

Model-checked only: the three liveness properties `LoopEnds`, `EveryQuestionIsAnswered`
and `DownloadsEnd`. Every other property of a run is a theorem.

Not provable with the tools at hand, and left to TLC: liveness under fairness, ENABLED,
`RECURSIVE` operators (no module that a theorem reaches has one), and the library's
induction theorems, which take an operator as a parameter. What recursive *functions*
compute is proved where it is needed without them, by the least counterexample: the
library's `WFMin` gives the first number, or the smallest subset, at which two
definitions would differ, and one unfolding shows that they do not (`RunIsUnique`,
`RunExists`, `RunningIs`, the books and cost sums over subsets).

## 7. Plan

The components with state are modelled, and what their runs check of safety is proved.
What could follow: the hypothesis of the replay (`MinBars <= Period`) as a configuration
check in the code; float arithmetic, of which the models have the tolerances but not the
rounding; and the benchmarks.

## 8. Not modelled

- Float rounding: amounts are integers, averages exact fractions.
- Parsing, printing, logging, argument handling, static configuration and its
  validation; the registry and parameter lookup of strategies.
- The exchange, Backtrader, SQLite and the operating system are external: what
  the code relies on is in the definitions marked so in `PROJECT.json`.
- The indicators' formulas (a bar is what they say of it), Sharpe and Sortino ratios,
  the drawing of charts, the conversion to data frames.
- `benchmarking/*`, a timing harness without state, and `core/validation.py`,
  `core/strategy_run.py`, field checks of one record.

--------------------------- MODULE BacktestReport ---------------------------
(***************************************************************************)
(* What a backtest reports: the trade log the engine collects while it     *)
(* runs (src/src/backtest/engine.py), the statistics it takes from         *)
(* Backtrader's analyzers (result_builder.py), the equity curve the        *)
(* command line rebuilds from the returns (cli_workflows.py), and the      *)
(* performance analysis (src/src/analysis) of that curve and that log.     *)
(*                                                                         *)
(* Broker and analyzers are external (Backtrader).  An order is executed   *)
(* at the price of the next bar; an order against the position first       *)
(* closes it and opens a new trade with what is left.  Every state is a    *)
(* possible end of the data, so the report is a function of the state.     *)
(* Money is counted in 1/Unit of the price's currency.                     *)
(***************************************************************************)
EXTENDS Integers, Sequences, FiniteSets, FiniteSetsExt

CONSTANTS
  BarPrice,     \* prices of the bars
  Buy, Sell,    \* sizes the strategy orders
  Capital,      \* initial_capital
  Unit,         \* money of one price unit
  Fee,          \* commission on one price unit, in money
  BarsPerDay,   \* of the timeframe
  MaxBars, MaxPosition   \* bounds

ASSUME ReportAssumption ==
  /\ BarPrice \subseteq Nat \ {0} /\ Buy \subseteq Nat \ {0}
  /\ Sell \subseteq Nat \ {0}
  /\ Capital \in Nat \ {0} /\ Unit \in Nat \ {0} /\ Fee \in 0..Unit
  /\ BarsPerDay \in Nat \ {0} /\ MaxBars \in Nat /\ MaxPosition \in Nat

VARIABLES
  pending,   \* the order for the next bar, 0 for none
  cash,      \* the broker's
  trade,     \* the open trade
  closed,    \* history: the trades the broker closed, in order
  log,       \* trade_records
  values     \* the account's value at every bar so far

reportVars == <<pending, cash, trade, closed, log, values>>

\* What a strategy orders after a bar: a sale is negative.
Order == Buy \cup {0 - n : n \in Sell} \cup {0}
Fraction == [num : Int, den : Nat \ {0}]
NoTrade == [size |-> 0, long |-> TRUE, avg |-> [num |-> 0, den |-> 1],
            pnl |-> [num |-> 0, den |-> 1], fee |-> 0, events |-> <<>>]

ReportTypeOK ==
  /\ pending \in Order
  /\ cash \in Int
  /\ trade.size \in (0 - MaxPosition)..MaxPosition
  /\ trade.avg \in Fraction /\ trade.pnl \in Fraction
  /\ \A i \in DOMAIN log : log[i].size > 0 /\ log[i].entry \in Fraction
                             /\ log[i].exit \in Fraction
  /\ Len(values) <= MaxBars

-----------------------------------------------------------------------------
(***************************************************************************)
(* Fractions, and loops over a list                                        *)
(***************************************************************************)
Whole(n) == [num |-> n, den |-> 1]
Plus(q, r) == [num |-> q.num * r.den + r.num * q.den, den |-> q.den * r.den]
Minus(q, r) == Plus(q, [r EXCEPT !.num = -@])
Times(n, q) == [num |-> n * q.num, den |-> q.den]
Below(q, r) == q.num * r.den < r.num * q.den
Same(q, r) == q.num * r.den = r.num * q.den
Larger(q, r) == IF Below(q, r) THEN r ELSE q
Abs(n) == IF n < 0 THEN -n ELSE n

(* A fraction in lowest terms: the denominator is the least that will do.  *)
Reduced(q) ==
  LET d == CHOOSE n \in 1..q.den :
             (q.num * n) % q.den = 0 /\ \A m \in 1..(n - 1) : (q.num * m) % q.den # 0
  IN  [num |-> (q.num * d) \div q.den, den |-> d]

(* What a loop carries before the first and after each item of a list.     *)
Running(f, base, list) ==
  LET upto[n \in 0..Len(list)] ==
        IF n = 0 THEN <<base>>
        ELSE LET before == upto[n - 1] IN Append(before, f[before[n]][list[n]])
  IN  upto[Len(list)]
Result(f, base, list) == Running(f, base, list)[Len(list) + 1]

SumOf(numbers) == Result([n \in Int |-> [m \in Int |-> n + m]], 0, numbers)
Sum(qs) == Result([q \in Fraction |-> [r \in Fraction |-> Reduced(Plus(q, r))]], Whole(0), qs)
SumOver(I, qs) == Sum([i \in DOMAIN qs |-> IF i \in I THEN qs[i] ELSE Whole(0)])
LargestOf(q, qs) == Running([m \in Fraction |-> [r \in Fraction |-> Larger(m, r)]], q, qs)

-----------------------------------------------------------------------------
(***************************************************************************)
(* The broker's trade (external)                                           *)
(***************************************************************************)
(* A piece of n units at price p is added to trade t: the average price of *)
(* what is added, the profit of what is taken away.                        *)
Updated(t, n, p) ==
  LET adds == t.size = 0 \/ (t.size > 0) = (n > 0) IN
  [size   |-> t.size + n,
   long   |-> IF t.size = 0 THEN n > 0 ELSE t.long,
   avg    |-> IF adds
              THEN Reduced([num |-> t.avg.num * Abs(t.size) + p * Abs(n) * t.avg.den,
                            den |-> t.avg.den * (Abs(t.size) + Abs(n))])
              ELSE t.avg,
   pnl    |-> IF adds THEN t.pnl
              ELSE Reduced(Plus(t.pnl, Times(Unit * (0 - n), Minus(Whole(p), t.avg)))),
   fee    |-> t.fee + Abs(n) * p * Fee,
   events |-> Append(t.events, [size |-> n, price |-> p])]

(* The part of an order that goes against the position.                    *)
Closing(n) ==
  IF trade.size = 0 \/ (trade.size > 0) = (n > 0) THEN 0
  ELSE IF Abs(n) <= Abs(trade.size) THEN n ELSE 0 - trade.size

Net(t) == Minus(t.pnl, Whole(t.fee))

-----------------------------------------------------------------------------
(***************************************************************************)
(* The trade log                                                           *)
(***************************************************************************)
(* Faulty variant of Opens: every purchase opens.                          *)
OpensBuying(t, e) == e.size > 0

(* _extract_trade_fill_summary: which fills opened the trade               *)
Opens(t, e) == (e.size > 0) = t.long

(* A figure of the fills that opened, or closed, a trade, added up.        *)
OfFills(t, opening, figure) ==
  SumOf([i \in DOMAIN t.events |-> IF Opens(t, t.events[i]) = opening THEN figure[i] ELSE 0])

Sized(t, opening) == OfFills(t, opening, [i \in DOMAIN t.events |-> Abs(t.events[i].size)])
Notional(t, opening) ==
  OfFills(t, opening, [i \in DOMAIN t.events |-> Abs(t.events[i].size) * t.events[i].price])

AveragePrice(t, opening) == [num |-> Notional(t, opening), den |-> Sized(t, opening)]

(* _build_trade_record, of a closed trade: it has fills of both kinds.      *)
TradeRecord(t) ==
  [side      |-> IF t.long THEN "long" ELSE "short",
   size      |-> Sized(t, TRUE),
   entry     |-> AveragePrice(t, TRUE),
   exit      |-> AveragePrice(t, FALSE),
   pnl_gross |-> t.pnl,
   pnl_net   |-> Net(t)]

(* Faulty variant of Notified: a reduced trade is recorded too.            *)
NotifiedAlways(records, t) == Append(records, TradeRecord(t))

(* notify_trade of the wrapped strategy *)
Notified(records, t) == IF t.size = 0 THEN Append(records, TradeRecord(t)) ELSE records

-----------------------------------------------------------------------------
ReportInit ==
  /\ pending = 0 /\ cash = Capital /\ trade = NoTrade
  /\ closed = <<>> /\ log = <<>> /\ values = <<>>

(* A bar at price p executes the pending order; the strategy then orders n.*)
Bar(p, n) ==
  LET less  == Closing(pending)
      more  == pending - less
      after == IF less = 0 THEN trade ELSE Updated(trade, less, p)
      ends  == less # 0 /\ after.size = 0
      kept  == IF ends THEN NoTrade ELSE after
  IN
  /\ Len(values) < MaxBars
  /\ Abs(trade.size + pending + n) <= MaxPosition
  /\ trade' = IF more = 0 THEN kept ELSE Updated(kept, more, p)
  /\ closed' = IF ends THEN Append(closed, after) ELSE closed
  /\ log' = IF less = 0 THEN log ELSE Notified(log, after)
  /\ cash' = cash - pending * p * Unit - Abs(pending) * p * Fee
  /\ values' = Append(values, cash' + trade'.size * p * Unit)
  /\ pending' = n

ReportNext == \E p \in BarPrice, n \in Order : Bar(p, n)

ReportSpec == ReportInit /\ [][ReportNext]_reportVars

-----------------------------------------------------------------------------
(***************************************************************************)
(* Backtrader's analyzers (external) and what the engine makes of them     *)
(***************************************************************************)
Nets == [i \in DOMAIN closed |-> Net(closed[i])]

(* TradeAnalyzer counts a trade when it opens; one that breaks even is won.*)
Won == {i \in DOMAIN closed : Nets[i].num >= 0}
Lost == {i \in DOMAIN closed : Nets[i].num < 0}
Opened == Len(closed) + (IF trade.size = 0 THEN 0 ELSE 1)

(* DrawDown: how many bars in a row the value was below its peak, at most. *)
LongestDrawdown ==
  LET At(k) == IF k = 0 THEN Capital ELSE values[k]
      highs == {k \in 0..Len(values) : \A l \in 0..k : At(l) <= At(k)}
  IN  Max({j - Max({k \in highs : k <= j}) : j \in 0..Len(values)})

(* None of the program. *)
None == [num |-> 0, den |-> 0]

(* build_trade_stats and _compute_trade_metrics share this rule.           *)
ProfitFactor(profit, loss) ==
  IF loss.num > 0 THEN [num |-> profit.num * loss.den, den |-> profit.den * loss.num]
  ELSE IF profit.num > 0 THEN None ELSE Whole(0)

(* build_trade_stats; the win rate is a percentage.                        *)
BuildTradeStats ==
  LET loss == SumOver(Lost, Nets) IN
  [total    |-> Opened, won |-> Cardinality(Won), lost |-> Cardinality(Lost),
   win_rate |-> IF Opened > 0 THEN [num |-> Cardinality(Won) * 100, den |-> Opened]
                ELSE Whole(0),
   factor   |-> ProfitFactor(SumOver(Won, Nets), [loss EXCEPT !.num = Abs(@)])]

(* build_risk_metrics *)
MaxDrawdownDurationDays == LongestDrawdown

(* run: the profit of the whole backtest *)
Final == IF values = <<>> THEN Capital ELSE values[Len(values)]
Pnl == Final - Capital

-----------------------------------------------------------------------------
(***************************************************************************)
(* The analysis of the log: _compute_trade_metrics                         *)
(***************************************************************************)
ExtractTradePnl(r) == r.pnl_net

(* The win rate is a fraction.                                             *)
ComputeTradeMetrics ==
  LET pnls    == [i \in DOMAIN log |-> ExtractTradePnl(log[i])]
      winning == {i \in DOMAIN log : pnls[i].num > 0}
      losing  == {i \in DOMAIN log : pnls[i].num < 0}
      loss    == SumOver(losing, pnls)
  IN  [total    |-> Len(log), won |-> Cardinality(winning), lost |-> Cardinality(losing),
       win_rate |-> IF log # <<>> THEN [num |-> Cardinality(winning), den |-> Len(log)]
                    ELSE Whole(0),
       factor   |-> ProfitFactor(SumOver(winning, pnls), [loss EXCEPT !.num = Abs(@)])]

-----------------------------------------------------------------------------
(***************************************************************************)
(* The analysis of the curve                                               *)
(***************************************************************************)
(* TimeReturn: the first return is against the initial capital.            *)
Returns ==
  [i \in DOMAIN values |->
     [num |-> values[i] - (IF i = 1 THEN Capital ELSE values[i - 1]),
      den |-> IF i = 1 THEN Capital ELSE values[i - 1]]]

(* current_equity *= 1.0 + ret                                             *)
Compound(equity, ret) ==
  Reduced([num |-> equity.num * (ret.den + ret.num), den |-> equity.den * ret.den])

(* _reconstruct_equity_curve of the analysis starts with the capital, one  *)
(* period before the first return.                                         *)
ReconstructEquityCurve ==
  Running([e \in Fraction |-> [r \in Fraction |-> Compound(e, r)]], Whole(Capital), Returns)

(* handle_backtest's equity curve starts after the first return.           *)
EquityCurve ==
  Tail(Running([e \in Fraction |-> [r \in Fraction |-> Compound(e, r)]], Whole(Capital), Returns))

Drawdown(peak, equity) ==
  IF peak.num <= 0 THEN Whole(0)
  ELSE [num |-> peak.num * equity.den - equity.num * peak.den, den |-> peak.num * equity.den]

(* Faulty variant of Peak: the peak so far is the last value.              *)
PeakLast(peak, equity) == equity

Peak(peak, equity) == Larger(peak, equity)

(* _compute_drawdown_series of the charts                                  *)
DrawdownSeries(curve) ==
  LET peaks == Tail(Running([m \in Fraction |-> [e \in Fraction |-> Peak(m, e)]], curve[1], curve))
  IN  [i \in DOMAIN curve |-> Drawdown(peaks[i], curve[i])]

(* _compute_max_drawdown of the analysis                                   *)
ComputeMaxDrawdown(curve) ==
  LET peaks == Tail(LargestOf(curve[1], curve))
      falls == [i \in DOMAIN curve |-> Drawdown(peaks[i], curve[i])]
  IN  LargestOf(Whole(0), falls)[Len(curve) + 1]

(* _compute_returns, of a curve whose values but the last are positive.    *)
ComputeReturns(curve) ==
  [i \in 1..(Len(curve) - 1) |->
     Reduced(Minus([num |-> curve[i + 1].num * curve[i].den,
                    den |-> curve[i + 1].den * curve[i].num], Whole(1)))]

(* analyze_performance goes through: two points at least, all but the last *)
(* one positive.                                                           *)
Analyzable ==
  /\ Len(values) >= 2
  /\ \A i \in 1..(Len(values) - 1) : values[i] > 0

(* _compute_annualized_return: a power whose exponent is whole only if the *)
(* elapsed time divides a year.                                            *)
AnnualizedReturn ==
  LET bars == Len(values) - 1 IN
  IF Final < 0 /\ (365 * BarsPerDay) % bars # 0 THEN "complex" ELSE "real"

-----------------------------------------------------------------------------
(***************************************************************************)
(* Properties                                                              *)
(***************************************************************************)
(* A record explains its profit: however a trade was built up and taken    *)
(* down, and on whichever side, its size at its entry and exit prices is   *)
(* what the broker earned.                                                 *)
RecordExplainsProfit ==
  \A i \in DOMAIN log : LET r == log[i] IN
    Same(r.pnl_gross,
         Times(Unit * r.size, IF r.side = "long" THEN Minus(r.exit, r.entry)
                              ELSE Minus(r.entry, r.exit)))

(* The log and the totals tell one story: the profit of the run is that of *)
(* the trades in the log and of the one still open at the last price.      *)
LogAddsUp ==
  LET open == Minus(Whole(Final - cash), Times(Unit * trade.size, trade.avg)) IN
  values # <<>> =>
    Same(Whole(Pnl),
         Plus(Sum([i \in DOMAIN log |-> log[i].pnl_net]),
              IF trade.size = 0 THEN Whole(0) ELSE Plus(Net(trade), open)))

(* What the account was worth after n bars.                                *)
WorthAt(n) == IF n = 0 THEN Capital ELSE values[n]

(* The curve handle_backtest rebuilds for the charts is the account's, and *)
(* the one the analysis rebuilds is too, with the capital before it.       *)
CurveIsTheEquity ==
  (\A i \in DOMAIN values : values[i] > 0) =>
    LET charted == EquityCurve  rebuilt == ReconstructEquityCurve IN
    /\ \A i \in DOMAIN values : Same(charted[i], Whole(values[i]))
    /\ \A n \in 0..Len(values) : Same(rebuilt[n + 1], Whole(WorthAt(n)))

(* The returns the analysis takes from either curve are those the curve was*)
(* made of, the first of which the charts' curve has lost.                 *)
ReturnsSurvive ==
  (\A i \in DOMAIN values : values[i] > 0) =>
    LET charted == ComputeReturns(EquityCurve)
        rebuilt == ComputeReturns(ReconstructEquityCurve)
    IN  /\ \A i \in 1..(Len(values) - 1) : Same(charted[i], Returns[i + 1])
        /\ \A i \in 1..Len(values) : Same(rebuilt[i], Returns[i])

(* The largest fall from what the account was worth, after the first bars, *)
(* to what it was worth at the same time or later.                         *)
IsLargestFall(most, first) ==
  LET Fall(i, j) == Drawdown(Whole(WorthAt(i)), Whole(WorthAt(j))) IN
  /\ \E i, j \in first..Len(values) : i <= j /\ Same(Fall(i, j), most)
  /\ \A i, j \in first..Len(values) : i <= j => ~Below(most, Fall(i, j))

(* The chart and the analysis agree on the worst drawdown: it is the       *)
(* largest fall since the first bar, and of the curve that the analysis    *)
(* rebuilds since the beginning, with the fall of the first bar in it.     *)
DrawdownsAgree ==
  values # <<>> /\ (\A i \in DOMAIN values : values[i] > 0) =>
    LET chart == DrawdownSeries(EquityCurve)
        most == ComputeMaxDrawdown(EquityCurve)
    IN  /\ \E i \in DOMAIN values : Same(chart[i], most)
        /\ \A i \in DOMAIN values : ~Below(most, chart[i])
        /\ IsLargestFall(most, 1)
        /\ IsLargestFall(ComputeMaxDrawdown(ReconstructEquityCurve), 0)

(* build_trade_stats and _compute_trade_metrics tell of the same trades:   *)
(* the first also counts the trade still open, and takes one that breaks   *)
(* even for won; its win rate is a percentage, that of the second a        *)
(* fraction; the profit factor is the same.                                *)
StatsAgree ==
  LET s == BuildTradeStats
      m == ComputeTradeMetrics
      open == IF trade.size = 0 THEN 0 ELSE 1
      even == Cardinality({i \in DOMAIN log : ExtractTradePnl(log[i]).num = 0})
  IN
  /\ <<s.total, s.won, s.lost>> = <<m.total + open, m.won + even, m.lost>>
  /\ Same(Times(s.total, s.win_rate),
          Times(100, Plus(Times(m.total, m.win_rate), Whole(even))))
  /\ (s.factor = None) = (m.factor = None)
  /\ Same(s.factor, m.factor)

(* The report tells one story, although its figures are computed twice: in *)
(* the trade statistics, the equity curve, its returns and its drawdown.   *)
ReportAgrees ==
  ReportTypeOK /\ StatsAgree /\ CurveIsTheEquity /\ ReturnsSurvive /\ DrawdownsAgree

(* The profit factor is None if there are no losing trades (TradeStatistics*)
(* of result_models.py).                                                   *)
NoLosersNoFactor ==
  BuildTradeStats.won > 0 /\ BuildTradeStats.lost = 0 => BuildTradeStats.factor = None

(* max_drawdown_duration_days counts days: a drawdown lasts no longer than *)
(* the bars it was seen in.                                                *)
DurationIsInDays == MaxDrawdownDurationDays * BarsPerDay <= Len(values)

(* The annualized return of a summary is a real number (PerformanceSummary *)
(* of performance.py).                                                     *)
AnnualizedIsReal == Analyzable => AnnualizedReturn = "real"
=============================================================================

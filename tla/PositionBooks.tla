--------------------------- MODULE PositionBooks ---------------------------
(***************************************************************************)
(* The positions table and the three that write it: fills                  *)
(* (src/src/core/matching.py, limit_settlement.py), the valuation of the   *)
(* live loop (src/src/live/price_service.py) and the reconcile command     *)
(* (src/src/cli_commands.py), which rebuilds it from the trades.           *)
(*                                                                         *)
(* A fill, a rebuild and either half of a valuation are one transaction    *)
(* each.  A trade bears the time at which its process asked for the        *)
(* price, which is before the transaction that records it: with two        *)
(* processes the trades' times and their ids may disagree.                 *)
(***************************************************************************)
EXTENDS Sums

CONSTANTS
  Symbol,
  Process,     \* the processes that place orders: the live loop, "order place"
  Valuer,      \* those of them that value the positions
  Price, Amount,
  MaxTrades, MaxTime   \* bounds: rows of trades, times asked for a price

ASSUME NumberAssumption ==
  /\ Price \subseteq Nat \ {0} /\ Amount \subseteq Nat \ {0}
  /\ MaxTrades \in Nat /\ MaxTime \in Nat
ASSUME ValuerAssumption == Valuer \subseteq Process

VARIABLES
  trades,      \* the trades table
  positions,   \* symbol -> row of the positions table
  now,         \* the clock, as far as prices were asked for
  asked,       \* process -> fetched_at_ms of its latest price, 0 before
  loaded,      \* valuer -> the rows it is valuing, NoRows if it is not
  lost,        \* history: symbols whose closed row the last rebuild left out
  raced        \* history: symbols whose row was filled between the two halves
               \* of the valuation that wrote it last

booksVars == <<trades, positions, now, asked, loaded, lost, raced>>

Fraction == [num : Int, den : Nat \ {0}]
Row == [amount : Nat, entry : Fraction, realized : Fraction,
        current : Fraction, unrealized : Fraction]
Trade == [id : 1..MaxTrades, symbol : Symbol, side : {"buy", "sell"},
          amount : Amount, price : Price, at : 1..MaxTime]

NoRows == [s \in {} |-> 0]
Tables(rows) == DOMAIN rows \subseteq Symbol /\ rows \in [DOMAIN rows -> Row]

BooksTypeOK ==
  /\ trades \subseteq Trade
  /\ Tables(positions)
  /\ now \in 0..MaxTime
  /\ asked \in [Process -> 0..MaxTime]
  /\ DOMAIN loaded = Valuer /\ \A v \in Valuer : Tables(loaded[v])
  /\ lost \subseteq Symbol /\ raced \subseteq Symbol

-----------------------------------------------------------------------------
(***************************************************************************)
(* Fractions: the entry price is an average                                *)
(***************************************************************************)
Whole(n) == [num |-> n, den |-> 1]
Plus(q, r) == [num |-> q.num * r.den + r.num * q.den, den |-> q.den * r.den]
Minus(q, r) == Plus(q, [r EXCEPT !.num = -@])
Times(n, q) == [num |-> n * q.num, den |-> q.den]
Over(q, n) == [num |-> q.num, den |-> q.den * n]
Same(q, r) == q.num * r.den = r.num * q.den

-----------------------------------------------------------------------------
(***************************************************************************)
(* One row (the engines and the rebuild compute entry and profit alike)    *)
(***************************************************************************)
EntryAfter(amount, entry, n, p) ==
  Over(Plus(Times(amount, entry), Whole(n * p)), amount + n)

ProfitOf(entry, n, p) == Times(n, Minus(Whole(p), entry))

(* A row valued at price q. *)
Valued(amount, entry, realized, q) ==
  [amount |-> amount, entry |-> entry, realized |-> realized, current |-> q,
   unrealized |-> Times(amount, Minus(q, entry))]

(* _apply_buy_position_update *)
Bought(s, n, p) ==
  IF s \notin DOMAIN positions THEN Valued(n, Whole(p), Whole(0), Whole(p))
  ELSE LET row == positions[s] IN
       Valued(row.amount + n, EntryAfter(row.amount, row.entry, n, p),
              row.realized, Whole(p))

(* Faulty variant of Sold: the rest is not valued again.                   *)
SoldUnvalued(s, n, p) ==
  LET row == positions[s] IN
  [row EXCEPT !.amount = @ - n, !.realized = Plus(@, ProfitOf(row.entry, n, p))]

(* _apply_sell_position_update *)
Sold(s, n, p) ==
  LET row == positions[s] IN
  Valued(row.amount - n, row.entry,
         Plus(row.realized, ProfitOf(row.entry, n, p)), Whole(p))

CanSell(s, n) == s \in DOMAIN positions /\ positions[s].amount >= n

-----------------------------------------------------------------------------
(***************************************************************************)
(* The rebuild                                                             *)
(***************************************************************************)
(* ORDER BY t.timestamp ASC, t.id ASC *)
Earlier(t, u) == t.at < u.at \/ (t.at = u.at /\ t.id < u.id)

(* Faulty variant of Booked: a purchase does not average.                  *)
BookedLast(book, t) ==
  IF t.side = "buy"
  THEN [book EXCEPT !.amount = @ + t.amount, !.entry = Whole(t.price)]
  ELSE [amount |-> book.amount - t.amount, entry |-> book.entry,
        realized |-> Plus(book.realized, ProfitOf(book.entry, t.amount, t.price)),
        ok |-> book.ok /\ t.amount <= book.amount]

(* One trade; a sale of more than is held makes the command fail.          *)
Booked(book, t) ==
  IF t.side = "buy"
  THEN [book EXCEPT !.amount = @ + t.amount,
                    !.entry = EntryAfter(book.amount, book.entry, t.amount, t.price)]
  ELSE [amount |-> book.amount - t.amount, entry |-> book.entry,
        realized |-> Plus(book.realized, ProfitOf(book.entry, t.amount, t.price)),
        ok |-> book.ok /\ t.amount <= book.amount]

EmptyBook == [amount |-> 0, entry |-> Whole(0), realized |-> Whole(0), ok |-> TRUE]

Latest(T) == CHOOSE t \in T : \A u \in T \ {t} : Earlier(u, t)

(* The book after trades T, one after the other. *)
BookAfter(T) ==
  LET book[U \in SUBSET T] == IF U = {} THEN EmptyBook
                              ELSE Booked(book[U \ {Latest(U)}], Latest(U))
  IN  book[T]

TradesOf(s) == {t \in trades : t.symbol = s}
Book(s) == BookAfter(TradesOf(s))

Traded == {t.symbol : t \in trades}
CanRebuild == \A s \in Traded : Book(s).ok

-----------------------------------------------------------------------------
(***************************************************************************)
(* The steps                                                               *)
(***************************************************************************)
BooksInit ==
  /\ trades = {} /\ positions = NoRows
  /\ now = 0 /\ asked = [p \in Process |-> 0]
  /\ loaded = [v \in Valuer |-> NoRows] /\ lost = {} /\ raced = {}

(* A process does one thing at a time.                                     *)
Idle(p) == p \in Valuer => loaded[p] = NoRows

(* get_latest_price, within the same millisecond as the last one or later. *)
Ask(p) ==
  /\ Idle(p)
  /\ \E t \in {now, now + 1} \cap 1..MaxTime : now' = t /\ asked' = [asked EXCEPT ![p] = t]
  /\ UNCHANGED <<trades, positions, loaded, lost, raced>>

(* A market order, or one order of a sweep: several fills may share the    *)
(* time of one answer.                                                     *)
Fill(p, s, side, n, price) ==
  /\ Idle(p) /\ asked[p] > 0
  /\ Cardinality(trades) < MaxTrades
  /\ side = "sell" => CanSell(s, n)
  /\ trades' = trades \cup {[id |-> Cardinality(trades) + 1, symbol |-> s, side |-> side,
                             amount |-> n, price |-> price, at |-> asked[p]]}
  /\ positions' = [t \in DOMAIN positions \cup {s} |->
                     IF t # s THEN positions[t]
                     ELSE IF side = "buy" THEN Bought(s, n, price) ELSE Sold(s, n, price)]
  /\ raced' = raced \ {s}
  /\ UNCHANGED <<now, asked, loaded, lost>>

(* valuate_portfolio reads the rows ... *)
Load(v) ==
  /\ Idle(v) /\ positions # NoRows
  /\ loaded' = [loaded EXCEPT ![v] = positions]
  /\ UNCHANGED <<trades, positions, now, asked, lost, raced>>

(* Faulty variant of Assessed: the row is written as it was read.          *)
AssessedRow(row, read, q) == Valued(read.amount, read.entry, read.realized, q)

(* _persist_assessments writes the price and the value of what was read.   *)
Assessed(row, read, q) ==
  [row EXCEPT !.current = q, !.unrealized = Times(read.amount, Minus(q, read.entry))]

(* ... and writes them back, at the market price or, without one, at the   *)
(* price it read.  A row that is gone stays gone.                          *)
Persist(v) ==
  /\ loaded[v] # NoRows
  /\ \E marks \in [DOMAIN loaded[v] -> Price \cup {0}] :
       positions' = [s \in DOMAIN positions |->
                       IF s \notin DOMAIN loaded[v] THEN positions[s]
                       ELSE Assessed(positions[s], loaded[v][s],
                                     IF marks[s] = 0 THEN loaded[v][s].current
                                     ELSE Whole(marks[s]))]
  /\ raced' = {s \in DOMAIN positions :
                 IF s \notin DOMAIN loaded[v] THEN s \in raced
                 ELSE \/ positions[s].amount # loaded[v][s].amount
                      \/ positions[s].entry # loaded[v][s].entry}
  /\ loaded' = [loaded EXCEPT ![v] = NoRows]
  /\ UNCHANGED <<trades, now, asked, lost>>

(* handle_reconcile: the rows of the symbols that are still held, valued   *)
(* at their entry price.                                                   *)
Reconcile ==
  /\ CanRebuild
  /\ LET held == {s \in Traded : Book(s).amount > 0} IN
     /\ positions' = [s \in held |-> LET b == Book(s) IN
                        Valued(b.amount, b.entry, b.realized, b.entry)]
     /\ lost' = Traded \ held
     /\ raced' = {}
  /\ UNCHANGED <<trades, now, asked, loaded>>

BooksNext ==
  \/ \E p \in Process :
       \/ Ask(p)
       \/ \E s \in Symbol, side \in {"buy", "sell"}, n \in Amount, price \in Price :
            Fill(p, s, side, n, price)
  \/ \E v \in Valuer : Load(v) \/ Persist(v)
  \/ Reconcile

BooksSpec == BooksInit /\ [][BooksNext]_booksVars

-----------------------------------------------------------------------------
(***************************************************************************)
(* Properties                                                              *)
(***************************************************************************)
Amounts(T) == Total([t \in T |-> t.amount])
Worth(T) == Total([t \in T |-> t.amount * t.price])
Buys(T) == {t \in T : t.side = "buy"}
Sales(T) == {t \in T : t.side = "sell"}
Net(T) == Amounts(Buys(T)) - Amounts(Sales(T))
CashFlow(T) == Worth(Sales(T)) - Worth(Buys(T))

(* What a row says is held is what was bought and not sold, whatever the   *)
(* order in which fills, valuations and rebuilds write the table.          *)
HoldingIsNet ==
  \A s \in Symbol :
    Net(TradesOf(s)) = IF s \in DOMAIN positions THEN positions[s].amount ELSE 0

(* No money is lost in a row: its realized profit less the cost of what is *)
(* held is the cash that came and went for the symbol.  Rows that follow a *)
(* closed one which a rebuild left out are excepted (ProfitSurvives).      *)
ProfitIsCashFlow ==
  \A s \in DOMAIN positions \ lost :
    Same(Minus(positions[s].realized, Times(positions[s].amount, positions[s].entry)),
         Whole(CashFlow(TradesOf(s))))

(* ProfitIsCashFlow without its exception (handle_reconcile is to rebuild  *)
(* the realized profit of the trades).                                     *)
ProfitSurvives ==
  \A s \in DOMAIN positions :
    Same(Minus(positions[s].realized, Times(positions[s].amount, positions[s].entry)),
         Whole(CashFlow(TradesOf(s))))

(* A row's unrealized profit is that of its own amount, entry and current  *)
(* price: what valuate_portfolio promises to keep for a restart.  Refuted  *)
(* for a row that was filled between the two halves of a valuation, until  *)
(* the next fill, rebuild or undisturbed valuation.                        *)
ValuationIsConsistent ==
  \A s \in DOMAIN positions \ raced : LET row == positions[s] IN
    Same(row.unrealized, Times(row.amount, Minus(row.current, row.entry)))

(* The trades' times and their ids agree.                                  *)
InOrder == \A t, u \in trades : t.id < u.id => t.at <= u.at

(* The engines never sell more than is held, so the trades can be replayed *)
(* by handle_reconcile, as long as two processes did not settle in another *)
(* order than they asked for the price.                                    *)
RebuildSucceeds == InOrder => CanRebuild

(* The rows and the trades agree: a row loses neither units nor money,     *)
(* however the fills of one process fall between the two halves of a       *)
(* valuation of the other, and the trades can be replayed.                 *)
BooksAddUp == BooksTypeOK /\ HoldingIsNet /\ ProfitIsCashFlow /\ RebuildSucceeds

(* A rebuild leaves amount and entry price of everything held as the       *)
(* engines had computed them one fill at a time, in the same order.        *)
SameHolding(s) ==
  /\ s \in DOMAIN positions'
  /\ positions'[s].amount = positions[s].amount
  /\ Same(positions'[s].entry, positions[s].entry)
RebuildKeepsHoldings ==
  [][Reconcile /\ InOrder => \A s \in DOMAIN positions : positions[s].amount > 0 => SameHolding(s)]_booksVars
=============================================================================

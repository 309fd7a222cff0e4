--------------------------- MODULE CandleStorage ----------------------------
(***************************************************************************)
(* The candles of one symbol and timeframe and everything that writes      *)
(* them: the download (src/src/data/storage.py) with its two caches of     *)
(* finished ranges, the live loop's upsert of the latest price             *)
(* (src/src/live/realtime_loop.py), and the commands import, export and    *)
(* cleanup (src/src/cli_workflows.py, src/src/cli_commands.py).            *)
(*                                                                         *)
(* They are separate processes over one SQLite file: each transaction is a *)
(* step, and the download is a loop of two: fetch a page, store it.        *)
(* The exchange forms a candle while its bucket lasts and has it forever   *)
(* after.  A candle is its low and its high: open, close and volume follow *)
(* the same two rules (keep what is there, or merge).                      *)
(***************************************************************************)
EXTENDS Integers, FiniteSets, FiniteSetsExt, Functions

CONSTANTS
  Interval,      \* timeframe_to_milliseconds, in ticks
  Price,         \* the prices
  Window,        \* the windows [start, end] that are downloaded, in ticks
  Batch,         \* the batch sizes a download may ask for
  Files,         \* the CSV files that are imported beside those exported here
  Fault,         \* what may go wrong: see Fetch, FetchShort, Store, Record and PersistLatest
  Horizon,       \* bound: the last tick
  MaxTrades,     \* bound: trades on the exchange
  MaxWrites,     \* bound: live prices stored
  MaxCommands    \* bound: downloads, exports, imports and cleanups

ASSUME SizeAssumption ==
  /\ Interval \in Nat \ {0}
  /\ Batch \subseteq Nat \ {0}       \* _validate_batch_size
  /\ {Horizon, MaxTrades, MaxWrites, MaxCommands} \subseteq Nat
ASSUME RangeAssumption ==     \* _validate_time_range
  \A r \in Window : r.start \in Nat /\ r.end \in Nat /\ r.start <= r.end
ASSUME PriceAssumption == Price \subseteq Nat \ {0}     \* Candle.validate
ASSUME FaultAssumption ==
  Fault \subseteq {"fetch", "partial", "older", "invalid", "disk", "fallback"}

VARIABLES
  now,         \* the clock
  exchange,    \* the candles of the exchange
  price,       \* the price of the last trade there
  candles,     \* table candles
  recorded,    \* table candle_download_cache
  memory,      \* HistoricalCandleStorage._request_cache
  download,    \* the download that runs: its range, its cursor and its page
  result,      \* the statistics of the last download
  file,        \* the CSV file of the last export
  latest,      \* the last price the live loop read (the service's fallback)
  seen,        \* history: the prices the live loop stored, by bucket
  owed,        \* history: the candles the running download has to deliver, which are
               \* those the exchange had when it began and does not leave out
  trades, writes, commands   \* the counters of the bounds

counters == <<trades, writes, commands>>
market == <<now, exchange, price>>
vars == <<market, candles, recorded, memory, download, result, file, latest, seen, owed, counters>>

Time == 0..Horizon
BucketOf(t) == t - (t % Interval)
Bucket == {BucketOf(t) : t \in Time}
NoCandle == [low |-> 0, high |-> 0]
Candle == [low : Price, high : Price]
Stored(table) == {t \in DOMAIN table : table[t] # NoCandle}
InRange(r) == {t \in Time : r.start <= t /\ t <= r.end}
NoRange == [start |-> 0, end |-> -1]
NoPage == [b \in {} |-> NoCandle]
Resting == [stage |-> "none", range |-> NoRange, since |-> 0, batch |-> 0, page |-> NoPage]

(* A file may have rows of any time, also between two buckets, and of any  *)
(* prices, also a low above its high: nothing in it is checked.            *)
ASSUME FilesAssumption ==
  \A rows \in Files : DOMAIN rows \subseteq Time /\ \A t \in DOMAIN rows : rows[t] \in Candle

TypeOK ==
  /\ now \in Time /\ price \in Price \cup {0} /\ latest \in Price \cup {0}
  /\ exchange \in [Bucket -> Candle \cup {NoCandle}]
  /\ candles \in [Time -> Candle \cup {NoCandle}]
  /\ recorded \subseteq Window /\ memory \subseteq Window
  /\ download.stage \in {"none", "fetch", "store", "record", "report"}
  /\ download.range \in Window \cup {NoRange} /\ download.since \in Nat
  /\ download.batch \in Batch \cup {0}
  /\ DOMAIN download.page \subseteq Bucket
  /\ result.stored \in Nat /\ result.expected \in Nat
  /\ DOMAIN file \subseteq Time
  /\ seen \in [Bucket -> SUBSET Price]
  /\ owed \subseteq Bucket

Init ==
  /\ now = 0 /\ price = 0 /\ latest = 0
  /\ exchange = [b \in Bucket |-> NoCandle]
  /\ candles = [t \in Time |-> NoCandle]
  /\ recorded = {} /\ memory = {}
  /\ download = Resting
  /\ result = [stored |-> 0, expected |-> 1, range |-> NoRange]
  /\ file = NoPage
  /\ seen = [b \in Bucket |-> {}]
  /\ owed = {}
  /\ trades = 0 /\ writes = 0 /\ commands = 0

-----------------------------------------------------------------------------
(* The upsert of _persist_latest_candle: a new row of the one price, or    *)
(* the row widened to it.                                                  *)
Widen(candle, p) ==
  IF candle = NoCandle THEN [low |-> p, high |-> p]
  ELSE [low |-> Min({candle.low, p}), high |-> Max({candle.high, p})]

(* The market *)
Tick ==
  /\ now < Horizon
  /\ now' = now + 1
  /\ UNCHANGED <<exchange, price, candles, recorded, memory, download, result, file, latest,
                 seen, owed, counters>>

Trade(p) ==
  /\ trades < MaxTrades
  /\ trades' = trades + 1
  /\ price' = p
  /\ exchange' = [exchange EXCEPT ![BucketOf(now)] = Widen(@, p)]
  /\ UNCHANGED <<now, candles, recorded, memory, download, result, file, latest, seen, owed,
                 writes, commands>>

-----------------------------------------------------------------------------
(***************************************************************************)
(* Writers of the table                                                    *)
(***************************************************************************)
(* Faulty variant of Insert: INSERT OR REPLACE. *)
Replace(rows) == [t \in Time |-> IF t \in DOMAIN rows THEN rows[t] ELSE candles[t]]

(* INSERT OR IGNORE: rows of a timestamp that is there already are dropped. *)
Insert(rows) ==
  [t \in Time |-> IF candles[t] = NoCandle /\ t \in DOMAIN rows THEN rows[t] ELSE candles[t]]

(* Faulty variant of PersistCandle: the bucket's row is replaced. *)
PersistLast(p) == candles' = [candles EXCEPT ![BucketOf(now)] = [low |-> p, high |-> p]]

PersistCandle(p) == candles' = [candles EXCEPT ![BucketOf(now)] = Widen(@, p)]

(* A round of the live loop stores the price it read: the exchange's, or,  *)
(* when the request fails, the last one it got (a fallback snapshot is ok, *)
(* and its fetched_at_ms is the present).                                  *)
PersistLatest(p) ==
  /\ writes < MaxWrites /\ p # 0
  /\ p = price \/ ("fallback" \in Fault /\ p = latest)
  /\ writes' = writes + 1
  /\ latest' = p
  /\ seen' = [seen EXCEPT ![BucketOf(now)] = @ \cup {p}]
  /\ PersistCandle(p)
  /\ UNCHANGED <<market, recorded, memory, download, result, file, owed, trades, commands>>

(* handle_cleanup: everything before the cutoff goes, the caches stay. *)
Cleanup(cutoff) ==
  /\ commands < MaxCommands /\ cutoff < now
  /\ commands' = commands + 1
  /\ candles' = [t \in Time |-> IF t < cutoff THEN NoCandle ELSE candles[t]]
  /\ seen' = [b \in Bucket |-> IF b < cutoff THEN {} ELSE seen[b]]
  /\ owed' = {b \in owed : b >= cutoff}
  /\ UNCHANGED <<market, recorded, memory, download, result, file, latest, trades, writes>>

Export(r) ==
  /\ commands < MaxCommands
  /\ commands' = commands + 1
  /\ file' = [t \in Stored(candles) \cap InRange(r) |-> candles[t]]
  /\ UNCHANGED <<market, candles, recorded, memory, download, result, latest, seen, owed,
                 trades, writes>>

(* handle_import: the rows of a file as they are, in one transaction. *)
Import(rows) ==
  /\ commands < MaxCommands /\ DOMAIN rows # {}
  /\ commands' = commands + 1
  /\ candles' = Insert(rows)
  /\ UNCHANGED <<market, recorded, memory, download, result, file, latest, seen, owed,
                 trades, writes>>

-----------------------------------------------------------------------------
(***************************************************************************)
(* The download                                                            *)
(***************************************************************************)
(* _is_range_cached: the set of this process, then the table.              *)
StartDownload(r, n) ==
  /\ download.stage = "none" /\ commands < MaxCommands
  /\ commands' = commands + 1
  /\ LET cached == r \in memory \/ r \in recorded
     IN  /\ memory' = IF cached THEN memory \cup {r} ELSE memory
         /\ download' = [Resting EXCEPT !.range = r, !.since = r.start, !.batch = n,
                                        !.stage = IF cached THEN "report" ELSE "fetch"]
         /\ owed' = IF cached THEN {} ELSE Stored(exchange) \cap InRange(r)
  /\ UNCHANGED <<market, candles, recorded, result, file, latest, seen, trades, writes>>

(* What the exchange is asked for: its first candles from since on, no     *)
(* more than the batch.                                                    *)
Asked(since) ==
  LET from == {b \in Stored(exchange) : b >= since}
  IN  {b \in from : Cardinality({c \in from : c < b}) < download.batch}

Receive(buckets) ==
  /\ download' = [download EXCEPT !.page = [b \in buckets |-> exchange[b]],
                                  !.stage = IF buckets = {} THEN "record" ELSE "store"]
  /\ UNCHANGED <<market, candles, recorded, memory, result, file, latest, seen, counters>>

(* The exchange answers what it was asked, or, with the fault "older",     *)
(* from its first candle on.                                               *)
Fetch(buckets) ==
  /\ download.stage = "fetch"
  /\ \/ buckets = Asked(download.since)
     \/ "older" \in Fault /\ buckets # {} /\ buckets = {b \in Stored(exchange) : b < download.since}
  /\ Receive(buckets)
  /\ UNCHANGED owed

(* It leaves candles out: it gives fewer at once than the batch, or a      *)
(* short or an empty page in between.  What it leaves out is not owed any  *)
(* more, and nothing after it: a short page is taken for the last one.     *)
FetchShort(buckets) ==
  /\ download.stage = "fetch"
  /\ "partial" \in Fault /\ buckets \subseteq Asked(download.since)
  /\ Receive(buckets)
  /\ owed' = {b \in owed : b < download.since \/ b \in buckets}

(* Faulty variant of NextSince: the cursor stays on the last candle. *)
NextSinceLast(last) == last

NextSince(last) == last + 1

(* Faulty variant of PageEnds: a full page ends the download as well. *)
PageEndsFull(last) == TRUE

(* The loop ends after a short page, or when the cursor leaves the range.  *)
PageEnds(last) ==
  \/ Cardinality(DOMAIN download.page) < download.batch
  \/ NextSince(last) > download.range.end

(* _normalize_rows and _insert_candles: rows outside the range are dropped, *)
(* the others stored; then the cursor moves, or the download raises.        *)
Store ==
  /\ download.stage = "store"
  /\ LET last == Max(DOMAIN download.page)
     IN  /\ candles' = Insert(Restrict(download.page, DOMAIN download.page \cap InRange(download.range)))
         /\ download' = IF last < download.since THEN Resting
                        ELSE [download EXCEPT !.page = NoPage, !.since = NextSince(last),
                                              !.stage = IF PageEnds(last) THEN "record" ELSE "fetch"]
         /\ owed' = IF last < download.since THEN {} ELSE owed
  /\ UNCHANGED <<market, recorded, memory, result, file, latest, seen, counters>>

(* _record_cached_range *)
Record ==
  /\ download.stage = "record"
  /\ recorded' = recorded \cup {download.range}
  /\ memory' = memory \cup {download.range}
  /\ download' = [download EXCEPT !.stage = "report"]
  /\ UNCHANGED <<market, candles, result, file, latest, seen, owed, counters>>

(* estimate_expected_candle_count *)
Expected(r) == IF r.end < r.start THEN 0 ELSE ((r.end - r.start) \div Interval) + 1

(* fetch_candle_window_stats *)
Report ==
  /\ download.stage = "report"
  /\ result' = [stored |-> Cardinality(Stored(candles) \cap InRange(download.range)),
                expected |-> Expected(download.range), range |-> download.range]
  /\ download' = Resting
  /\ owed' = {}
  /\ UNCHANGED <<market, candles, recorded, memory, file, latest, seen, counters>>

Stop ==
  /\ download' = Resting /\ owed' = {}
  /\ UNCHANGED <<market, candles, recorded, result, file, latest, seen, counters>>

(* A transaction is rolled back: its exception ends the download. *)
DiskFault ==
  /\ "disk" \in Fault /\ download.stage \in {"store", "record"}
  /\ UNCHANGED memory
  /\ Stop

(* The fetcher gives up, or a row of the page does not pass Candle.validate. *)
PageFault ==
  /\ \/ ("fetch" \in Fault /\ download.stage = "fetch")
     \/ ("invalid" \in Fault /\ download.stage = "store")
  /\ UNCHANGED memory
  /\ Stop

(* The process that downloads ends, with its memory. *)
Restart ==
  /\ download.stage # "none" \/ memory # {}
  /\ memory' = {}
  /\ Stop

Next ==
  \/ Tick
  \/ \E p \in Price : Trade(p)
  \/ \E p \in Price : PersistLatest(p)
  \/ \E cutoff \in Time : Cleanup(cutoff)
  \/ \E r \in Window : Export(r)
  \/ \E rows \in Files \cup {file} : Import(rows)
  \/ \E r \in Window, n \in Batch : StartDownload(r, n)
  \/ \E buckets \in SUBSET Bucket : Fetch(buckets)
  \/ \E buckets \in SUBSET Bucket : FetchShort(buckets)
  \/ Store
  \/ Record
  \/ Report
  \/ DiskFault
  \/ PageFault
  \/ Restart

Spec == Init /\ [][Next]_vars

(* The download is a loop of one thread that nothing holds up for ever:    *)
(* the fetcher returns or raises, and SQLite waits for a lock no longer    *)
(* than its timeout.                                                       *)
FairSpec ==
  Spec /\ WF_vars(\/ Store \/ Record \/ Report
                  \/ \E buckets \in SUBSET Bucket : Fetch(buckets) \/ FetchShort(buckets))

-----------------------------------------------------------------------------
(***************************************************************************)
(* What the storage promises                                               *)
(***************************************************************************)

(* Nobody but the live loop changes a stored candle, and it only widens    *)
(* it: a candle is never narrowed or replaced by a download, an import or  *)
(* a stale page (INSERT OR IGNORE in _insert_candles and handle_import).   *)
RowsOnlyWiden ==
  [][\A b \in Stored(candles) : b \in Stored(candles') =>
       candles'[b].low <= candles[b].low /\ candles'[b].high >= candles[b].high]_vars

(* The candle of a bucket spans every price the live loop stored in it,    *)
(* whoever wrote the row first (_persist_latest_candle's ON CONFLICT).     *)
LivePricesAreSpanned ==
  \A b \in Bucket : \A p \in seen[b] :
    candles[b] # NoCandle /\ candles[b].low <= p /\ p <= candles[b].high

(* A range goes into the download cache only when every candle of it that  *)
(* the exchange had at the start of the download, did not leave out of its *)
(* answers, and was not cleaned up meanwhile, is stored: not after an      *)
(* error in the middle of its pages, and whatever size its pages have      *)
(* (download_and_store).                                                   *)
RecordedWhenComplete ==
  recorded' # recorded => owed \subseteq Stored(candles)

(* What the process remembers as downloaded is in the table too, so that a *)
(* restart forgets nothing (_record_cached_range, _is_range_cached).       *)
MemoryIsBacked == memory \subseteq recorded

(* The statistics count no more candles than the window can hold, but for  *)
(* imported rows that lie between two buckets, and of a window that is     *)
(* complete at most one too few: estimate_expected_candle_count counts     *)
(* both ends of a window that need not begin on a bucket.                  *)
CoverageIsExplained ==
  result' # result =>
    LET inside == Stored(candles) \cap InRange(result'.range)
        buckets == InRange(result'.range) \cap Bucket
    IN  /\ result'.stored <= result'.expected + Cardinality(inside \ Bucket)
        /\ buckets \subseteq inside /\ result'.range.end \in Time
             => result'.stored + 1 >= result'.expected

(* What the storage says of itself is true: a range enters the cache when  *)
(* it is complete, the process remembers what a restart will read, and the *)
(* statistics of a window differ from the candles it could hold by the     *)
(* rows off the grid and by one.                                           *)
StorageIsHonest ==
  [][ /\ (TypeOK /\ MemoryIsBacked)'
      /\ RecordedWhenComplete /\ CoverageIsExplained ]_vars

(* A download ends: its cursor passes every candle it was given            *)
(* (since = last_timestamp + 1).                                           *)
DownloadsEnd == (download.stage # "none") ~> (download.stage = "none")

(* A range of the download cache is complete: a later download, which is   *)
(* answered from the cache, finds all the exchange has (_is_range_cached). *)
CachedIsComplete ==
  \A r \in recorded : Stored(exchange) \cap InRange(r) \subseteq Stored(candles)

(* The live loop stores a price as a candle of the bucket it was traded in *)
(* (_persist_latest_candle).                                               *)
LivePricesWereTraded ==
  [][\A b \in Bucket : seen'[b] \ seen[b] # {} => exchange[b] # NoCandle]_vars

(* A window of which every candle is stored is not reported as short of    *)
(* candles: nine tenths of what is expected is there (handle_download).    *)
CompleteIsNotAlarmed ==
  result.range \in Window /\ download.stage = "none" /\ result.range.end < now
    /\ InRange(result.range) \cap Bucket \subseteq Stored(candles)
  => 10 * Cardinality(InRange(result.range) \cap Bucket) >= 9 * result.expected

(* The statistics never report more candles than the window can hold       *)
(* (CandleDownloadResult.coverage_ratio).                                  *)
CoverageIsAtMostWhole == result.stored <= result.expected
=============================================================================

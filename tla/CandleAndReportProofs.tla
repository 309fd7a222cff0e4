----------------------- MODULE CandleAndReportProofs -----------------------
(***************************************************************************)
(* Theorems about the candle storage, for any interval, prices, windows,   *)
(* batches, files and faults, and any number of downloads, trades and commands,   *)
(* and about the report of a backtest, for any prices, orders, capital and *)
(* fee, and any number of bars.                                            *)
(*                                                                         *)
(* Those about the storage rest on what a running download still owes.     *)
(* Those about the report rest on its books: the fills of the open trade   *)
(* account for its size, its average price and its profit, and the cash is *)
(* the capital, the profits of the log and the cost of what is open.  What *)
(* a loop computes over a list is reasoned about through the list of all   *)
(* it carried, and its least counterexample.                               *)
(***************************************************************************)
EXTENDS CandleStorage, BacktestReport, FiniteSetTheorems, SequenceTheorems, NaturalsInduction,
        WellFoundedInduction, TLAPS

(* The candles of the exchange, and the rows of the table.                 *)
ExchangeTable == [Bucket -> Candle \cup {NoCandle}]
CandleTable == [Time -> Candle \cup {NoCandle}]

(* Whatever holds candles holds candles of the exchange's prices.          *)
CandlesTyped ==
  /\ now \in Time /\ price \in Price \cup {0} /\ latest \in Price \cup {0}
  /\ exchange \in ExchangeTable /\ candles \in CandleTable
  /\ seen \in [Bucket -> SUBSET Price]
  /\ \A b \in DOMAIN download.page : download.page[b] \in Candle
  /\ \A b \in DOMAIN file : file[b] \in Candle

(* The inductive invariant.                                                *)
IInv == CandlesTyped /\ LivePricesAreSpanned /\ MemoryIsBacked

(* What any step may do to the table and what was stored live: the row of  *)
(* the present is widened to a price, or rows are added to empty ones, or  *)
(* rows are deleted and forgotten.                                         *)
TableStep ==
  \/ \E p \in Price :
       /\ candles' = [candles EXCEPT ![BucketOf(now)] = Widen(@, p)]
       /\ seen' = [seen EXCEPT ![BucketOf(now)] = @ \cup {p}]
  \/ \E rows : /\ \A b \in DOMAIN rows : rows[b] \in Candle
               /\ candles' = Insert(rows)
               /\ UNCHANGED seen
  \/ \E cutoff \in Time :
       /\ candles' = [t \in Time |-> IF t < cutoff THEN NoCandle ELSE candles[t]]
       /\ seen' = [b \in Bucket |-> IF b < cutoff THEN {} ELSE seen[b]]
  \/ UNCHANGED <<candles, seen>>

-----------------------------------------------------------------------------
(***************************************************************************)
(* Candles                                                                 *)
(***************************************************************************)
LEMMA MinOfTwo ==
  ASSUME NEW a \in Int, NEW b \in Int
  PROVE  Min({a, b}) \in {a, b} /\ Min({a, b}) <= a /\ Min({a, b}) <= b
<1>1. \E x \in {a, b} : \A y \in {a, b} : x <= y
  BY DEF Min
<1> QED BY <1>1 DEF Min

LEMMA MaxOfTwo ==
  ASSUME NEW a \in Int, NEW b \in Int
  PROVE  Max({a, b}) \in {a, b} /\ Max({a, b}) >= a /\ Max({a, b}) >= b
<1>1. \E x \in {a, b} : \A y \in {a, b} : x >= y
  OBVIOUS
<1> QED BY <1>1 DEF Max

LEMMA PricesAreInts == \A p \in Price : p \in Int
  BY PriceAssumption

LEMMA CandleFacts ==
  /\ NoCandle \notin Candle
  /\ \A c \in Candle : c.low \in Price /\ c.high \in Price
  BY PriceAssumption DEF NoCandle, Candle

(* A widened candle is a candle that spans the price and what it spanned.  *)
LEMMA WidenFacts ==
  ASSUME NEW c \in Candle \cup {NoCandle}, NEW p \in Price
  PROVE  /\ Widen(c, p) \in Candle
         /\ Widen(c, p).low <= p /\ p <= Widen(c, p).high
         /\ c # NoCandle => Widen(c, p).low <= c.low /\ Widen(c, p).high >= c.high
<1>p. p \in Int
  BY PriceAssumption
<1>1. CASE c = NoCandle
  <2>1. Widen(c, p) = [low |-> p, high |-> p]
    BY <1>1 DEF Widen
  <2> QED BY <1>1, <1>p, <2>1 DEF Candle
<1>2. CASE c # NoCandle
  <2>0. c \in Candle
    BY <1>2
  <2>p. c.low \in Price /\ c.high \in Price
    BY <2>0, CandleFacts
  <2>1. c.low \in Price /\ c.high \in Price /\ c.low \in Int /\ c.high \in Int
    BY <2>p, PricesAreInts
  <2>2. PICK l, h : l = Min({c.low, p}) /\ h = Max({c.high, p})
    OBVIOUS
  <2>3. l \in {c.low, p} /\ l <= c.low /\ l <= p
    BY <1>p, <2>1, <2>2, MinOfTwo
  <2>4. h \in {c.high, p} /\ h >= c.high /\ h >= p
    BY <1>p, <2>1, <2>2, MaxOfTwo
  <2>5. Widen(c, p) = [low |-> l, high |-> h]
    BY <1>2, <2>2 DEF Widen
  <2>6. l \in Price /\ h \in Price
    BY <2>1, <2>3, <2>4
  <2>7. [low |-> l, high |-> h] \in Candle
    BY <2>6 DEF Candle
  <2> QED BY <1>p, <2>3, <2>4, <2>5, <2>6, <2>7, PriceAssumption
<1> QED BY <1>1, <1>2

LEMMA BucketIsBucket == ASSUME now \in Time PROVE BucketOf(now) \in Bucket
  BY DEF Bucket

LEMMA DivideBy ==
  ASSUME NEW x \in Nat, NEW n \in Nat \ {0}
  PROVE  /\ x \div n \in Nat
         /\ n * (x \div n) <= x /\ x < n * ((x \div n) + 1)
         /\ x % n \in Nat /\ x - (x % n) = n * (x \div n)
<1>1. x \div n \in Int /\ x % n \in 0..(n - 1) /\ x = n * (x \div n) + (x % n)
  OBVIOUS
<1> DEFINE q == x \div n
<1> HIDE DEF q
<1>2. q \in Int /\ n * q <= x /\ x < n * q + n
  BY <1>1 DEF q
<1>3. q \in Nat
  <2>1. ASSUME q <= 0 - 1 PROVE FALSE
    <3>1. n * q <= n * (0 - 1)
      BY <1>2, <2>1
    <3> QED BY <1>2, <3>1
  <2> QED BY <1>2, <2>1
<1>4. n * (q + 1) = n * q + n
  BY <1>2
<1> QED BY <1>1, <1>2, <1>3, <1>4 DEF q

(* Buckets are multiples of the interval, within the horizon.              *)
LEMMA BucketFacts ==
  ASSUME NEW b \in Bucket
  PROVE  b \in 0..Horizon /\ \E k \in Nat : b = Interval * k
<1>1. PICK t \in Time : b = BucketOf(t)
  BY DEF Bucket
<1>2. t \in Nat /\ t <= Horizon /\ Horizon \in Nat /\ Interval \in Nat \ {0}
  BY SizeAssumption DEF Time
<1>3. t % Interval \in Nat /\ b = Interval * (t \div Interval) /\ t \div Interval \in Nat
  BY <1>1, <1>2, DivideBy DEF BucketOf
<1>4. b <= t /\ b \in Int
  BY <1>1, <1>2, <1>3 DEF BucketOf
<1>5. b \in Nat
  BY <1>2, <1>3
<1> QED BY <1>2, <1>3, <1>4, <1>5

LEMMA BucketsAreTimes == Bucket \subseteq Time
  BY BucketFacts DEF Time

-----------------------------------------------------------------------------
(***************************************************************************)
(* Every action is one of the four                                         *)
(***************************************************************************)
LEMMA TableSteps == ASSUME IInv, [Next]_vars PROVE TableStep
<1>1. ASSUME NEW p \in Price, PersistLatest(p) PROVE TableStep
  BY <1>1 DEF PersistLatest, PersistCandle, TableStep
<1>2. ASSUME NEW cutoff \in Time, Cleanup(cutoff) PROVE TableStep
  BY <1>2 DEF Cleanup, TableStep
<1>3. ASSUME NEW rows \in Files \cup {file}, Import(rows) PROVE TableStep
  <2>1. \A t \in DOMAIN rows : rows[t] \in Candle
    BY FilesAssumption DEF IInv, CandlesTyped
  <2> QED BY <1>3, <2>1 DEF Import, TableStep
<1>4. CASE Store
  <2> DEFINE rows == Restrict(download.page, DOMAIN download.page \cap InRange(download.range))
  <2>1. candles' = Insert(rows) /\ UNCHANGED seen
    BY <1>4 DEF Store
  <2>2. \A b \in DOMAIN rows : rows[b] \in Candle
    BY DEF IInv, CandlesTyped, Restrict
  <2> HIDE DEF rows
  <2> QED BY <2>1, <2>2 DEF TableStep
<1>5. CASE Tick \/ (\E p \in Price : Trade(p)) \/ Record \/ Report \/ DiskFault \/ PageFault \/ Restart
  BY <1>5 DEF Tick, Trade, Record, Report, DiskFault, PageFault, Restart, Stop, TableStep
<1>6. ASSUME NEW r \in Window, Export(r) \/ (\E n \in Batch : StartDownload(r, n))
      PROVE  TableStep
  BY <1>6 DEF Export, StartDownload, TableStep
<1>7. ASSUME NEW buckets \in SUBSET Bucket, Fetch(buckets) \/ FetchShort(buckets)
      PROVE  TableStep
  BY <1>7 DEF Fetch, FetchShort, Receive, TableStep
<1>8. CASE UNCHANGED vars
  BY <1>8 DEF vars, TableStep
<1> QED BY <1>1, <1>2, <1>3, <1>4, <1>5, <1>6, <1>7, <1>8 DEF Next

LEMMA TableStepInv ==
  ASSUME IInv, TableStep
  PROVE  /\ candles' \in CandleTable /\ seen' \in [Bucket -> SUBSET Price]
         /\ LivePricesAreSpanned'
         /\ \A b \in Stored(candles) : b \in Stored(candles)' =>
              candles'[b].low <= candles[b].low /\ candles'[b].high >= candles[b].high
<1>i. /\ now \in Time /\ candles \in CandleTable /\ seen \in [Bucket -> SUBSET Price]
      /\ LivePricesAreSpanned
      /\ \A b \in Time : candles[b] \in Candle \cup {NoCandle}
      /\ \A b \in Stored(candles) : candles[b] \in Candle /\ b \in Time
      /\ \A b \in Bucket : b \in Time
  BY BucketsAreTimes DEF IInv, CandlesTyped, CandleTable, Stored
<1>n. ASSUME NEW c \in Candle PROVE c.low \in Int /\ c.high \in Int
  <2>1. c.low \in Price /\ c.high \in Price
    BY CandleFacts
  <2> QED BY <2>1, PricesAreInts
<1>1. ASSUME NEW p \in Price,
             candles' = [candles EXCEPT ![BucketOf(now)] = Widen(@, p)],
             seen' = [seen EXCEPT ![BucketOf(now)] = @ \cup {p}]
      PROVE  /\ candles' \in CandleTable /\ seen' \in [Bucket -> SUBSET Price]
             /\ LivePricesAreSpanned'
             /\ \A b \in Stored(candles) : b \in Stored(candles)' =>
                  candles'[b].low <= candles[b].low /\ candles'[b].high >= candles[b].high
  <2>1. PICK k \in Bucket : k = BucketOf(now)
    BY <1>i, BucketIsBucket
  <2>2. PICK w : w = Widen(candles[k], p)
    OBVIOUS
  <2>3. /\ w \in Candle /\ w.low <= p /\ p <= w.high
        /\ candles[k] # NoCandle => w.low <= candles[k].low /\ w.high >= candles[k].high
    BY <1>i, <2>2, WidenFacts
  <2>4. candles' = [candles EXCEPT ![k] = w] /\ seen' = [seen EXCEPT ![k] = @ \cup {p}]
    BY <1>1, <2>1, <2>2
  <2>5. candles' \in CandleTable /\ seen' \in [Bucket -> SUBSET Price]
    BY <1>i, <2>3, <2>4 DEF CandleTable
  <2>6. ASSUME NEW b \in Bucket, NEW q \in seen'[b]
        PROVE  candles'[b] # NoCandle /\ candles'[b].low <= q /\ q <= candles'[b].high
    <3>1. CASE b # k
      BY <1>i, <2>4, <3>1 DEF LivePricesAreSpanned, CandleTable
    <3>2. CASE b = k
      <4>1. candles'[b] = w /\ w # NoCandle
        BY <1>i, <2>3, <2>4, <3>2, CandleFacts DEF CandleTable
      <4>2. q = p \/ q \in seen[k]
        BY <1>i, <2>4, <3>2
      <4>3. CASE q \in seen[k]
        <5>0. q \in Price
          BY <1>i, <4>3
        <5>1. candles[k] # NoCandle /\ candles[k].low <= q /\ q <= candles[k].high /\ q \in Int
          BY <1>i, <4>3, <5>0, PricesAreInts DEF LivePricesAreSpanned
        <5>2. w.low \in Int /\ w.high \in Int /\ candles[k].low \in Int /\ candles[k].high \in Int
          BY <1>i, <1>n, <2>3, <5>1
        <5> QED BY <2>3, <4>1, <5>1, <5>2
      <4> QED BY <2>3, <4>1, <4>2, <4>3
    <3> QED BY <3>1, <3>2
  <2>7. ASSUME NEW b \in Stored(candles)
        PROVE  candles'[b].low <= candles[b].low /\ candles'[b].high >= candles[b].high
    <3>1. candles[b] # NoCandle /\ candles[b].low \in Int /\ candles[b].high \in Int
      BY <1>i, <1>n, CandleFacts
    <3>2. CASE b = k
      BY <1>i, <2>3, <2>4, <3>1, <3>2 DEF CandleTable
    <3>3. CASE b # k
      BY <1>i, <2>4, <3>1, <3>3 DEF CandleTable
    <3> QED BY <3>2, <3>3
  <2> QED BY <2>5, <2>6, <2>7 DEF LivePricesAreSpanned
<1>2. ASSUME NEW rows, \A b \in DOMAIN rows : rows[b] \in Candle,
             candles' = Insert(rows), UNCHANGED seen
      PROVE  /\ candles' \in CandleTable /\ seen' \in [Bucket -> SUBSET Price]
             /\ LivePricesAreSpanned'
             /\ \A b \in Stored(candles) : b \in Stored(candles)' =>
                  candles'[b].low <= candles[b].low /\ candles'[b].high >= candles[b].high
  <2>1. candles' \in CandleTable
    BY <1>i, <1>2 DEF Insert, CandleTable
  <2>2. \A b \in Time : candles[b] # NoCandle => candles'[b] = candles[b]
    BY <1>2 DEF Insert
  <2>3. LivePricesAreSpanned'
    BY <1>2, <1>i, <2>2 DEF LivePricesAreSpanned
  <2>4. ASSUME NEW b \in Stored(candles)
        PROVE  candles'[b].low <= candles[b].low /\ candles'[b].high >= candles[b].high
    BY <1>i, <1>n, <2>2 DEF Stored
  <2> QED BY <1>i, <1>2, <2>1, <2>3, <2>4
<1>3. ASSUME NEW cutoff \in Time,
             candles' = [t \in Time |-> IF t < cutoff THEN NoCandle ELSE candles[t]],
             seen' = [b \in Bucket |-> IF b < cutoff THEN {} ELSE seen[b]]
      PROVE  /\ candles' \in CandleTable /\ seen' \in [Bucket -> SUBSET Price]
             /\ LivePricesAreSpanned'
             /\ \A b \in Stored(candles) : b \in Stored(candles)' =>
                  candles'[b].low <= candles[b].low /\ candles'[b].high >= candles[b].high
  <2>1. candles' \in CandleTable
    BY <1>i, <1>3 DEF CandleTable
  <2>2. seen' \in [Bucket -> SUBSET Price]
    BY <1>i, <1>3
  <2>3. LivePricesAreSpanned'
    BY <1>i, <1>3 DEF LivePricesAreSpanned
  <2>4. ASSUME NEW b \in Stored(candles), b \in Stored(candles)'
        PROVE  candles'[b].low <= candles[b].low /\ candles'[b].high >= candles[b].high
    <3>1. candles'[b] = candles[b]
      BY <1>i, <1>3, <2>4 DEF Stored
    <3> QED BY <1>i, <1>n, <3>1
  <2> QED BY <2>1, <2>2, <2>3, <2>4
<1>4. ASSUME UNCHANGED <<candles, seen>>
      PROVE  /\ candles' \in CandleTable /\ seen' \in [Bucket -> SUBSET Price]
             /\ LivePricesAreSpanned'
             /\ \A b \in Stored(candles) : b \in Stored(candles)' =>
                  candles'[b].low <= candles[b].low /\ candles'[b].high >= candles[b].high
  BY <1>4, <1>i, <1>n DEF LivePricesAreSpanned
<1> QED BY <1>1, <1>2, <1>3, <1>4 DEF TableStep

-----------------------------------------------------------------------------
(***************************************************************************)
(* The other parts of the invariant                                        *)
(***************************************************************************)
LEMMA InitInv == Init => IInv
<1> SUFFICES ASSUME Init PROVE IInv
  OBVIOUS
<1>1. now \in Time
  BY SizeAssumption DEF Init, Time
<1>2. exchange \in ExchangeTable /\ candles \in CandleTable
  BY DEF Init, ExchangeTable, CandleTable
<1>3. seen \in [Bucket -> SUBSET Price] /\ LivePricesAreSpanned
  BY DEF Init, LivePricesAreSpanned
<1>4. DOMAIN download.page = {} /\ DOMAIN file = {}
  BY DEF Init, Resting, NoPage
<1> QED BY <1>1, <1>2, <1>3, <1>4 DEF Init, IInv, CandlesTyped, MemoryIsBacked

LEMMA BackedStep == ASSUME IInv, [Next]_vars PROVE MemoryIsBacked'
<1> USE DEF IInv, MemoryIsBacked
<1>1. ASSUME NEW r \in Window, NEW n \in Batch, StartDownload(r, n) PROVE MemoryIsBacked'
  BY <1>1 DEF StartDownload
<1>2. CASE Record
  BY <1>2 DEF Record
<1>3. CASE Restart
  BY <1>3 DEF Restart, Stop
<1>4. CASE DiskFault \/ PageFault
  BY <1>4 DEF DiskFault, PageFault, Stop
<1>5. ASSUME NEW p \in Price, PersistLatest(p) \/ Trade(p) PROVE MemoryIsBacked'
  BY <1>5 DEF PersistLatest, Trade
<1>6. ASSUME NEW cutoff \in Time, Cleanup(cutoff) PROVE MemoryIsBacked'
  BY <1>6 DEF Cleanup
<1>7. ASSUME NEW r \in Window, Export(r) PROVE MemoryIsBacked'
  BY <1>7 DEF Export
<1>8. ASSUME NEW buckets \in SUBSET Bucket, Fetch(buckets) \/ FetchShort(buckets)
      PROVE  MemoryIsBacked'
  BY <1>8 DEF Fetch, FetchShort, Receive
<1>9. CASE Tick \/ (\E rows \in Files \cup {file} : Import(rows)) \/ Store \/ Report
  BY <1>9 DEF Tick, Import, Store, Report
<1>10. CASE UNCHANGED vars
  BY <1>10 DEF vars
<1> QED BY <1>1, <1>2, <1>3, <1>4, <1>5, <1>6, <1>7, <1>8, <1>9, <1>10 DEF Next

(* The exchange, the page and the file hold candles.                       *)
Sources ==
  /\ now \in Time /\ price \in Price \cup {0} /\ latest \in Price \cup {0}
  /\ exchange \in ExchangeTable
  /\ \A b \in DOMAIN download.page : download.page[b] \in Candle
  /\ \A b \in DOMAIN file : file[b] \in Candle

LEMMA SourcesStep == ASSUME IInv, [Next]_vars PROVE Sources'
<1>s. Sources /\ candles \in CandleTable
  BY DEF IInv, CandlesTyped, Sources
<1>r. DOMAIN Resting.page = {} /\ DOMAIN NoPage = {}
  BY DEF Resting, NoPage
<1>1. CASE Tick
  BY <1>1, <1>s, SizeAssumption DEF Tick, Sources, Time
<1>2. ASSUME NEW p \in Price, Trade(p) PROVE Sources'
  <2>1. BucketOf(now) \in Bucket /\ exchange[BucketOf(now)] \in Candle \cup {NoCandle}
    BY <1>s, BucketIsBucket DEF Sources, ExchangeTable
  <2>2. PICK k \in Bucket, w \in Candle : exchange' = [exchange EXCEPT ![k] = w]
    BY <1>2, <2>1, WidenFacts DEF Trade
  <2>3. exchange' \in ExchangeTable
    BY <1>s, <2>2 DEF Sources, ExchangeTable
  <2> QED BY <1>2, <1>s, <2>3 DEF Trade, Sources
<1>3. ASSUME NEW p \in Price, PersistLatest(p) PROVE Sources'
  BY <1>3, <1>s DEF PersistLatest, Sources, market
<1>4. ASSUME NEW cutoff \in Time, Cleanup(cutoff) PROVE Sources'
  BY <1>4, <1>s DEF Cleanup, Sources, market
<1>5. ASSUME NEW r \in Window, Export(r) PROVE Sources'
  <2>1. \A b \in DOMAIN file' : file'[b] \in Candle
    BY <1>5, <1>s DEF Export, Stored, CandleTable
  <2> QED BY <1>5, <1>s, <2>1 DEF Export, Sources, market
<1>6. ASSUME NEW r \in Window, NEW n \in Batch, StartDownload(r, n) PROVE Sources'
  <2>1. download'.page = NoPage
    BY <1>6 DEF StartDownload, Resting
  <2> QED BY <1>6, <1>s, <1>r, <2>1 DEF StartDownload, Sources, market
<1>7. ASSUME NEW buckets \in SUBSET Bucket, Fetch(buckets) \/ FetchShort(buckets)
      PROVE  Sources'
  <2>1. buckets \subseteq Stored(exchange)
    BY <1>7 DEF Fetch, FetchShort, Asked
  <2>2. exchange \in ExchangeTable
    BY <1>s DEF Sources
  <2>3. \A b \in buckets : exchange[b] \in Candle
    BY <2>1, <2>2 DEF Stored, ExchangeTable
  <2>4. download' = [download EXCEPT !.page = [b \in buckets |-> exchange[b]],
                                     !.stage = IF buckets = {} THEN "record" ELSE "store"]
    BY <1>7 DEF Fetch, FetchShort, Receive
  <2> QED BY <1>7, <1>s, <2>3, <2>4 DEF Fetch, FetchShort, Receive, Sources, market
<1>8. CASE Store
  <2>1. UNCHANGED <<market, file, latest>>
    BY <1>8 DEF Store
  <2>2. \A b \in DOMAIN download'.page : download'.page[b] \in Candle
    BY <1>8, <1>s, <1>r DEF Store, Sources
  <2> QED BY <1>s, <2>1, <2>2 DEF Sources, market
<1>9. CASE Record
  <2>1. download'.page = download.page
    BY <1>9, <1>s DEF Record, Sources
  <2> QED BY <1>9, <1>s, <2>1 DEF Record, Sources, market
<1>10. CASE Report
  BY <1>10, <1>s, <1>r DEF Report, Sources, market
<1>11. CASE DiskFault \/ PageFault \/ Restart
  BY <1>11, <1>s, <1>r DEF DiskFault, PageFault, Restart, Stop, Sources, market
<1>12. ASSUME NEW rows \in Files \cup {file}, Import(rows) PROVE Sources'
  BY <1>12, <1>s DEF Import, Sources, market
<1>13. CASE UNCHANGED vars
  BY <1>13, <1>s DEF vars, Sources, market
<1> QED
  BY <1>1, <1>2, <1>3, <1>4, <1>5, <1>6, <1>7, <1>8, <1>9, <1>10, <1>11, <1>12, <1>13 DEF Next

LEMMA StepInv == IInv /\ [Next]_vars => IInv'
<1> SUFFICES ASSUME IInv, [Next]_vars PROVE IInv'
  OBVIOUS
<1>1. TableStep /\ Sources' /\ MemoryIsBacked'
  BY TableSteps, SourcesStep, BackedStep
<1>2. candles' \in CandleTable /\ seen' \in [Bucket -> SUBSET Price] /\ LivePricesAreSpanned'
  BY <1>1, TableStepInv
<1> QED BY <1>1, <1>2 DEF IInv, CandlesTyped, Sources

-----------------------------------------------------------------------------
(***************************************************************************)
(* Theorems                                                                *)
(***************************************************************************)
(* The invariant holds in every reachable state.                          *)
THEOREM Inductive == Spec => []IInv
  BY InitInv, StepInv, PTL DEF Spec

(* Whoever wrote a row first, and whatever downloads, imports and cleanups *)
(* do beside the live loop, a stored candle spans every price the loop     *)
(* stored in its bucket.                                                   *)
THEOREM LivePricesSpanned == Spec => []LivePricesAreSpanned
<1>1. IInv => LivePricesAreSpanned
  BY DEF IInv
<1> QED BY <1>1, Inductive, PTL

(* What a process remembers as downloaded is in the table.                 *)
THEOREM MemoryBacked == Spec => []MemoryIsBacked
<1>1. IInv => MemoryIsBacked
  BY DEF IInv
<1> QED BY <1>1, Inductive, PTL

(* A stored candle that stays is only ever widened.                        *)
THEOREM OnlyWidened == Spec => RowsOnlyWiden
<1>1. IInv /\ [Next]_vars =>
        [\A b \in Stored(candles) : b \in Stored(candles') =>
           candles'[b].low <= candles[b].low /\ candles'[b].high >= candles[b].high]_vars
  BY TableSteps, TableStepInv DEF Stored
<1> QED BY <1>1, Inductive, PTL DEF Spec, RowsOnlyWiden

-----------------------------------------------------------------------------
(***************************************************************************)
(* Buckets                                                                 *)
(***************************************************************************)
(* Every set of naturals has a least one, and a bounded one a greatest.    *)
LEMMA LeastNatural ==
  ASSUME NEW T, T \subseteq Nat, T # {}
  PROVE  \E n \in T : \A m \in T : n <= m
<1> DEFINE R == OpToRel(<, Nat)
<1>1. IsWellFoundedOn(R, Nat)
  BY NatLessThanWellFounded
<1>2. \A m, n \in Nat : <<m, n>> \in R <=> m < n
  BY DEF OpToRel
<1> HIDE DEF R
<1>3. PICK n \in T : \A m \in T : ~ (<<m, n>> \in R)
  BY <1>1, WFMin
<1>4. ASSUME NEW m \in T PROVE n <= m
  <2>1. m \in Nat /\ n \in Nat /\ ~ (<<m, n>> \in R)
    BY <1>3
  <2>2. ~ (m < n)
    BY <1>2, <2>1
  <2> QED BY <2>1, <2>2
<1> QED BY <1>4

LEMMA GreatestNatural ==
  ASSUME NEW n \in Nat, NEW T, T \subseteq 0..n, T # {}
  PROVE  Max(T) \in T /\ \A m \in T : m <= Max(T)
<1> DEFINE U == {n - m : m \in T}
<1>1. U \subseteq Nat /\ U # {}
  <2>1. \A m \in T : n - m \in Nat
    OBVIOUS
  <2> QED BY <2>1
<1> HIDE DEF U
<1>2. PICK u \in U : \A v \in U : u <= v
  BY <1>1, LeastNatural
<1>3. PICK x \in T : u = n - x
  BY DEF U
<1>4. \A m \in T : m <= x
  <2>1. ASSUME NEW m \in T PROVE m <= x
    <3>1. n - m \in U
      BY DEF U
    <3>2. n - x <= n - m
      BY <1>2, <1>3, <3>1
    <3> QED BY <3>2
  <2> QED BY <2>1
<1>5. \E y \in T : \A m \in T : y >= m
  <2>1. \A m \in T : x >= m
    BY <1>4
  <2> QED BY <2>1
<1>6. Max(T) \in T /\ \A m \in T : Max(T) >= m
  BY <1>5 DEF Max
<1> QED BY <1>6

LEMMA OrderOfMultiples ==
  ASSUME NEW n \in Nat \ {0}, NEW a \in Nat, NEW b \in Nat, n * a < n * b
  PROVE  a < b
<1>1. ASSUME b <= a PROVE FALSE
  <2>1. n * b <= n * a
    BY <1>1
  <2>2. n * a \in Int /\ n * b \in Int
    OBVIOUS
  <2> QED BY <2>1, <2>2
<1> QED BY <1>1

LEMMA BucketsAreFinite == IsFiniteSet(Bucket) /\ Bucket \subseteq 0..Horizon
<1>1. Bucket \subseteq 0..Horizon
  BY BucketFacts
<1>2. IsFiniteSet(0..Horizon)
  BY SizeAssumption, FS_Interval
<1> QED BY <1>1, <1>2, FS_Subset

(* The buckets of a window.                                                *)
Buckets(r) == InRange(r) \cap Bucket

(* A window holds no more buckets than estimate_expected_candle_count      *)
(* expects: two buckets have distinct distances from its start, counted in *)
(* whole intervals.                                                        *)
LEMMA WindowHolds ==
  ASSUME NEW r \in Window
  PROVE  /\ IsFiniteSet(Buckets(r)) /\ Cardinality(Buckets(r)) <= Expected(r)
         /\ Expected(r) \in Nat
<1>0. /\ r.start \in Nat /\ r.end \in Nat /\ r.start <= r.end
      /\ Interval \in Nat \ {0}
  BY RangeAssumption, SizeAssumption
<1> DEFINE D == r.end - r.start
           at == [b \in Buckets(r) |-> (b - r.start) \div Interval]
<1>1. D \in Nat /\ Expected(r) = (D \div Interval) + 1
  BY <1>0 DEF Expected
<1>2. D \div Interval \in Nat /\ D < Interval * ((D \div Interval) + 1)
  BY <1>0, <1>1, DivideBy
<1>3. ASSUME NEW b \in Buckets(r)
      PROVE  /\ at[b] \in Nat /\ b - r.start \in Nat
             /\ Interval * at[b] <= b - r.start /\ b - r.start < Interval * (at[b] + 1)
             /\ b \in Bucket
  <2>1. b \in Nat /\ r.start <= b /\ b \in Bucket
    BY BucketFacts DEF Buckets, InRange
  <2>2. b - r.start \in Nat
    BY <1>0, <2>1
  <2> QED BY <1>0, <2>1, <2>2, DivideBy
<1>4. ASSUME NEW b \in Buckets(r) PROVE b - r.start <= D
  <2>1. b \in Nat /\ b <= r.end
    BY BucketFacts DEF Buckets, InRange
  <2> QED BY <1>0, <2>1
<1> HIDE DEF D, at
<1>5. ASSUME NEW b \in Buckets(r) PROVE at[b] \in 0..(D \div Interval)
  <2>1. PICK q, e : q = at[b] /\ e = D \div Interval
    OBVIOUS
  <2>2. q \in Nat /\ e \in Nat /\ Interval * q <= b - r.start /\ D < Interval * (e + 1)
    BY <1>2, <1>3, <2>1
  <2>3. Interval * q < Interval * (e + 1)
    <3>1. Interval * q \in Int /\ Interval * (e + 1) \in Int
      BY <1>0, <2>2
    <3> QED BY <1>1, <1>3, <1>4, <2>2, <3>1
  <2>4. q < e + 1
    BY <1>0, <2>2, <2>3, OrderOfMultiples
  <2> QED BY <2>1, <2>2, <2>4
<1>6. ASSUME NEW b \in Buckets(r), NEW c \in Buckets(r), b < c PROVE at[b] # at[c]
  <2>1. PICK k \in Nat, l \in Nat : b = Interval * k /\ c = Interval * l
    BY <1>3, BucketFacts
  <2>2. k < l
    BY <1>0, <1>6, <2>1, OrderOfMultiples
  <2>3. b + Interval <= c
    <3>1. PICK d \in Nat : l = k + 1 + d
      <4>1. l - k - 1 \in Nat /\ l = k + 1 + (l - k - 1)
        BY <2>2
      <4> QED BY <4>1
    <3>2. Interval * (k + 1 + d) = Interval * k + Interval + Interval * d
      BY <1>0
    <3>3. Interval * d \in Nat /\ Interval * k \in Nat
      BY <1>0
    <3> QED BY <1>0, <2>1, <3>1, <3>2, <3>3
  <2>4. PICK q : q = at[b]
    OBVIOUS
  <2>5. q \in Nat /\ b - r.start < Interval * (q + 1) /\ Interval * q <= b - r.start
    BY <1>3, <2>4
  <2>6. at[c] = q => c - r.start < Interval * (q + 1)
    BY <1>3
  <2>7. Interval * (q + 1) = Interval * q + Interval /\ Interval * q \in Nat
    BY <1>0, <2>5
  <2>8. b \in Int /\ c \in Int
    BY <1>0, <2>1
  <2> QED BY <1>0, <2>3, <2>4, <2>5, <2>6, <2>7, <2>8
<1>7. at \in Injection(Buckets(r), 0..(D \div Interval))
  <2>1. \A b, c \in Buckets(r) : at[b] = at[c] => b = c
    <3>1. \A b \in Buckets(r) : b \in Int
      BY <1>3, BucketFacts
    <3> QED BY <1>6, <3>1
  <2>2. at \in [Buckets(r) -> 0..(D \div Interval)]
    BY <1>5 DEF at
  <2> QED BY <2>1, <2>2 DEF Injection, IsInjective
<1>8. IsFiniteSet(0..(D \div Interval)) /\ Cardinality(0..(D \div Interval)) = (D \div Interval) + 1
  <2>1. PICK e \in Nat : e = D \div Interval
    BY <1>2
  <2>2. IsFiniteSet(0..e) /\ Cardinality(0..e) = e + 1
    BY FS_Interval
  <2> QED BY <2>1, <2>2
<1>9. /\ IsFiniteSet(Buckets(r))
      /\ Cardinality(Buckets(r)) <= Cardinality(0..(D \div Interval))
  BY <1>7, <1>8, FS_Injection
<1> QED BY <1>1, <1>2, <1>8, <1>9

LEMMA MultipleIsBucket ==
  ASSUME NEW k \in Nat, Interval * k \in Time
  PROVE  Interval * k \in Bucket
<1>0. Interval \in Nat \ {0}
  BY SizeAssumption
<1>1. PICK x \in Nat, q \in Int : x = Interval * k /\ q = x \div Interval
  <2>1. Interval * k \in Nat
    BY <1>0
  <2>2. (Interval * k) \div Interval \in Nat
    BY <1>0, <2>1, DivideBy
  <2> QED BY <2>1, <2>2
<1>2. /\ q \in Nat /\ Interval * q <= x /\ x < Interval * (q + 1)
      /\ x % Interval \in Nat /\ x - (x % Interval) = Interval * q
  BY <1>0, <1>1, DivideBy
<1>3. k < q + 1
  BY <1>0, <1>1, <1>2, OrderOfMultiples
<1>4. q < k + 1
  <2>1. Interval * (k + 1) = Interval * k + Interval /\ Interval * q \in Nat
    BY <1>0, <1>2
  <2>2. Interval * q < Interval * (k + 1)
    BY <1>0, <1>1, <1>2, <2>1
  <2> QED BY <1>0, <1>2, <2>2, OrderOfMultiples
<1>5. q = k
  BY <1>2, <1>3, <1>4
<1>6. BucketOf(x) = x
  BY <1>1, <1>2, <1>5 DEF BucketOf
<1> QED BY <1>1, <1>6 DEF Bucket

(* And no fewer than one less, when it ends within the horizon: one bucket *)
(* follows its start in every whole interval.                              *)
LEMMA WindowFills ==
  ASSUME NEW r \in Window, r.end \in Time
  PROVE  Cardinality(Buckets(r)) + 1 >= Expected(r)
<1>0. /\ r.start \in Nat /\ r.end \in Nat /\ r.start <= r.end
      /\ Interval \in Nat \ {0} /\ Horizon \in Nat
  BY RangeAssumption, SizeAssumption
<1>1. PICK m, q :
        /\ m \in Nat /\ q \in Nat
        /\ Interval * m <= r.start /\ r.start < Interval * (m + 1)
        /\ Interval * q <= r.end - r.start /\ Expected(r) = q + 1
  <2>1. r.end - r.start \in Nat /\ Expected(r) = ((r.end - r.start) \div Interval) + 1
    BY <1>0 DEF Expected
  <2>2. /\ r.start \div Interval \in Nat
        /\ Interval * (r.start \div Interval) <= r.start
        /\ r.start < Interval * ((r.start \div Interval) + 1)
    BY <1>0, DivideBy
  <2>3. /\ (r.end - r.start) \div Interval \in Nat
        /\ Interval * ((r.end - r.start) \div Interval) <= r.end - r.start
    BY <1>0, <2>1, DivideBy
  <2> QED BY <2>1, <2>2, <2>3
<1> DEFINE to == [k \in 1..q |-> Interval * (m + k)]
<1>2. ASSUME NEW k \in 1..q
      PROVE  /\ Interval * (m + k) \in Buckets(r)
             /\ \A j \in 1..q : Interval * (m + j) = Interval * (m + k) => j = k
  <2>1. k \in Nat /\ 1 <= k /\ k <= q /\ m + k \in Nat
    BY <1>1
  <2>2. Interval * (m + 1) <= Interval * (m + k)
    BY <1>0, <1>1, <2>1
  <2>3. Interval * (m + k) <= Interval * m + Interval * q
    <3>1. Interval * k <= Interval * q
      BY <1>0, <1>1, <2>1
    <3>2. Interval * (m + k) = Interval * m + Interval * k
      BY <1>0, <1>1, <2>1
    <3>3. Interval * m \in Nat /\ Interval * k \in Nat /\ Interval * q \in Nat
      BY <1>0, <1>1, <2>1
    <3> QED BY <3>1, <3>2, <3>3
  <2>4. PICK x \in Nat : x = Interval * (m + k)
    BY <1>0, <2>1
  <2>5. Interval * (m + 1) \in Nat /\ Interval * m \in Nat /\ Interval * q \in Nat
    BY <1>0, <1>1
  <2>6. r.start <= x /\ x <= r.end
    BY <1>0, <1>1, <2>2, <2>3, <2>4, <2>5
  <2>7. x \in Time
    BY <1>0, <2>4, <2>6 DEF Time
  <2>8. x \in Bucket
    BY <2>1, <2>4, <2>7, MultipleIsBucket
  <2>9. ASSUME NEW j \in 1..q, Interval * (m + j) = Interval * (m + k) PROVE j = k
    <3>1. j \in Nat /\ m + j \in Nat
      BY <1>1
    <3>2. /\ Interval * (m + j) \in Nat /\ Interval * (m + k) \in Nat
          /\ Interval * (m + j + 1) = Interval * (m + j) + Interval
          /\ Interval * (m + k + 1) = Interval * (m + k) + Interval
      BY <1>0, <1>1, <2>1, <3>1
    <3>3. Interval * (m + j) < Interval * (m + k + 1) /\ Interval * (m + k) < Interval * (m + j + 1)
      BY <1>0, <2>9, <3>2
    <3>4. m + j < m + k + 1 /\ m + k < m + j + 1
      <4>1. m + j < m + k + 1
        BY <1>0, <1>1, <2>1, <3>1, <3>3, OrderOfMultiples
      <4>2. m + k < m + j + 1
        BY <1>0, <1>1, <2>1, <3>1, <3>3, OrderOfMultiples
      <4> QED BY <4>1, <4>2
    <3> QED BY <1>1, <2>1, <3>1, <3>4
  <2> QED BY <2>4, <2>6, <2>7, <2>8, <2>9 DEF Buckets, InRange
<1>3. to \in Injection(1..q, Buckets(r))
  <2>1. to \in [1..q -> Buckets(r)]
    BY <1>2
  <2>2. \A j, k \in 1..q : to[j] = to[k] => j = k
    BY <1>2
  <2> QED BY <2>1, <2>2 DEF Injection, IsInjective
<1>4. Cardinality(1..q) <= Cardinality(Buckets(r))
  BY <1>3, WindowHolds, FS_Injection
<1>5. Cardinality(1..q) = q /\ Cardinality(Buckets(r)) \in Nat
  <2>1. Cardinality(1..q) = q
    BY <1>1, FS_Interval
  <2> QED BY <2>1, WindowHolds, FS_CardinalityType
<1> QED BY <1>1, <1>4, <1>5

(* The statistics of a window differ from what is expected by the rows off *)
(* the grid and by one.                                                    *)
LEMMA CoverageOf ==
  ASSUME NEW r \in Window, NEW inside, inside \subseteq InRange(r)
  PROVE  /\ Cardinality(inside) \in Nat
         /\ Cardinality(inside) <= Expected(r) + Cardinality(inside \ Bucket)
         /\ Buckets(r) \subseteq inside /\ r.end \in Time
              => Cardinality(inside) + 1 >= Expected(r)
<1> DEFINE on == inside \cap Bucket
           off == inside \ Bucket
<1>1. IsFiniteSet(inside)
  <2>1. IsFiniteSet(Time) /\ inside \subseteq Time
    BY SizeAssumption, FS_Interval DEF Time, InRange
  <2> QED BY <2>1, FS_Subset
<1>2. IsFiniteSet(on) /\ IsFiniteSet(off) /\ inside = on \cup off /\ on \cap off = {}
  BY <1>1, FS_Subset
<1> HIDE DEF on, off
<1>3. Cardinality(on) \in Nat /\ Cardinality(off) \in Nat /\ Cardinality(inside) \in Nat
  BY <1>1, <1>2, FS_CardinalityType
<1>4. Cardinality(inside) = Cardinality(on) + Cardinality(off)
  <2>1. Cardinality(on \cup off) = Cardinality(on) + Cardinality(off) - Cardinality(on \cap off)
    BY <1>2, FS_Union
  <2>2. Cardinality(on \cap off) = 0
    BY <1>2, FS_EmptySet
  <2> QED BY <1>2, <1>3, <2>1, <2>2
<1>5. /\ IsFiniteSet(Buckets(r)) /\ Cardinality(Buckets(r)) <= Expected(r)
      /\ Expected(r) \in Nat /\ Cardinality(Buckets(r)) \in Nat
  BY WindowHolds, FS_CardinalityType
<1>6. Cardinality(on) <= Cardinality(Buckets(r))
  <2>1. on \subseteq Buckets(r)
    BY DEF on, Buckets
  <2> QED BY <1>5, <2>1, FS_Subset
<1>7. ASSUME Buckets(r) \subseteq inside, r.end \in Time
      PROVE  Cardinality(inside) + 1 >= Expected(r)
  <2>1. Cardinality(Buckets(r)) <= Cardinality(inside)
    BY <1>1, <1>7, FS_Subset
  <2>2. Cardinality(Buckets(r)) + 1 >= Expected(r)
    BY <1>7, WindowFills
  <2> QED BY <1>3, <1>5, <2>1, <2>2
<1>8. Cardinality(inside) <= Expected(r) + Cardinality(off)
  BY <1>3, <1>4, <1>5, <1>6
<1> QED BY <1>3, <1>7, <1>8 DEF off

-----------------------------------------------------------------------------
(***************************************************************************)
(* Pages                                                                   *)
(***************************************************************************)
(* A page of the exchange skips nothing up to its last candle, and one     *)
(* shorter than the batch is all there is, when the exchange gives as many *)
(* candles as it is asked for.                                             *)
LEMMA AnswerFacts ==
  ASSUME NEW since \in Nat, NEW n \in Nat, n = download.batch, IInv,
         NEW from, from = {b \in Stored(exchange) : b >= since}
  PROVE  /\ Asked(since) \subseteq from
         /\ IsFiniteSet(Asked(since)) /\ Cardinality(Asked(since)) \in Nat
         /\ \A b \in from, c \in Asked(since) : b <= c => b \in Asked(since)
         /\ Cardinality(Asked(since)) < n => Asked(since) = from
<1>2. from \subseteq Bucket /\ from \subseteq Nat /\ IsFiniteSet(from)
  <2>1. from \subseteq Bucket
    BY DEF Stored, IInv, CandlesTyped, ExchangeTable
  <2>2. IsFiniteSet(from)
    BY <2>1, BucketsAreFinite, FS_Subset
  <2>3. \A b \in from : b \in Nat
    BY <2>1, BucketsAreFinite
  <2> QED BY <2>1, <2>2, <2>3
<1> DEFINE Before(b) == {c \in from : c < b}
           A == {b \in from : Cardinality(Before(b)) < n}
<1>3. Asked(since) = A
  BY DEF Asked
<1>4. ASSUME NEW b PROVE IsFiniteSet(Before(b)) /\ Cardinality(Before(b)) \in Nat
  BY <1>2, FS_Subset, FS_CardinalityType
<1>5. IsFiniteSet(A) /\ Cardinality(A) \in Nat
  BY <1>2, FS_Subset, FS_CardinalityType
<1>6. ASSUME NEW b \in from, NEW c \in A, b <= c PROVE b \in A
  <2>1. Before(b) \subseteq Before(c)
    BY <1>2, <1>6
  <2>2. Cardinality(Before(b)) <= Cardinality(Before(c))
    BY <1>4, <2>1, FS_Subset
  <2> QED BY <1>4, <2>2
<1>7. ASSUME Cardinality(A) < n PROVE A = from
  <2>1. SUFFICES ASSUME from \ A # {} PROVE FALSE
    OBVIOUS
  <2>2. PICK b \in from \ A : \A c \in from \ A : b <= c
    <3>1. from \ A \subseteq Nat
      BY <1>2
    <3> QED BY <2>1, <3>1, LeastNatural
  <2>3. Before(b) \subseteq A
    BY <1>2, <2>2
  <2>4. Cardinality(Before(b)) <= Cardinality(A)
    BY <1>5, <2>3, FS_Subset
  <2>5. ~(Cardinality(Before(b)) < n)
    BY <2>2
  <2>6. Cardinality(Before(b)) \in Nat
    BY <1>4
  <2> HIDE DEF Before, A
  <2> QED BY <1>5, <1>7, <2>4, <2>5, <2>6
<1> HIDE DEF A
<1>8. A \subseteq from
  BY DEF A
<1> QED BY <1>3, <1>5, <1>6, <1>7, <1>8

-----------------------------------------------------------------------------
(***************************************************************************)
(* The download                                                            *)
(***************************************************************************)
IsDownload(d) ==
  d = [stage |-> d.stage, range |-> d.range, since |-> d.since, batch |-> d.batch, page |-> d.page]

(* The variables have their types, and a download that runs has a window   *)
(* and a batch.                                                            *)
Typed ==
  /\ TypeOK
  /\ IsDownload(download)
  /\ download.stage # "none" => download.range \in Window /\ download.batch \in Batch

(* The page that was fetched continues where the cursor stands, and skips  *)
(* no candle that is owed ...                                              *)
PageIsNext ==
  /\ \A b \in DOMAIN download.page : b >= download.since
  /\ \A b \in owed, c \in DOMAIN download.page :
       b >= download.since /\ b <= c => b \in DOMAIN download.page
  /\ Cardinality(DOMAIN download.page) < download.batch =>
       \A b \in owed : b >= download.since => b \in DOMAIN download.page

(* ... or the exchange ignored the cursor.                                 *)
PageIsOld == \A b \in DOMAIN download.page : b < download.since

(* What is owed and lies before the cursor has been stored.                *)
Passed == \A b \in owed : b < download.since => b \in Stored(candles)

Delivered ==
  /\ owed \subseteq Stored(exchange) /\ owed \subseteq InRange(download.range)
  /\ download.stage = "fetch" => Passed
  /\ download.stage = "store" =>
       Passed /\ DOMAIN download.page # {} /\ (PageIsNext \/ PageIsOld)
  /\ download.stage = "record" => owed \subseteq Stored(candles)

LEMMA RestingFacts ==
  ASSUME IInv
  PROVE  /\ \A b \in Stored(candles) : b \in Time /\ candles[b] # NoCandle
         /\ Stored(exchange) \subseteq Bucket
         /\ \A r : InRange(r) \subseteq Time
         /\ Bucket \subseteq Nat
<1>1. Bucket \subseteq Nat
  BY BucketsAreFinite, SizeAssumption
<1> QED BY <1>1 DEF Stored, InRange, IInv, CandlesTyped, ExchangeTable, CandleTable

(* Rows stay but for a cleanup.                                            *)
LEMMA InsertKeeps ==
  ASSUME candles \in CandleTable, NEW rows, candles' = Insert(rows), \A b \in DOMAIN rows : rows[b] \in Candle
  PROVE  /\ Stored(candles) \subseteq Stored(candles')
         /\ \A b \in Time : b \in DOMAIN rows => b \in Stored(candles')
<1>1. \A b \in Time : candles'[b] = IF candles[b] = NoCandle /\ b \in DOMAIN rows THEN rows[b]
                                      ELSE candles[b]
  BY DEF Insert
<1>2. DOMAIN candles = Time /\ DOMAIN candles' = Time
  BY DEF Insert, CandleTable
<1> QED BY <1>1, <1>2, CandleFacts DEF Stored

LEMMA WidenKeeps ==
  ASSUME NEW T, Bucket \subseteq T, NEW table \in [T -> Candle \cup {NoCandle}],
         NEW new, NEW p \in Price, now \in Time,
         new = [table EXCEPT ![BucketOf(now)] = Widen(@, p)]
  PROVE  Stored(table) \subseteq Stored(new)
<1>1. PICK k \in Bucket : k = BucketOf(now)
  BY BucketIsBucket
<1>2. table[k] \in Candle \cup {NoCandle} /\ k \in T
  BY <1>1
<1>3. Widen(table[k], p) # NoCandle
  BY <1>2, WidenFacts, CandleFacts
<1>4. PICK w : w = Widen(table[k], p)
  OBVIOUS
<1>5. new = [table EXCEPT ![k] = w]
  BY <1>1, <1>4
<1> QED BY <1>2, <1>3, <1>4, <1>5 DEF Stored

(* A step beside the download takes nothing from it that is still owed.    *)
LEMMA Beside ==
  ASSUME Delivered, download' = download, owed' \subseteq owed,
         Stored(exchange) \subseteq Stored(exchange'),
         \A b \in owed' : b \in Stored(candles) => b \in Stored(candles')
  PROVE  Delivered'
<1>1. PageIsNext => PageIsNext'
  BY DEF PageIsNext
<1>2. PageIsOld => PageIsOld'
  BY DEF PageIsOld
<1>3. Passed => Passed'
  BY DEF Passed
<1> QED BY <1>1, <1>2, <1>3 DEF Delivered

(* A download that rests owes nothing.                                     *)
LEMMA AtRest ==
  ASSUME download' = Resting, owed' = {}
  PROVE  /\ Delivered'
         /\ download'.stage = "none" /\ download'.range = NoRange /\ download'.since = 0
         /\ download'.batch = 0 /\ download'.page = NoPage /\ DOMAIN NoPage = {}
         /\ IsDownload(download')
<1>1. /\ download'.stage = "none" /\ download'.range = NoRange /\ download'.since = 0
      /\ download'.batch = 0 /\ download'.page = NoPage /\ DOMAIN NoPage = {}
  BY DEF Resting, NoPage
<1>2. IsDownload(download')
  BY DEF IsDownload, Resting
<1> QED BY <1>1, <1>2 DEF Delivered

LEMMA InitTyped == Init => Typed /\ Delivered
<1> SUFFICES ASSUME Init PROVE Typed /\ Delivered
  OBVIOUS
<1>2. /\ now \in Time /\ exchange \in ExchangeTable /\ candles \in CandleTable
      /\ seen \in [Bucket -> SUBSET Price]
  BY InitInv DEF IInv, CandlesTyped
<1>3. /\ download = Resting /\ owed = {} /\ file = NoPage /\ DOMAIN NoPage = {}
      /\ recorded = {} /\ memory = {} /\ price = 0 /\ latest = 0
      /\ result.stored = 0 /\ result.expected = 1
  BY DEF Init, NoPage
<1>4. /\ download.stage = "none" /\ download.range = NoRange /\ download.since = 0
      /\ download.batch = 0 /\ download.page = NoPage /\ IsDownload(download)
  BY <1>3 DEF Resting, IsDownload
<1>5. TypeOK
  BY <1>2, <1>3, <1>4 DEF TypeOK, ExchangeTable, CandleTable
<1>6. Delivered
  BY <1>3, <1>4 DEF Delivered
<1> QED BY <1>4, <1>5, <1>6 DEF Typed

(* The tables keep their types by TableStepInv and SourcesStep; the rest   *)
(* of the types is the download's and the statistics'.                     *)
DownloadTyped ==
  /\ recorded \subseteq Window /\ memory \subseteq Window
  /\ download.stage \in {"none", "fetch", "store", "record", "report"}
  /\ download.range \in Window \cup {NoRange} /\ download.since \in Nat
  /\ DOMAIN download.page \subseteq Bucket
  /\ result.stored \in Nat /\ result.expected \in Nat
  /\ DOMAIN file \subseteq Time
  /\ owed \subseteq Bucket
  /\ download.batch \in Batch \cup {0}
  /\ IsDownload(download)
  /\ download.stage # "none" => download.range \in Window /\ download.batch \in Batch

LEMMA TypesSplit == IInv => (Typed <=> DownloadTyped)
  BY DEF IInv, CandlesTyped, Typed, TypeOK, DownloadTyped, ExchangeTable, CandleTable

LEMMA DownloadTypedStep == ASSUME IInv, DownloadTyped, Delivered, [Next]_vars
  PROVE  DownloadTyped'
<1> USE DEF DownloadTyped
<1>b. /\ Bucket \subseteq Nat /\ \A r : InRange(r) \subseteq Time
      /\ Stored(exchange) \subseteq Bucket
  BY RestingFacts
<1>r. ASSUME download' = Resting, owed' = {},
             UNCHANGED <<recorded, result, file>>, memory' \subseteq Window
      PROVE  DownloadTyped'
  BY <1>r, AtRest
<1>u. ASSUME UNCHANGED <<download, recorded, memory, result>>, owed' \subseteq owed,
             DOMAIN file' \subseteq Time
      PROVE  DownloadTyped'
  BY <1>u
<1>1. CASE Tick \/ (\E p \in Price : Trade(p)) \/ (\E p \in Price : PersistLatest(p))
          \/ (\E rows \in Files \cup {file} : Import(rows))
  BY <1>1, <1>u DEF Tick, Trade, PersistLatest, Import
<1>2. ASSUME NEW cutoff \in Time, Cleanup(cutoff) PROVE DownloadTyped'
  BY <1>2, <1>u DEF Cleanup
<1>3. ASSUME NEW r \in Window, Export(r) PROVE DownloadTyped'
  <2>1. DOMAIN file' \subseteq Time
    BY <1>3, <1>b DEF Export
  <2> QED BY <1>3, <1>u, <2>1 DEF Export
<1>4. ASSUME NEW r \in Window, NEW n \in Batch, StartDownload(r, n) PROVE DownloadTyped'
  <2>1. PICK stage \in {"report", "fetch"} :
          download' = [stage |-> stage, range |-> r, since |-> r.start, batch |-> n,
                       page |-> NoPage]
    <3>1. PICK stage \in {"report", "fetch"} :
            download' = [Resting EXCEPT !.range = r, !.since = r.start, !.batch = n,
                                        !.stage = stage]
      BY <1>4 DEF StartDownload
    <3> QED BY <3>1 DEF Resting
  <2>2. /\ download'.stage = stage /\ download'.range = r /\ download'.since = r.start
        /\ download'.batch = n /\ download'.page = NoPage /\ DOMAIN NoPage = {}
        /\ IsDownload(download')
    BY <2>1 DEF NoPage, IsDownload
  <2>3. r.start \in Nat
    BY RangeAssumption
  <2>4. memory' \subseteq Window /\ owed' \subseteq Bucket /\ UNCHANGED <<recorded, result, file>>
    BY <1>4, <1>b DEF StartDownload
  <2> QED BY <2>2, <2>3, <2>4
<1>5. ASSUME NEW buckets \in SUBSET Bucket, Fetch(buckets) \/ FetchShort(buckets)
      PROVE  DownloadTyped'
  <2>1. PICK page : page = [b \in buckets |-> exchange[b]]
    OBVIOUS
  <2>2. PICK stage \in {"record", "store"} :
          download' = [stage |-> stage, range |-> download.range, since |-> download.since,
                       batch |-> download.batch, page |-> page]
    <3>1. PICK stage \in {"record", "store"} :
            download' = [download EXCEPT !.page = page, !.stage = stage]
      BY <1>5, <2>1 DEF Fetch, FetchShort, Receive
    <3> QED BY <3>1 DEF IsDownload
  <2>3. /\ download'.stage = stage /\ download'.range = download.range
        /\ download'.since = download.since /\ download'.batch = download.batch
        /\ download'.page = page /\ IsDownload(download')
    BY <2>2 DEF IsDownload
  <2>4. /\ download.stage = "fetch" /\ UNCHANGED <<recorded, memory, result, file>>
        /\ owed' \subseteq owed
    BY <1>5 DEF Fetch, FetchShort, Receive
  <2> QED BY <2>1, <2>3, <2>4
<1>6. CASE Store
  <2>1. PICK last : last = Max(DOMAIN download.page)
    OBVIOUS
  <2>2. CASE last < download.since
    BY <1>6, <1>r, <2>1, <2>2 DEF Store
  <2>3. CASE ~(last < download.since)
    <3>1. PICK stage \in {"record", "fetch"} :
            download' = [download EXCEPT !.page = NoPage, !.since = last + 1, !.stage = stage]
      BY <1>6, <2>1, <2>3 DEF Store, NextSince
    <3>2. download' = [stage |-> stage, range |-> download.range, since |-> last + 1,
                       batch |-> download.batch, page |-> NoPage]
      BY <3>1 DEF IsDownload
    <3>3. /\ download'.stage = stage /\ download'.range = download.range
          /\ download'.since = last + 1 /\ download'.batch = download.batch
          /\ download'.page = NoPage /\ DOMAIN NoPage = {} /\ IsDownload(download')
      BY <3>2 DEF NoPage, IsDownload
    <3>4. download.stage = "store" /\ UNCHANGED <<recorded, memory, result, file, owed>>
      BY <1>6, <2>1, <2>3 DEF Store
    <3>5. last + 1 \in Nat
      <4>1. DOMAIN download.page # {}
        BY <3>4 DEF Delivered
      <4>2. DOMAIN download.page \subseteq 0..Horizon /\ Horizon \in Nat
        BY BucketsAreFinite, SizeAssumption
      <4>3. last \in DOMAIN download.page
        BY <2>1, <4>1, <4>2, GreatestNatural
      <4>4. last \in Nat
        BY <4>2, <4>3
      <4> QED BY <4>4
    <3> QED BY <3>3, <3>4, <3>5
  <2> QED BY <2>2, <2>3
<1>7. CASE Record
  <2>1. download' = [download EXCEPT !.stage = "report"]
    BY <1>7 DEF Record
  <2>2. download' = [stage |-> "report", range |-> download.range, since |-> download.since,
                     batch |-> download.batch, page |-> download.page]
    BY <2>1 DEF IsDownload
  <2>3. /\ download'.stage = "report" /\ download'.range = download.range
        /\ download'.since = download.since /\ download'.batch = download.batch
        /\ download'.page = download.page /\ IsDownload(download')
    BY <2>2 DEF IsDownload
  <2>4. download.range \in Window /\ download.batch \in Batch
    BY <1>7 DEF Record
  <2> QED BY <1>7, <2>3, <2>4 DEF Record
<1>8. CASE Report
  <2>1. /\ download' = Resting /\ owed' = {} /\ UNCHANGED <<recorded, memory, file>>
        /\ download.range \in Window
        /\ result'.stored = Cardinality(Stored(candles) \cap InRange(download.range))
        /\ result'.expected = Expected(download.range)
    BY <1>8 DEF Report
  <2>2. result'.stored \in Nat /\ result'.expected \in Nat
    BY <2>1, CoverageOf, WindowHolds
  <2> QED BY <2>1, <2>2, AtRest
<1>9. CASE DiskFault \/ PageFault \/ Restart
  BY <1>9, <1>r DEF DiskFault, PageFault, Restart, Stop
<1>10. CASE UNCHANGED vars
  BY <1>10, <1>u DEF vars
<1> QED BY <1>1, <1>2, <1>3, <1>4, <1>5, <1>6, <1>7, <1>8, <1>9, <1>10 DEF Next

(* What the exchange was asked for skips nothing that is owed.             *)
LEMMA FetchedIsNext ==
  ASSUME IInv, download.since \in Nat, download.batch \in Nat, owed \subseteq Stored(exchange),
         Stored(exchange) \subseteq Nat
  PROVE  LET page == Asked(download.since)
         IN  /\ \A b \in page : b >= download.since
             /\ \A b \in owed, c \in page : b >= download.since /\ b <= c => b \in page
             /\ Cardinality(page) < download.batch => \A b \in owed : b >= download.since => b \in page
<1>1. PICK page : page = Asked(download.since)
  OBVIOUS
<1>2. PICK from : from = {b \in Stored(exchange) : b >= download.since}
  OBVIOUS
<1>3. /\ page \subseteq from
      /\ \A b \in from, c \in page : b <= c => b \in page
      /\ Cardinality(page) < download.batch => page = from
  BY <1>1, <1>2, AnswerFacts
<1>4. \A b \in owed : b >= download.since => b \in from
  BY <1>2
<1>5. \A b \in from : b >= download.since
  BY <1>2
<1> QED BY <1>1, <1>3, <1>4, <1>5

(* A page is stored: what is owed up to its last candle is in the table,   *)
(* and when the loop ends there, all that is owed.                         *)
LEMMA StoredUpTo ==
  ASSUME IInv, TypeOK, Delivered, download.stage = "store",
         NEW last, last = Max(DOMAIN download.page), ~(last < download.since),
         candles' = Insert(Restrict(download.page, DOMAIN download.page \cap InRange(download.range)))
  PROVE  /\ Stored(candles) \subseteq Stored(candles')
         /\ \A b \in owed : b < last + 1 => b \in Stored(candles')
         /\ PageEnds(last) => owed \subseteq Stored(candles')
<1> DEFINE P == DOMAIN download.page
           rows == Restrict(download.page, P \cap InRange(download.range))
<1>1. /\ Passed /\ P # {} /\ (PageIsNext \/ PageIsOld)
      /\ owed \subseteq Stored(exchange) /\ owed \subseteq InRange(download.range)
  BY DEF Delivered
<1>2. P \subseteq Bucket /\ Bucket \subseteq 0..Horizon /\ Horizon \in Nat /\ download.since \in Nat
  BY BucketsAreFinite, SizeAssumption DEF TypeOK
<1>3. last \in P /\ last \in Nat /\ \A b \in P : b \in Nat /\ b <= last
  <2>1. last \in P /\ \A b \in P : b <= last
    BY <1>1, <1>2, GreatestNatural
  <2>2. \A b \in P : b \in Nat
    <3>1. \A b \in 0..Horizon : b \in Nat
      OBVIOUS
    <3> QED BY <1>2, <3>1
  <2> QED BY <2>1, <2>2
<1>4. PageIsNext
  <2>1. ~PageIsOld
    BY <1>3 DEF PageIsOld
  <2> QED BY <1>1, <2>1
<1>5. DOMAIN rows = P \cap InRange(download.range) /\ \A b \in DOMAIN rows : rows[b] \in Candle
  BY DEF Restrict, IInv, CandlesTyped
<1>6. /\ Stored(candles) \subseteq Stored(candles')
      /\ \A b \in Time : b \in DOMAIN rows => b \in Stored(candles')
  <2>1. candles' = Insert(rows) /\ candles \in CandleTable
    BY DEF IInv, CandlesTyped
  <2> HIDE DEF rows
  <2> QED BY <1>5, <2>1, InsertKeeps
<1>7. \A b \in owed : b \in Bucket /\ b \in Nat /\ b \in Time
  BY <1>1, RestingFacts, BucketsAreTimes
<1>8. ASSUME NEW b \in owed, b < download.since PROVE b \in Stored(candles')
  BY <1>1, <1>6, <1>8 DEF Passed
<1>9. ASSUME NEW b \in owed, b \in P PROVE b \in Stored(candles')
  BY <1>1, <1>5, <1>6, <1>7, <1>9
<1>10. ASSUME NEW b \in owed, b < last + 1 PROVE b \in Stored(candles')
  <2>1. b <= last
    BY <1>3, <1>7, <1>10
  <2>2. b >= download.since => b \in P
    BY <1>3, <1>4, <2>1 DEF PageIsNext
  <2> QED BY <1>2, <1>7, <1>8, <1>9, <2>2
<1>11. ASSUME PageEnds(last), NEW b \in owed PROVE b \in Stored(candles')
  <2>1. CASE Cardinality(DOMAIN download.page) < download.batch
    <3>1. b >= download.since => b \in P
      BY <1>4, <2>1 DEF PageIsNext
    <3> QED BY <1>2, <1>7, <1>8, <1>9, <3>1
  <2>2. CASE last + 1 > download.range.end
    <3>1. b <= download.range.end
      BY <1>1 DEF InRange
    <3>2. last \in Nat
      BY <1>3
    <3>3. download.range.end \in Int
      BY RangeAssumption DEF TypeOK, NoRange
    <3>4. b < last + 1
      BY <1>7, <2>2, <3>1, <3>2, <3>3
    <3> QED BY <1>10, <3>4
  <2> QED BY <1>11, <2>1, <2>2 DEF PageEnds, NextSince
<1> QED BY <1>6, <1>10, <1>11

LEMMA DeliveredStep ==
  ASSUME IInv, Typed, Delivered, [Next]_vars
  PROVE  Delivered'
<1>t. TypeOK
  BY DEF Typed
<1>b. /\ Bucket \subseteq Nat /\ \A r : InRange(r) \subseteq Time
      /\ Stored(exchange) \subseteq Bucket /\ Time \subseteq Nat
  BY RestingFacts, SizeAssumption DEF Time
<1>d. candles \in CandleTable /\ exchange \in ExchangeTable
  BY DEF IInv, CandlesTyped
<1>1. CASE Tick \/ (\E r \in Window : Export(r))
  BY <1>1, Beside DEF Tick, Export, market
<1>2. ASSUME NEW p \in Price, Trade(p) PROVE Delivered'
  <2>1. Stored(exchange) \subseteq Stored(exchange')
    BY <1>2, <1>t, <1>d, WidenKeeps DEF Trade, TypeOK, ExchangeTable
  <2> QED BY <1>2, <2>1, Beside DEF Trade
<1>3. ASSUME NEW p \in Price, PersistLatest(p) PROVE Delivered'
  <2>1. Stored(candles) \subseteq Stored(candles')
    <3>1. candles' = [candles EXCEPT ![BucketOf(now)] = Widen(@, p)]
      BY <1>3 DEF PersistLatest, PersistCandle
    <3>2. candles \in [Time -> Candle \cup {NoCandle}] /\ now \in Time
      BY <1>t, <1>d DEF CandleTable, TypeOK
    <3> QED BY <3>1, <3>2, WidenKeeps, BucketsAreTimes
  <2> QED BY <1>3, <2>1, Beside DEF PersistLatest, market
<1>4. ASSUME NEW cutoff \in Time, Cleanup(cutoff) PROVE Delivered'
  <2>1. /\ owed' \subseteq owed /\ \A b \in owed' : b >= cutoff
        /\ download' = download /\ exchange' = exchange
        /\ candles' = [t \in Time |-> IF t < cutoff THEN NoCandle ELSE candles[t]]
    BY <1>4 DEF Cleanup, market
  <2>2. cutoff \in Nat
    BY SizeAssumption DEF Time
  <2>3. ASSUME NEW b \in owed', b \in Stored(candles) PROVE b \in Stored(candles')
    <3>1. b \in Time /\ candles[b] # NoCandle /\ b >= cutoff /\ b \in Nat
      BY <1>b, <1>d, <2>1, <2>3 DEF Stored, CandleTable
    <3>2. ~(b < cutoff)
      BY <2>2, <3>1
    <3>3. candles'[b] = candles[b]
      BY <2>1, <3>1, <3>2
    <3> QED BY <2>1, <3>1, <3>3 DEF Stored
  <2> QED BY <2>1, <2>3, Beside
<1>5. ASSUME NEW rows \in Files \cup {file}, Import(rows) PROVE Delivered'
  <2>1. candles' = Insert(rows) /\ \A b \in DOMAIN rows : rows[b] \in Candle
    BY <1>5, FilesAssumption DEF Import, IInv, CandlesTyped
  <2>2. Stored(candles) \subseteq Stored(candles')
    BY <1>d, <2>1, InsertKeeps
  <2> QED BY <1>5, <2>2, Beside DEF Import, market
<1>6. ASSUME NEW r \in Window, NEW n \in Batch, StartDownload(r, n) PROVE Delivered'
  <2>1. /\ UNCHANGED <<exchange, candles>>
        /\ \/ /\ owed' = {}
              /\ download' = [Resting EXCEPT !.range = r, !.since = r.start, !.batch = n,
                                                   !.stage = "report"]
           \/ /\ owed' = Stored(exchange) \cap InRange(r)
              /\ download' = [Resting EXCEPT !.range = r, !.since = r.start, !.batch = n,
                                                   !.stage = "fetch"]
    BY <1>6 DEF StartDownload, market
  <2>2. CASE /\ owed' = {}
             /\ download' = [Resting EXCEPT !.range = r, !.since = r.start, !.batch = n,
                                                   !.stage = "report"]
    <3>1. download'.stage = "report"
      BY <2>2 DEF Resting
    <3> QED BY <2>2, <3>1 DEF Delivered
  <2>3. CASE /\ owed' = Stored(exchange) \cap InRange(r)
             /\ download' = [Resting EXCEPT !.range = r, !.since = r.start, !.batch = n,
                                                   !.stage = "fetch"]
    <3>1. download'.stage = "fetch" /\ download'.range = r /\ download'.since = r.start
      BY <2>3 DEF Resting
    <3>2. \A b \in owed' : ~(b < r.start)
      <4>1. ASSUME NEW b \in owed' PROVE ~(b < r.start)
        <5>1. b \in Nat /\ r.start <= b
          BY <1>b, <2>3 DEF InRange
        <5> QED BY <5>1, RangeAssumption
      <4> QED BY <4>1
    <3>3. Passed'
      BY <3>1, <3>2 DEF Passed
    <3>4. owed' \subseteq Stored(exchange') /\ owed' \subseteq InRange(download'.range)
      BY <2>1, <2>3, <3>1
    <3> QED BY <3>1, <3>3, <3>4 DEF Delivered
  <2> QED BY <2>1, <2>2, <2>3
<1>7. ASSUME NEW buckets \in SUBSET Bucket, Fetch(buckets) \/ FetchShort(buckets)
      PROVE  Delivered'
  <2>1. PICK page : page = [b \in buckets |-> exchange[b]]
    OBVIOUS
  <2>2. /\ UNCHANGED <<exchange, candles>> /\ download.stage = "fetch"
        /\ download' = [download EXCEPT !.page = page,
                                        !.stage = IF buckets = {} THEN "record" ELSE "store"]
        /\ \/ buckets = Asked(download.since) /\ owed' = owed
           \/ /\ buckets # {} /\ buckets = {b \in Stored(exchange) : b < download.since}
              /\ owed' = owed
           \/ /\ buckets \subseteq Asked(download.since)
              /\ owed' = {b \in owed : b < download.since \/ b \in buckets}
    BY <1>7, <2>1 DEF Fetch, FetchShort, Receive, market
  <2>3. /\ download'.range = download.range /\ download'.since = download.since
        /\ download'.batch = download.batch
        /\ download'.page = page /\ DOMAIN download'.page = buckets
        /\ download'.stage = IF buckets = {} THEN "record" ELSE "store"
    <3>1. download' = [stage |-> IF buckets = {} THEN "record" ELSE "store",
                       range |-> download.range, since |-> download.since,
                       batch |-> download.batch, page |-> page]
      BY <2>2 DEF Typed, IsDownload
    <3> QED BY <2>1, <3>1
  <2>4. /\ owed \subseteq Stored(exchange) /\ owed \subseteq InRange(download.range) /\ Passed
        /\ download.since \in Nat /\ download.batch \in Nat \ {0}
        /\ owed' \subseteq owed
    BY <1>t, <2>2, SizeAssumption DEF Delivered, TypeOK, Typed
  <2>5. /\ owed' \subseteq Stored(exchange') /\ owed' \subseteq InRange(download'.range) /\ Passed'
    BY <2>2, <2>3, <2>4 DEF Passed
  <2>6. CASE \/ buckets = Asked(download.since) /\ owed' = owed
             \/ /\ buckets \subseteq Asked(download.since)
                /\ owed' = {b \in owed : b < download.since \/ b \in buckets}
    <3>0. Asked(download.since) \subseteq {b \in Stored(exchange) : b >= download.since}
      BY DEF Asked
    <3>1. /\ \A b \in buckets : b >= download.since
          /\ \A b \in owed', c \in buckets : b >= download.since /\ b <= c => b \in buckets
          /\ Cardinality(buckets) < download.batch =>
               \A b \in owed' : b >= download.since => b \in buckets
      <4>1. Stored(exchange) \subseteq Nat
        BY <1>b
      <4>2. CASE buckets = Asked(download.since) /\ owed' = owed
        BY <2>4, <4>1, <4>2, FetchedIsNext
      <4>3. CASE owed' = {b \in owed : b < download.since \/ b \in buckets}
        <5>1. \A b \in owed' : b \in Nat /\ (b < download.since \/ b \in buckets)
          BY <2>4, <4>1, <4>3
        <5>2. \A b \in owed' : b >= download.since => b \in buckets
          BY <2>4, <5>1
        <5> QED BY <2>6, <3>0, <5>2
      <4> QED BY <2>6, <4>2, <4>3
    <3>2. CASE buckets = {}
      <4>1. Cardinality(buckets) < download.batch
        BY <2>4, <3>2, FS_EmptySet
      <4>2. \A b \in owed' : b < download.since
        <5>1. \A b \in owed' : b \in Nat /\ ~(b >= download.since)
          BY <1>b, <2>4, <3>1, <3>2, <4>1
        <5> QED BY <2>4, <5>1
      <4>3. owed' \subseteq Stored(candles')
        BY <2>2, <2>4, <4>2 DEF Passed
      <4>4. download'.stage = "record"
        BY <2>3, <3>2
      <4> QED BY <2>5, <4>3, <4>4 DEF Delivered
    <3>3. CASE buckets # {}
      <4>1. PageIsNext'
        BY <2>2, <2>3, <3>1 DEF PageIsNext
      <4>2. download'.stage = "store" /\ DOMAIN download'.page # {}
        BY <2>3, <3>3
      <4> QED BY <2>5, <4>1, <4>2 DEF Delivered
    <3> QED BY <3>2, <3>3
  <2>7. CASE buckets # {} /\ buckets = {b \in Stored(exchange) : b < download.since}
    <3>1. PageIsOld'
      BY <2>3, <2>7 DEF PageIsOld
    <3>2. download'.stage = "store" /\ DOMAIN download'.page # {}
      BY <2>3, <2>7
    <3> QED BY <2>5, <3>1, <3>2 DEF Delivered
  <2> QED BY <2>2, <2>6, <2>7
<1>8. CASE Store
  <2>1. PICK last : last = Max(DOMAIN download.page)
    OBVIOUS
  <2>2. CASE last < download.since
    BY <1>8, <2>1, <2>2, AtRest DEF Store
  <2>3. CASE ~(last < download.since)
    <3>1. /\ UNCHANGED <<exchange, owed>> /\ download.stage = "store"
          /\ candles' = Insert(Restrict(download.page,
                                        DOMAIN download.page \cap InRange(download.range)))
          /\ download' = [download EXCEPT !.page = NoPage, !.since = last + 1,
                                          !.stage = IF PageEnds(last) THEN "record" ELSE "fetch"]
      BY <1>8, <2>1, <2>3 DEF Store, NextSince, market
    <3>2. /\ \A b \in owed : b < last + 1 => b \in Stored(candles')
          /\ PageEnds(last) => owed \subseteq Stored(candles')
      BY <1>t, <2>1, <2>3, <3>1, StoredUpTo
    <3>3. /\ download'.range = download.range /\ download'.since = last + 1
          /\ download'.stage = IF PageEnds(last) THEN "record" ELSE "fetch"
      <4>1. download' = [stage |-> IF PageEnds(last) THEN "record" ELSE "fetch",
                         range |-> download.range, since |-> last + 1,
                         batch |-> download.batch, page |-> NoPage]
        BY <3>1 DEF Typed, IsDownload
      <4> QED BY <4>1
    <3>4. owed' \subseteq Stored(exchange') /\ owed' \subseteq InRange(download'.range)
      BY <3>1, <3>3 DEF Delivered
    <3>5. CASE PageEnds(last)
      BY <3>1, <3>2, <3>3, <3>4, <3>5 DEF Delivered
    <3>6. CASE ~PageEnds(last)
      <4>1. Passed'
        BY <3>1, <3>2, <3>3 DEF Passed
      <4> QED BY <3>3, <3>4, <3>6, <4>1 DEF Delivered
    <3> QED BY <3>5, <3>6
  <2> QED BY <2>2, <2>3
<1>9. CASE Record
  <2>1. /\ UNCHANGED <<exchange, candles, owed>>
        /\ download' = [download EXCEPT !.stage = "report"]
    BY <1>9 DEF Record, market
  <2>2. download'.stage = "report" /\ download'.range = download.range
    <3>1. download' = [stage |-> "report", range |-> download.range, since |-> download.since,
                       batch |-> download.batch, page |-> download.page]
      BY <2>1 DEF Typed, IsDownload
    <3> QED BY <3>1
  <2> QED BY <2>1, <2>2 DEF Delivered
<1>10. CASE Report \/ DiskFault \/ PageFault \/ Restart
  BY <1>10, AtRest DEF Report, DiskFault, PageFault, Restart, Stop
<1>11. CASE UNCHANGED vars
  BY <1>11, Beside DEF vars, market
<1> QED BY <1>1, <1>2, <1>3, <1>4, <1>5, <1>6, <1>7, <1>8, <1>9, <1>10, <1>11 DEF Next

(* The types of the tables and of the download, and what the download      *)
(* still owes, hold together in every state, whatever the size of a page   *)
(* (batch_size) and whatever the exchange leaves out of one.               *)
THEOREM DownloadInductive == Spec => [](IInv /\ Typed /\ Delivered)
<1>1. Init => IInv /\ Typed /\ Delivered
  BY InitInv, InitTyped
<1>2. IInv /\ Typed /\ Delivered /\ [Next]_vars => (IInv /\ Typed /\ Delivered)'
  <2> SUFFICES ASSUME IInv, Typed, Delivered, [Next]_vars PROVE (IInv /\ Typed /\ Delivered)'
    OBVIOUS
  <2>1. IInv'
    BY StepInv
  <2>2. DownloadTyped'
    BY TypesSplit, DownloadTypedStep
  <2>3. IInv' => (Typed' <=> DownloadTyped')
    BY TypesSplit, PTL
  <2>4. Delivered'
    BY DeliveredStep
  <2> QED BY <2>1, <2>2, <2>3, <2>4
<1> QED BY <1>1, <1>2, PTL DEF Spec

(* What the storage says of itself is true (download_and_store,            *)
(* _record_cached_range and fetch_candle_window_stats): a range enters the *)
(* cache only when the table has every candle of it that the exchange had  *)
(* when the download started and did not leave out, and the statistics     *)
(* exceed what is expected of the window by rows off the grid only, and    *)
(* fall short of it in a complete window by one at most.                   *)
THEOREM HonestStorage == Spec => StorageIsHonest
<1>1. Spec => [](IInv /\ Typed /\ Delivered)
  BY DownloadInductive
<1>2. ASSUME IInv, Typed, Delivered, (IInv /\ Typed)', [Next]_vars
      PROVE  [ /\ (TypeOK /\ MemoryIsBacked)'
               /\ RecordedWhenComplete /\ CoverageIsExplained ]_vars
  <2>1. (TypeOK /\ MemoryIsBacked)'
    BY <1>2 DEF IInv, Typed
  <2>2. RecordedWhenComplete
    <3>1. SUFFICES ASSUME recorded' # recorded PROVE owed \subseteq Stored(candles)
      BY DEF RecordedWhenComplete
    <3>2. Record
      BY <1>2, <3>1 DEF Next, vars, counters, market, Tick, Trade, PersistLatest, Cleanup, Export,
         Import, StartDownload, Fetch, FetchShort, Receive, Store, Report, DiskFault, PageFault,
         Restart, Stop
    <3> QED BY <1>2, <3>2 DEF Record, Delivered
  <2>3. CoverageIsExplained
    <3>1. SUFFICES ASSUME result' # result PROVE CoverageIsExplained
      BY DEF CoverageIsExplained
    <3>2. Report
      BY <1>2, <3>1 DEF Next, vars, counters, market, Tick, Trade, PersistLatest, Cleanup, Export,
         Import, StartDownload, Fetch, FetchShort, Receive, Store, Record, DiskFault, PageFault,
         Restart, Stop
    <3>3. PICK r \in Window : r = download.range
      BY <1>2, <3>2 DEF Report, Typed
    <3>4. PICK inside : inside = Stored(candles) \cap InRange(r)
      OBVIOUS
    <3>5. /\ result'.range = r /\ result'.expected = Expected(r)
          /\ result'.stored = Cardinality(inside)
      BY <3>2, <3>3, <3>4 DEF Report
    <3>6. /\ Cardinality(inside) <= Expected(r) + Cardinality(inside \ Bucket)
          /\ Buckets(r) \subseteq inside /\ r.end \in Time
               => Cardinality(inside) + 1 >= Expected(r)
      BY <3>4, CoverageOf
    <3> QED BY <3>4, <3>5, <3>6 DEF CoverageIsExplained, Buckets
  <2> QED BY <2>1, <2>2, <2>3
<1> QED BY <1>1, <1>2, PTL DEF Spec, StorageIsHonest

-----------------------------------------------------------------------------
(***************************************************************************)
(* Loops over a list                                                       *)
(***************************************************************************)
(* The step of a loop that carries a member of S over a list of Es.        *)
Carries(f, S, E) == f \in [S -> [E -> S]]

(* The table g of what a loop carried, up to the first m items.            *)
IsTable(g, f, base, list, m) ==
  g = [n \in 0..m |-> IF n = 0 THEN <<base>>
                      ELSE Append(g[n - 1], f[g[n - 1][n]][list[n]])]

LEMMA TableValue ==
  ASSUME NEW g, NEW f, NEW base, NEW list, NEW m \in Nat, IsTable(g, f, base, list, m),
         NEW n \in 0..m
  PROVE  g[n] = IF n = 0 THEN <<base>> ELSE Append(g[n - 1], f[g[n - 1][n]][list[n]])
<1>1. g = [k \in 0..m |-> IF k = 0 THEN <<base>>
                          ELSE Append(g[k - 1], f[g[k - 1][k]][list[k]])]
  BY DEF IsTable
<1> QED BY <1>1

(* The table of what a loop carried exists, for a list of any length.      *)
LEMMA TableExists ==
  ASSUME NEW f, NEW base, NEW list, NEW m \in Nat
  PROVE  \E g : IsTable(g, f, base, list, m)
<1> DEFINE T == {k \in 0..m : ~ \E g : IsTable(g, f, base, list, k)}
<1>1. SUFFICES ASSUME T # {} PROVE FALSE
  OBVIOUS
<1>2. PICK k \in T : \A l \in T : k <= l
  <2>1. T \subseteq Nat
    OBVIOUS
  <2> HIDE DEF T
  <2> QED BY <1>1, <2>1, LeastNatural
<1>3. CASE k = 0
  <2> DEFINE h == [n \in 0..0 |-> <<base>>]
  <2>1. h = [n \in 0..0 |-> IF n = 0 THEN <<base>>
                            ELSE Append(h[n - 1], f[h[n - 1][n]][list[n]])]
    OBVIOUS
  <2> HIDE DEF h
  <2>2. IsTable(h, f, base, list, 0)
    BY <2>1 DEF IsTable
  <2> QED BY <1>3, <2>2
<1>4. CASE k # 0
  <2>1. k - 1 \in 0..m /\ k - 1 \notin T /\ k - 1 \in Nat
    BY <1>2, <1>4
  <2>2. PICK g : IsTable(g, f, base, list, k - 1)
    BY <2>1
  <2>3. PICK x : x = Append(g[k - 1], f[g[k - 1][k]][list[k]])
    OBVIOUS
  <2> DEFINE h == [n \in 0..k |-> IF n = k THEN x ELSE g[n]]
             Item(n) == IF n = 0 THEN <<base>> ELSE Append(h[n - 1], f[h[n - 1][n]][list[n]])
  <2>4. \A n \in 0..k : h[n] = Item(n)
    <3>1. ASSUME NEW n \in 0..k, n = k PROVE h[n] = Item(n)
      <4>1. h[k] = x /\ h[k - 1] = g[k - 1]
        BY <2>1
      <4> HIDE DEF h
      <4> QED BY <1>4, <2>3, <3>1, <4>1
    <3>2. ASSUME NEW n \in 0..k, n # k PROVE h[n] = Item(n)
      <4>1. n \in 0..(k - 1)
        BY <3>2
      <4>2. g[n] = IF n = 0 THEN <<base>> ELSE Append(g[n - 1], f[g[n - 1][n]][list[n]])
        <5> HIDE DEF h, Item, T
        <5> QED BY <2>1, <2>2, <4>1, TableValue
      <4>3. h[n] = g[n] /\ (n # 0 => h[n - 1] = g[n - 1])
        BY <3>2, <4>1
      <4> HIDE DEF h
      <4> QED BY <4>2, <4>3
    <3> HIDE DEF h
    <3> QED BY <3>1, <3>2
  <2>5. h = [n \in 0..k |-> h[n]]
    OBVIOUS
  <2> HIDE DEF h
  <2>6. h = [n \in 0..k |-> Item(n)]
    BY <2>4, <2>5
  <2>7. IsTable(h, f, base, list, k)
    BY <2>6 DEF IsTable
  <2> QED BY <2>7
<1> QED BY <1>3, <1>4

(* The list r of a loop over m items: its first is base, and each other is *)
(* the one before and the item put together.                               *)
Steps(r, f, base, list, m) ==
  /\ r[1] = base
  /\ \A n \in 1..m : r[n + 1] = f[r[n]][list[n]]

(* What a loop carried starts with its base, and each item of the list is  *)
(* put together with what was carried before it.                           *)
LEMMA RunningIs ==
  ASSUME NEW S, NEW E, NEW f, Carries(f, S, E), NEW base \in S, NEW list \in Seq(E)
  PROVE  /\ Running(f, base, list) \in Seq(S)
         /\ Len(Running(f, base, list)) = Len(list) + 1
         /\ Steps(Running(f, base, list), f, base, list, Len(list))
<1>1. PICK m \in Nat : m = Len(list)
  OBVIOUS
<1>2. \A n \in 1..m : list[n] \in E
  BY <1>1
<1>3. PICK g : IsTable(g, f, base, list, m) /\ Running(f, base, list) = g[m]
  <2>1. Running(f, base, list) = (CHOOSE g : IsTable(g, f, base, list, Len(list)))[Len(list)]
    BY DEF Running, IsTable
  <2> QED BY <1>1, <2>1, TableExists
<1>0. \A n \in 0..m :
        g[n] = IF n = 0 THEN <<base>> ELSE Append(g[n - 1], f[g[n - 1][n]][list[n]])
  BY <1>3 DEF IsTable
<1> DEFINE Good(n) == /\ g[n] \in Seq(S) /\ Len(g[n]) = n + 1 /\ g[n][1] = base
                      /\ \A k \in 1..n : g[n][k + 1] = f[g[n][k]][list[k]]
           T == {n \in 0..m : ~Good(n)}
<1>4. T = {}
  <2>1. SUFFICES ASSUME T # {} PROVE FALSE
    OBVIOUS
  <2>2. PICK k \in T : \A l \in T : k <= l
    <3>1. T \subseteq Nat
      OBVIOUS
    <3> HIDE DEF T
    <3> QED BY <2>1, <3>1, LeastNatural
  <2>3. CASE k = 0
    <3>1. g[0] = <<base>>
      <4>1. 0 \in 0..m
        OBVIOUS
      <4> QED BY <1>3, <4>1, TableValue
    <3>2. <<base>> \in Seq(S) /\ Len(<<base>>) = 1 /\ <<base>>[1] = base
      OBVIOUS
    <3>3. Good(0)
      BY <3>1, <3>2
    <3> QED BY <2>3, <3>3
  <2>4. CASE k # 0
    <3>1. k \in 1..m /\ k - 1 \in 0..m /\ k - 1 \notin T
      BY <2>2, <2>4
    <3>2. Good(k - 1)
      BY <3>1
    <3>3. PICK s : s = g[k - 1]
      OBVIOUS
    <3>4. /\ s \in Seq(S) /\ Len(s) = k /\ s[1] = base
          /\ \A l \in 1..(k - 1) : s[l + 1] = f[s[l]][list[l]]
      BY <3>1, <3>2, <3>3
    <3> HIDE DEF T, Good
    <3>5. PICK x : x = f[s[k]][list[k]]
      OBVIOUS
    <3>6. s[k] \in S /\ list[k] \in E
      BY <1>2, <3>1, <3>4
    <3>7. x \in S
      BY <3>5, <3>6 DEF Carries
    <3>8. g[k] = Append(s, x)
      <4>1. k \in 0..m /\ k # 0
        BY <3>1
      <4>2. g[k] = Append(g[k - 1], f[g[k - 1][k]][list[k]])
        BY <1>0, <4>1
      <4> QED BY <3>3, <3>5, <4>2
    <3>9. Append(s, x) \in Seq(S)
      BY <3>4, <3>7, AppendProperties
    <3>10. Len(Append(s, x)) = k + 1
      BY <3>4, <3>7, AppendProperties
    <3>11. \A l \in 1..k : Append(s, x)[l] = s[l]
      BY <3>4, <3>7, AppendProperties
    <3>12. Append(s, x)[k + 1] = x
      BY <3>4, <3>7, AppendProperties
    <3>13. ASSUME NEW l \in 1..k PROVE Append(s, x)[l + 1] = f[Append(s, x)[l]][list[l]]
      <4>1. CASE l = k
        BY <3>5, <3>11, <3>12, <4>1
      <4>2. CASE l # k
        <5>1. l \in 1..(k - 1) /\ l + 1 \in 1..k
          BY <3>1, <4>2
        <5> QED BY <3>4, <3>11, <5>1
      <4> QED BY <4>1, <4>2
    <3>14. Append(s, x)[1] = base
      BY <3>1, <3>4, <3>11
    <3>15. Good(k)
      BY <3>8, <3>9, <3>10, <3>13, <3>14 DEF Good
    <3> QED BY <2>2, <3>15 DEF T
  <2> QED BY <2>3, <2>4
<1>5. Good(m)
  <2>1. m \in 0..m
    OBVIOUS
  <2> HIDE DEF Good
  <2>2. m \notin T
    <3> HIDE DEF T
    <3> QED BY <1>4
  <2> QED BY <2>1, <2>2
<1> QED BY <1>1, <1>3, <1>5 DEF Steps

(* Loops over lists that begin alike carry the same as far as that goes.   *)
LEMMA StepsAgree ==
  ASSUME NEW r, NEW s, NEW f, NEW base, NEW list, NEW other, NEW m \in Nat, NEW k \in Nat,
         Steps(r, f, base, list, m), Steps(s, f, base, other, k),
         NEW n \in Nat, n <= m, n <= k, \A i \in 1..n : list[i] = other[i]
  PROVE  r[n + 1] = s[n + 1]
<1> DEFINE T == {i \in 0..n : r[i + 1] # s[i + 1]}
<1>1. SUFFICES ASSUME T # {} PROVE FALSE
  <2>1. n \in 0..n
    OBVIOUS
  <2>2. n \notin T => r[n + 1] = s[n + 1]
    BY <2>1
  <2> QED BY <2>2
<1>2. PICK i \in T : \A l \in T : i <= l
  <2>1. T \subseteq Nat
    OBVIOUS
  <2> HIDE DEF T
  <2> QED BY <1>1, <2>1, LeastNatural
<1>3. i \in 0..n /\ r[i + 1] # s[i + 1]
  OBVIOUS
<1>4. i # 0
  BY <1>3 DEF Steps
<1>5. i \in 1..m /\ i \in 1..k /\ i \in 1..n
  BY <1>3, <1>4
<1>6. r[i] = s[i]
  <2>1. i - 1 \in 0..n /\ i - 1 \notin T
    BY <1>2, <1>3, <1>4
  <2> QED BY <1>3, <2>1
<1>7. r[i + 1] = f[r[i]][list[i]] /\ s[i + 1] = f[s[i]][other[i]]
  BY <1>5 DEF Steps
<1>8. list[i] = other[i]
  BY <1>5
<1> QED BY <1>3, <1>6, <1>7, <1>8

(* One more item is one more step.                                         *)
LEMMA ResultGrows ==
  ASSUME NEW S, NEW E, NEW f, Carries(f, S, E), NEW base \in S, NEW list \in Seq(E), NEW x \in E
  PROVE  /\ Result(f, base, list) \in S
         /\ Result(f, base, Append(list, x)) = f[Result(f, base, list)][x]
<1>1. PICK m \in Nat : m = Len(list)
  OBVIOUS
<1>2. PICK more : more = Append(list, x)
  OBVIOUS
<1>3. more \in Seq(E)
  BY <1>2, AppendProperties
<1>4. Len(more) = m + 1
  BY <1>1, <1>2, AppendProperties
<1>5. \A i \in 1..m : more[i] = list[i]
  BY <1>1, <1>2, AppendProperties
<1>6. more[m + 1] = x
  BY <1>1, <1>2, AppendProperties
<1>7. PICK r, s : r = Running(f, base, list) /\ s = Running(f, base, more)
  OBVIOUS
<1>8. r \in Seq(S) /\ Len(r) = m + 1 /\ Steps(r, f, base, list, m)
  BY <1>1, <1>7, RunningIs
<1>9. s \in Seq(S) /\ Len(s) = m + 2 /\ Steps(s, f, base, more, m + 1)
  <2>1. s \in Seq(S) /\ Len(s) = Len(more) + 1 /\ Steps(s, f, base, more, Len(more))
    <3>1. ASSUME NEW l \in Seq(E)
          PROVE  /\ Running(f, base, l) \in Seq(S) /\ Len(Running(f, base, l)) = Len(l) + 1
                 /\ Steps(Running(f, base, l), f, base, l, Len(l))
      BY RunningIs
    <3> QED BY <1>3, <1>7, <3>1
  <2> QED BY <1>4, <2>1
<1>10. r[m + 1] = s[m + 1]
  <2>1. m <= m /\ m <= m + 1 /\ m + 1 \in Nat /\ \A i \in 1..m : list[i] = more[i]
    BY <1>5
  <2>2. PICK k \in Nat : k = m + 1
    OBVIOUS
  <2>3. Steps(r, f, base, list, m) /\ Steps(s, f, base, more, k) /\ m <= k /\ m <= m
    BY <1>8, <1>9, <2>1, <2>2
  <2> QED BY <2>1, <2>3, StepsAgree
<1>11. s[m + 2] = f[s[m + 1]][x]
  BY <1>4, <1>6, <1>9 DEF Steps
<1>12. r[m + 1] \in S
  BY <1>8
<1>13. Result(f, base, list) = r[m + 1] /\ Result(f, base, more) = s[m + 2]
  BY <1>1, <1>4, <1>7 DEF Result
<1> QED BY <1>2, <1>10, <1>11, <1>12, <1>13

LEMMA ResultOfNone ==
  ASSUME NEW S, NEW E, NEW f, Carries(f, S, E), NEW base \in S
  PROVE  Result(f, base, <<>>) = base
<1>1. <<>> \in Seq(E) /\ Len(<<>>) = 0
  OBVIOUS
<1>2. Steps(Running(f, base, <<>>), f, base, <<>>, 0)
  BY <1>1, RunningIs
<1> QED BY <1>1, <1>2 DEF Steps, Result

LEMMA ProductType ==
  /\ \A a, b \in Int : a * b \in Int
  /\ \A a, b \in Nat \ {0} : a * b \in Nat \ {0}
OBVIOUS

LEMMA WholeTyped == ASSUME NEW n \in Int PROVE Whole(n) \in Fraction
  BY DEF Whole, Fraction

LEMMA FractionFields ==
  ASSUME NEW q \in Fraction
  PROVE  q.num \in Int /\ q.den \in Nat \ {0} /\ q = [num |-> q.num, den |-> q.den]
  BY DEF Fraction

LEMMA TimesTyped == ASSUME NEW n \in Int, NEW q \in Fraction PROVE Times(n, q) \in Fraction
  BY FractionFields, ProductType DEF Times, Fraction

LEMMA PlusTyped ==
  ASSUME NEW q \in Fraction, NEW r \in Fraction
  PROVE  Plus(q, r) \in Fraction
<1>1. /\ q.num \in Int /\ q.den \in Nat \ {0} /\ r.num \in Int /\ r.den \in Nat \ {0}
      /\ q.den \in Int /\ r.den \in Int
  BY FractionFields
<1>2. PICK x \in Int, y \in Int, d \in Nat \ {0} :
        x = q.num * r.den /\ y = r.num * q.den /\ d = q.den * r.den
  BY <1>1, ProductType
<1>3. x + y \in Int
  OBVIOUS
<1> QED BY <1>2, <1>3 DEF Plus, Fraction

LEMMA MinusTyped ==
  ASSUME NEW q \in Fraction, NEW r \in Fraction
  PROVE  /\ Minus(q, r) \in Fraction
         /\ Minus(q, r) = [num |-> q.num * r.den + (0 - r.num) * q.den, den |-> q.den * r.den]
<1> DEFINE m == [num |-> 0 - r.num, den |-> r.den]
<1>1. r = [num |-> r.num, den |-> r.den] /\ r.num \in Int /\ r.den \in Nat \ {0}
  BY FractionFields
<1>2. [r EXCEPT !.num = -@] = m
  BY <1>1
<1>3. m \in Fraction
  BY <1>1 DEF Fraction
<1>4. m.num = 0 - r.num /\ m.den = r.den
  OBVIOUS
<1>5. Minus(q, r) = Plus(q, m)
  BY <1>2 DEF Minus
<1>6. Plus(q, m) = [num |-> q.num * m.den + m.num * q.den, den |-> q.den * m.den]
  BY DEF Plus
<1> HIDE DEF m
<1> QED BY <1>3, <1>4, <1>5, <1>6, PlusTyped

LEMMA SameItself == ASSUME NEW q PROVE Same(q, q)
  BY DEF Same

(* A positive factor can be left out of an equation.                       *)
LEMMA CancelFactor ==
  ASSUME NEW a \in Int, NEW b \in Int, NEW d \in Int, d # 0, a * d = b * d
  PROVE  a = b
<1>1. PICK c \in Int : c = a - b
  OBVIOUS
<1>2. c * d = 0
  <2>1. (a - b) * d = a * d - b * d
    OBVIOUS
  <2> QED BY <1>1, <2>1
<1>3. c = 0
  BY <1>2
<1> QED BY <1>1, <1>3

LEMMA Division ==
  ASSUME NEW a \in Int, NEW b \in Nat \ {0}, a % b = 0
  PROVE  a \div b \in Int /\ (a \div b) * b = a
  OBVIOUS

(* A fraction in lowest terms is the same fraction.                        *)
LEMMA ReducedIs ==
  ASSUME NEW q \in Fraction
  PROVE  Reduced(q) \in Fraction /\ Same(Reduced(q), q)
<1>1. PICK x \in Int, y \in Nat \ {0} : x = q.num /\ y = q.den
  BY FractionFields
<1> DEFINE Good(n) == (x * n) % y = 0
           T == {n \in 1..y : Good(n)}
<1>2. Good(y) /\ y \in T
  <2>1. (x * y) % y = 0
    <3>1. x * y = y * x + 0 /\ x * y \in Int
      OBVIOUS
    <3> QED BY <3>1
  <2> QED BY <2>1
<1>3. PICK k \in T : \A m \in T : k <= m
  <2>1. T \subseteq Nat
    OBVIOUS
  <2> HIDE DEF T
  <2> QED BY <1>2, <2>1, LeastNatural
<1>4. k \in 1..y /\ Good(k) /\ \A m \in 1..(k - 1) : ~Good(m)
  <2>1. ASSUME NEW m \in 1..(k - 1) PROVE ~Good(m)
    <3>1. m \in 1..y /\ ~(k <= m)
      OBVIOUS
    <3>2. m \notin T
      <4> HIDE DEF T
      <4> QED BY <1>3, <3>1
    <3> HIDE DEF Good
    <3> QED BY <3>1, <3>2
  <2> QED BY <2>1
<1>5. PICK d : d = CHOOSE n \in 1..y : Good(n) /\ \A m \in 1..(n - 1) : ~Good(m)
  OBVIOUS
<1>6. d \in 1..y /\ Good(d)
  <2> HIDE DEF Good
  <2> QED BY <1>4, <1>5
<1>7. Reduced(q) = [num |-> (x * d) \div y, den |-> d]
  BY <1>1, <1>5 DEF Reduced
<1>8. d \in Nat \ {0} /\ x * d \in Int
  BY <1>6
<1>9. PICK z \in Int : z = (x * d) \div y /\ z * y = x * d
  BY <1>6, <1>8, Division
<1>10. Reduced(q) = [num |-> z, den |-> d]
  BY <1>7, <1>9
<1> QED BY <1>1, <1>8, <1>9, <1>10 DEF Fraction, Same

(* Being the same is symmetric, and what is the same as one thing is the   *)
(* same.                                                                   *)
LEMMA SameThrough ==
  ASSUME NEW q \in Fraction, NEW r \in Fraction, NEW s \in Fraction, Same(q, r), Same(q, s)
  PROVE  Same(r, s)
<1>1. PICK a \in Int, b \in Nat \ {0}, c \in Int, d \in Nat \ {0}, x \in Int, y \in Nat \ {0} :
        a = q.num /\ b = q.den /\ c = r.num /\ d = r.den /\ x = s.num /\ y = s.den
  BY FractionFields
<1>2. a * d = c * b /\ a * y = x * b
  BY <1>1 DEF Same
<1>3. (c * y) * b = (x * d) * b
  <2>1. (a * d) * y = (c * b) * y /\ (a * y) * d = (x * b) * d
    BY <1>2
  <2> QED BY <2>1
<1>4. c * y = x * d
  <2>1. c * y \in Int /\ x * d \in Int /\ b \in Int /\ b # 0
    OBVIOUS
  <2> QED BY <1>3, <2>1, CancelFactor
<1> QED BY <1>1, <1>4 DEF Same

LEMMA SameBack == ASSUME NEW q, NEW r, Same(q, r) PROVE Same(r, q)
  BY DEF Same

(* Sums of the same fractions are the same.                                *)
LEMMA SamePlus ==
  ASSUME NEW q \in Fraction, NEW r \in Fraction, NEW u \in Fraction, NEW v \in Fraction,
         Same(q, u), Same(r, v)
  PROVE  Same(Plus(q, r), Plus(u, v))
<1>1. PICK a \in Int, b \in Int, c \in Int, d \in Int :
        a = q.num /\ b = q.den /\ c = r.num /\ d = r.den
  BY FractionFields
<1>2. PICK e \in Int, f \in Int, g \in Int, h \in Int :
        e = u.num /\ f = u.den /\ g = v.num /\ h = v.den
  BY FractionFields
<1>3. a * f = e * b /\ c * h = g * d
  BY <1>1, <1>2 DEF Same
<1>4. (a * d + c * b) * (f * h) = (e * h + g * f) * (b * d)
  <2>1. (a * d + c * b) * (f * h) = (a * f) * (d * h) + (c * h) * (b * f)
    OBVIOUS
  <2>2. (e * h + g * f) * (b * d) = (e * b) * (d * h) + (g * d) * (b * f)
    OBVIOUS
  <2> QED BY <1>3, <2>1, <2>2
<1>5. /\ Plus(q, r) = [num |-> a * d + c * b, den |-> b * d]
      /\ Plus(u, v) = [num |-> e * h + g * f, den |-> f * h]
  BY <1>1, <1>2 DEF Plus
<1> QED BY <1>4, <1>5 DEF Same

(* The sum of whole numbers is whole.                                      *)
LEMMA WholeSum ==
  ASSUME NEW q \in Fraction, NEW r \in Fraction, NEW a \in Int, NEW b \in Int,
         Same(q, Whole(a)), Same(r, Whole(b))
  PROVE  Same(Plus(q, r), Whole(a + b))
<1>1. PICK x \in Int, c \in Int, y \in Int, d \in Int :
        x = q.num /\ c = q.den /\ y = r.num /\ d = r.den
  BY FractionFields
<1>2. x * 1 = a * c /\ y * 1 = b * d
  BY <1>1 DEF Same, Whole
<1>3. (x * d + y * c) * 1 = (a + b) * (c * d)
  <2>1. x = a * c /\ y = b * d
    BY <1>2
  <2>2. x * d = (a * c) * d /\ y * c = (b * d) * c
    BY <2>1
  <2> QED BY <2>2
<1>4. Plus(q, r) = [num |-> x * d + y * c, den |-> c * d]
  BY <1>1 DEF Plus
<1> QED BY <1>3, <1>4 DEF Same, Whole

(* A fraction that is the same as a whole fraction is whole.               *)
LEMMA WholeToo ==
  ASSUME NEW q \in Fraction, NEW r \in Fraction, NEW a \in Int, Same(q, r), Same(r, Whole(a))
  PROVE  Same(q, Whole(a))
<1>1. PICK x \in Int, c \in Int, y \in Int, d \in Int :
        x = q.num /\ c = q.den /\ y = r.num /\ d = r.den /\ d # 0
  BY FractionFields
<1>2. x * d = y * c /\ y * 1 = a * d
  BY <1>1 DEF Same, Whole
<1>3. x * d = (a * c) * d
  <2>1. y = a * d
    BY <1>2
  <2>2. y * c = (a * d) * c
    BY <2>1
  <2> QED BY <1>2, <2>2
<1>4. x = a * c
  <2>1. a * c \in Int
    OBVIOUS
  <2> QED BY <1>1, <1>3, <2>1, CancelFactor
<1> QED BY <1>1, <1>4 DEF Same, Whole

-----------------------------------------------------------------------------
(***************************************************************************)
(* Sums                                                                    *)
(***************************************************************************)
LEMMA SumOfGrows ==
  ASSUME NEW list \in Seq(Int), NEW n \in Int
  PROVE  SumOf(list) \in Int /\ SumOf(Append(list, n)) = SumOf(list) + n
<1> DEFINE add == [a \in Int |-> [b \in Int |-> a + b]]
<1>1. Carries(add, Int, Int) /\ 0 \in Int
  BY DEF Carries
<1>2. \A a, b \in Int : add[a][b] = a + b
  OBVIOUS
<1>3. \A s : SumOf(s) = Result(add, 0, s)
  BY DEF SumOf
<1> HIDE DEF add
<1>4. Result(add, 0, list) \in Int
  BY <1>1, ResultGrows
<1>5. Result(add, 0, Append(list, n)) = add[Result(add, 0, list)][n]
  <2>1. PICK I : I = Int
    OBVIOUS
  <2>2. Carries(add, I, I) /\ 0 \in I /\ list \in Seq(I) /\ n \in I
    BY <1>1, <2>1
  <2> QED BY <2>2, ResultGrows
<1> QED BY <1>2, <1>3, <1>4, <1>5

LEMMA SumOfNone == SumOf(<<>>) = 0
<1>1. Carries([a \in Int |-> [b \in Int |-> a + b]], Int, Int) /\ 0 \in Int
  BY DEF Carries
<1>2. Result([a \in Int |-> [b \in Int |-> a + b]], 0, <<>>) = 0
  BY <1>1, ResultOfNone
<1> QED BY <1>2 DEF SumOf

LEMMA AddingCarries ==
  /\ Carries([q \in Fraction |-> [r \in Fraction |-> Reduced(Plus(q, r))]], Fraction, Fraction)
  /\ Whole(0) \in Fraction
<1>1. \A q, r \in Fraction : Reduced(Plus(q, r)) \in Fraction
  BY PlusTyped, ReducedIs
<1> QED BY <1>1, WholeTyped DEF Carries

LEMMA SumGrows ==
  ASSUME NEW qs \in Seq(Fraction), NEW x \in Fraction
  PROVE  /\ Sum(qs) \in Fraction
         /\ Sum(Append(qs, x)) = Reduced(Plus(Sum(qs), x))
<1> DEFINE add == [q \in Fraction |-> [r \in Fraction |-> Reduced(Plus(q, r))]]
<1>1. Carries(add, Fraction, Fraction) /\ Whole(0) \in Fraction
  BY AddingCarries
<1>2. \A q, r \in Fraction : add[q][r] = Reduced(Plus(q, r))
  OBVIOUS
<1>3. \A s : Sum(s) = Result(add, Whole(0), s)
  BY DEF Sum
<1> HIDE DEF add
<1>4. /\ Result(add, Whole(0), qs) \in Fraction
      /\ Result(add, Whole(0), Append(qs, x)) = add[Result(add, Whole(0), qs)][x]
  BY <1>1, ResultGrows
<1> QED BY <1>2, <1>3, <1>4

LEMMA SumOfNothing == Sum(<<>>) = Whole(0)
  BY AddingCarries, ResultOfNone DEF Sum

(* Whole figures add up to a whole one.                                    *)
LEMMA SumAddsWhole ==
  ASSUME NEW qs \in Seq(Fraction), NEW x \in Fraction, NEW a \in Int, NEW b \in Int,
         Same(Sum(qs), Whole(a)), Same(x, Whole(b))
  PROVE  Same(Sum(Append(qs, x)), Whole(a + b))
<1>1. PICK s \in Fraction : s = Sum(qs)
  BY SumGrows
<1>2. Plus(s, x) \in Fraction /\ Same(Plus(s, x), Whole(a + b))
  BY <1>1, PlusTyped, WholeSum
<1>3. /\ Reduced(Plus(s, x)) \in Fraction /\ Same(Reduced(Plus(s, x)), Plus(s, x))
  BY <1>2, ReducedIs
<1>4. Same(Reduced(Plus(s, x)), Whole(a + b))
  <2>1. a + b \in Int
    OBVIOUS
  <2> QED BY <1>2, <1>3, <2>1, WholeToo
<1> QED BY <1>1, <1>4, SumGrows

(* Lists of the same fractions have the same sum.                          *)
LEMMA SumsTheSame ==
  ASSUME NEW qs \in Seq(Fraction), NEW rs \in Seq(Fraction), NEW m \in Nat,
         Len(qs) = m, Len(rs) = m, \A i \in 1..m : Same(qs[i], rs[i])
  PROVE  Sum(qs) \in Fraction /\ Sum(rs) \in Fraction /\ Same(Sum(qs), Sum(rs))
<1>1. PICK f : f = [q \in Fraction |-> [r \in Fraction |-> Reduced(Plus(q, r))]]
  OBVIOUS
<1>2. Carries(f, Fraction, Fraction) /\ Whole(0) \in Fraction
  BY <1>1, AddingCarries
<1>3. PICK base \in Fraction : base = Whole(0)
  BY <1>2
<1>4. PICK x, y : x = Running(f, base, qs) /\ y = Running(f, base, rs)
  OBVIOUS
<1> DEFINE Carried(z, list) ==
             z \in Seq(Fraction) /\ Len(z) = m + 1 /\ Steps(z, f, base, list, m)
<1>0. ASSUME NEW list \in Seq(Fraction), Len(list) = m PROVE Carried(Running(f, base, list), list)
  <2>1. /\ Running(f, base, list) \in Seq(Fraction)
        /\ Len(Running(f, base, list)) = Len(list) + 1
        /\ Steps(Running(f, base, list), f, base, list, Len(list))
    BY <1>2, RunningIs
  <2> QED BY <1>0, <2>1
<1>5. x \in Seq(Fraction) /\ Len(x) = m + 1 /\ Steps(x, f, base, qs, m)
  BY <1>0, <1>4
<1>6. y \in Seq(Fraction) /\ Len(y) = m + 1 /\ Steps(y, f, base, rs, m)
  BY <1>0, <1>4
<1>7. Sum(qs) = x[m + 1] /\ Sum(rs) = y[m + 1]
  BY <1>1, <1>3, <1>4 DEF Sum, Result
<1>8. \A n \in 0..m : Same(x[n + 1], y[n + 1])
  <2> DEFINE T == {n \in 0..m : ~Same(x[n + 1], y[n + 1])}
  <2>1. SUFFICES ASSUME T # {} PROVE FALSE
    OBVIOUS
  <2>2. PICK k \in T : \A l \in T : k <= l
    <3>1. T \subseteq Nat
      OBVIOUS
    <3> HIDE DEF T
    <3> QED BY <2>1, <3>1, LeastNatural
  <2>3. k \in 0..m /\ ~Same(x[k + 1], y[k + 1])
    OBVIOUS
  <2>4. k # 0
    <3>1. x[0 + 1] = base /\ y[0 + 1] = base
      BY <1>5, <1>6 DEF Steps
    <3> QED BY <2>3, <3>1, SameItself
  <2>5. PICK j \in 0..m : k = j + 1 /\ j \notin T
    <3>1. k - 1 \in 0..m /\ k = (k - 1) + 1
      BY <2>3, <2>4
    <3>2. ~(k <= k - 1)
      BY <2>3
    <3>3. k - 1 \notin T
      BY <2>2, <3>2, Zenon
    <3> QED BY <3>1, <3>3
  <2>6. Same(x[k], y[k])
    BY <2>5
  <2> HIDE DEF T
  <2>7. k \in 1..m
    BY <2>3, <2>4
  <2>8. PICK a \in Fraction, b \in Fraction, c \in Fraction, d \in Fraction :
          a = x[k] /\ b = qs[k] /\ c = y[k] /\ d = rs[k]
    BY <1>5, <1>6, <2>7
  <2>9. Same(a, c) /\ Same(b, d)
    BY <2>6, <2>7, <2>8
  <2>10. x[k + 1] = Reduced(Plus(a, b)) /\ y[k + 1] = Reduced(Plus(c, d))
    <3>1. x[k + 1] = f[a][b] /\ y[k + 1] = f[c][d]
      BY <1>5, <1>6, <2>7, <2>8 DEF Steps
    <3> QED BY <1>1, <3>1
  <2>11. PICK u \in Fraction, v \in Fraction : u = Plus(a, b) /\ v = Plus(c, d) /\ Same(u, v)
    BY <2>9, PlusTyped, SamePlus
  <2>12. PICK w \in Fraction, z \in Fraction :
           w = Reduced(u) /\ z = Reduced(v) /\ Same(w, u) /\ Same(z, v)
    BY ReducedIs
  <2>13. Same(u, w) /\ Same(v, z) /\ Same(v, u)
    BY <2>11, <2>12, SameBack
  <2>14. Same(v, w)
    BY <2>11, <2>13, SameThrough
  <2>15. Same(w, z)
    BY <2>13, <2>14, SameThrough
  <2> QED BY <2>3, <2>10, <2>11, <2>12, <2>15
<1>9. m + 1 \in 1..(m + 1) /\ m \in 0..m
  OBVIOUS
<1> QED BY <1>5, <1>6, <1>7, <1>8, <1>9

-----------------------------------------------------------------------------
(***************************************************************************)
(* What a trade made, in integers                                          *)
(***************************************************************************)
(* The profit P/Q of a trade that paid g less than it received, and still  *)
(* holds s at the average price A/D.                                       *)
Makes(P, Q, g, s, A, D) == P * D = (g * D + Unit * s * A) * Q

(* n more at price p: C/E is the new average price.                        *)
Averages(s, A, D, n, p, C, E) == C * (D * (s + n)) = (A * s + p * n * D) * E

(* A fill that adds changes the average, and the profit is still what was  *)
(* received less what was paid, plus the cost of what is held.             *)
LEMMA MakesAfterAdding ==
  ASSUME NEW P \in Int, NEW Q \in Int, NEW g \in Int, NEW s \in Int, NEW A \in Int,
         NEW D \in Int, NEW C \in Int, NEW E \in Int, NEW n \in Int, NEW p \in Int,
         D # 0, Unit \in Int,
         Makes(P, Q, g, s, A, D),
         Averages(s, A, D, n, p, C, E)
  PROVE  Makes(P, Q, g - Unit * (p * n), s + n, C, E)
<1> DEFINE w == p * n
           k == C * (D * (s + n))
           z == A * s
<1>1. w \in Int /\ k \in Int /\ z \in Int
  OBVIOUS
<1>2. k = (z + w * D) * E
  BY DEF Averages
<1>3. P * D = (g * D + Unit * z) * Q
  <2>1. Unit * s * A = Unit * z
    OBVIOUS
  <2> QED BY <2>1 DEF Makes
<1>4. (((g - Unit * w) * E + Unit * (s + n) * C) * Q) * D
        = (g * D * E - Unit * w * D * E) * Q + Unit * k * Q
  <2>1. Unit * (s + n) * C * D = Unit * k
    OBVIOUS
  <2> DEFINE y == Unit * (s + n) * C
             x == (g - Unit * w) * E
  <2>2. y \in Int /\ x \in Int
    BY <1>1
  <2>3. x * D = g * D * E - Unit * w * D * E
    <3> HIDE DEF w
    <3> QED BY <1>1
  <2>4. ((x + y) * Q) * D = (x * D) * Q + (y * D) * Q
    <3> HIDE DEF x, y
    <3> QED BY <2>2
  <2> HIDE DEF k, w
  <2>5. y * D = Unit * k
    BY <2>1
  <2> HIDE DEF x, y
  <2> QED BY <2>3, <2>4, <2>5 DEF x, y
<1>5. Unit * k = Unit * z * E + Unit * w * D * E
  <2> HIDE DEF k, w, z
  <2> QED BY <1>1, <1>2
<1>6. (((g - Unit * w) * E + Unit * (s + n) * C) * Q) * D = (P * E) * D
  <2> DEFINE a == g * D * E
             b == Unit * w * D * E
             c == Unit * z * E
  <2>1. a \in Int /\ b \in Int /\ c \in Int
    BY <1>1
  <2>2. (a - b) * Q + (c + b) * Q = (a + c) * Q
    <3> HIDE DEF a, b, c
    <3> QED BY <2>1
  <2>3. (a + c) * Q = ((g * D + Unit * z) * Q) * E
    <3> HIDE DEF z
    <3> QED BY <1>1
  <2>4. (P * E) * D = (P * D) * E
    OBVIOUS
  <2>5. Unit * k * Q = (c + b) * Q
    BY <1>5
  <2> HIDE DEF k, w, z
  <2> QED BY <1>3, <1>4, <2>2, <2>3, <2>4, <2>5
<1>7. ((g - Unit * w) * E + Unit * (s + n) * C) * Q = P * E
  <2> DEFINE x == ((g - Unit * w) * E + Unit * (s + n) * C) * Q
  <2>1. x \in Int /\ P * E \in Int
    BY <1>1
  <2>2. x * D = (P * E) * D
    BY <1>6
  <2> HIDE DEF x
  <2>3. x = P * E
    BY <2>1, <2>2, CancelFactor
  <2> QED BY <2>3 DEF x
<1> QED BY <1>7 DEF Makes

(* n less at price p: B/R is the new profit.                               *)
Profits(P, Q, A, D, n, p, B, R) ==
  B * (Q * D) = (P * D + Unit * (0 - n) * (p * D - A) * Q) * R

(* A fill that takes away books its part of the profit at the average, and *)
(* leaves the average of what is held.                                     *)
LEMMA MakesAfterReducing ==
  ASSUME NEW P \in Int, NEW Q \in Int, NEW g \in Int, NEW s \in Int, NEW A \in Int,
         NEW D \in Int, NEW B \in Int, NEW R \in Int, NEW n \in Int, NEW p \in Int,
         Q # 0, Unit \in Int,
         Makes(P, Q, g, s, A, D),
         Profits(P, Q, A, D, n, p, B, R)
  PROVE  Makes(B, R, g - Unit * (p * n), s + n, A, D)
<1> DEFINE w == Unit * (p * n) * D
           z == Unit * n * A
           x == g * D + Unit * s * A
<1>1. w \in Int /\ z \in Int /\ x \in Int
  OBVIOUS
<1>2. P * D = x * Q
  BY DEF Makes
<1>3. Unit * (0 - n) * (p * D - A) = z - w
  OBVIOUS
<1>4. (g - Unit * (p * n)) * D + Unit * (s + n) * A = x + z - w
  OBVIOUS
<1>5. B * (Q * D) = (x * Q + (z - w) * Q) * R
  BY <1>2, <1>3 DEF Profits
<1>6. (B * D) * Q = ((x + z - w) * R) * Q
  <2>1. (B * D) * Q = B * (Q * D)
    OBVIOUS
  <2>2. (x * Q + (z - w) * Q) * R = ((x + z - w) * R) * Q
    <3> HIDE DEF x, z, w
    <3> QED BY <1>1
  <2> QED BY <1>5, <2>1, <2>2
<1>7. B * D = (x + z - w) * R
  <2>1. (x + z - w) * R \in Int /\ B * D \in Int
    BY <1>1
  <2> HIDE DEF x, z, w
  <2> QED BY <1>6, <2>1, CancelFactor
<1> QED BY <1>4, <1>7 DEF Makes

-----------------------------------------------------------------------------
(***************************************************************************)
(* The pieces of a trade                                                   *)
(***************************************************************************)
Piece == [size : Int \ {0}, price : Nat]

(* a is a figure of every item of s; b has x, that of e, as well.          *)
Figures(S, s, e, a, b, x) ==
  /\ a = [i \in DOMAIN s |-> a[i]] /\ \A i \in DOMAIN s : a[i] \in S
  /\ b = [i \in DOMAIN Append(s, e) |-> b[i]]
  /\ \A i \in DOMAIN s : b[i] = a[i]
  /\ b[Len(s) + 1] = x /\ x \in S

LEMMA OneMoreFigure ==
  ASSUME NEW S, NEW E, NEW s \in Seq(E), NEW e \in E, NEW a, NEW b, NEW x,
         Figures(S, s, e, a, b, x)
  PROVE  a \in Seq(S) /\ Len(a) = Len(s) /\ x \in S /\ b = Append(a, x)
<1>0. /\ a = [i \in DOMAIN s |-> a[i]] /\ \A i \in DOMAIN s : a[i] \in S
      /\ b = [i \in DOMAIN Append(s, e) |-> b[i]]
      /\ \A i \in DOMAIN s : b[i] = a[i]
      /\ b[Len(s) + 1] = x /\ x \in S
  BY DEF Figures
<1>1. PICK m \in Nat : m = Len(s) /\ DOMAIN s = 1..m
  OBVIOUS
<1>2. a \in [1..m -> S]
  BY <1>0, <1>1
<1>3. a \in Seq(S) /\ Len(a) = m
  <2>1. a \in Seq(S)
    BY <1>2, SeqDef
  <2>2. DOMAIN a = 1..m
    BY <1>2
  <2> QED BY <2>1, <2>2, LenProperties
<1>4. DOMAIN Append(s, e) = 1..(m + 1)
  <2>1. Append(s, e) \in Seq(E)
    BY AppendProperties
  <2>2. Len(Append(s, e)) = m + 1
    BY <1>1, AppendProperties
  <2> QED BY <2>1, <2>2
<1>5. Append(a, x) \in Seq(S)
  BY <1>0, <1>3, AppendProperties
<1>6. Len(Append(a, x)) = m + 1
  BY <1>0, <1>3, AppendProperties
<1>7. \A i \in 1..m : Append(a, x)[i] = a[i]
  BY <1>0, <1>3, AppendProperties
<1>8. Append(a, x)[m + 1] = x
  BY <1>0, <1>3, AppendProperties
<1>9. DOMAIN Append(a, x) = 1..(m + 1)
  BY <1>5, <1>6
<1>10. Append(a, x) = [i \in 1..(m + 1) |-> Append(a, x)[i]]
  <2>1. PICK c \in Seq(S) : c = Append(a, x)
    BY <1>5
  <2>2. PICK n \in Nat : c \in [1..n -> S]
    BY SeqDef
  <2>3. c = [i \in DOMAIN c |-> c[i]]
    BY <2>2
  <2> QED BY <1>9, <2>1, <2>3
<1>11. ASSUME NEW i \in 1..(m + 1) PROVE b[i] = Append(a, x)[i]
  <2>1. CASE i = m + 1
    BY <1>0, <1>1, <1>8, <2>1
  <2>2. CASE i # m + 1
    <3>1. i \in 1..m
      BY <2>2
    <3> QED BY <1>0, <1>1, <1>7, <3>1
  <2> QED BY <2>1, <2>2
<1>12. b = [i \in 1..(m + 1) |-> b[i]]
  BY <1>0, <1>4
<1> QED BY <1>0, <1>1, <1>3, <1>10, <1>11, <1>12

(* u is trade t with one more piece e, on the same side.                   *)
OneMore(t, u, e) ==
  /\ t.events \in Seq(Piece) /\ e \in Piece /\ t.long \in BOOLEAN
  /\ u.events = Append(t.events, e) /\ u.long = t.long

(* What one piece adds to a figure of the fills that opened, or closed.    *)
Share(t, e, opening, x) == IF Opens(t, e) = opening THEN x ELSE 0

LEMMA OfFillsGrows ==
  ASSUME NEW t, NEW u, NEW e, OneMore(t, u, e), NEW opening \in BOOLEAN,
         NEW figure, NEW more, NEW x, Figures(Int, t.events, e, figure, more, x)
  PROVE  /\ OfFills(t, opening, figure) \in Int
         /\ OfFills(u, opening, more) = OfFills(t, opening, figure) + Share(t, e, opening, x)
<1>0. PICK s \in Seq(Piece) : s = t.events
  BY DEF OneMore
<1>1. /\ s = t.events /\ \A i \in DOMAIN s : figure[i] \in Int
      /\ \A i \in DOMAIN s : more[i] = figure[i]
      /\ more[Len(s) + 1] = x /\ x \in Int
  BY <1>0 DEF Figures
<1>2. e \in Piece /\ u.events = Append(s, e) /\ u.long = t.long
  BY <1>1 DEF OneMore
<1>3. PICK m \in Nat : m = Len(s) /\ DOMAIN s = 1..m
  OBVIOUS
<1>4. \A i \in 1..m : Append(s, e)[i] = s[i]
  BY <1>2, <1>3, AppendProperties
<1>5. Append(s, e)[m + 1] = e
  BY <1>2, <1>3, AppendProperties
<1>6. DOMAIN Append(s, e) = 1..(m + 1)
  <2>1. Append(s, e) \in Seq(Piece)
    BY <1>2, AppendProperties
  <2>2. Len(Append(s, e)) = m + 1
    BY <1>2, <1>3, AppendProperties
  <2> QED BY <2>1, <2>2
<1> DEFINE a == [i \in DOMAIN t.events |-> IF Opens(t, t.events[i]) = opening THEN figure[i] ELSE 0]
           b == [i \in DOMAIN u.events |-> IF Opens(u, u.events[i]) = opening THEN more[i] ELSE 0]
<1>7. OfFills(t, opening, figure) = SumOf(a) /\ OfFills(u, opening, more) = SumOf(b)
  BY DEF OfFills
<1>8. \A p : Opens(u, p) = Opens(t, p)
  BY <1>2 DEF Opens
<1>9. \A i \in DOMAIN s : a[i] \in Int
  <2>1. ASSUME NEW i \in DOMAIN s PROVE a[i] \in Int
    <3>1. figure[i] \in Int /\ a[i] \in {figure[i], 0}
      BY <1>1
    <3> QED BY <3>1
  <2> QED BY <2>1
<1>10. ASSUME NEW i \in DOMAIN s PROVE b[i] = a[i]
  <2>1. i \in 1..m /\ i \in 1..(m + 1)
    BY <1>3
  <2>2. u.events[i] = t.events[i] /\ i \in DOMAIN u.events /\ more[i] = figure[i]
    BY <1>1, <1>2, <1>4, <1>6, <2>1
  <2> QED BY <1>1, <1>8, <2>2
<1>11. b[m + 1] = Share(t, e, opening, x)
  <2>1. m + 1 \in DOMAIN u.events /\ u.events[m + 1] = e /\ more[m + 1] = x
    BY <1>1, <1>2, <1>3, <1>5, <1>6
  <2> QED BY <1>8, <2>1 DEF Share
<1>12. Share(t, e, opening, x) \in Int
  BY <1>1 DEF Share
<1>13. /\ a = [i \in DOMAIN s |-> a[i]]
       /\ b = [i \in DOMAIN Append(s, e) |-> b[i]]
  BY <1>1, <1>2
<1> HIDE DEF a, b
<1>14. Figures(Int, s, e, a, b, Share(t, e, opening, x))
  BY <1>3, <1>9, <1>10, <1>11, <1>12, <1>13 DEF Figures
<1>15. a \in Seq(Int) /\ b = Append(a, Share(t, e, opening, x))
  BY <1>2, <1>14, OneMoreFigure
<1> QED BY <1>7, <1>12, <1>15, SumOfGrows

LEMMA AbsFacts == ASSUME NEW n \in Int PROVE Abs(n) \in Nat /\ (n # 0 => Abs(n) # 0)
  BY DEF Abs

LEMMA FiguresGrow ==
  ASSUME NEW t, NEW u, NEW e, OneMore(t, u, e), NEW opening \in BOOLEAN
  PROVE  /\ Sized(t, opening) \in Int /\ Notional(t, opening) \in Int
         /\ Sized(u, opening) = Sized(t, opening) + Share(t, e, opening, Abs(e.size))
         /\ Notional(u, opening) =
              Notional(t, opening) + Share(t, e, opening, Abs(e.size) * e.price)
<1>1. PICK s \in Seq(Piece) : s = t.events
  BY DEF OneMore
<1>2. e \in Piece /\ u.events = Append(s, e)
  BY <1>1 DEF OneMore
<1>3. PICK m \in Nat : m = Len(s) /\ DOMAIN s = 1..m
  OBVIOUS
<1>4. \A i \in 1..m : Append(s, e)[i] = s[i]
  BY <1>2, <1>3, AppendProperties
<1>5. Append(s, e)[m + 1] = e
  BY <1>2, <1>3, AppendProperties
<1>6. DOMAIN Append(s, e) = 1..(m + 1)
  <2>1. Append(s, e) \in Seq(Piece)
    BY <1>2, AppendProperties
  <2>2. Len(Append(s, e)) = m + 1
    BY <1>2, <1>3, AppendProperties
  <2> QED BY <2>1, <2>2
<1>7. ASSUME NEW p \in Piece PROVE Abs(p.size) \in Int /\ Abs(p.size) * p.price \in Int
  <2>1. PICK x \in Int, y \in Int : x = Abs(p.size) /\ y = p.price
    BY AbsFacts DEF Piece
  <2> QED BY <2>1
<1>8. \A i \in DOMAIN t.events : t.events[i] \in Piece
  BY <1>1
<1>9. Len(t.events) + 1 = m + 1 /\ m + 1 \in DOMAIN u.events /\ u.events[m + 1] = e
  BY <1>1, <1>2, <1>3, <1>5, <1>6
<1>10. \A i \in DOMAIN t.events : i \in DOMAIN u.events /\ u.events[i] = t.events[i]
  <2>1. ASSUME NEW i \in 1..m PROVE i \in 1..(m + 1) /\ Append(s, e)[i] = s[i]
    <3>1. i \in 1..(m + 1)
      OBVIOUS
    <3> QED BY <1>4, <3>1
  <2> QED BY <1>1, <1>2, <1>3, <1>6, <2>1
<1> HIDE DEF Piece
<1>11. Sized(t, opening) \in Int /\ Sized(u, opening) = Sized(t, opening) + Share(t, e, opening, Abs(e.size))
  <2> DEFINE a == [i \in DOMAIN t.events |-> Abs(t.events[i].size)]
             b == [i \in DOMAIN u.events |-> Abs(u.events[i].size)]
  <2>1. Sized(t, opening) = OfFills(t, opening, a) /\ Sized(u, opening) = OfFills(u, opening, b)
    BY DEF Sized
  <2>2. a = [i \in DOMAIN t.events |-> a[i]] /\ b = [i \in DOMAIN u.events |-> b[i]]
    OBVIOUS
  <2>3. \A i \in DOMAIN t.events : a[i] \in Int
    BY <1>7, <1>8
  <2>4. \A i \in DOMAIN t.events : b[i] = a[i]
    BY <1>10
  <2>5. b[Len(t.events) + 1] = Abs(e.size) /\ Abs(e.size) \in Int
    BY <1>2, <1>7, <1>9
  <2> HIDE DEF a, b
  <2>6. Figures(Int, t.events, e, a, b, Abs(e.size))
    BY <1>1, <1>2, <2>2, <2>3, <2>4, <2>5 DEF Figures
  <2> QED BY <2>1, <2>6, OfFillsGrows
<1>12. /\ Notional(t, opening) \in Int
       /\ Notional(u, opening) =
            Notional(t, opening) + Share(t, e, opening, Abs(e.size) * e.price)
  <2> DEFINE a == [i \in DOMAIN t.events |-> Abs(t.events[i].size) * t.events[i].price]
             b == [i \in DOMAIN u.events |-> Abs(u.events[i].size) * u.events[i].price]
  <2>1. /\ Notional(t, opening) = OfFills(t, opening, a)
        /\ Notional(u, opening) = OfFills(u, opening, b)
    BY DEF Notional
  <2>2. a = [i \in DOMAIN t.events |-> a[i]] /\ b = [i \in DOMAIN u.events |-> b[i]]
    OBVIOUS
  <2>3. \A i \in DOMAIN t.events : a[i] \in Int
    BY <1>7, <1>8
  <2>4. \A i \in DOMAIN t.events : b[i] = a[i]
    BY <1>10
  <2>5. b[Len(t.events) + 1] = Abs(e.size) * e.price /\ Abs(e.size) * e.price \in Int
    BY <1>2, <1>7, <1>9
  <2> HIDE DEF a, b
  <2>6. Figures(Int, t.events, e, a, b, Abs(e.size) * e.price)
    BY <1>1, <1>2, <2>2, <2>3, <2>4, <2>5 DEF Figures
  <2> QED BY <2>1, <2>6, OfFillsGrows
<1> QED BY <1>11, <1>12

-----------------------------------------------------------------------------
(***************************************************************************)
(* What a trade holds and what it paid                                     *)
(***************************************************************************)
(* Of a figure of the fills that opened t, and of those that closed it.    *)
Signed(t, opened, shut) == IF t.long THEN opened - shut ELSE shut - opened

Held(t) == Signed(t, Sized(t, TRUE), Sized(t, FALSE))
Paid(t) == Signed(t, Notional(t, TRUE), Notional(t, FALSE))

TradeTyped(t) ==
  /\ t.size \in Int /\ t.long \in BOOLEAN /\ t.avg \in Fraction /\ t.pnl \in Fraction
  /\ t.fee \in Int /\ t.events \in Seq(Piece)

(* The events of a trade account for its size, its profit and its average. *)
Accounted(t) ==
  /\ TradeTyped(t)
  /\ \A opening \in BOOLEAN : Sized(t, opening) \in Nat /\ Notional(t, opening) \in Int
  /\ t.size = Held(t)
  /\ Makes(t.pnl.num, t.pnl.den, 0 - Unit * Paid(t), t.size, t.avg.num, t.avg.den)

LEMMA MoneyFacts == /\ Unit \in Int /\ Unit # 0 /\ Fee \in Int /\ Capital \in Int /\ Capital # 0
                    /\ Capital > 0
  BY ReportAssumption

LEMMA SignedAdds ==
  ASSUME NEW t, t.long \in BOOLEAN, NEW a \in Int, NEW b \in Int, NEW i \in Int, NEW j \in Int
  PROVE  /\ Signed(t, a, b) \in Int
         /\ Signed(t, a + i, b + j) = Signed(t, a, b) + Signed(t, i, j)
<1>1. CASE t.long = TRUE
  BY <1>1 DEF Signed
<1>2. CASE t.long = FALSE
  BY <1>2 DEF Signed
<1> QED BY <1>1, <1>2

LEMMA SignedSame ==
  ASSUME NEW t, NEW u, u.long = t.long, NEW a, NEW b
  PROVE  Signed(u, a, b) = Signed(t, a, b)
  BY Zenon DEF Signed

(* What one more piece adds to a figure of the trade.                      *)
SharesOf(t, e, x) == Signed(t, Share(t, e, TRUE, x), Share(t, e, FALSE, x))

(* The fills of one kind grow by the piece.                                *)
LEMMA SharesSigned ==
  ASSUME NEW t, NEW e, t.long \in BOOLEAN, e.size \in Int \ {0}, NEW y \in Int
  PROVE  SharesOf(t, e, Abs(e.size) * y) = e.size * y
<1>0. PICK n \in Int : n = e.size /\ n # 0
  OBVIOUS
<1>1. PICK w \in Int : w = n * y
  OBVIOUS
<1>2. CASE t.long = TRUE /\ n > 0
  <2>1. Opens(t, e) = TRUE /\ Abs(n) * y = w
    BY <1>0, <1>1, <1>2 DEF Opens, Abs
  <2> QED BY <1>0, <1>1, <1>2, <2>1 DEF Share, Signed, SharesOf
<1>3. CASE t.long = TRUE /\ ~(n > 0)
  <2>1. Opens(t, e) = FALSE
    BY <1>0, <1>3 DEF Opens
  <2>2. Abs(n) * y = 0 - w
    BY <1>1, <1>3 DEF Abs
  <2> QED BY <1>0, <1>1, <1>3, <2>1, <2>2 DEF Share, Signed, SharesOf
<1>4. CASE t.long = FALSE /\ n > 0
  <2>1. Opens(t, e) = FALSE /\ Abs(n) * y = w
    BY <1>0, <1>1, <1>4 DEF Opens, Abs
  <2> QED BY <1>0, <1>1, <1>4, <2>1 DEF Share, Signed, SharesOf
<1>5. CASE t.long = FALSE /\ ~(n > 0)
  <2>1. Opens(t, e) = TRUE
    BY <1>0, <1>5 DEF Opens
  <2>2. Abs(n) * y = 0 - w
    BY <1>1, <1>5 DEF Abs
  <2> QED BY <1>0, <1>1, <1>5, <2>1, <2>2 DEF Share, Signed, SharesOf
<1> QED BY <1>2, <1>3, <1>4, <1>5

(* One more fill changes what the fills hold by its size, and what they    *)
(* paid by its size at its price.                                          *)
LEMMA HoldingsGrow ==
  ASSUME NEW t, NEW u, NEW e, OneMore(t, u, e),
         \A opening \in BOOLEAN : Sized(t, opening) \in Nat /\ Notional(t, opening) \in Int
  PROVE  /\ \A opening \in BOOLEAN : /\ Sized(u, opening) \in Nat /\ Notional(u, opening) \in Int
                                     /\ Sized(u, opening) >= Sized(t, opening)
         /\ Opens(t, e) = TRUE => Sized(u, TRUE) # 0
         /\ Held(t) \in Int /\ Paid(t) \in Int
         /\ Held(u) = Held(t) + e.size
         /\ Paid(u) = Paid(t) + e.size * e.price
<1>1. PICK n \in Int, y \in Int : n = e.size /\ y = e.price /\ n # 0
  BY DEF OneMore, Piece
<1>2. t.long \in BOOLEAN /\ u.long = t.long /\ e.size \in Int \ {0}
  BY DEF OneMore, Piece
<1>3. PICK a \in Nat, b \in Nat, c \in Int, d \in Int :
        /\ a = Sized(t, TRUE) /\ b = Sized(t, FALSE)
        /\ c = Notional(t, TRUE) /\ d = Notional(t, FALSE)
  OBVIOUS
<1>4. Abs(n) \in Nat /\ Abs(n) # 0 /\ Abs(n) * y \in Int /\ Abs(n) * 1 = Abs(n)
  <2>1. PICK k \in Nat : k = Abs(n) /\ k # 0
    BY <1>1, AbsFacts
  <2> QED BY <2>1
<1>5. PICK i \in Nat, j \in Nat :
        i = Share(t, e, TRUE, Abs(n)) /\ j = Share(t, e, FALSE, Abs(n))
  BY <1>4 DEF Share
<1>6. PICK v \in Int, w \in Int :
        v = Share(t, e, TRUE, Abs(n) * y) /\ w = Share(t, e, FALSE, Abs(n) * y)
  BY <1>4 DEF Share
<1>7. /\ Sized(u, TRUE) = a + i /\ Sized(u, FALSE) = b + j
      /\ Notional(u, TRUE) = c + v /\ Notional(u, FALSE) = d + w
  BY <1>1, <1>3, <1>5, <1>6, FiguresGrow
<1>8. Signed(t, i, j) = n
  <2>1. PICK one \in Int : one = 1
    OBVIOUS
  <2>2. SharesOf(t, e, Abs(e.size) * one) = e.size * one
    BY <1>2, SharesSigned
  <2>3. Abs(n) * one = Abs(n) /\ n * one = n
    BY <1>4, <2>1
  <2> QED BY <1>1, <1>5, <2>2, <2>3, Zenon DEF SharesOf
<1>9. Signed(t, v, w) = n * y
  <2>1. SharesOf(t, e, Abs(e.size) * y) = e.size * y
    BY <1>2, SharesSigned
  <2> QED BY <1>1, <1>6, <2>1, Zenon DEF SharesOf
<1>10. Opens(t, e) = TRUE => i # 0
  BY <1>4, <1>5 DEF Share
<1>11. Held(u) = Held(t) + n /\ Held(t) \in Int
  <2>1. Held(t) = Signed(t, a, b) /\ Held(u) = Signed(u, a + i, b + j)
    BY <1>3, <1>7 DEF Held
  <2>2. Signed(u, a + i, b + j) = Signed(t, a + i, b + j)
    BY <1>2, SignedSame
  <2>3. a \in Int /\ b \in Int /\ i \in Int /\ j \in Int
    OBVIOUS
  <2> QED BY <1>2, <1>8, <2>1, <2>2, <2>3, SignedAdds
<1>12. Paid(u) = Paid(t) + n * y /\ Paid(t) \in Int
  <2>1. Paid(t) = Signed(t, c, d) /\ Paid(u) = Signed(u, c + v, d + w)
    BY <1>3, <1>7 DEF Paid
  <2>2. Signed(u, c + v, d + w) = Signed(t, c + v, d + w)
    BY <1>2, SignedSame
  <2> QED BY <1>2, <1>9, <2>1, <2>2, SignedAdds
<1>13. /\ Sized(u, TRUE) \in Nat /\ Notional(u, TRUE) \in Int /\ Sized(u, TRUE) >= Sized(t, TRUE)
       /\ Sized(u, FALSE) \in Nat /\ Notional(u, FALSE) \in Int
       /\ Sized(u, FALSE) >= Sized(t, FALSE)
  <2>1. /\ a + i \in Nat /\ a + i >= a /\ b + j \in Nat /\ b + j >= b
        /\ c + v \in Int /\ d + w \in Int
    OBVIOUS
  <2> QED BY <1>3, <1>7, <2>1, Zenon
<1>14. ASSUME NEW opening \in BOOLEAN
       PROVE  /\ Sized(u, opening) \in Nat /\ Notional(u, opening) \in Int
              /\ Sized(u, opening) >= Sized(t, opening)
  BY <1>13, Zenon
<1>15. Opens(t, e) = TRUE => Sized(u, TRUE) # 0
  <2>1. i # 0 => a + i # 0
    OBVIOUS
  <2> QED BY <1>7, <1>10, <2>1, Zenon
<1> QED BY <1>1, <1>11, <1>12, <1>14, <1>15

(* The side of a trade is the sign of its size, or of its first piece.     *)
Sided(t, n) == t.long = (IF t.size = 0 THEN n > 0 ELSE t.size > 0)
Adds(t, n) == t.size = 0 \/ (t.size > 0) = (n > 0)

(* What is added changes the average price, and nothing else.              *)
LEMMA AverageAfter ==
  ASSUME NEW s \in Int, NEW n \in Int, NEW p \in Nat, n # 0, s = 0 \/ (s > 0) = (n > 0),
         NEW avg \in Fraction, NEW next,
         next = Reduced([num |-> avg.num * Abs(s) + p * Abs(n) * avg.den,
                         den |-> avg.den * (Abs(s) + Abs(n))])
  PROVE  next \in Fraction /\ Averages(s, avg.num, avg.den, n, p, next.num, next.den)
<1>1. PICK A \in Int, D \in Nat \ {0} : A = avg.num /\ D = avg.den
  BY FractionFields
<1>2. PICK a \in Nat, b \in Nat : a = Abs(s) /\ b = Abs(n) /\ b # 0
  BY AbsFacts
<1>3. PICK x \in Int, d \in Nat \ {0} : x = A * a + p * b * D /\ d = D * (a + b)
  <2>1. A * a + p * b * D \in Int
    OBVIOUS
  <2>2. PICK c \in Nat \ {0} : c = a + b
    BY <1>2
  <2>3. D * c \in Nat \ {0}
    BY ProductType
  <2> QED BY <2>1, <2>2, <2>3
<1>4. PICK q \in Fraction : q = [num |-> x, den |-> d]
  BY DEF Fraction
<1>5. PICK new \in Fraction : new = next /\ new = Reduced(q) /\ Same(new, q)
  BY <1>1, <1>2, <1>3, <1>4, ReducedIs
<1>6. PICK C \in Int, E \in Int : C = new.num /\ E = new.den
  BY FractionFields
<1>7. C * d = x * E
  BY <1>4, <1>5, <1>6 DEF Same
<1>8. C * (D * (s + n)) = (A * s + p * n * D) * E
  <2>1. CASE a = s /\ b = n
    BY <1>3, <1>7, <2>1
  <2>2. CASE a = 0 - s /\ b = 0 - n
    <3>1. C * (D * ((0 - s) + (0 - n))) = (A * (0 - s) + p * (0 - n) * D) * E
      BY <1>3, <1>7, <2>2
    <3>2. C * (D * ((0 - s) + (0 - n))) = 0 - C * (D * (s + n))
      OBVIOUS
    <3>3. (A * (0 - s) + p * (0 - n) * D) * E = 0 - (A * s + p * n * D) * E
      OBVIOUS
    <3>4. C * (D * (s + n)) \in Int /\ (A * s + p * n * D) * E \in Int
      OBVIOUS
    <3> QED BY <3>1, <3>2, <3>3, <3>4
  <2>3. (a = s /\ b = n) \/ (a = 0 - s /\ b = 0 - n)
    BY <1>2 DEF Abs
  <2> QED BY <2>1, <2>2, <2>3
<1> QED BY <1>1, <1>5, <1>6, <1>8 DEF Averages

(* What is taken away makes a profit, and leaves the average price.        *)
LEMMA ProfitAfter ==
  ASSUME NEW n \in Int, NEW p \in Nat, NEW avg \in Fraction, NEW pnl \in Fraction,
         NEW next, next = Reduced(Plus(pnl, Times(Unit * (0 - n), Minus(Whole(p), avg))))
  PROVE  /\ next \in Fraction
         /\ Profits(pnl.num, pnl.den, avg.num, avg.den, n, p, next.num, next.den)
<1>1. PICK A \in Int, D \in Nat \ {0}, P \in Int, Q \in Nat \ {0} :
        A = avg.num /\ D = avg.den /\ P = pnl.num /\ Q = pnl.den
  BY FractionFields
<1>2. /\ Whole(p) \in Fraction /\ Whole(p).num = p /\ Whole(p).den = 1
  BY WholeTyped DEF Whole
<1>3. PICK k \in Int : k = p * D - A
  OBVIOUS
<1>4. /\ Minus(Whole(p), avg) \in Fraction
      /\ Minus(Whole(p), avg) = [num |-> k, den |-> D]
  <2>1. Minus(Whole(p), avg) = [num |-> p * D + (0 - A) * 1, den |-> 1 * D]
    BY <1>1, <1>2, MinusTyped
  <2>2. p * D + (0 - A) * 1 = k /\ 1 * D = D
    BY <1>3
  <2> QED BY <1>2, <2>1, <2>2, MinusTyped
<1>5. PICK m \in Int : m = Unit * (0 - n)
  BY MoneyFacts
<1>6. /\ Times(m, Minus(Whole(p), avg)) \in Fraction
      /\ Times(m, Minus(Whole(p), avg)) = [num |-> m * k, den |-> D]
  BY <1>4, TimesTyped DEF Times
<1>7. PICK q \in Fraction : /\ q = Plus(pnl, Times(m, Minus(Whole(p), avg)))
                            /\ q = [num |-> P * D + m * k * Q, den |-> Q * D]
  <2>1. PICK r \in Fraction, z \in Int :
          r = Times(m, Minus(Whole(p), avg)) /\ z = m * k /\ r.num = z /\ r.den = D
    BY <1>6
  <2>2. Plus(pnl, r) \in Fraction /\ Plus(pnl, r) = [num |-> P * D + z * Q, den |-> Q * D]
    BY <1>1, <2>1, PlusTyped DEF Plus
  <2> QED BY <2>1, <2>2
<1>8. PICK new \in Fraction : new = next /\ new = Reduced(q) /\ Same(new, q)
  BY <1>5, <1>7, ReducedIs
<1>9. new.num * (Q * D) = (P * D + m * k * Q) * new.den
  BY <1>7, <1>8 DEF Same
<1> QED BY <1>1, <1>3, <1>5, <1>8, <1>9 DEF Profits

(* A trade and one more piece of it still account for each other.          *)
LEMMA UpdatedAccounted ==
  ASSUME NEW t, Accounted(t), NEW n \in Int, n # 0, NEW p \in Nat, Sided(t, n)
  PROVE  LET u == Updated(t, n, p) IN
         /\ Accounted(u)
         /\ u.size = t.size + n /\ u.long = t.long
         /\ Paid(u) = Paid(t) + n * p
         /\ u.fee = t.fee + Abs(n) * p * Fee
         /\ Sized(u, TRUE) >= Sized(t, TRUE)
         /\ t.size = 0 => Sized(u, TRUE) # 0
<1>1. /\ t.size \in Int /\ t.long \in BOOLEAN /\ t.avg \in Fraction /\ t.pnl \in Fraction
      /\ t.fee \in Int /\ t.events \in Seq(Piece)
  BY DEF Accounted, TradeTyped
<1>2. PICK u : u = Updated(t, n, p)
  OBVIOUS
<1>3. PICK e : e = [size |-> n, price |-> p]
  OBVIOUS
<1>4. e \in Piece /\ e.size = n /\ e.price = p
  BY <1>3 DEF Piece
<1>5. /\ u.size = t.size + n /\ u.fee = t.fee + Abs(n) * p * Fee
      /\ u.events = Append(t.events, e)
  BY <1>2, <1>3 DEF Updated
<1>6. u.long = t.long
  <2>1. u.long = IF t.size = 0 THEN n > 0 ELSE t.long
    BY <1>2 DEF Updated
  <2> QED BY <2>1, Zenon DEF Sided
<1>7. OneMore(t, u, e)
  BY <1>1, <1>4, <1>5, <1>6 DEF OneMore
<1>8. /\ \A opening \in BOOLEAN : Sized(t, opening) \in Nat /\ Notional(t, opening) \in Int
      /\ t.size = Held(t)
      /\ Makes(t.pnl.num, t.pnl.den, 0 - Unit * Paid(t), t.size, t.avg.num, t.avg.den)
  BY Zenon DEF Accounted
<1>9. /\ \A opening \in BOOLEAN : /\ Sized(u, opening) \in Nat /\ Notional(u, opening) \in Int
                                  /\ Sized(u, opening) >= Sized(t, opening)
      /\ Opens(t, e) = TRUE => Sized(u, TRUE) # 0
      /\ Held(t) \in Int /\ Paid(t) \in Int
      /\ Held(u) = Held(t) + e.size
      /\ Paid(u) = Paid(t) + e.size * e.price
  BY <1>7, <1>8, HoldingsGrow, Zenon
<1>10. t.size = 0 => Sized(u, TRUE) # 0
  <2>1. t.size = 0 => t.long = (n > 0)
    BY Zenon DEF Sided
  <2>2. t.size = 0 => Opens(t, e) = TRUE
    BY <1>4, <2>1, Zenon DEF Opens
  <2> QED BY <1>9, <2>2, Zenon
<1>11. PICK s \in Int, g \in Int : s = t.size /\ g = 0 - Unit * Paid(t)
  BY <1>1, <1>9, MoneyFacts
<1>12. g - Unit * (p * n) = 0 - Unit * Paid(u)
  <2>1. PICK k \in Int : k = Paid(t)
    BY <1>9
  <2>2. Paid(u) = k + n * p
    BY <1>4, <1>9, <2>1
  <2> QED BY <1>11, <2>1, <2>2, MoneyFacts
<1>13. PICK A \in Int, D \in Int, P \in Int, Q \in Int :
         /\ A = t.avg.num /\ D = t.avg.den /\ P = t.pnl.num /\ Q = t.pnl.den
         /\ D # 0 /\ Q # 0
  BY <1>1, FractionFields
<1>14. Makes(P, Q, g, s, A, D)
  BY <1>8, <1>11, <1>13, Zenon
<1>15. /\ u.avg \in Fraction /\ u.pnl \in Fraction
       /\ Makes(u.pnl.num, u.pnl.den, 0 - Unit * Paid(u), u.size, u.avg.num, u.avg.den)
  <2>1. CASE Adds(t, n)
    <3>1. u.pnl = t.pnl
      BY <1>2, <2>1 DEF Updated, Adds
    <3>2. u.avg = Reduced([num |-> t.avg.num * Abs(t.size) + p * Abs(n) * t.avg.den,
                           den |-> t.avg.den * (Abs(t.size) + Abs(n))])
      BY <1>2, <2>1 DEF Updated, Adds
    <3>3. /\ u.avg \in Fraction
          /\ Averages(t.size, t.avg.num, t.avg.den, n, p, u.avg.num, u.avg.den)
      BY <1>1, <2>1, <3>2, AverageAfter DEF Adds
    <3>4. PICK C \in Int, E \in Int : C = u.avg.num /\ E = u.avg.den
      BY <3>3, FractionFields
    <3>5. Averages(s, A, D, n, p, C, E)
      BY <1>11, <1>13, <3>3, <3>4
    <3>6. Makes(P, Q, g - Unit * (p * n), s + n, C, E)
      BY <1>13, <1>14, <3>5, MakesAfterAdding, MoneyFacts
    <3> QED BY <1>1, <1>5, <1>11, <1>12, <1>13, <3>1, <3>3, <3>4, <3>6
  <2>2. CASE ~Adds(t, n)
    <3>1. u.avg = t.avg
      BY <1>2, <2>2 DEF Updated, Adds
    <3>2. u.pnl = Reduced(Plus(t.pnl, Times(Unit * (0 - n), Minus(Whole(p), t.avg))))
      BY <1>2, <2>2 DEF Updated, Adds
    <3>3. /\ u.pnl \in Fraction
          /\ Profits(t.pnl.num, t.pnl.den, t.avg.num, t.avg.den, n, p, u.pnl.num, u.pnl.den)
      BY <1>1, <3>2, ProfitAfter
    <3>4. PICK B \in Int, R \in Int : B = u.pnl.num /\ R = u.pnl.den
      BY <3>3, FractionFields
    <3>5. Profits(P, Q, A, D, n, p, B, R)
      BY <1>13, <3>3, <3>4
    <3>6. Makes(B, R, g - Unit * (p * n), s + n, A, D)
      BY <1>13, <1>14, <3>5, MakesAfterReducing, MoneyFacts
    <3> QED BY <1>1, <1>5, <1>11, <1>12, <1>13, <3>1, <3>3, <3>4, <3>6
  <2> QED BY <2>1, <2>2
<1>16. u.size \in Int /\ u.fee \in Int /\ u.events \in Seq(Piece) /\ u.size = Held(u)
  <2>1. Append(t.events, e) \in Seq(Piece)
    BY <1>1, <1>4, AppendProperties
  <2>2. PICK k \in Int : k = Abs(n) * p * Fee
    <3>1. PICK a \in Int, f \in Int : a = Abs(n) /\ f = Fee
      BY AbsFacts, MoneyFacts
    <3>2. a * p * f \in Int
      OBVIOUS
    <3> QED BY <3>1, <3>2
  <2>3. PICK x \in Int : x = t.size /\ t.size = Held(t)
    BY <1>8, <1>11
  <2>4. PICK f \in Int : f = t.fee
    BY <1>1
  <2>5. u.size = x + n /\ u.fee = f + k
    BY <1>5, <2>2, <2>3, <2>4, Zenon
  <2>6. Held(u) = x + n
    BY <1>4, <1>9, <2>3, Zenon
  <2>7. x + n \in Int /\ f + k \in Int
    OBVIOUS
  <2> QED BY <1>5, <2>1, <2>5, <2>6, <2>7, Zenon
<1>17. Accounted(u)
  BY <1>1, <1>6, <1>9, <1>15, <1>16, Zenon DEF Accounted, TradeTyped
<1>18. Paid(u) = Paid(t) + n * p /\ Sized(u, TRUE) >= Sized(t, TRUE)
  BY <1>4, <1>9, Zenon
<1> QED BY <1>2, <1>5, <1>6, <1>10, <1>17, <1>18, Zenon

-----------------------------------------------------------------------------
(***************************************************************************)
(* The record of a closed trade                                            *)
(***************************************************************************)
Finished(t) == Accounted(t) /\ t.size = 0 /\ Sized(t, TRUE) # 0

(* What RecordExplainsProfit says of one record.                           *)
Explains(r) ==
  Same(r.pnl_gross,
       Times(Unit * r.size, IF r.side = "long" THEN Minus(r.exit, r.entry)
                            ELSE Minus(r.entry, r.exit)))

RecordTyped(r) ==
  /\ r.size \in Nat \ {0} /\ r.entry \in Fraction /\ r.exit \in Fraction
  /\ r.pnl_net \in Fraction

(* A trade that holds nothing made what it received less what it paid.     *)
LEMMA FinishedMade ==
  ASSUME NEW t, Finished(t)
  PROVE  Paid(t) \in Int /\ Same(t.pnl, Whole(0 - Unit * Paid(t)))
<1>1. /\ t.avg \in Fraction /\ t.pnl \in Fraction /\ t.size = 0
      /\ Makes(t.pnl.num, t.pnl.den, 0 - Unit * Paid(t), t.size, t.avg.num, t.avg.den)
  BY Zenon DEF Finished, Accounted, TradeTyped
<1>2. Paid(t) \in Int
  <2>1. Notional(t, TRUE) \in Int /\ Notional(t, FALSE) \in Int /\ t.long \in BOOLEAN
    BY Zenon DEF Finished, Accounted, TradeTyped
  <2>2. PICK a \in Int, b \in Int : a = Notional(t, TRUE) /\ b = Notional(t, FALSE)
    BY <2>1, Zenon
  <2>3. Paid(t) = Signed(t, a, b)
    BY <2>2, Zenon DEF Paid
  <2>4. t.long \in BOOLEAN
    BY <2>1, Zenon
  <2> QED BY <2>3, <2>4, SignedAdds
<1>3. PICK A \in Int, D \in Int, P \in Int, Q \in Int, g \in Int :
        /\ A = t.avg.num /\ D = t.avg.den /\ P = t.pnl.num /\ Q = t.pnl.den
        /\ g = 0 - Unit * Paid(t) /\ D # 0
  BY <1>1, <1>2, FractionFields, MoneyFacts
<1>4. P * D = (g * D + Unit * 0 * A) * Q
  BY <1>1, <1>3 DEF Makes
<1>5. P * D = (g * Q) * D
  <2>1. Unit * 0 * A = 0
    BY MoneyFacts
  <2>2. (g * D + 0) * Q = (g * Q) * D
    OBVIOUS
  <2> QED BY <1>4, <2>1, <2>2
<1>6. P = g * Q
  <2>1. g * Q \in Int
    OBVIOUS
  <2> QED BY <1>3, <1>5, <2>1, CancelFactor
<1> QED BY <1>2, <1>3, <1>6 DEF Same, Whole

LEMMA NetOf ==
  ASSUME NEW t, t.pnl \in Fraction, t.fee \in Int, NEW g \in Int
  PROVE  /\ Net(t) \in Fraction
         /\ Same(t.pnl, Whole(g)) => Same(Net(t), Whole(g - t.fee))
<1>1. PICK f \in Int : f = t.fee
  OBVIOUS
<1>2. [Whole(f) EXCEPT !.num = -@] = Whole(0 - f)
  BY DEF Whole
<1>3. Net(t) = Plus(t.pnl, Whole(0 - f))
  BY <1>1, <1>2 DEF Net, Minus
<1>4. Whole(0 - f) \in Fraction /\ 0 - f \in Int
  BY WholeTyped
<1>5. Net(t) \in Fraction
  BY <1>3, <1>4, PlusTyped
<1>6. ASSUME Same(t.pnl, Whole(g)) PROVE Same(Net(t), Whole(g - t.fee))
  <2>1. Same(Whole(0 - f), Whole(0 - f))
    BY SameItself
  <2>2. Same(Plus(t.pnl, Whole(0 - f)), Whole(g + (0 - f)))
    BY <1>4, <1>6, <2>1, WholeSum
  <2>3. g + (0 - f) = g - t.fee
    BY <1>1
  <2> QED BY <1>3, <2>2, <2>3
<1> QED BY <1>5, <1>6

(* The record of a trade that holds nothing (_build_trade_record) explains *)
(* its profit, which is what was received less what was paid.              *)
LEMMA RecordOf ==
  ASSUME NEW t, Finished(t)
  PROVE  /\ RecordTyped(TradeRecord(t)) /\ Explains(TradeRecord(t))
         /\ TradeRecord(t).pnl_net = Net(t)
         /\ Same(Net(t), Whole(0 - Unit * Paid(t) - t.fee))
<1>1. PICK r : r = TradeRecord(t)
  OBVIOUS
<1>2. /\ t.long \in BOOLEAN /\ t.pnl \in Fraction /\ t.fee \in Int
      /\ Sized(t, TRUE) \in Nat /\ Sized(t, FALSE) \in Nat
      /\ Notional(t, TRUE) \in Int /\ Notional(t, FALSE) \in Int
      /\ Held(t) = 0 /\ Sized(t, TRUE) # 0
  BY Zenon DEF Finished, Accounted, TradeTyped
<1>3. PICK a \in Nat \ {0}, b \in Nat, c \in Int, d \in Int :
        /\ a = Sized(t, TRUE) /\ b = Sized(t, FALSE)
        /\ c = Notional(t, TRUE) /\ d = Notional(t, FALSE)
  BY <1>2, Zenon
<1>4. /\ Signed(t, a, b) = 0 /\ Paid(t) = Signed(t, c, d)
      /\ r.size = a /\ r.pnl_gross = t.pnl /\ r.pnl_net = Net(t)
      /\ r.side = (IF t.long THEN "long" ELSE "short")
      /\ r.entry = [num |-> c, den |-> a] /\ r.exit = [num |-> d, den |-> b]
  <2>1. Signed(t, a, b) = 0 /\ Paid(t) = Signed(t, c, d)
    BY <1>2, <1>3, Zenon DEF Held, Paid
  <2>2. AveragePrice(t, TRUE) = [num |-> c, den |-> a] /\ AveragePrice(t, FALSE) = [num |-> d, den |-> b]
    BY <1>3, Zenon DEF AveragePrice
  <2>3. r = [side |-> IF t.long THEN "long" ELSE "short", size |-> a,
             entry |-> [num |-> c, den |-> a], exit |-> [num |-> d, den |-> b],
             pnl_gross |-> t.pnl, pnl_net |-> Net(t)]
    BY <1>1, <1>3, <2>2, Zenon DEF TradeRecord
  <2> QED BY <2>1, <2>3
<1>5. a = b
  <2>1. CASE t.long = TRUE
    BY <1>4, <2>1 DEF Signed
  <2>2. CASE t.long = FALSE
    BY <1>4, <2>2 DEF Signed
  <2> QED BY <1>2, <2>1, <2>2
<1>6. r.entry \in Fraction /\ r.exit \in Fraction /\ r.size \in Nat \ {0}
  BY <1>4, <1>5 DEF Fraction
<1>7. Paid(t) \in Int /\ Same(t.pnl, Whole(0 - Unit * Paid(t)))
  BY FinishedMade
<1>8. Net(t) \in Fraction /\ Same(Net(t), Whole(0 - Unit * Paid(t) - t.fee))
  <2>1. PICK g \in Int : g = 0 - Unit * Paid(t)
    BY <1>7, MoneyFacts
  <2> QED BY <1>2, <1>7, <2>1, NetOf
<1>9. Explains(r)
  <2>1. PICK P \in Int, Q \in Int : P = t.pnl.num /\ Q = t.pnl.den
    BY <1>2, FractionFields
  <2>2. PICK k \in Int : k = Paid(t)
    BY <1>7
  <2>3. P = (0 - Unit * k) * Q
    BY <1>7, <2>1, <2>2, MoneyFacts DEF Same, Whole
  <2>4. PICK m \in Int : m = Unit * a
    BY MoneyFacts
  <2>5. ASSUME NEW x \in Int, NEW y \in Int, 0 - k = x - y
        PROVE  P * (a * a) = m * (x * a + (0 - y) * a) * Q
    <3>1. P = (Unit * (x - y)) * Q
      <4>1. 0 - Unit * k = Unit * (x - y)
        BY <2>5, MoneyFacts
      <4> QED BY <2>3, <4>1
    <3>2. m * (x * a + (0 - y) * a) * Q = ((Unit * (x - y)) * Q) * (a * a)
      BY <2>4, MoneyFacts
    <3> QED BY <3>1, <3>2
  <2>6. CASE t.long = TRUE
    <3>1. 0 - k = d - c
      BY <1>4, <2>2, <2>6 DEF Signed
    <3>2. Minus(r.exit, r.entry) = [num |-> d * a + (0 - c) * a, den |-> a * a]
      <4>1. PICK q \in Fraction, z \in Fraction : q = r.exit /\ z = r.entry
        BY <1>6
      <4>2. q.num = d /\ q.den = a /\ z.num = c /\ z.den = a
        BY <1>4, <1>5, <4>1
      <4>3. Minus(q, z) = [num |-> q.num * z.den + (0 - z.num) * q.den, den |-> q.den * z.den]
        BY MinusTyped
      <4> QED BY <4>1, <4>2, <4>3
    <3>3. r.side = "long"
      BY <1>4, <2>6
    <3>4. P * (a * a) = m * (d * a + (0 - c) * a) * Q
      BY <2>5, <3>1
    <3>5. Explains(r) <=> Same(t.pnl, Times(m, Minus(r.exit, r.entry)))
      BY <1>4, <2>4, <3>3 DEF Explains
    <3> QED BY <2>1, <3>2, <3>4, <3>5 DEF Same, Times
  <2>7. CASE t.long = FALSE
    <3>1. 0 - k = c - d
      BY <1>4, <2>2, <2>7 DEF Signed
    <3>2. Minus(r.entry, r.exit) = [num |-> c * a + (0 - d) * a, den |-> a * a]
      <4>1. PICK q \in Fraction, z \in Fraction : q = r.entry /\ z = r.exit
        BY <1>6
      <4>2. q.num = c /\ q.den = a /\ z.num = d /\ z.den = a
        BY <1>4, <1>5, <4>1
      <4>3. Minus(q, z) = [num |-> q.num * z.den + (0 - z.num) * q.den, den |-> q.den * z.den]
        BY MinusTyped
      <4> QED BY <4>1, <4>2, <4>3
    <3>3. r.side # "long"
      BY <1>4, <2>7
    <3>4. P * (a * a) = m * (c * a + (0 - d) * a) * Q
      BY <2>5, <3>1
    <3>5. Explains(r) <=> Same(t.pnl, Times(m, Minus(r.entry, r.exit)))
      BY <1>4, <2>4, <3>3 DEF Explains
    <3> QED BY <2>1, <3>2, <3>4, <3>5 DEF Same, Times
  <2> QED BY <1>2, <2>6, <2>7
<1> QED BY <1>1, <1>4, <1>6, <1>8, <1>9 DEF RecordTyped

-----------------------------------------------------------------------------
(***************************************************************************)
(* Pieces of the open trade                                                *)
(***************************************************************************)
LEMMA NoFigures == ASSUME NEW f PROVE f = [i \in DOMAIN <<>> |-> f[i]] => f = <<>>
<1>1. DOMAIN <<>> = {}
  OBVIOUS
<1> QED BY <1>1

(* No trade, on either side, has no figures.                               *)
LEMMA NoFills ==
  ASSUME NEW t, t.events = <<>>, NEW opening, NEW figure
  PROVE  OfFills(t, opening, figure) = 0
<1> DEFINE f == [i \in DOMAIN t.events |-> IF Opens(t, t.events[i]) = opening THEN figure[i] ELSE 0]
<1>1. f = [i \in DOMAIN <<>> |-> f[i]]
  OBVIOUS
<1>2. OfFills(t, opening, figure) = SumOf(f)
  BY DEF OfFills
<1> HIDE DEF f
<1>3. f = <<>>
  BY <1>1, NoFigures
<1> QED BY <1>2, <1>3, SumOfNone

(* A trade that is still to be opened, on one side.                        *)
Blank(side) == [size |-> 0, long |-> side, avg |-> [num |-> 0, den |-> 1],
                pnl |-> [num |-> 0, den |-> 1], fee |-> 0, events |-> <<>>]

LEMMA BlankAccounted ==
  ASSUME NEW side \in BOOLEAN, NEW t, t = Blank(side)
  PROVE  Accounted(t) /\ t.size = 0 /\ t.long = side /\ t.fee = 0 /\ Paid(t) = 0
<1>1. /\ t.size = 0 /\ t.long = side /\ t.fee = 0 /\ t.events = <<>>
      /\ t.avg = [num |-> 0, den |-> 1] /\ t.pnl = [num |-> 0, den |-> 1]
  BY DEF Blank
<1>2. ASSUME NEW opening PROVE Sized(t, opening) = 0 /\ Notional(t, opening) = 0
  BY <1>1, NoFills DEF Sized, Notional
<1>3. Signed(t, 0, 0) = 0
  BY DEF Signed
<1>4. Held(t) = 0 /\ Paid(t) = 0
  BY <1>2, <1>3, Zenon DEF Held, Paid
<1>5. [num |-> 0, den |-> 1] \in Fraction /\ <<>> \in Seq(Piece)
  BY DEF Fraction
<1>6. TradeTyped(t)
  <2>1. 0 \in Int
    OBVIOUS
  <2> QED BY <1>1, <1>5, <2>1, Zenon DEF TradeTyped
<1>7. Makes(0, 1, 0 - Unit * 0, 0, 0, 1)
  BY MoneyFacts DEF Makes
<1>8. Makes(t.pnl.num, t.pnl.den, 0 - Unit * Paid(t), t.size, t.avg.num, t.avg.den)
  <2>1. t.pnl.num = 0 /\ t.pnl.den = 1 /\ t.avg.num = 0 /\ t.avg.den = 1
    BY <1>1
  <2> QED BY <1>1, <1>4, <1>7, <2>1, Zenon
<1>9. \A opening \in BOOLEAN : Sized(t, opening) \in Nat /\ Notional(t, opening) \in Int
  <2>1. 0 \in Nat /\ 0 \in Int
    OBVIOUS
  <2> QED BY <1>2, <2>1, Zenon
<1> QED BY <1>1, <1>4, <1>6, <1>8, <1>9, Zenon DEF Accounted

(* What the open trade is.                                                 *)
Open(t) ==
  IF t.size = 0 THEN t = NoTrade
  ELSE Accounted(t) /\ t.long = (t.size > 0) /\ Sized(t, TRUE) # 0

LEMMA NothingOpen == /\ Open(NoTrade) /\ NoTrade.size = 0 /\ NoTrade.fee = 0 /\ Paid(NoTrade) = 0
                     /\ Accounted(NoTrade)
<1>1. NoTrade = Blank(TRUE)
  BY Zenon DEF NoTrade, Blank
<1>2. TRUE \in BOOLEAN
  OBVIOUS
<1>3. /\ Accounted(NoTrade) /\ NoTrade.size = 0 /\ NoTrade.fee = 0
      /\ Paid(NoTrade) = 0
  BY <1>1, <1>2, BlankAccounted, Zenon
<1> QED BY <1>3, Zenon DEF Open

LEMMA OpenAccounted == ASSUME NEW t, Open(t) PROVE Accounted(t)
  BY NothingOpen, Zenon DEF Open

(* A fill on the side of the trade, or the first of a trade, leaves it     *)
(* open and accounted for.                                                 *)
LEMMA PieceAdded ==
  ASSUME NEW t, Open(t), NEW n \in Int, n # 0, NEW p \in Nat, Adds(t, n)
  PROVE  LET u == Updated(t, n, p) IN
         /\ Open(u) /\ u.size = t.size + n
         /\ Paid(u) = Paid(t) + n * p /\ u.fee = t.fee + Abs(n) * p * Fee
<1>1. PICK u : u = Updated(t, n, p)
  OBVIOUS
<1>2. CASE t.size = 0
  <2>1. t = NoTrade
    BY <1>2 DEF Open
  <2>2. PICK side \in BOOLEAN : side = (n > 0)
    <3>1. (n > 0) \in BOOLEAN
      OBVIOUS
    <3> QED BY <3>1, Zenon
  <2>3. PICK b : b = Blank(side)
    OBVIOUS
  <2>4. Accounted(b) /\ b.size = 0 /\ b.long = side /\ b.fee = 0 /\ Paid(b) = 0
    BY <2>3, BlankAccounted
  <2>5. b = [size |-> 0, long |-> side, avg |-> t.avg, pnl |-> t.pnl, fee |-> t.fee,
             events |-> t.events]
    BY <2>1, <2>3 DEF NoTrade, Blank
  <2>6. Updated(b, n, p) = u
    <3>1. /\ b.size = 0 /\ t.size = 0 /\ b.avg = t.avg /\ b.pnl = t.pnl /\ b.fee = t.fee
          /\ b.events = t.events
      BY <1>2, <2>5
    <3> QED BY <1>1, <3>1, Zenon DEF Updated
  <2>7. Sided(b, n)
    BY <2>2, <2>4, Zenon DEF Sided
  <2>8. /\ Accounted(u) /\ u.size = b.size + n /\ u.long = b.long
        /\ Paid(u) = Paid(b) + n * p /\ u.fee = b.fee + Abs(n) * p * Fee
        /\ Sized(u, TRUE) # 0
    BY <2>4, <2>6, <2>7, UpdatedAccounted
  <2>9. Paid(t) = 0 /\ t.fee = 0
    BY <2>1, NothingOpen
  <2>10. u.size = n
    BY <2>4, <2>8
  <2>11. Open(u)
    BY <2>2, <2>4, <2>8, <2>10, Zenon DEF Open
  <2>12. /\ u.size = t.size + n /\ Paid(u) = Paid(t) + n * p
         /\ u.fee = t.fee + Abs(n) * p * Fee
    BY <1>2, <2>4, <2>8, <2>9, <2>10
  <2> QED BY <1>1, <2>11, <2>12
<1>3. CASE t.size # 0
  <2>1. Accounted(t) /\ t.long = (t.size > 0) /\ Sized(t, TRUE) # 0 /\ t.size \in Int
    BY <1>3, Zenon DEF Open, Accounted, TradeTyped
  <2>2. Sided(t, n)
    BY <1>3, <2>1, Zenon DEF Sided
  <2>3. /\ Accounted(u) /\ u.size = t.size + n /\ u.long = t.long
        /\ Paid(u) = Paid(t) + n * p /\ u.fee = t.fee + Abs(n) * p * Fee
        /\ Sized(u, TRUE) >= Sized(t, TRUE)
    BY <1>1, <2>1, <2>2, UpdatedAccounted
  <2>4. PICK s \in Int : s = t.size
    BY <2>1
  <2>5. s + n # 0 /\ (s + n > 0) = (s > 0)
    BY <1>3, <2>4 DEF Adds
  <2>6. u.size # 0 /\ u.long = (u.size > 0)
    BY <2>1, <2>3, <2>4, <2>5, Zenon
  <2>7. Sized(u, TRUE) # 0
    <3>1. Sized(u, TRUE) \in Nat /\ Sized(t, TRUE) \in Nat
      BY <2>1, <2>3, Zenon DEF Accounted
    <3>2. \A a, b \in Nat : a >= b /\ b # 0 => a # 0
      OBVIOUS
    <3> QED BY <2>1, <2>3, <3>1, <3>2, Zenon
  <2> QED BY <1>1, <2>3, <2>6, <2>7, Zenon DEF Open
<1> QED BY <1>2, <1>3

(* A fill against the trade, no larger than it, leaves it accounted for;   *)
(* when nothing is left it is finished.                                    *)
LEMMA PieceTaken ==
  ASSUME NEW t, Open(t), NEW n \in Int, n # 0, NEW p \in Nat, ~Adds(t, n), Abs(n) <= Abs(t.size)
  PROVE  LET u == Updated(t, n, p) IN
         /\ u.size = t.size + n
         /\ u.size = 0 => Finished(u)
         /\ u.size # 0 => Open(u)
         /\ Paid(u) = Paid(t) + n * p /\ u.fee = t.fee + Abs(n) * p * Fee
<1>1. PICK u : u = Updated(t, n, p)
  OBVIOUS
<1>2. t.size # 0
  BY DEF Adds
<1>3. Accounted(t) /\ t.long = (t.size > 0) /\ Sized(t, TRUE) # 0 /\ t.size \in Int
  BY <1>2, Zenon DEF Open, Accounted, TradeTyped
<1>4. Sided(t, n)
  BY <1>2, <1>3, Zenon DEF Sided
<1>5. /\ Accounted(u) /\ u.size = t.size + n /\ u.long = t.long
      /\ Paid(u) = Paid(t) + n * p /\ u.fee = t.fee + Abs(n) * p * Fee
      /\ Sized(u, TRUE) >= Sized(t, TRUE)
  BY <1>1, <1>3, <1>4, UpdatedAccounted
<1>6. Sized(u, TRUE) # 0
  <2>1. Sized(u, TRUE) \in Nat /\ Sized(t, TRUE) \in Nat
    BY <1>3, <1>5, Zenon DEF Accounted
  <2>2. \A a, b \in Nat : a >= b /\ b # 0 => a # 0
    OBVIOUS
  <2> QED BY <1>3, <1>5, <2>1, <2>2, Zenon
<1>7. PICK s \in Int : s = t.size
  BY <1>3
<1>8. s + n = 0 \/ (s + n > 0) = (s > 0)
  BY <1>2, <1>7 DEF Adds, Abs
<1>9. u.size # 0 => u.long = (u.size > 0)
  BY <1>3, <1>5, <1>7, <1>8, Zenon
<1>10. u.size = 0 => Finished(u)
  BY <1>5, <1>6, Zenon DEF Finished
<1>11. u.size # 0 => Open(u)
  BY <1>5, <1>6, <1>9, Zenon DEF Open
<1> QED BY <1>1, <1>5, <1>10, <1>11, Zenon

-----------------------------------------------------------------------------
(***************************************************************************)
(* The log                                                                 *)
(***************************************************************************)
List(s) == \E S : s \in Seq(S)

LEMMA ListGrows ==
  ASSUME NEW s, List(s), NEW x
  PROVE  /\ Len(s) \in Nat /\ DOMAIN s = 1..Len(s)
         /\ List(Append(s, x)) /\ Len(Append(s, x)) = Len(s) + 1
         /\ DOMAIN Append(s, x) = 1..(Len(s) + 1)
         /\ \A i \in 1..Len(s) : Append(s, x)[i] = s[i]
         /\ Append(s, x)[Len(s) + 1] = x
<1>1. PICK S : s \in Seq(S)
  BY DEF List
<1>2. PICK T : T = S \cup {x}
  OBVIOUS
<1>3. s \in Seq(T) /\ x \in T
  <2>1. s \in Seq(T)
    BY <1>1, <1>2
  <2> QED BY <1>2, <2>1
<1>4. PICK m \in Nat : m = Len(s) /\ DOMAIN s = 1..m
  BY <1>1
<1>5. Append(s, x) \in Seq(T)
  BY <1>3, AppendProperties
<1>6. Len(Append(s, x)) = m + 1
  BY <1>3, <1>4, AppendProperties
<1>7. \A i \in 1..m : Append(s, x)[i] = s[i]
  BY <1>3, <1>4, AppendProperties
<1>8. Append(s, x)[m + 1] = x
  BY <1>3, <1>4, AppendProperties
<1>9. DOMAIN Append(s, x) = 1..(m + 1)
  BY <1>5, <1>6
<1>10. List(Append(s, x))
  BY <1>5 DEF List
<1> QED BY <1>4, <1>6, <1>7, <1>8, <1>9, <1>10

Gains(records) == [i \in DOMAIN records |-> records[i].pnl_net]

(* The log lg of the closed trades cl, beside an open trade t and cash k.  *)
Ledger(t, k, cl, lg) ==
  /\ Open(t) /\ List(cl) /\ List(lg) /\ Len(cl) = Len(lg)
  /\ \A i \in DOMAIN lg : /\ RecordTyped(lg[i]) /\ Explains(lg[i])
                          /\ lg[i].pnl_net = Net(cl[i])
  /\ Same(Sum(Gains(lg)), Whole(k - Capital + Unit * Paid(t) + t.fee))

LEMMA PaidTyped == ASSUME NEW t, Accounted(t) PROVE Paid(t) \in Int /\ t.fee \in Int
<1>1. Notional(t, TRUE) \in Int /\ Notional(t, FALSE) \in Int /\ t.long \in BOOLEAN /\ t.fee \in Int
  BY Zenon DEF Accounted, TradeTyped
<1>2. PICK a \in Int, b \in Int : a = Notional(t, TRUE) /\ b = Notional(t, FALSE)
  BY <1>1, Zenon
<1>3. t.long \in BOOLEAN /\ Paid(t) = Signed(t, a, b)
  BY <1>1, <1>2, Zenon DEF Paid
<1>4. Signed(t, a, b) \in Int
  BY <1>3, SignedAdds
<1> QED BY <1>1, <1>3, <1>4, Zenon

(* A record that is appended appends its profit to the log's.              *)
LEMMA GainsGrow ==
  ASSUME NEW s, List(s), NEW r, \A i \in DOMAIN s : s[i].pnl_net \in Fraction,
         r.pnl_net \in Fraction
  PROVE  Gains(s) \in Seq(Fraction) /\ Gains(Append(s, r)) = Append(Gains(s), r.pnl_net)
<1>1. PICK S : s \in Seq(S)
  BY DEF List
<1>2. PICK T : T = S \cup {r}
  OBVIOUS
<1>3. s \in Seq(T) /\ r \in T
  <2>1. s \in Seq(T)
    BY <1>1, <1>2
  <2> QED BY <1>2, <2>1
<1>4. PICK m \in Nat : m = Len(s)
  BY <1>1
<1>5. /\ DOMAIN s = 1..m /\ DOMAIN Append(s, r) = 1..(m + 1)
      /\ \A i \in 1..m : Append(s, r)[i] = s[i]
      /\ Append(s, r)[m + 1] = r
  BY <1>4, ListGrows
<1> DEFINE a == Gains(s)
           b == Gains(Append(s, r))
<1>6. a = [i \in DOMAIN s |-> a[i]] /\ b = [i \in DOMAIN Append(s, r) |-> b[i]]
  BY DEF Gains
<1>7. \A i \in DOMAIN s : a[i] \in Fraction
  BY DEF Gains
<1>8. ASSUME NEW i \in DOMAIN s PROVE b[i] = a[i]
  <2>1. i \in 1..m /\ i \in 1..(m + 1)
    BY <1>5
  <2> QED BY <1>5, <2>1 DEF Gains
<1>9. b[Len(s) + 1] = r.pnl_net
  BY <1>4, <1>5 DEF Gains
<1> HIDE DEF a, b
<1>10. Figures(Fraction, s, r, a, b, r.pnl_net)
  BY <1>6, <1>7, <1>8, <1>9 DEF Figures
<1>11. a \in Seq(Fraction) /\ b = Append(a, r.pnl_net)
  BY <1>3, <1>10, OneMoreFigure
<1> QED BY <1>11 DEF a, b

(* A trade that ends is written down, and its profit is in the cash.       *)
LEMMA LedgerCloses ==
  ASSUME NEW t, NEW k \in Int, NEW cl, NEW lg, Ledger(t, k, cl, lg),
         NEW after, Finished(after), NEW n \in Int, NEW p \in Nat,
         Paid(after) = Paid(t) + n * p, after.fee = t.fee + Abs(n) * p * Fee
  PROVE  Ledger(NoTrade, k - n * p * Unit - Abs(n) * p * Fee, Append(cl, after),
                Append(lg, TradeRecord(after)))
<1>0. /\ Open(t) /\ List(cl) /\ List(lg) /\ Len(cl) = Len(lg)
      /\ \A i \in DOMAIN lg : /\ RecordTyped(lg[i]) /\ Explains(lg[i])
                              /\ lg[i].pnl_net = Net(cl[i])
      /\ Same(Sum(Gains(lg)), Whole(k - Capital + Unit * Paid(t) + t.fee))
  BY DEF Ledger
<1>1. PICK r : r = TradeRecord(after)
  OBVIOUS
<1>2. /\ RecordTyped(r) /\ Explains(r) /\ r.pnl_net = Net(after)
      /\ Same(Net(after), Whole(0 - Unit * Paid(after) - after.fee))
      /\ r.pnl_net \in Fraction
  BY <1>1, RecordOf DEF RecordTyped
<1>3. PICK m \in Nat : m = Len(lg) /\ m = Len(cl)
  BY <1>0, ListGrows
<1>4. /\ List(Append(cl, after)) /\ Len(Append(cl, after)) = m + 1
      /\ \A i \in 1..m : Append(cl, after)[i] = cl[i]
      /\ Append(cl, after)[m + 1] = after
  BY <1>0, <1>3, ListGrows
<1>5. /\ List(Append(lg, r)) /\ Len(Append(lg, r)) = m + 1
      /\ DOMAIN lg = 1..m /\ DOMAIN Append(lg, r) = 1..(m + 1)
      /\ \A i \in 1..m : Append(lg, r)[i] = lg[i]
      /\ Append(lg, r)[m + 1] = r
  BY <1>0, <1>3, ListGrows
<1>6. ASSUME NEW i \in DOMAIN Append(lg, r)
      PROVE  /\ RecordTyped(Append(lg, r)[i]) /\ Explains(Append(lg, r)[i])
             /\ Append(lg, r)[i].pnl_net = Net(Append(cl, after)[i])
  <2>1. CASE i = m + 1
    BY <1>2, <1>4, <1>5, <2>1, Zenon
  <2>2. CASE i # m + 1
    <3>1. i \in 1..m
      BY <1>5, <2>2
    <3>2. i \in DOMAIN lg /\ Append(lg, r)[i] = lg[i] /\ Append(cl, after)[i] = cl[i]
      BY <1>4, <1>5, <3>1
    <3> QED BY <1>0, <3>2, Zenon
  <2> QED BY <2>1, <2>2
<1>7. PICK y \in Int, f \in Int, w \in Int, v \in Int :
        y = Paid(t) /\ f = t.fee /\ w = n * p /\ v = Abs(n) * p * Fee
  <2>1. Paid(t) \in Int /\ t.fee \in Int
    BY <1>0, OpenAccounted, PaidTyped
  <2>2. Abs(n) * p * Fee \in Int
    <3>1. PICK a \in Int, g \in Int : a = Abs(n) /\ g = Fee
      BY AbsFacts, MoneyFacts
    <3>2. a * p * g \in Int
      OBVIOUS
    <3> QED BY <3>1, <3>2
  <2> QED BY <2>1, <2>2
<1>8. PICK a \in Int : /\ a = k - Capital + Unit * y + f
                       /\ Same(Sum(Gains(lg)), Whole(a))
  <2>1. k - Capital + Unit * y + f \in Int
    BY MoneyFacts
  <2> QED BY <1>0, <1>7, <2>1
<1>9. PICK b \in Int : /\ b = 0 - Unit * (y + w) - (f + v)
                       /\ Same(r.pnl_net, Whole(b))
  <2>1. 0 - Unit * (y + w) - (f + v) \in Int
    BY MoneyFacts
  <2> QED BY <1>2, <1>7, <2>1
<1>10. Gains(lg) \in Seq(Fraction) /\ Gains(Append(lg, r)) = Append(Gains(lg), r.pnl_net)
  BY <1>0, <1>2, GainsGrow DEF RecordTyped
<1>11. Same(Sum(Gains(Append(lg, r))), Whole(a + b))
  BY <1>2, <1>8, <1>9, <1>10, SumAddsWhole
<1>12. a + b = (k - n * p * Unit - Abs(n) * p * Fee) - Capital + Unit * Paid(NoTrade) + NoTrade.fee
  <2>1. Unit * (y + w) = Unit * y + w * Unit /\ Unit * 0 = 0
    BY MoneyFacts
  <2>2. PICK c \in Int, d \in Int : c = Unit * y /\ d = w * Unit
    BY MoneyFacts
  <2>3. a + b = (k - d - v) - Capital
    BY <1>8, <1>9, <2>1, <2>2, MoneyFacts
  <2>4. Paid(NoTrade) = 0 /\ NoTrade.fee = 0
    BY NothingOpen
  <2> QED BY <1>7, <2>1, <2>2, <2>3, <2>4, MoneyFacts
<1>13. Open(NoTrade)
  BY NothingOpen
<1> QED BY <1>1, <1>4, <1>5, <1>6, <1>11, <1>12, <1>13, Zenon DEF Ledger

(* A piece of a trade that goes on is in the cash, the cost and the fee.   *)
LEMMA LedgerGoesOn ==
  ASSUME NEW t, NEW k \in Int, NEW cl, NEW lg, Ledger(t, k, cl, lg),
         NEW after, Open(after), NEW n \in Int, NEW p \in Nat,
         Paid(after) = Paid(t) + n * p, after.fee = t.fee + Abs(n) * p * Fee
  PROVE  Ledger(after, k - n * p * Unit - Abs(n) * p * Fee, cl, lg)
<1>1. PICK y \in Int, f \in Int, w \in Int, v \in Int :
        y = Paid(t) /\ f = t.fee /\ w = n * p /\ v = Abs(n) * p * Fee
  <2>1. Paid(t) \in Int /\ t.fee \in Int
    BY OpenAccounted, PaidTyped DEF Ledger
  <2>2. Abs(n) * p * Fee \in Int
    <3>1. PICK a \in Int, g \in Int : a = Abs(n) /\ g = Fee
      BY AbsFacts, MoneyFacts
    <3>2. a * p * g \in Int
      OBVIOUS
    <3> QED BY <3>1, <3>2
  <2> QED BY <2>1, <2>2
<1>2. (k - n * p * Unit - Abs(n) * p * Fee) - Capital + Unit * Paid(after) + after.fee
        = k - Capital + Unit * Paid(t) + t.fee
  <2>1. Unit * (y + w) = Unit * y + w * Unit
    BY MoneyFacts
  <2>2. PICK c \in Int, d \in Int : c = Unit * y /\ d = w * Unit
    BY MoneyFacts
  <2>3. (k - d - v) - Capital + (c + d) + (f + v) = k - Capital + c + f
    BY MoneyFacts
  <2> QED BY <1>1, <2>1, <2>2, <2>3
<1> QED BY <1>2, Zenon DEF Ledger

-----------------------------------------------------------------------------
(***************************************************************************)
(* The inductive invariant                                                 *)
(***************************************************************************)
ReportInv ==
  /\ pending \in Order /\ cash \in Int
  /\ values \in Seq(Int) /\ Len(values) <= MaxBars
  /\ Ledger(trade, cash, closed, log)
  /\ trade.size \in (0 - MaxPosition)..MaxPosition
  /\ Abs(trade.size + pending) <= MaxPosition
  /\ trade.size = 0 /\ values # <<>> => values[Len(values)] = cash

LEMMA OrderTyped == ASSUME NEW n \in Order PROVE n \in Int
  BY ReportAssumption DEF Order

LEMMA NoLedger == Ledger(NoTrade, Capital, <<>>, <<>>)
<1>1. Gains(<<>>) = <<>>
  <2> DEFINE g == Gains(<<>>)
  <2>1. g = [i \in DOMAIN <<>> |-> g[i]]
    BY DEF Gains
  <2> HIDE DEF g
  <2>2. g = <<>>
    BY <2>1, NoFigures
  <2> QED BY <2>2 DEF g
<1>2. Sum(Gains(<<>>)) = Whole(0)
  BY <1>1, SumOfNothing
<1>3. Capital - Capital + Unit * Paid(NoTrade) + NoTrade.fee = 0
  <2>1. Paid(NoTrade) = 0 /\ NoTrade.fee = 0 /\ Unit * 0 = 0
    BY NothingOpen, MoneyFacts
  <2> QED BY <2>1, MoneyFacts
<1>4. Same(Whole(0), Whole(0))
  BY DEF Same, Whole
<1>5. <<>> \in Seq({}) /\ Len(<<>>) = Len(<<>>) /\ DOMAIN <<>> = {}
  OBVIOUS
<1>6. List(<<>>)
  BY <1>5 DEF List
<1>7. Open(NoTrade)
  BY NothingOpen
<1> QED BY <1>2, <1>3, <1>4, <1>5, <1>6, <1>7, Zenon DEF Ledger

LEMMA InitiallyAccounted == ReportInit => ReportInv
<1> SUFFICES ASSUME ReportInit PROVE ReportInv
  OBVIOUS
<1>1. Ledger(trade, cash, closed, log)
  BY NoLedger, Zenon DEF ReportInit
<1>2. pending = 0 /\ trade.size = 0 /\ cash \in Int /\ values = <<>>
  BY NothingOpen, MoneyFacts DEF ReportInit
<1>3. pending \in Order /\ Abs(trade.size + pending) <= MaxPosition
  BY <1>2, ReportAssumption DEF Order, Abs
<1>4. trade.size \in (0 - MaxPosition)..MaxPosition
  BY <1>2, ReportAssumption
<1>5. values \in Seq(Int) /\ Len(values) <= MaxBars
  BY <1>2, ReportAssumption
<1> QED BY <1>1, <1>2, <1>3, <1>4, <1>5 DEF ReportInv

(* The order is cut in what it closes and what it adds.                    *)
LEMMA OrderCut ==
  ASSUME NEW s \in Int, s = trade.size, NEW q \in Int
  PROVE  \E less, more \in Int :
           /\ less = Closing(q) /\ more = q - less /\ Abs(less) + Abs(more) = Abs(q)
           /\ less # 0 => ~Adds(trade, less) /\ Abs(less) <= Abs(s)
           /\ more # 0 => \/ s + less = 0
                          \/ (s + less > 0) = (more > 0)
<1>1. CASE s = 0 \/ (s > 0) = (q > 0)
  <2>1. Closing(q) = 0
    BY <1>1 DEF Closing
  <2> QED BY <1>1, <2>1 DEF Abs
<1>2. CASE ~(s = 0 \/ (s > 0) = (q > 0)) /\ Abs(q) <= Abs(s)
  <2>1. Closing(q) = q /\ q - q = 0
    BY <1>2 DEF Closing
  <2>2. ~Adds(trade, q)
    BY <1>2 DEF Adds
  <2> QED BY <1>2, <2>1, <2>2 DEF Abs
<1>3. CASE ~(s = 0 \/ (s > 0) = (q > 0)) /\ ~(Abs(q) <= Abs(s))
  <2>1. PICK less \in Int, more \in Int : less = 0 - s /\ more = q - less
    OBVIOUS
  <2>2. Closing(q) = less
    BY <1>3, <2>1 DEF Closing
  <2>3. ~Adds(trade, less)
    BY <1>3, <2>1 DEF Adds
  <2>4. s + less = 0 /\ Abs(less) <= Abs(s) /\ Abs(less) + Abs(more) = Abs(q)
    BY <1>3, <2>1 DEF Abs
  <2> QED BY <2>1, <2>2, <2>3, <2>4
<1> QED BY <1>1, <1>2, <1>3

(* What is left of the trade, and the books, when the order's first part   *)
(* has been executed.                                                      *)
LEMMA TakenOff ==
  ASSUME NEW k \in Int, NEW cl, NEW lg, Ledger(trade, k, cl, lg),
         NEW less \in Int, NEW p \in Nat, less # 0,
         ~Adds(trade, less), Abs(less) <= Abs(trade.size),
         NEW after, after = Updated(trade, less, p),
         NEW kept, kept = (IF after.size = 0 THEN NoTrade ELSE after)
  PROVE  /\ kept.size = trade.size + less
         /\ Ledger(kept, k - less * p * Unit - Abs(less) * p * Fee,
                   IF after.size = 0 THEN Append(cl, after) ELSE cl,
                   Notified(lg, after))
<1>1. /\ after.size = trade.size + less
      /\ after.size = 0 => Finished(after)
      /\ after.size # 0 => Open(after)
      /\ Paid(after) = Paid(trade) + less * p /\ after.fee = trade.fee + Abs(less) * p * Fee
  BY PieceTaken, Zenon DEF Ledger
<1>2. CASE after.size = 0
  <2>1. Ledger(NoTrade, k - less * p * Unit - Abs(less) * p * Fee, Append(cl, after),
               Append(lg, TradeRecord(after)))
    BY <1>1, <1>2, LedgerCloses
  <2>2. kept = NoTrade /\ Notified(lg, after) = Append(lg, TradeRecord(after))
    BY <1>2, Zenon DEF Notified
  <2>3. kept.size = trade.size + less
    BY <1>1, <1>2, <2>2, NothingOpen
  <2> QED BY <1>2, <2>1, <2>2, <2>3, Zenon
<1>3. CASE after.size # 0
  <2>1. Ledger(after, k - less * p * Unit - Abs(less) * p * Fee, cl, lg)
    BY <1>1, <1>3, LedgerGoesOn
  <2>2. kept = after /\ Notified(lg, after) = lg
    BY <1>3, Zenon DEF Notified
  <2> QED BY <1>1, <1>3, <2>1, <2>2, Zenon
<1> QED BY <1>2, <1>3

(* A bar executes the pending order, in one piece or in two, and keeps the *)
(* books.                                                                  *)
LEMMA BarAccounted ==
  ASSUME ReportInv, NEW p \in BarPrice, NEW n \in Order, Bar(p, n)
  PROVE  ReportInv'
<1>1. p \in Nat /\ n \in Int /\ pending \in Int /\ cash \in Int
  BY OrderTyped, ReportAssumption DEF ReportInv
<1>2. PICK s \in Int, q \in Int : s = trade.size /\ q = pending
  BY <1>1, ReportAssumption DEF ReportInv
<1>3. PICK less \in Int, more \in Int :
        /\ less = Closing(q) /\ more = q - less /\ Abs(less) + Abs(more) = Abs(q)
        /\ less # 0 => ~Adds(trade, less) /\ Abs(less) <= Abs(s)
        /\ more # 0 => s + less = 0 \/ (s + less > 0) = (more > 0)
  BY <1>2, OrderCut
<1>4. PICK after : after = IF less = 0 THEN trade ELSE Updated(trade, less, p)
  OBVIOUS
<1>5. PICK kept : kept = IF less # 0 /\ after.size = 0 THEN NoTrade ELSE after
  OBVIOUS
<1>6. /\ Len(values) < MaxBars
      /\ Abs(trade.size + pending + n) <= MaxPosition
      /\ trade' = IF more = 0 THEN kept ELSE Updated(kept, more, p)
      /\ closed' = IF less # 0 /\ after.size = 0 THEN Append(closed, after) ELSE closed
      /\ log' = IF less = 0 THEN log ELSE Notified(log, after)
      /\ cash' = cash - pending * p * Unit - Abs(pending) * p * Fee
      /\ values' = Append(values, cash' + trade'.size * p * Unit)
      /\ pending' = n
  BY <1>2, <1>3, <1>4, <1>5, Zenon DEF Bar
<1>7. PICK c \in Int : c = cash - less * p * Unit - Abs(less) * p * Fee
  BY <1>1, AbsFacts, MoneyFacts
<1>8. kept.size = s + less /\ Ledger(kept, c, closed', log')
  <2>1. Ledger(trade, cash, closed, log)
    BY DEF ReportInv
  <2>2. CASE less = 0
    <3>1. c = cash /\ s + less = s
      <4>1. Abs(less) = 0
        BY <2>2 DEF Abs
      <4>2. less * p * Unit = 0 /\ Abs(less) * p * Fee = 0
        BY <1>1, <2>2, <4>1, MoneyFacts
      <4> QED BY <1>1, <1>7, <2>2, <4>2
    <3>2. kept = trade /\ closed' = closed /\ log' = log
      BY <1>4, <1>5, <1>6, <2>2, Zenon
    <3> QED BY <1>2, <2>1, <3>1, <3>2, Zenon
  <2>3. CASE less # 0
    <3>1. after = Updated(trade, less, p) /\ kept = IF after.size = 0 THEN NoTrade ELSE after
      BY <1>4, <1>5, <2>3, Zenon
    <3>2. /\ closed' = IF after.size = 0 THEN Append(closed, after) ELSE closed
          /\ log' = Notified(log, after)
      BY <1>6, <2>3, Zenon
    <3>3. ~Adds(trade, less) /\ Abs(less) <= Abs(trade.size)
      BY <1>2, <1>3, <2>3, Zenon
    <3>4. /\ kept.size = trade.size + less
          /\ Ledger(kept, cash - less * p * Unit - Abs(less) * p * Fee,
                    IF after.size = 0 THEN Append(closed, after) ELSE closed,
                    Notified(log, after))
      BY <1>1, <2>1, <2>3, <3>1, <3>3, TakenOff
    <3> QED BY <1>2, <1>7, <3>2, <3>4, Zenon
  <2> QED BY <2>2, <2>3
<1>9. /\ trade'.size = s + q
      /\ Ledger(trade', c - more * p * Unit - Abs(more) * p * Fee, closed', log')
  <2>1. CASE more = 0
    <3>1. more * p * Unit = 0 /\ Abs(more) * p * Fee = 0
      <4>1. Abs(more) = 0
        BY <2>1 DEF Abs
      <4> QED BY <1>1, <2>1, <4>1, MoneyFacts
    <3>2. c - more * p * Unit - Abs(more) * p * Fee = c /\ s + q = s + less
      <4>1. c - 0 - 0 = c
        OBVIOUS
      <4>2. s + q = s + less
        BY <1>3, <2>1
      <4> QED BY <3>1, <4>1, <4>2, Zenon
    <3>3. trade' = kept
      BY <1>6, <2>1
    <3> QED BY <1>8, <3>2, <3>3, Zenon
  <2>2. CASE more # 0
    <3>1. trade' = Updated(kept, more, p)
      BY <1>6, <2>2
    <3>2. Adds(kept, more)
      BY <1>3, <1>8, <2>2 DEF Adds
    <3>3. Open(kept)
      BY <1>8 DEF Ledger
    <3>4. /\ Open(trade') /\ trade'.size = kept.size + more
          /\ Paid(trade') = Paid(kept) + more * p /\ trade'.fee = kept.fee + Abs(more) * p * Fee
      <4>1. LET u == Updated(kept, more, p) IN
            /\ Open(u) /\ u.size = kept.size + more
            /\ Paid(u) = Paid(kept) + more * p /\ u.fee = kept.fee + Abs(more) * p * Fee
        BY <1>1, <2>2, <3>2, <3>3, PieceAdded
      <4> QED BY <3>1, <4>1, Zenon
    <3>5. Ledger(trade', c - more * p * Unit - Abs(more) * p * Fee, closed', log')
      BY <1>1, <1>8, <3>4, LedgerGoesOn
    <3>6. kept.size + more = s + q
      BY <1>3, <1>8
    <3> QED BY <3>4, <3>5, <3>6, Zenon
  <2> QED BY <2>1, <2>2
<1>10. c - more * p * Unit - Abs(more) * p * Fee = cash'
  <2>1. PICK a \in Int, b \in Int, d \in Int :
          a = Abs(less) /\ b = Abs(more) /\ d = Abs(q) /\ d = a + b
    BY <1>3, AbsFacts
  <2>2. q = less + more
    BY <1>3
  <2>3. /\ (less + more) * p * Unit = less * p * Unit + more * p * Unit
        /\ (a + b) * p * Fee = a * p * Fee + b * p * Fee
    BY <1>1, MoneyFacts
  <2>4. PICK w \in Int, x \in Int, y \in Int, z \in Int :
          /\ w = less * p * Unit /\ x = more * p * Unit
          /\ y = a * p * Fee /\ z = b * p * Fee
    BY <1>1, MoneyFacts
  <2>5. cash' = cash - (w + x) - (y + z)
    BY <1>2, <1>6, <2>1, <2>2, <2>3, <2>4
  <2>6. c = cash - w - y
    BY <1>7, <2>1, <2>4
  <2> QED BY <1>1, <2>1, <2>4, <2>5, <2>6
<1>11. cash' \in Int
  BY <1>1, <1>6, AbsFacts, MoneyFacts
<1>12. cash' + trade'.size * p * Unit \in Int
  BY <1>1, <1>9, <1>11, MoneyFacts
<1>13. PICK v \in Int : v = cash' + trade'.size * p * Unit
  BY <1>12
<1>14. /\ values' = Append(values, v) /\ values \in Seq(Int) /\ Len(values) < MaxBars
  BY <1>6, <1>13 DEF ReportInv
<1>15. /\ values' \in Seq(Int) /\ Len(values') <= MaxBars
       /\ values'[Len(values')] = v
  <2>1. Len(values) \in Nat /\ Len(Append(values, v)) = Len(values) + 1
    BY <1>14, AppendProperties
  <2>2. Append(values, v)[Len(values) + 1] = v
    BY <1>14, AppendProperties
  <2>3. Append(values, v) \in Seq(Int)
    BY <1>14, AppendProperties
  <2> QED BY <1>14, <2>1, <2>2, <2>3, ReportAssumption
<1>16. trade'.size = 0 => v = cash'
  <2>1. 0 * p * Unit = 0
    BY <1>1, MoneyFacts
  <2> QED BY <1>11, <1>13, <2>1
<1>17. /\ trade'.size \in (0 - MaxPosition)..MaxPosition
       /\ Abs(trade'.size + pending') <= MaxPosition
  <2>1. Abs(s + q) <= MaxPosition
    BY <1>2 DEF ReportInv
  <2>2. s + q \in (0 - MaxPosition)..MaxPosition
    BY <2>1, ReportAssumption DEF Abs
  <2>3. Abs(s + q + n) <= MaxPosition
    BY <1>2, <1>6
  <2> QED BY <1>6, <1>9, <2>2, <2>3
<1>18. Ledger(trade', cash', closed', log')
  BY <1>9, <1>10, Zenon
<1>19. pending' \in Order
  BY <1>6
<1> QED BY <1>11, <1>15, <1>16, <1>17, <1>18, <1>19, Zenon DEF ReportInv

(* The log, the cash and the open trade account for each other in every    *)
(* state: each record was written when its trade held nothing, so what it  *)
(* paid is what it lost, and the cash is the capital, the profits of the   *)
(* log and the cost of what is open.                                       *)
THEOREM ReportInductive == ReportSpec => []ReportInv
<1>1. ReportInit => ReportInv
  BY InitiallyAccounted
<1>2. ReportInv /\ [ReportNext]_reportVars => ReportInv'
  <2> SUFFICES ASSUME ReportInv, [ReportNext]_reportVars PROVE ReportInv'
    OBVIOUS
  <2>1. CASE ReportNext
    BY <2>1, BarAccounted DEF ReportNext
  <2>2. CASE UNCHANGED reportVars
    <3>1. /\ pending' = pending /\ cash' = cash /\ trade' = trade /\ closed' = closed
          /\ log' = log /\ values' = values
      BY <2>2 DEF reportVars
    <3> QED BY <3>1, Zenon DEF ReportInv
  <2> QED BY <2>1, <2>2
<1> QED BY <1>1, <1>2, PTL DEF ReportSpec
-----------------------------------------------------------------------------
(***************************************************************************)
(* The records and the log                                                 *)
(***************************************************************************)
LEMMA RecordsExplained == ReportInv => RecordExplainsProfit
<1> SUFFICES ASSUME ReportInv PROVE RecordExplainsProfit
  OBVIOUS
<1>1. \A i \in DOMAIN log : Explains(log[i])
  BY Zenon DEF ReportInv, Ledger
<1> QED BY <1>1, Zenon DEF RecordExplainsProfit, Explains

LEMMA ReportTyped == ReportInv => ReportTypeOK
<1> SUFFICES ASSUME ReportInv PROVE ReportTypeOK
  OBVIOUS
<1>1. Accounted(trade)
  BY OpenAccounted DEF ReportInv, Ledger
<1>2. trade.avg \in Fraction /\ trade.pnl \in Fraction
  BY <1>1, Zenon DEF Accounted, TradeTyped
<1>3. ASSUME NEW i \in DOMAIN log
      PROVE  log[i].size > 0 /\ log[i].entry \in Fraction /\ log[i].exit \in Fraction
  <2>1. RecordTyped(log[i])
    BY Zenon DEF ReportInv, Ledger
  <2> QED BY <2>1 DEF RecordTyped
<1> QED BY <1>2, <1>3, Zenon DEF ReportTypeOK, ReportInv

(* The profit of the open trade at the price of value f.                   *)
LEMMA OpenProfit ==
  ASSUME NEW t, Accounted(t), NEW f \in Int, NEW o,
         o = Minus(Whole(f), Times(Unit * t.size, t.avg))
  PROVE  /\ Plus(Net(t), o) \in Fraction
         /\ Same(Plus(Net(t), o), Whole(f - Unit * Paid(t) - t.fee))
<1>1. /\ t.avg \in Fraction /\ t.pnl \in Fraction /\ t.size \in Int /\ t.fee \in Int
      /\ Makes(t.pnl.num, t.pnl.den, 0 - Unit * Paid(t), t.size, t.avg.num, t.avg.den)
  BY Zenon DEF Accounted, TradeTyped
<1>2. Paid(t) \in Int
  BY PaidTyped
<1>3. PICK A \in Int, D \in Nat \ {0}, P \in Int, Q \in Nat \ {0} :
        A = t.avg.num /\ D = t.avg.den /\ P = t.pnl.num /\ Q = t.pnl.den
  BY <1>1, FractionFields
<1>4. PICK s \in Int, e \in Int, y \in Int : s = t.size /\ e = t.fee /\ y = Unit * Paid(t)
  BY <1>1, <1>2, MoneyFacts
<1>5. PICK u \in Int : u = Unit * s * A
  BY MoneyFacts
<1>6. P * D = ((0 - y) * D + u) * Q
  BY <1>1, <1>3, <1>4, <1>5 DEF Makes
<1>7. Net(t) \in Fraction
  BY <1>1, NetOf
<1>8. Net(t).num = P + (0 - e) * Q /\ Net(t).den = Q
  <2>1. [Whole(e) EXCEPT !.num = -@] = Whole(0 - e)
    BY DEF Whole
  <2>2. Net(t) = Plus(t.pnl, Whole(0 - e))
    BY <1>4, <2>1 DEF Net, Minus
  <2>3. Net(t) = [num |-> P * 1 + (0 - e) * Q, den |-> Q * 1]
    BY <1>3, <2>2 DEF Plus, Whole
  <2> QED BY <2>3
<1>9. o \in Fraction /\ o.num = f * D + (0 - u) /\ o.den = D
  <2>1. Times(Unit * t.size, t.avg) = [num |-> u, den |-> D]
    BY <1>3, <1>4, <1>5 DEF Times
  <2>2. PICK q \in Fraction : q = [num |-> u, den |-> D] /\ q = Times(Unit * t.size, t.avg)
    BY <2>1 DEF Fraction
  <2>3. [q EXCEPT !.num = -@] = [num |-> 0 - u, den |-> D]
    BY <2>2
  <2>4. o = Plus(Whole(f), [num |-> 0 - u, den |-> D])
    BY <2>2, <2>3 DEF Minus
  <2>5. o = [num |-> f * D + (0 - u) * 1, den |-> 1 * D]
    BY <2>4 DEF Plus, Whole
  <2>6. o.num = f * D + (0 - u) /\ o.den = D
    BY <2>5
  <2>7. o \in Fraction
    BY <2>5 DEF Fraction
  <2> QED BY <2>6, <2>7
<1>10. Plus(Net(t), o) \in Fraction
  BY <1>7, <1>9, PlusTyped
<1>11. (P + (0 - e) * Q) * D + (f * D + (0 - u)) * Q = (f - y - e) * (Q * D)
  <2>1. (P + (0 - e) * Q) * D = P * D - (e * Q) * D
    OBVIOUS
  <2>2. ((0 - y) * D + u) * Q - (e * Q) * D + (f * D + (0 - u)) * Q = (f - y - e) * (Q * D)
    OBVIOUS
  <2> QED BY <1>6, <2>1, <2>2
<1>12. Same(Plus(Net(t), o), Whole(f - y - e))
  <2>1. PICK z : z = Plus(Net(t), o)
    OBVIOUS
  <2>2. z = [num |-> (P + (0 - e) * Q) * D + (f * D + (0 - u)) * Q, den |-> Q * D]
    BY <1>8, <1>9, <2>1 DEF Plus
  <2>3. PICK m \in Int, d \in Int : m = (f - y - e) * (Q * D) /\ d = Q * D /\ m = (f - y - e) * d
    OBVIOUS
  <2>4. z.num = m /\ z.den = d
    BY <1>11, <2>2, <2>3
  <2>5. Same(z, Whole(f - y - e))
    BY <2>3, <2>4 DEF Same, Whole
  <2> QED BY <2>1, <2>5
<1> QED BY <1>4, <1>10, <1>12

(* Final value and cash differ by what is open at the last price, so the   *)
(* profits of the log and of the open trade make the profit of the run.    *)
LEMMA LogComplete == ReportInv => LogAddsUp
<1> SUFFICES ASSUME ReportInv, values # <<>> PROVE LogAddsUp
  BY DEF LogAddsUp
<1>1. PICK o : o = Minus(Whole(Final - cash), Times(Unit * trade.size, trade.avg))
  OBVIOUS
<1>2. /\ Open(trade) /\ List(log)
      /\ \A i \in DOMAIN log : RecordTyped(log[i])
      /\ Same(Sum(Gains(log)), Whole(cash - Capital + Unit * Paid(trade) + trade.fee))
  BY Zenon DEF ReportInv, Ledger
<1>3. Accounted(trade)
  BY <1>2, OpenAccounted
<1>4. PICK k \in Int, y \in Int, e \in Int, F \in Int :
        k = cash /\ y = Unit * Paid(trade) /\ e = trade.fee /\ F = Final
  <2>1. Paid(trade) \in Int /\ trade.fee \in Int
    BY <1>3, PaidTyped
  <2>2. Final \in Int
    BY MoneyFacts DEF ReportInv, Final
  <2> QED BY <2>1, <2>2, MoneyFacts DEF ReportInv
<1>5. PICK Z \in Fraction : Z = Sum(Gains(log))
  <2>1. Gains(log) \in Seq(Fraction)
    <3>1. \A i \in DOMAIN log : log[i].pnl_net \in Fraction
      BY <1>2 DEF RecordTyped
    <3>2. PICK r \in Fraction : r = Whole(0)
      BY WholeTyped
    <3>3. PICK rec : rec = [pnl_net |-> r]
      OBVIOUS
    <3>4. rec.pnl_net \in Fraction
      BY <3>3
    <3> QED BY <1>2, <3>1, <3>4, GainsGrow
  <2> QED BY <2>1, SumGrows, WholeTyped
<1>6. PICK a \in Int : a = k - Capital + y + e /\ Same(Z, Whole(a))
  <2>1. k - Capital + y + e \in Int
    BY MoneyFacts
  <2> QED BY <1>2, <1>4, <1>5, <2>1
<1>7. PICK rest : rest = IF trade.size = 0 THEN Whole(0) ELSE Plus(Net(trade), o)
  OBVIOUS
<1>8. PICK b \in Int : rest \in Fraction /\ Same(rest, Whole(b)) /\ a + b = F - Capital
  <2>1. CASE trade.size = 0
    <3>1. y = 0 /\ e = 0
      <4>1. trade = NoTrade
        BY <1>2, <2>1 DEF Open
      <4> QED BY <1>4, <4>1, NothingOpen, MoneyFacts
    <3>2. F = k
      BY <1>4, <2>1 DEF ReportInv, Final
    <3>3. rest = Whole(0) /\ a + 0 = F - Capital
      BY <1>6, <1>7, <2>1, <3>1, <3>2, MoneyFacts
    <3> QED BY <3>3, SameItself, WholeTyped
  <2>2. CASE trade.size # 0
    <3>1. PICK f \in Int : f = F - k
      OBVIOUS
    <3>2. rest = Plus(Net(trade), o)
      BY <1>7, <2>2
    <3>3. o = Minus(Whole(f), Times(Unit * trade.size, trade.avg))
      BY <1>1, <1>4, <3>1
    <3>4. rest \in Fraction /\ Same(rest, Whole(f - y - e))
      BY <1>3, <1>4, <3>2, <3>3, OpenProfit
    <3>5. a + (f - y - e) = F - Capital
      BY <1>6, <3>1, MoneyFacts
    <3> QED BY <3>4, <3>5
  <2> QED BY <2>1, <2>2
<1>9. Same(Plus(Z, rest), Whole(F - Capital))
  BY <1>6, <1>8, WholeSum
<1>10. Same(Whole(F - Capital), Plus(Z, rest))
  <2>1. PICK w : w = Plus(Z, rest)
    OBVIOUS
  <2>2. PICK n \in Int, d \in Int : n = w.num /\ d = w.den
    BY <1>8, <2>1, PlusTyped, FractionFields
  <2>3. PICK g \in Int : g = F - Capital
    BY MoneyFacts
  <2>4. n * 1 = g * d
    BY <1>9, <2>1, <2>2, <2>3 DEF Same, Whole
  <2>5. g * d = n * 1
    BY <2>4
  <2> QED BY <2>1, <2>2, <2>3, <2>5 DEF Same, Whole
<1>11. Same(Whole(Pnl), Plus(Sum(Gains(log)), rest))
  BY <1>4, <1>5, <1>10 DEF Pnl
<1> QED BY <1>1, <1>7, <1>11, Zenon DEF LogAddsUp, Gains

(* Every record of the log explains its profit.                            *)
THEOREM RecordsExplain == ReportSpec => []RecordExplainsProfit
  BY ReportInductive, RecordsExplained, PTL

(* The trades of the log and the open one make the profit of the run.      *)
THEOREM LogsAddUp == ReportSpec => []LogAddsUp
  BY ReportInductive, LogComplete, PTL
-----------------------------------------------------------------------------
(***************************************************************************)
(* The statistics of the broker and of the log                             *)
(***************************************************************************)
LEMMA NothingListed == ASSUME NEW s, List(s) PROVE (s = <<>>) = (Len(s) = 0)
<1>1. PICK S : s \in Seq(S)
  BY DEF List
<1> QED BY <1>1

(* The log holds the profits of the trades the broker closed, in order.    *)
LEMMA SameProfits ==
  ASSUME ReportInv
  PROVE  /\ Len(closed) \in Nat /\ Len(closed) = Len(log)
         /\ DOMAIN closed = DOMAIN log
         /\ (log = <<>>) = (Len(log) = 0)
         /\ [i \in DOMAIN log |-> ExtractTradePnl(log[i])] = Nets
         /\ \A i \in DOMAIN closed : Nets[i] = Net(closed[i]) /\ Nets[i] \in Fraction
<1>1. /\ List(closed) /\ List(log) /\ Len(closed) = Len(log)
      /\ \A i \in DOMAIN log : RecordTyped(log[i]) /\ log[i].pnl_net = Net(closed[i])
  BY Zenon DEF ReportInv, Ledger
<1>2. Len(closed) \in Nat /\ DOMAIN closed = 1..Len(closed) /\ DOMAIN log = 1..Len(log)
  BY <1>1, ListGrows
<1>3. DOMAIN closed = DOMAIN log
  BY <1>1, <1>2
<1>4. [i \in DOMAIN log |-> ExtractTradePnl(log[i])] = Nets
  <2>1. ASSUME NEW i \in DOMAIN log PROVE ExtractTradePnl(log[i]) = Net(closed[i])
    BY <1>1 DEF ExtractTradePnl
  <2>2. [i \in DOMAIN log |-> ExtractTradePnl(log[i])] = [i \in DOMAIN log |-> Net(closed[i])]
    BY <2>1
  <2> QED BY <1>3, <2>2, Zenon DEF Nets
<1>5. ASSUME NEW i \in DOMAIN closed PROVE Nets[i] = Net(closed[i]) /\ Nets[i] \in Fraction
  <2>1. Nets[i] = Net(closed[i])
    BY DEF Nets
  <2>2. log[i].pnl_net = Net(closed[i]) /\ log[i].pnl_net \in Fraction
    BY <1>1, <1>3 DEF RecordTyped
  <2> QED BY <2>1, <2>2
<1>6. (log = <<>>) = (Len(log) = 0)
  BY <1>1, NothingListed
<1> QED BY <1>1, <1>2, <1>3, <1>4, <1>5, <1>6, Zenon

(* A figure of some of the profits adds up to the same with those that are *)
(* nothing.                                                                *)
LEMMA NothingAdds ==
  ASSUME NEW m \in Nat, NEW qs \in Seq(Fraction), Len(qs) = m,
         NEW I, NEW J, J \subseteq I, \A i \in 1..m : i \in I /\ i \notin J => qs[i].num = 0
  PROVE  /\ SumOver(I, qs) \in Fraction /\ SumOver(J, qs) \in Fraction
         /\ Same(SumOver(I, qs), SumOver(J, qs))
<1>1. PICK none \in Fraction : none = Whole(0)
  BY WholeTyped
<1>2. PICK x : x = [i \in 1..m |-> IF i \in I THEN qs[i] ELSE none]
  OBVIOUS
<1>3. PICK y : y = [i \in 1..m |-> IF i \in J THEN qs[i] ELSE none]
  OBVIOUS
<1>4. SumOver(I, qs) = Sum(x) /\ SumOver(J, qs) = Sum(y)
  <2>1. DOMAIN qs = 1..m
    OBVIOUS
  <2> QED BY <1>1, <1>2, <1>3, <2>1, Zenon DEF SumOver
<1>5. x \in Seq(Fraction) /\ y \in Seq(Fraction) /\ Len(x) = m /\ Len(y) = m
  BY <1>2, <1>3
<1>6. ASSUME NEW i \in 1..m PROVE Same(x[i], y[i])
  <2>1. PICK q \in Fraction : q = qs[i]
    OBVIOUS
  <2>2. CASE i \in I /\ i \notin J
    <3>1. x[i] = q /\ y[i] = none /\ q.num = 0
      BY <1>2, <1>3, <2>1, <2>2
    <3>2. PICK d \in Int : d = q.den
      BY FractionFields
    <3>3. Same(q, none)
      BY <1>1, <3>1, <3>2 DEF Same, Whole
    <3> QED BY <3>1, <3>3
  <2>3. CASE ~(i \in I /\ i \notin J)
    <3>1. x[i] = y[i]
      BY <1>2, <1>3, <2>3
    <3> QED BY <3>1, SameItself
  <2> QED BY <2>2, <2>3
<1> QED BY <1>4, <1>5, <1>6, SumsTheSame

(* The same profit makes the same profit factor of a loss.                 *)
LEMMA FactorTheSame ==
  ASSUME NEW g \in Fraction, NEW h \in Fraction, NEW loss \in Fraction, Same(g, h)
  PROVE  /\ (ProfitFactor(g, loss) = None) = (ProfitFactor(h, loss) = None)
         /\ Same(ProfitFactor(g, loss), ProfitFactor(h, loss))
<1>1. PICK a \in Int, b \in Nat \ {0}, c \in Int, d \in Nat \ {0}, x \in Int, y \in Nat \ {0} :
        a = g.num /\ b = g.den /\ c = h.num /\ d = h.den /\ x = loss.num /\ y = loss.den
  BY FractionFields
<1>2. a * d = c * b
  BY <1>1 DEF Same
<1>3. CASE x > 0
  <2>1. b * x \in Nat \ {0} /\ d * x \in Nat \ {0}
    BY <1>3, ProductType
  <2>2. PICK t \in Int, u \in Nat \ {0}, v \in Int, w \in Nat \ {0} :
          t = a * y /\ u = b * x /\ v = c * y /\ w = d * x
    BY <2>1
  <2>3. /\ ProfitFactor(g, loss) = [num |-> t, den |-> u]
        /\ ProfitFactor(h, loss) = [num |-> v, den |-> w]
    BY <1>1, <1>3, <2>2 DEF ProfitFactor
  <2>4. ProfitFactor(g, loss) # None /\ ProfitFactor(h, loss) # None
    BY <2>3 DEF None
  <2>5. t * w = v * u
    <3>1. (a * y) * (d * x) = (a * d) * (y * x) /\ (c * y) * (b * x) = (c * b) * (y * x)
      OBVIOUS
    <3> QED BY <1>2, <2>2, <3>1
  <2>6. Same(ProfitFactor(g, loss), ProfitFactor(h, loss))
    BY <2>3, <2>5 DEF Same
  <2> QED BY <2>4, <2>6
<1>4. CASE ~(x > 0)
  <2>1. (a > 0) = (c > 0)
    <3>1. a > 0 => a * d > 0
      OBVIOUS
    <3>2. ~(a > 0) => ~(a * d > 0)
      OBVIOUS
    <3>3. c > 0 => c * b > 0
      OBVIOUS
    <3>4. ~(c > 0) => ~(c * b > 0)
      OBVIOUS
    <3> QED BY <1>2, <3>1, <3>2, <3>3, <3>4
  <2>2. ProfitFactor(g, loss) = ProfitFactor(h, loss)
    BY <1>1, <1>4, <2>1 DEF ProfitFactor
  <2> QED BY <2>2, SameItself
<1> QED BY <1>3, <1>4

(* The percentage of the c won and e even among t trades, of which r are   *)
(* not closed, and the fraction of the c won among the l closed.           *)
LEMMA RatesTheSame ==
  ASSUME NEW c \in Nat, NEW e \in Nat, NEW t \in Nat, NEW l \in Nat, t >= l,
         l = 0 => c = 0 /\ e = 0,
         NEW q, q = IF t > 0 THEN [num |-> (c + e) * 100, den |-> t] ELSE Whole(0),
         NEW r, r = IF l # 0 THEN [num |-> c, den |-> l] ELSE Whole(0)
  PROVE  Same(Times(t, q), Times(100, Plus(Times(l, r), Whole(e))))
<1>1. CASE l # 0
  <2>1. t > 0
    BY <1>1
  <2>2. Times(t, q) = [num |-> t * ((c + e) * 100), den |-> t]
    BY <2>1 DEF Times
  <2>3. Times(l, r) = [num |-> l * c, den |-> l]
    BY <1>1 DEF Times
  <2>4. PICK u \in Int : u = l * c
    OBVIOUS
  <2>5. Plus(Times(l, r), Whole(e)) = [num |-> u + e * l, den |-> l]
    BY <2>3, <2>4 DEF Plus, Whole
  <2>6. Times(100, Plus(Times(l, r), Whole(e))) = [num |-> 100 * (u + e * l), den |-> l]
    BY <2>5 DEF Times
  <2>7. (t * ((c + e) * 100)) * l = (100 * (u + e * l)) * t
    <3>1. PICK k \in Int : k = c + e
      OBVIOUS
    <3>2. u + e * l = k * l
      BY <2>4, <3>1
    <3>3. (t * (k * 100)) * l = (100 * (k * l)) * t
      OBVIOUS
    <3> QED BY <3>1, <3>2, <3>3
  <2> QED BY <2>2, <2>6, <2>7 DEF Same
<1>2. CASE l = 0
  <2>1. Times(l, r) = [num |-> 0, den |-> 1]
    BY <1>2 DEF Times, Whole
  <2>2. Plus(Times(l, r), Whole(e)) = [num |-> 0, den |-> 1]
    BY <1>2, <2>1 DEF Plus, Whole
  <2>3. Times(100, Plus(Times(l, r), Whole(e))) = [num |-> 0, den |-> 1]
    BY <2>2 DEF Times
  <2>4. PICK v \in Int : Times(t, q) = [num |-> 0, den |-> v]
    <3>1. CASE t > 0
      <4>1. q = [num |-> 0, den |-> t]
        BY <1>2, <3>1
      <4> QED BY <4>1 DEF Times
    <3>2. CASE t = 0
      BY <3>2 DEF Times, Whole
    <3> QED BY <3>1, <3>2
  <2> QED BY <2>3, <2>4 DEF Same
<1> QED BY <1>1, <1>2

(* With the same profits, the trades lost are the same, and those won are  *)
(* the winning ones and the even ones, which earn nothing.                 *)
LEMMA StatsTheSame == ReportInv => StatsAgree
<1> SUFFICES ASSUME ReportInv PROVE StatsAgree
  OBVIOUS
<1>1. /\ Len(closed) \in Nat /\ Len(closed) = Len(log) /\ DOMAIN closed = DOMAIN log
      /\ (log = <<>>) = (Len(log) = 0)
      /\ [i \in DOMAIN log |-> ExtractTradePnl(log[i])] = Nets
      /\ \A i \in DOMAIN closed : Nets[i] = Net(closed[i]) /\ Nets[i] \in Fraction
  BY SameProfits
<1>2. PICK l \in Nat : l = Len(log) /\ DOMAIN log = 1..l /\ DOMAIN closed = 1..l
  <2>1. List(log)
    BY DEF ReportInv, Ledger
  <2> QED BY <1>1, <2>1, ListGrows
<1>3. PICK pnls : pnls = Nets /\ pnls = [i \in DOMAIN log |-> ExtractTradePnl(log[i])]
  BY <1>1
<1>4. pnls \in Seq(Fraction) /\ Len(pnls) = l /\ \A i \in 1..l : pnls[i] \in Fraction
  <2>1. pnls = [i \in 1..l |-> pnls[i]] /\ \A i \in 1..l : pnls[i] \in Fraction
    <3>1. pnls = [i \in 1..l |-> ExtractTradePnl(log[i])]
      BY <1>2, <1>3, Zenon
    <3>2. \A i \in 1..l : pnls[i] \in Fraction
      BY <1>1, <1>2, <1>3
    <3> QED BY <3>1, <3>2
  <2> QED BY <2>1
<1>5. PICK winning : winning = {i \in 1..l : pnls[i].num > 0}
  OBVIOUS
<1>6. PICK losing : losing = {i \in 1..l : pnls[i].num < 0}
  OBVIOUS
<1>7. PICK evens : evens = {i \in 1..l : pnls[i].num = 0}
  OBVIOUS
<1>8. Won = winning \cup evens /\ winning \cap evens = {}
  <2>1. \A i \in 1..l : pnls[i].num \in Int
    BY <1>4, FractionFields
  <2>2. Won = {i \in 1..l : pnls[i].num >= 0}
    BY <1>2, <1>3, Zenon DEF Won
  <2>3. \A i \in 1..l : pnls[i].num >= 0 <=> pnls[i].num > 0 \/ pnls[i].num = 0
    BY <2>1
  <2>4. \A i \in 1..l : ~(pnls[i].num > 0 /\ pnls[i].num = 0)
    BY <2>1
  <2> QED BY <1>5, <1>7, <2>2, <2>3, <2>4
<1>9. Lost = losing
  BY <1>2, <1>3, <1>6, Zenon DEF Lost
<1>10. /\ IsFiniteSet(1..l) /\ Cardinality(1..l) = l
       /\ winning \subseteq 1..l /\ evens \subseteq 1..l /\ losing \subseteq 1..l
  <2>1. Cardinality(1..l) = l /\ IsFiniteSet(1..l)
    BY FS_Interval
  <2> QED BY <1>5, <1>6, <1>7, <2>1
<1>11. /\ IsFiniteSet(winning) /\ IsFiniteSet(evens) /\ IsFiniteSet(losing)
       /\ Cardinality(winning) \in Nat /\ Cardinality(evens) \in Nat
  BY <1>10, FS_Subset, FS_CardinalityType
<1>12. PICK c \in Nat, e \in Nat : c = Cardinality(winning) /\ e = Cardinality(evens)
  BY <1>11
<1>13. Cardinality(Won) = c + e
  <2>1. Cardinality(winning \cup evens)
          = Cardinality(winning) + Cardinality(evens) - Cardinality(winning \cap evens)
    BY <1>11, FS_Union
  <2>2. Cardinality(winning \cap evens) = 0
    BY <1>8, FS_EmptySet
  <2> QED BY <1>8, <1>12, <2>1, <2>2
<1>14. l = 0 => c = 0 /\ e = 0
  <2>1. ASSUME l = 0 PROVE winning = {} /\ evens = {}
    BY <1>10, <2>1
  <2> QED BY <1>12, <2>1, FS_EmptySet
<1>15. PICK d : d = Cardinality(losing)
  OBVIOUS
<1>16. PICK u \in Nat : u = IF trade.size = 0 THEN 0 ELSE 1
  OBVIOUS
<1>17. PICK t \in Nat : t = l + u /\ Opened = t
  <2>1. Opened = l + u
    BY <1>1, <1>2, <1>16 DEF Opened
  <2> QED BY <2>1
<1>18. PICK g \in Fraction, h \in Fraction :
         g = SumOver(Won, pnls) /\ h = SumOver(winning, pnls) /\ Same(g, h)
  <2>1. winning \subseteq Won /\ \A i \in 1..l : i \in Won /\ i \notin winning => pnls[i].num = 0
    BY <1>7, <1>8
  <2> QED BY <1>4, <2>1, NothingAdds
<1>19. PICK loss \in Fraction : loss = [SumOver(losing, pnls) EXCEPT !.num = Abs(@)]
  <2>1. PICK n \in Fraction : n = SumOver(losing, pnls)
    BY <1>4, NothingAdds
  <2>2. PICK x \in Int, y \in Nat \ {0} : n = [num |-> x, den |-> y]
    BY DEF Fraction
  <2>3. [n EXCEPT !.num = Abs(@)] = [num |-> Abs(x), den |-> y] /\ Abs(x) \in Int
    BY <2>2, AbsFacts
  <2> QED BY <2>1, <2>3 DEF Fraction
<1>20. PICK q : q = IF t > 0 THEN [num |-> (c + e) * 100, den |-> t] ELSE Whole(0)
  OBVIOUS
<1>21. PICK r : r = IF l # 0 THEN [num |-> c, den |-> l] ELSE Whole(0)
  OBVIOUS
<1>22. PICK s : s = [total |-> t, won |-> c + e, lost |-> d, win_rate |-> q,
                     factor |-> ProfitFactor(g, loss)]
  OBVIOUS
<1>23. PICK m : m = [total |-> l, won |-> c, lost |-> d, win_rate |-> r,
                     factor |-> ProfitFactor(h, loss)]
  OBVIOUS
<1>24. BuildTradeStats = s
  <2>1. /\ SumOver(Won, Nets) = g /\ Cardinality(Lost) = d
        /\ [SumOver(Lost, Nets) EXCEPT !.num = Abs(@)] = loss
    BY <1>3, <1>9, <1>15, <1>18, <1>19, Zenon
  <2> QED BY <1>13, <1>17, <1>20, <1>22, <2>1, Zenon DEF BuildTradeStats
<1>25. ComputeTradeMetrics = m
  <2>1. (log # <<>>) = (l # 0)
    BY <1>1, <1>2
  <2>2. r = IF log # <<>> THEN [num |-> c, den |-> Len(log)] ELSE Whole(0)
    BY <1>2, <1>21, <2>1, Zenon
  <2>3. winning = {i \in DOMAIN log : pnls[i].num > 0} /\ losing = {i \in DOMAIN log : pnls[i].num < 0}
    BY <1>2, <1>5, <1>6
  <2> QED BY <1>2, <1>3, <1>12, <1>15, <1>18, <1>19, <1>23, <2>2, <2>3, Zenon
         DEF ComputeTradeMetrics
<1>26. Cardinality({i \in DOMAIN log : ExtractTradePnl(log[i]).num = 0}) = e
  <2>1. \A i \in DOMAIN log : pnls[i] = ExtractTradePnl(log[i])
    BY <1>3
  <2>2. {i \in DOMAIN log : ExtractTradePnl(log[i]).num = 0} = evens
    BY <1>2, <1>7, <2>1
  <2> QED BY <1>12, <2>2
<1>27. /\ (s.factor = None) = (m.factor = None)
       /\ Same(s.factor, m.factor)
  <2>1. s.factor = ProfitFactor(g, loss) /\ m.factor = ProfitFactor(h, loss)
    BY <1>22, <1>23
  <2> QED BY <1>18, <2>1, FactorTheSame
<1>28. Same(Times(s.total, s.win_rate), Times(100, Plus(Times(m.total, m.win_rate), Whole(e))))
  <2>1. s.total = t /\ s.win_rate = q /\ m.total = l /\ m.win_rate = r /\ t >= l
    BY <1>17, <1>22, <1>23
  <2> QED BY <1>14, <1>20, <1>21, <2>1, RatesTheSame
<1>29. <<s.total, s.won, s.lost>> = <<m.total + u, m.won + e, m.lost>>
  BY <1>17, <1>22, <1>23
<1> QED BY <1>16, <1>24, <1>25, <1>26, <1>27, <1>28, <1>29, Zenon DEF StatsAgree
-----------------------------------------------------------------------------
(***************************************************************************)
(* The curve                                                               *)
(***************************************************************************)
AllPositive == \A i \in DOMAIN values : values[i] > 0

LEMMA WorthPositive ==
  ASSUME values \in Seq(Int), AllPositive
  PROVE  /\ Len(values) \in Nat /\ DOMAIN values = 1..Len(values)
         /\ \A n \in 0..Len(values) : WorthAt(n) \in Nat \ {0}
<1>1. Len(values) \in Nat /\ DOMAIN values = 1..Len(values)
  OBVIOUS
<1>2. ASSUME NEW n \in 0..Len(values) PROVE WorthAt(n) \in Nat \ {0}
  <2>1. CASE n = 0
    BY <2>1, MoneyFacts DEF WorthAt
  <2>2. CASE n # 0
    <3>1. n \in DOMAIN values
      BY <1>1, <2>2
    <3>2. values[n] \in Int /\ values[n] > 0
      BY <3>1 DEF AllPositive
    <3> QED BY <2>2, <3>2 DEF WorthAt
  <2> QED BY <2>1, <2>2
<1> QED BY <1>1, <1>2

LEMMA ReturnsTyped ==
  ASSUME values \in Seq(Int), AllPositive
  PROVE  /\ Returns \in Seq(Fraction) /\ Len(Returns) = Len(values)
         /\ \A n \in 1..Len(values) :
              Returns[n] = [num |-> WorthAt(n) - WorthAt(n - 1), den |-> WorthAt(n - 1)]
<1>1. PICK m \in Nat : m = Len(values) /\ DOMAIN values = 1..m
  BY WorthPositive
<1>2. ASSUME NEW n \in 1..m
      PROVE  Returns[n] = [num |-> WorthAt(n) - WorthAt(n - 1), den |-> WorthAt(n - 1)]
  <2>1. WorthAt(n) = values[n]
    BY DEF WorthAt
  <2>2. WorthAt(n - 1) = IF n = 1 THEN Capital ELSE values[n - 1]
    BY DEF WorthAt
  <2>3. Returns[n] = [num |-> values[n] - (IF n = 1 THEN Capital ELSE values[n - 1]),
                      den |-> IF n = 1 THEN Capital ELSE values[n - 1]]
    BY <1>1 DEF Returns
  <2> QED BY <2>1, <2>2, <2>3, Zenon
<1>3. ASSUME NEW n \in 1..m PROVE Returns[n] \in Fraction
  <2>1. n \in 0..m /\ n - 1 \in 0..m
    OBVIOUS
  <2>2. PICK a \in Nat, b \in Nat \ {0} : a = WorthAt(n) /\ b = WorthAt(n - 1)
    BY <1>1, <2>1, WorthPositive
  <2>3. Returns[n] = [num |-> a - b, den |-> b]
    BY <1>2, <2>2
  <2> QED BY <2>3 DEF Fraction
<1> DEFINE rs == Returns
<1>4. rs = [n \in 1..m |-> rs[n]]
  BY <1>1 DEF Returns
<1>5. \A n \in 1..m : rs[n] \in Fraction
  BY <1>3
<1> HIDE DEF rs
<1>6. rs \in Seq(Fraction) /\ Len(rs) = m
  BY <1>4, <1>5
<1> QED BY <1>1, <1>2, <1>6 DEF rs

(* One return takes the curve from one worth to the next.                  *)
LEMMA CompoundIs ==
  ASSUME NEW e \in Fraction, NEW a \in Nat \ {0}, NEW b \in Nat \ {0}, Same(e, Whole(a)),
         NEW ret, ret = [num |-> b - a, den |-> a]
  PROVE  Compound(e, ret) \in Fraction /\ Same(Compound(e, ret), Whole(b))
<1>1. PICK x \in Int, d \in Nat \ {0} : x = e.num /\ d = e.den
  BY FractionFields
<1>2. x = a * d
  BY <1>1 DEF Same, Whole
<1>3. ret.den + ret.num = b /\ ret.den = a
  <2>1. ret.num = b - a /\ ret.den = a
    OBVIOUS
  <2> QED BY <2>1
<1>4. d * a \in Nat \ {0} /\ x * b \in Int
  BY ProductType
<1>5. PICK q \in Fraction : q = [num |-> x * b, den |-> d * a]
  BY <1>4 DEF Fraction
<1>6. Compound(e, ret) = Reduced(q)
  BY <1>1, <1>3, <1>5, Zenon DEF Compound
<1>7. Same(q, Whole(b))
  <2>1. x * b = b * (d * a)
    BY <1>2
  <2>2. PICK u \in Int, v \in Int : u = x * b /\ v = d * a /\ u = b * v
    BY <1>4, <2>1
  <2>3. q.num = u /\ q.den = v
    BY <1>5, <2>2
  <2> QED BY <2>2, <2>3 DEF Same, Whole
<1>8. Reduced(q) \in Fraction /\ Same(Reduced(q), q)
  BY ReducedIs
<1> QED BY <1>6, <1>7, <1>8, WholeToo

LEMMA CompoundTyped ==
  ASSUME NEW e \in Fraction, NEW r \in Fraction
  PROVE  Compound(e, r) \in Fraction
<1>1. PICK x \in Int, d \in Nat \ {0}, y \in Int, c \in Nat \ {0} :
        x = e.num /\ d = e.den /\ y = r.num /\ c = r.den
  BY FractionFields
<1>2. x * (c + y) \in Int /\ d * c \in Nat \ {0}
  BY ProductType
<1>3. PICK q \in Fraction : q = [num |-> x * (c + y), den |-> d * c]
  BY <1>2 DEF Fraction
<1>4. Compound(e, r) = Reduced(q)
  BY <1>1, <1>3, Zenon DEF Compound
<1> QED BY <1>4, ReducedIs

LEMMA TailIs ==
  ASSUME NEW S, NEW s \in Seq(S), NEW m \in Nat, Len(s) = m + 1
  PROVE  /\ Tail(s) \in Seq(S) /\ Len(Tail(s)) = m
         /\ \A n \in 1..m : Tail(s)[n] = s[n + 1]
  OBVIOUS

(* The curves compounded from the returns are, point by point, the         *)
(* account's value: one from the capital on, the other after it.           *)
LEMMA CurveIs ==
  ASSUME values \in Seq(Int), AllPositive
  PROVE  /\ EquityCurve \in Seq(Fraction) /\ Len(EquityCurve) = Len(values)
         /\ \A n \in 1..Len(values) : Same(EquityCurve[n], Whole(values[n]))
         /\ ReconstructEquityCurve \in Seq(Fraction)
         /\ Len(ReconstructEquityCurve) = Len(values) + 1
         /\ \A n \in 0..Len(values) : Same(ReconstructEquityCurve[n + 1], Whole(WorthAt(n)))
<1>1. PICK m \in Nat : m = Len(values)
  BY WorthPositive
<1>2. PICK rs \in Seq(Fraction) :
        /\ rs = Returns /\ Len(rs) = m
        /\ \A n \in 1..m : rs[n] = [num |-> WorthAt(n) - WorthAt(n - 1), den |-> WorthAt(n - 1)]
  BY <1>1, ReturnsTyped
<1>3. PICK f : f = [e \in Fraction |-> [r \in Fraction |-> Compound(e, r)]]
  OBVIOUS
<1>4. Carries(f, Fraction, Fraction)
  BY <1>3, CompoundTyped DEF Carries
<1>5. PICK base \in Fraction : base = Whole(Capital)
  BY WholeTyped, MoneyFacts
<1>6. PICK run : run = Running(f, base, rs)
  OBVIOUS
<1>7. run \in Seq(Fraction) /\ Len(run) = m + 1 /\ Steps(run, f, base, rs, m)
  BY <1>2, <1>4, <1>6, RunningIs
<1>8. EquityCurve = Tail(run) /\ ReconstructEquityCurve = run
  BY <1>2, <1>3, <1>5, <1>6, Zenon DEF EquityCurve, ReconstructEquityCurve
<1>9. \A n \in 0..m : Same(run[n + 1], Whole(WorthAt(n)))
  <2> DEFINE T == {n \in 0..m : ~Same(run[n + 1], Whole(WorthAt(n)))}
  <2>1. SUFFICES ASSUME T # {} PROVE FALSE
    OBVIOUS
  <2>2. PICK k \in T : \A l \in T : k <= l
    <3>1. T \subseteq Nat
      OBVIOUS
    <3> HIDE DEF T
    <3> QED BY <2>1, <3>1, LeastNatural
  <2>3. k \in 0..m /\ ~Same(run[k + 1], Whole(WorthAt(k)))
    OBVIOUS
  <2>4. k # 0
    <3>1. run[1] = Whole(WorthAt(0))
      BY <1>5, <1>7 DEF Steps, WorthAt
    <3>2. Same(run[1], Whole(WorthAt(0)))
      BY <3>1, SameItself
    <3>3. k = 0 => k + 1 = 1
      OBVIOUS
    <3> QED BY <2>3, <3>2, <3>3, Zenon
  <2>5. PICK j \in 0..m : k = j + 1 /\ j \notin T
    <3>1. k - 1 \in 0..m /\ k = (k - 1) + 1
      BY <2>3, <2>4
    <3>2. ~(k <= k - 1)
      BY <2>3
    <3>3. k - 1 \notin T
      BY <2>2, <3>2, Zenon
    <3> QED BY <3>1, <3>3
  <2>6. Same(run[k], Whole(WorthAt(j)))
    BY <2>5
  <2> HIDE DEF T
  <2>7. k \in 1..m /\ k - 1 = j
    BY <2>3, <2>5
  <2>8. PICK a \in Nat \ {0}, b \in Nat \ {0} : a = WorthAt(j) /\ b = WorthAt(k)
    BY <1>1, <2>3, <2>5, WorthPositive
  <2>9. rs[k] = [num |-> b - a, den |-> a]
    BY <1>2, <2>7, <2>8
  <2>10. PICK e \in Fraction, ret \in Fraction : e = run[k] /\ ret = rs[k]
    BY <1>2, <1>7, <2>7
  <2>11. run[k + 1] = f[e][ret]
    BY <1>7, <2>7, <2>10 DEF Steps
  <2>12. run[k + 1] = Compound(e, ret)
    BY <1>3, <2>11
  <2>13. Same(Compound(e, ret), Whole(b))
    BY <2>6, <2>8, <2>9, <2>10, CompoundIs
  <2> QED BY <2>3, <2>8, <2>12, <2>13
<1>10. /\ EquityCurve \in Seq(Fraction) /\ Len(EquityCurve) = m
       /\ \A n \in 1..m : EquityCurve[n] = run[n + 1]
  BY <1>7, <1>8, TailIs
<1>11. ASSUME NEW n \in 1..m PROVE Same(EquityCurve[n], Whole(values[n]))
  <2>1. WorthAt(n) = values[n] /\ n \in 0..m
    BY DEF WorthAt
  <2> QED BY <1>9, <1>10, <2>1
<1> QED BY <1>1, <1>7, <1>8, <1>9, <1>10, <1>11

LEMMA CurveTheEquity == ReportInv => CurveIsTheEquity
<1> SUFFICES ASSUME ReportInv, AllPositive PROVE CurveIsTheEquity
  BY DEF CurveIsTheEquity, AllPositive
<1>1. values \in Seq(Int)
  BY DEF ReportInv
<1>2. DOMAIN values = 1..Len(values)
  BY <1>1
<1>3. /\ \A n \in 1..Len(values) : Same(EquityCurve[n], Whole(values[n]))
      /\ \A n \in 0..Len(values) : Same(ReconstructEquityCurve[n + 1], Whole(WorthAt(n)))
  BY <1>1, CurveIs
<1> QED BY <1>2, <1>3, Zenon DEF CurveIsTheEquity

(* The return from one worth to the next.                                  *)
LEMMA ReturnIs ==
  ASSUME NEW e \in Fraction, NEW f \in Fraction, NEW a \in Nat \ {0}, NEW b \in Nat \ {0},
         Same(e, Whole(a)), Same(f, Whole(b))
  PROVE  Same(Reduced(Minus([num |-> f.num * e.den, den |-> f.den * e.num], Whole(1))),
              [num |-> b - a, den |-> a])
<1>1. PICK x \in Int, c \in Nat \ {0}, y \in Int, d \in Nat \ {0} :
        x = e.num /\ c = e.den /\ y = f.num /\ d = f.den
  BY FractionFields
<1>2. x = a * c /\ y = b * d
  BY <1>1 DEF Same, Whole
<1>3. x \in Nat \ {0}
  BY <1>2, ProductType
<1>4. PICK u \in Int, v \in Nat \ {0} : u = y * c /\ v = d * x
  BY <1>3, ProductType
<1>5. PICK q \in Fraction : q = Minus([num |-> u, den |-> v], Whole(1)) /\ q = [num |-> u - v, den |-> v]
  <2>1. Minus([num |-> u, den |-> v], Whole(1)) = [num |-> u - v, den |-> v]
    BY DEF Minus, Plus, Whole
  <2>2. [num |-> u - v, den |-> v] \in Fraction
    BY DEF Fraction
  <2> QED BY <2>1, <2>2
<1>6. Same(q, [num |-> b - a, den |-> a])
  <2>1. PICK k \in Int : k = c * d
    OBVIOUS
  <2>2. u = b * k /\ v = a * k
    <3>1. (b * d) * c = b * (c * d) /\ d * (a * c) = a * (c * d)
      OBVIOUS
    <3> QED BY <1>2, <1>4, <2>1, <3>1
  <2>3. (b * k - a * k) * a = (b - a) * (a * k)
    OBVIOUS
  <2>4. (u - v) * a = (b - a) * v
    BY <2>2, <2>3
  <2> QED BY <1>5, <2>4 DEF Same
<1>7. Reduced(q) \in Fraction /\ Same(Reduced(q), q)
  BY ReducedIs
<1>8. [num |-> b - a, den |-> a] \in Fraction
  BY DEF Fraction
<1>9. Same(Reduced(q), [num |-> b - a, den |-> a])
  BY <1>6, <1>7, <1>8, SameBack, SameThrough
<1> QED BY <1>1, <1>4, <1>5, <1>9

(* The returns of a curve that follows worths are theirs.                  *)
LEMMA ReturnsOf ==
  ASSUME NEW m \in Nat, NEW curve \in Seq(Fraction), Len(curve) = m,
         NEW worth, \A n \in 1..m : worth[n] \in Nat \ {0} /\ Same(curve[n], Whole(worth[n])),
         NEW i \in 1..(m - 1)
  PROVE  Same(ComputeReturns(curve)[i],
              [num |-> worth[i + 1] - worth[i], den |-> worth[i]])
<1>1. i \in 1..m /\ i + 1 \in 1..m
  OBVIOUS
<1>2. PICK e \in Fraction, f \in Fraction : e = curve[i] /\ f = curve[i + 1]
  BY <1>1
<1>3. PICK a \in Nat \ {0}, b \in Nat \ {0} :
        a = worth[i] /\ b = worth[i + 1] /\ Same(e, Whole(a)) /\ Same(f, Whole(b))
  BY <1>1, <1>2
<1>4. ComputeReturns(curve)[i]
        = Reduced(Minus([num |-> f.num * e.den, den |-> f.den * e.num], Whole(1)))
  BY <1>2 DEF ComputeReturns
<1> QED BY <1>3, <1>4, ReturnIs

LEMMA ReturnsTheSame == ReportInv => ReturnsSurvive
<1> SUFFICES ASSUME ReportInv, AllPositive PROVE ReturnsSurvive
  BY DEF ReturnsSurvive, AllPositive
<1>1. values \in Seq(Int)
  BY DEF ReportInv
<1>2. PICK m \in Nat : m = Len(values) /\ DOMAIN values = 1..m
  BY <1>1
<1>3. PICK charted \in Seq(Fraction), rebuilt \in Seq(Fraction) :
        /\ charted = EquityCurve /\ Len(charted) = m
        /\ \A n \in 1..m : Same(charted[n], Whole(values[n]))
        /\ rebuilt = ReconstructEquityCurve /\ Len(rebuilt) = m + 1
        /\ \A n \in 0..m : Same(rebuilt[n + 1], Whole(WorthAt(n)))
  BY <1>1, <1>2, CurveIs
<1>4. /\ \A n \in 0..m : WorthAt(n) \in Nat \ {0}
      /\ \A n \in 1..m : Returns[n] = [num |-> WorthAt(n) - WorthAt(n - 1), den |-> WorthAt(n - 1)]
  BY <1>1, <1>2, WorthPositive, ReturnsTyped
<1>5. ASSUME NEW i \in 1..(m - 1) PROVE Same(ComputeReturns(charted)[i], Returns[i + 1])
  <2>1. PICK worth : worth = [n \in 1..m |-> WorthAt(n)]
    OBVIOUS
  <2>2. \A n \in 1..m : worth[n] \in Nat \ {0} /\ Same(charted[n], Whole(worth[n]))
    <3>1. ASSUME NEW n \in 1..m
          PROVE  worth[n] \in Nat \ {0} /\ Same(charted[n], Whole(worth[n]))
      <4>1. WorthAt(n) = values[n] /\ n \in 0..m
        BY DEF WorthAt
      <4> QED BY <1>3, <1>4, <2>1, <4>1
    <3> QED BY <3>1
  <2>3. Same(ComputeReturns(charted)[i], [num |-> worth[i + 1] - worth[i], den |-> worth[i]])
    BY <1>3, <2>2, ReturnsOf
  <2>4. Returns[i + 1] = [num |-> worth[i + 1] - worth[i], den |-> worth[i]]
    <3>1. i + 1 \in 1..m /\ i \in 1..m /\ (i + 1) - 1 = i
      OBVIOUS
    <3>2. worth[i + 1] = WorthAt(i + 1) /\ worth[i] = WorthAt(i)
      BY <2>1, <3>1
    <3>3. Returns[i + 1] = [num |-> WorthAt(i + 1) - WorthAt((i + 1) - 1), den |-> WorthAt((i + 1) - 1)]
      BY <1>4, <3>1
    <3> QED BY <3>1, <3>2, <3>3, Zenon
  <2> QED BY <2>3, <2>4
<1>6. ASSUME NEW i \in 1..m PROVE Same(ComputeReturns(rebuilt)[i], Returns[i])
  <2>1. PICK worth : worth = [n \in 1..(m + 1) |-> WorthAt(n - 1)]
    OBVIOUS
  <2>2. \A n \in 1..(m + 1) : worth[n] \in Nat \ {0} /\ Same(rebuilt[n], Whole(worth[n]))
    <3>1. ASSUME NEW n \in 1..(m + 1)
          PROVE  worth[n] \in Nat \ {0} /\ Same(rebuilt[n], Whole(worth[n]))
      <4>1. PICK k \in 0..m : k = n - 1 /\ k + 1 = n
        OBVIOUS
      <4>2. worth[n] = WorthAt(k)
        BY <2>1, <4>1
      <4> QED BY <1>3, <1>4, <4>1, <4>2
    <3> QED BY <3>1
  <2>3. Same(ComputeReturns(rebuilt)[i], [num |-> worth[i + 1] - worth[i], den |-> worth[i]])
    <3>1. PICK k \in Nat : k = m + 1 /\ Len(rebuilt) = k /\ i \in 1..(k - 1)
      BY <1>3
    <3> QED BY <1>3, <2>2, <3>1, ReturnsOf
  <2>4. Returns[i] = [num |-> worth[i + 1] - worth[i], den |-> worth[i]]
    <3>1. i + 1 \in 1..(m + 1) /\ i \in 1..(m + 1) /\ (i + 1) - 1 = i
      OBVIOUS
    <3>2. worth[i + 1] = WorthAt(i) /\ worth[i] = WorthAt(i - 1)
      BY <2>1, <3>1
    <3>3. Returns[i] = [num |-> WorthAt(i) - WorthAt(i - 1), den |-> WorthAt(i - 1)]
      BY <1>4
    <3> QED BY <3>2, <3>3, Zenon
  <2> QED BY <2>3, <2>4
<1> QED BY <1>2, <1>3, <1>5, <1>6, Zenon DEF ReturnsSurvive
-----------------------------------------------------------------------------
(***************************************************************************)
(* The drawdowns                                                           *)
(***************************************************************************)
LEMMA NotBelowItself == ASSUME NEW q \in Fraction PROVE ~Below(q, q)
<1>1. q.num * q.den \in Int
  BY FractionFields
<1> QED BY <1>1 DEF Below

LEMMA NotBelowThrough ==
  ASSUME NEW q \in Fraction, NEW r \in Fraction, NEW s \in Fraction, ~Below(q, r), ~Below(r, s)
  PROVE  ~Below(q, s)
<1>1. PICK a \in Int, b \in Nat \ {0}, c \in Int, d \in Nat \ {0}, x \in Int, y \in Nat \ {0} :
        a = q.num /\ b = q.den /\ c = r.num /\ d = r.den /\ x = s.num /\ y = s.den
  BY FractionFields
<1>2. a * d >= c * b /\ c * y >= x * d
  <2>1. a * d \in Int /\ c * b \in Int /\ c * y \in Int /\ x * d \in Int
    OBVIOUS
  <2>2. ~(a * d < c * b) /\ ~(c * y < x * d)
    BY <1>1 DEF Below
  <2> QED BY <2>1, <2>2
<1>3. (a * y) * d >= (x * b) * d
  <2>1. (a * d) * y >= (c * b) * y
    BY <1>2
  <2>2. (c * y) * b >= (x * d) * b
    BY <1>2
  <2> QED BY <2>1, <2>2
<1>4. a * y >= x * b
  <2>1. PICK u \in Int, v \in Int : u = a * y /\ v = x * b
    OBVIOUS
  <2>2. u * d >= v * d
    BY <1>3, <2>1
  <2>3. u < v => u * d < v * d
    OBVIOUS
  <2>4. u * d \in Int /\ v * d \in Int
    OBVIOUS
  <2> QED BY <2>1, <2>2, <2>3, <2>4
<1>5. a * y \in Int /\ x * b \in Int
  OBVIOUS
<1> QED BY <1>1, <1>4, <1>5 DEF Below

LEMMA SameNotBelow ==
  ASSUME NEW q \in Fraction, NEW r \in Fraction, Same(q, r)
  PROVE  ~Below(q, r) /\ ~Below(r, q)
<1>1. PICK a \in Int, b \in Nat \ {0}, c \in Int, d \in Nat \ {0} :
        a = q.num /\ b = q.den /\ c = r.num /\ d = r.den
  BY FractionFields
<1>2. a * d = c * b /\ a * d \in Int /\ c * b \in Int
  BY <1>1 DEF Same
<1> QED BY <1>1, <1>2 DEF Below

LEMMA LargerIs ==
  ASSUME NEW q \in Fraction, NEW r \in Fraction
  PROVE  /\ Larger(q, r) \in Fraction /\ Larger(q, r) \in {q, r}
         /\ ~Below(Larger(q, r), q) /\ ~Below(Larger(q, r), r)
<1>1. CASE Below(q, r)
  <2>1. Larger(q, r) = r
    BY <1>1 DEF Larger
  <2>2. PICK a \in Int, b \in Nat \ {0}, c \in Int, d \in Nat \ {0} :
          a = q.num /\ b = q.den /\ c = r.num /\ d = r.den
    BY FractionFields
  <2>3. a * d \in Int /\ c * b \in Int
    OBVIOUS
  <2>4. ~Below(r, q)
    BY <1>1, <2>2, <2>3 DEF Below
  <2> QED BY <2>1, <2>4, NotBelowItself
<1>2. CASE ~Below(q, r)
  <2>1. Larger(q, r) = q
    BY <1>2 DEF Larger
  <2> QED BY <1>2, <2>1, NotBelowItself
<1> QED BY <1>1, <1>2

(* The largest so far is one of those seen, and none of them is larger.    *)
IsLargest(r, q, qs, n) ==
  /\ r[n + 1] \in Fraction
  /\ r[n + 1] = q \/ \E i \in 1..n : r[n + 1] = qs[i]
  /\ ~Below(r[n + 1], q)
  /\ \A i \in 1..n : ~Below(r[n + 1], qs[i])

(* What the search for the largest value carries is one of those seen, and *)
(* none of them is larger.                                                 *)
LEMMA LargestIs ==
  ASSUME NEW q \in Fraction, NEW qs \in Seq(Fraction), NEW m \in Nat, m = Len(qs)
  PROVE  /\ LargestOf(q, qs) \in Seq(Fraction) /\ Len(LargestOf(q, qs)) = m + 1
         /\ \A n \in 0..m : IsLargest(LargestOf(q, qs), q, qs, n)
<1>1. PICK f : f = [x \in Fraction |-> [r \in Fraction |-> Larger(x, r)]]
  OBVIOUS
<1>2. Carries(f, Fraction, Fraction)
  BY <1>1, LargerIs DEF Carries
<1>3. PICK run : run = Running(f, q, qs) /\ run = LargestOf(q, qs)
  BY <1>1 DEF LargestOf
<1>4. run \in Seq(Fraction) /\ Len(run) = m + 1 /\ Steps(run, f, q, qs, m)
  <2>1. run = Running(f, q, qs)
    BY <1>3
  <2>2. /\ Running(f, q, qs) \in Seq(Fraction) /\ Len(Running(f, q, qs)) = Len(qs) + 1
        /\ Steps(Running(f, q, qs), f, q, qs, Len(qs))
    BY <1>2, RunningIs
  <2> QED BY <2>1, <2>2, Zenon
<1>5. \A n \in 0..m : IsLargest(run, q, qs, n)
  <2> DEFINE T == {n \in 0..m : ~IsLargest(run, q, qs, n)}
  <2>1. SUFFICES ASSUME T # {} PROVE FALSE
    OBVIOUS
  <2>2. PICK k \in T : \A l \in T : k <= l
    <3>1. T \subseteq Nat
      OBVIOUS
    <3> HIDE DEF T
    <3> QED BY <2>1, <3>1, LeastNatural
  <2>3. k \in 0..m /\ ~IsLargest(run, q, qs, k)
    OBVIOUS
  <2>4. k # 0
    <3>1. run[0 + 1] = q
      BY <1>4 DEF Steps
    <3>2. IsLargest(run, q, qs, 0)
      BY <3>1, NotBelowItself DEF IsLargest
    <3> QED BY <2>3, <3>2
  <2>5. PICK j \in 0..m : k = j + 1 /\ j \notin T
    <3>1. k - 1 \in 0..m /\ k = (k - 1) + 1
      BY <2>3, <2>4
    <3>2. ~(k <= k - 1)
      BY <2>3
    <3>3. k - 1 \notin T
      BY <2>2, <3>2, Zenon
    <3> QED BY <3>1, <3>3
  <2>6. IsLargest(run, q, qs, j)
    BY <2>5
  <2> HIDE DEF T
  <2>7. k \in 1..m
    BY <2>3, <2>4
  <2>8. PICK x \in Fraction, y \in Fraction : x = run[k] /\ y = qs[k]
    BY <1>4, <2>7
  <2>9. run[k + 1] = Larger(x, y)
    <3>1. run[k + 1] = f[x][y]
      BY <1>4, <2>7, <2>8 DEF Steps
    <3> QED BY <1>1, <3>1
  <2>10. /\ x = q \/ \E i \in 1..j : x = qs[i]
         /\ ~Below(x, q)
         /\ \A i \in 1..j : ~Below(x, qs[i])
    BY <2>5, <2>6, <2>8 DEF IsLargest
  <2>11. PICK z \in Fraction : z = run[k + 1] /\ z \in {x, y} /\ ~Below(z, x) /\ ~Below(z, y)
    BY <2>9, LargerIs
  <2>12. \A i \in 1..k : i = k \/ i \in 1..j
    BY <2>5
  <2>13. z = q \/ \E i \in 1..k : z = qs[i]
    <3>1. k \in 1..k /\ \A i \in 1..j : i \in 1..k
      BY <2>5, <2>7
    <3> QED BY <2>8, <2>10, <2>11, <3>1
  <2>14. ~Below(z, q)
    BY <2>10, <2>11, NotBelowThrough
  <2>15. ASSUME NEW i \in 1..k PROVE ~Below(z, qs[i])
    <3>1. CASE i = k
      BY <2>8, <2>11, <3>1
    <3>2. CASE i \in 1..j
      <4>1. qs[i] \in Fraction
        BY <2>7
      <4> QED BY <2>10, <2>11, <3>2, <4>1, NotBelowThrough
    <3> QED BY <2>12, <3>1, <3>2
  <2>16. IsLargest(run, q, qs, k)
    BY <2>11, <2>13, <2>14, <2>15 DEF IsLargest
  <2> QED BY <2>3, <2>16
<1> QED BY <1>3, <1>4, <1>5

(* A drawdown is the part of the peak that is lost.                        *)
LEMMA DrawdownIs ==
  ASSUME NEW q \in Fraction, NEW r \in Fraction, NEW a \in Nat \ {0}, NEW b \in Int,
         Same(q, Whole(a)), Same(r, Whole(b))
  PROVE  /\ Drawdown(q, r) \in Fraction
         /\ Same(Drawdown(q, r), [num |-> a - b, den |-> a])
<1>1. PICK x \in Int, c \in Nat \ {0}, y \in Int, d \in Nat \ {0} :
        x = q.num /\ c = q.den /\ y = r.num /\ d = r.den
  BY FractionFields
<1>2. x = a * c /\ y = b * d
  BY <1>1 DEF Same, Whole
<1>3. x \in Nat \ {0}
  BY <1>2, ProductType
<1>4. x * d \in Nat \ {0} /\ x * d - y * c \in Int
  BY <1>3, ProductType
<1>5. PICK u \in Int, v \in Nat \ {0} : u = x * d - y * c /\ v = x * d
  BY <1>4
<1>6. Drawdown(q, r) = [num |-> u, den |-> v]
  <2>1. ~(x <= 0)
    BY <1>3
  <2> QED BY <1>1, <1>5, <2>1 DEF Drawdown
<1>7. u * a = (a - b) * v
  <2>1. u = (a * c) * d - (b * d) * c /\ v = (a * c) * d
    BY <1>2, <1>5
  <2>2. u = (a - b) * (c * d) /\ v = a * (c * d)
    BY <2>1
  <2>3. PICK e \in Int : e = c * d
    OBVIOUS
  <2>4. u = (a - b) * e /\ v = a * e
    BY <2>2, <2>3
  <2> QED BY <2>4
<1> QED BY <1>6, <1>7 DEF Fraction, Same

LEMMA WholeSame == ASSUME NEW a \in Int PROVE Same(Whole(a), Whole(a)) /\ Whole(a) \in Fraction
  BY SameItself, WholeTyped

(* From a higher peak the fall is no smaller.                              *)
LEMMA HigherPeak ==
  ASSUME NEW a \in Nat \ {0}, NEW c \in Nat \ {0}, NEW b \in Nat \ {0}, a >= c
  PROVE  ~Below([num |-> a - b, den |-> a], [num |-> c - b, den |-> c])
<1>1. (a - b) * c = a * c - b * c /\ (c - b) * a = a * c - b * a
  OBVIOUS
<1>2. b * c <= b * a
  OBVIOUS
<1>3. PICK u \in Int, v \in Int, w \in Int : u = a * c /\ v = b * c /\ w = b * a
  OBVIOUS
<1>4. ~((a - b) * c < (c - b) * a)
  BY <1>1, <1>2, <1>3
<1> QED BY <1>4 DEF Below

(* What is lost of a on the way to b.                                      *)
Gap(a, b) == [num |-> a - b, den |-> a]

LEMMA GapIs ==
  ASSUME NEW a \in Nat \ {0}, NEW b \in Nat \ {0}
  PROVE  /\ Gap(a, b) \in Fraction
         /\ Drawdown(Whole(a), Whole(b)) \in Fraction
         /\ Same(Drawdown(Whole(a), Whole(b)), Gap(a, b))
         /\ Same(Gap(a, b), Drawdown(Whole(a), Whole(b)))
<1>1. Gap(a, b) \in Fraction
  BY DEF Gap, Fraction
<1>2. /\ Drawdown(Whole(a), Whole(b)) \in Fraction
      /\ Same(Drawdown(Whole(a), Whole(b)), Gap(a, b))
  BY WholeSame, DrawdownIs DEF Gap
<1>3. Same(Gap(a, b), Drawdown(Whole(a), Whole(b)))
  BY <1>1, <1>2, SameItself, SameThrough
<1> QED BY <1>1, <1>2, <1>3

(* Same worths, same order.                                                *)
LEMMA WorthsOrdered ==
  ASSUME NEW q \in Fraction, NEW r \in Fraction, NEW a \in Int, NEW b \in Int,
         Same(q, Whole(a)), Same(r, Whole(b)), ~Below(q, r)
  PROVE  a >= b
<1>1. PICK x \in Int, c \in Nat \ {0}, y \in Int, d \in Nat \ {0} :
        x = q.num /\ c = q.den /\ y = r.num /\ d = r.den
  BY FractionFields
<1>2. x = a * c /\ y = b * d
  BY <1>1 DEF Same, Whole
<1>3. ~(x * d < y * c)
  BY <1>1 DEF Below
<1>4. PICK e \in Nat \ {0} : e = c * d
  BY ProductType
<1>5. x * d = a * e /\ y * c = b * e
  <2>1. x * d = a * (c * d) /\ y * c = b * (c * d)
    BY <1>2
  <2> QED BY <1>4, <2>1
<1>6. a < b => a * e < b * e
  OBVIOUS
<1> QED BY <1>3, <1>5, <1>6

(* The peak of a curve at a point, and the fall from it.                   *)
PeakAt(curve, i) == LargestOf(curve[1], curve)[i + 1]
FallAt(curve, i) == Drawdown(PeakAt(curve, i), curve[i])

(* The fall at a point of the curve is the one from the highest worth so   *)
(* far to the worth there.                                                 *)
LEMMA FallsAre ==
  ASSUME NEW m \in Nat, NEW curve \in Seq(Fraction), Len(curve) = m,
         NEW worth, \A n \in 1..m : worth[n] \in Nat \ {0} /\ Same(curve[n], Whole(worth[n])),
         NEW i \in 1..m
  PROVE  /\ FallAt(curve, i) \in Fraction
         /\ \E k \in 1..i : /\ Same(FallAt(curve, i), Gap(worth[k], worth[i]))
                            /\ \A j \in 1..i : worth[k] >= worth[j]
<1>1. curve[1] \in Fraction /\ i \in 0..m
  OBVIOUS
<1>2. IsLargest(LargestOf(curve[1], curve), curve[1], curve, i)
  BY <1>1, LargestIs
<1>3. PICK p : p = PeakAt(curve, i) /\ p = LargestOf(curve[1], curve)[i + 1]
  BY DEF PeakAt
<1>4. /\ p \in Fraction
      /\ p = curve[1] \/ \E k \in 1..i : p = curve[k]
      /\ \A j \in 1..i : ~Below(p, curve[j])
  BY <1>2, <1>3, Zenon DEF IsLargest
<1>5. PICK k \in 1..i : p = curve[k]
  <2>1. 1 \in 1..i
    OBVIOUS
  <2> QED BY <1>4, <2>1
<1>6. k \in 1..m /\ \A j \in 1..i : j \in 1..m
  OBVIOUS
<1>7. PICK a \in Nat \ {0}, b \in Nat \ {0} :
        a = worth[k] /\ b = worth[i] /\ Same(p, Whole(a)) /\ Same(curve[i], Whole(b))
  BY <1>5, <1>6
<1>8. curve[i] \in Fraction /\ b \in Int
  OBVIOUS
<1>9. Drawdown(p, curve[i]) \in Fraction /\ Same(Drawdown(p, curve[i]), Gap(a, b))
  BY <1>4, <1>7, <1>8, DrawdownIs DEF Gap
<1>10. ASSUME NEW j \in 1..i PROVE a >= worth[j]
  <2>1. PICK c \in Nat \ {0} : c = worth[j] /\ Same(curve[j], Whole(c)) /\ curve[j] \in Fraction
    BY <1>6
  <2>2. ~Below(p, curve[j]) /\ c \in Int /\ a \in Int
    BY <1>4
  <2> QED BY <1>4, <1>7, <2>1, <2>2, WorthsOrdered
<1> QED BY <1>3, <1>7, <1>9, <1>10 DEF FallAt

(* The chart follows the same peaks as the analysis.                       *)
LEMMA ChartIs ==
  ASSUME NEW m \in Nat, NEW curve \in Seq(Fraction), Len(curve) = m, m # 0
  PROVE  /\ DrawdownSeries(curve) = [i \in 1..m |-> FallAt(curve, i)]
         /\ ComputeMaxDrawdown(curve)
              = LargestOf(Whole(0), [i \in 1..m |-> FallAt(curve, i)])[m + 1]
<1>1. curve[1] \in Fraction /\ DOMAIN curve = 1..m
  OBVIOUS
<1>2. PICK run \in Seq(Fraction) : run = LargestOf(curve[1], curve) /\ Len(run) = m + 1
  BY <1>1, LargestIs
<1>3. PICK peaks : peaks = Tail(run)
  OBVIOUS
<1>4. \A i \in 1..m : peaks[i] = run[i + 1]
  BY <1>2, <1>3, TailIs
<1>5. [x \in Fraction |-> [e \in Fraction |-> Peak(x, e)]]
        = [x \in Fraction |-> [e \in Fraction |-> Larger(x, e)]]
  BY Zenon DEF Peak
<1>6. Running([x \in Fraction |-> [e \in Fraction |-> Peak(x, e)]], curve[1], curve) = run
  BY <1>2, <1>5, Zenon DEF LargestOf
<1>7. PICK falls : falls = [i \in 1..m |-> Drawdown(peaks[i], curve[i])]
  OBVIOUS
<1>8. DrawdownSeries(curve) = falls
  BY <1>1, <1>3, <1>6, <1>7, Zenon DEF DrawdownSeries
<1>9. ComputeMaxDrawdown(curve) = LargestOf(Whole(0), falls)[m + 1]
  BY <1>1, <1>2, <1>3, <1>7, Zenon DEF ComputeMaxDrawdown
<1>10. falls = [i \in 1..m |-> FallAt(curve, i)]
  <2>1. ASSUME NEW i \in 1..m PROVE Drawdown(peaks[i], curve[i]) = FallAt(curve, i)
    BY <1>2, <1>4, Zenon DEF FallAt, PeakAt
  <2> QED BY <1>7, <2>1, Zenon
<1> QED BY <1>8, <1>9, <1>10

(* A curve that follows m worths.                                          *)
Follows(curve, worth, m) ==
  /\ curve \in Seq(Fraction) /\ Len(curve) = m
  /\ \A n \in 1..m : worth[n] \in Nat \ {0} /\ Same(curve[n], Whole(worth[n]))

(* The worst of the falls of a chart, and of those between m worths.       *)
IsWorst(chart, most, worth, m) ==
  /\ \E n \in 1..m : Same(chart[n], most)
  /\ \A n \in 1..m : ~Below(most, chart[n])
  /\ \E x, y \in 1..m :
       x <= y /\ Same(Drawdown(Whole(worth[x]), Whole(worth[y])), most)
  /\ \A x, y \in 1..m :
       x <= y => ~Below(most, Drawdown(Whole(worth[x]), Whole(worth[y])))

(* The worst fall of a curve that follows worths is its largest one, and   *)
(* the largest from any of the worths to a later one.                      *)
LEMMA WorstIs ==
  ASSUME NEW m \in Nat \ {0}, NEW curve, NEW worth, Follows(curve, worth, m)
  PROVE  IsWorst(DrawdownSeries(curve), ComputeMaxDrawdown(curve), worth, m)
<1>1. PICK chart, most : chart = DrawdownSeries(curve) /\ most = ComputeMaxDrawdown(curve)
  OBVIOUS
<1>2. /\ curve \in Seq(Fraction) /\ Len(curve) = m
      /\ \A n \in 1..m : worth[n] \in Nat \ {0} /\ Same(curve[n], Whole(worth[n]))
  BY DEF Follows
<1>5. chart = [i \in 1..m |-> FallAt(curve, i)]
  BY <1>1, <1>2, ChartIs
<1>6. most = LargestOf(Whole(0), chart)[m + 1]
  BY <1>1, <1>2, <1>5, ChartIs
<1>8. ASSUME NEW i \in 1..m
      PROVE  /\ chart[i] \in Fraction
             /\ \E k \in 1..i : /\ Same(chart[i], Gap(worth[k], worth[i]))
                                /\ \A j \in 1..i : worth[k] >= worth[j]
  <2>1. chart[i] = FallAt(curve, i)
    BY <1>5
  <2>2. /\ FallAt(curve, i) \in Fraction
        /\ \E k \in 1..i : /\ Same(FallAt(curve, i), Gap(worth[k], worth[i]))
                           /\ \A j \in 1..i : worth[k] >= worth[j]
    BY <1>2, FallsAre
  <2> QED BY <2>1, <2>2
<1>9. chart \in Seq(Fraction) /\ Len(chart) = m
  <2>1. chart = [i \in 1..m |-> chart[i]]
    BY <1>5
  <2> QED BY <1>8, <2>1
<1>10. IsLargest(LargestOf(Whole(0), chart), Whole(0), chart, m)
  <2>1. Whole(0) \in Fraction /\ m \in 0..m
    BY WholeTyped
  <2> QED BY <1>9, <2>1, LargestIs
<1>11. /\ most \in Fraction
       /\ most = Whole(0) \/ \E i \in 1..m : most = chart[i]
       /\ \A i \in 1..m : ~Below(most, chart[i])
  BY <1>6, <1>10, Zenon DEF IsLargest
<1>12. PICK i \in 1..m : Same(chart[i], most)
  <2>1. CASE most = Whole(0)
    <3>1. 1 \in 1..m
      OBVIOUS
    <3>2. PICK k \in 1..1 : Same(chart[1], Gap(worth[k], worth[1]))
      BY <1>8, <3>1
    <3>3. PICK a \in Nat \ {0} : a = worth[1]
      BY <1>2, <3>1
    <3>4. Gap(worth[k], worth[1]) = [num |-> 0, den |-> a] /\ k = 1
      BY <3>3 DEF Gap
    <3>5. PICK x \in Int, d \in Nat \ {0} : x = chart[1].num /\ d = chart[1].den
      BY <1>8, <3>1, FractionFields
    <3>6. x * a = 0 * d
      BY <3>2, <3>4, <3>5 DEF Same
    <3>7. x = 0
      BY <3>6
    <3>8. Same(chart[1], Whole(0))
      BY <3>5, <3>7 DEF Same, Whole
    <3> QED BY <2>1, <3>1, <3>8
  <2>2. CASE most # Whole(0)
    BY <1>11, <2>2, SameItself
  <2> QED BY <2>1, <2>2
<1> DEFINE Fall(x, y) == Drawdown(Whole(worth[x]), Whole(worth[y]))
<1>13. ASSUME NEW x \in 1..m, NEW y \in 1..m
       PROVE  /\ Fall(x, y) \in Fraction /\ Gap(worth[x], worth[y]) \in Fraction
              /\ Same(Fall(x, y), Gap(worth[x], worth[y]))
              /\ Same(Gap(worth[x], worth[y]), Fall(x, y))
  <2>1. worth[x] \in Nat \ {0} /\ worth[y] \in Nat \ {0}
    BY <1>2
  <2> QED BY <2>1, GapIs
<1> HIDE DEF Fall
<1>14. \E x, y \in 1..m : x <= y /\ Same(Fall(x, y), most)
  <2>1. PICK k \in 1..i : Same(chart[i], Gap(worth[k], worth[i]))
    BY <1>8
  <2>2. k \in 1..m /\ k <= i
    OBVIOUS
  <2>3. /\ Fall(k, i) \in Fraction /\ Gap(worth[k], worth[i]) \in Fraction
        /\ Same(Gap(worth[k], worth[i]), Fall(k, i))
    BY <1>13, <2>2
  <2>4. chart[i] \in Fraction
    BY <1>8
  <2>5. Same(Gap(worth[k], worth[i]), most)
    BY <1>11, <1>12, <2>1, <2>3, <2>4, SameThrough
  <2>6. Same(Fall(k, i), most)
    BY <1>11, <2>3, <2>5, SameThrough
  <2> QED BY <2>2, <2>6
<1>15. ASSUME NEW x \in 1..m, NEW y \in 1..m, x <= y PROVE ~Below(most, Fall(x, y))
  <2>1. PICK k \in 1..y : /\ Same(chart[y], Gap(worth[k], worth[y]))
                          /\ \A j \in 1..y : worth[k] >= worth[j]
    BY <1>8
  <2>2. k \in 1..m /\ x \in 1..y
    BY <1>15
  <2>3. PICK a \in Nat \ {0}, c \in Nat \ {0}, b \in Nat \ {0} :
          a = worth[k] /\ c = worth[x] /\ b = worth[y]
    BY <1>2, <2>2
  <2>4. a >= c
    BY <2>1, <2>2, <2>3
  <2>5. ~Below(Gap(a, b), Gap(c, b))
    BY <2>3, <2>4, HigherPeak DEF Gap
  <2>6. /\ Fall(x, y) \in Fraction /\ Gap(c, b) \in Fraction /\ Gap(a, b) \in Fraction
        /\ Same(Gap(c, b), Fall(x, y))
    BY <1>13, <2>2, <2>3
  <2>7. chart[y] \in Fraction /\ ~Below(most, chart[y])
    BY <1>8, <1>11
  <2>8. ~Below(chart[y], Gap(a, b))
    BY <2>1, <2>3, <2>6, <2>7, SameNotBelow
  <2>9. ~Below(Gap(c, b), Fall(x, y))
    BY <2>6, SameNotBelow
  <2>10. ~Below(most, Gap(a, b))
    BY <1>11, <2>6, <2>7, <2>8, NotBelowThrough
  <2>11. ~Below(most, Gap(c, b))
    BY <1>11, <2>5, <2>6, <2>10, NotBelowThrough
  <2> QED BY <1>11, <2>6, <2>9, <2>11, NotBelowThrough
<1>16. /\ \E n \in 1..m : Same(chart[n], most)
       /\ \A n \in 1..m : ~Below(most, chart[n])
  BY <1>11, <1>12
<1>17. \A x, y \in 1..m : x <= y => ~Below(most, Fall(x, y))
  BY <1>15
<1> QED BY <1>1, <1>14, <1>16, <1>17, Zenon DEF Fall, IsWorst

LEMMA DrawdownsTheSame == ReportInv => DrawdownsAgree
<1> SUFFICES ASSUME ReportInv, values # <<>>, AllPositive PROVE DrawdownsAgree
  BY DEF DrawdownsAgree, AllPositive
<1>1. values \in Seq(Int)
  BY DEF ReportInv
<1>2. PICK m \in Nat \ {0} : m = Len(values) /\ DOMAIN values = 1..m
  BY <1>1
<1>3. PICK charted \in Seq(Fraction), rebuilt \in Seq(Fraction) :
        /\ charted = EquityCurve /\ Len(charted) = m
        /\ \A n \in 1..m : Same(charted[n], Whole(values[n]))
        /\ rebuilt = ReconstructEquityCurve /\ Len(rebuilt) = m + 1
        /\ \A n \in 0..m : Same(rebuilt[n + 1], Whole(WorthAt(n)))
  BY <1>1, <1>2, CurveIs
<1>4. \A n \in 0..m : WorthAt(n) \in Nat \ {0}
  BY <1>1, <1>2, WorthPositive
<1>5. PICK chart : chart = DrawdownSeries(charted)
  OBVIOUS
<1>6. PICK most : most = ComputeMaxDrawdown(charted)
  OBVIOUS
<1>7. PICK worst : worst = ComputeMaxDrawdown(rebuilt)
  OBVIOUS
<1>8. /\ \E n \in 1..m : Same(chart[n], most)
      /\ \A n \in 1..m : ~Below(most, chart[n])
      /\ IsLargestFall(most, 1)
  <2>1. PICK worth : worth = [n \in 1..m |-> WorthAt(n)]
    OBVIOUS
  <2>2. \A n \in 1..m : worth[n] \in Nat \ {0} /\ Same(charted[n], Whole(worth[n]))
    <3>1. ASSUME NEW n \in 1..m
          PROVE  worth[n] \in Nat \ {0} /\ Same(charted[n], Whole(worth[n]))
      <4>1. WorthAt(n) = values[n] /\ n \in 0..m
        BY DEF WorthAt
      <4> QED BY <1>3, <1>4, <2>1, <4>1
    <3> QED BY <3>1
  <2>3. /\ \E n \in 1..m : Same(chart[n], most)
        /\ \A n \in 1..m : ~Below(most, chart[n])
        /\ \E x, y \in 1..m :
             x <= y /\ Same(Drawdown(Whole(worth[x]), Whole(worth[y])), most)
        /\ \A x, y \in 1..m :
             x <= y => ~Below(most, Drawdown(Whole(worth[x]), Whole(worth[y])))
    <3>1. Follows(charted, worth, m)
      BY <1>3, <2>2, Zenon DEF Follows
    <3>2. IsWorst(chart, most, worth, m)
      BY <1>5, <1>6, <3>1, WorstIs
    <3> QED BY <3>2, Zenon DEF IsWorst
  <2>4. \A n \in 1..m : worth[n] = WorthAt(n)
    BY <2>1
  <2>5. /\ \E x, y \in 1..m :
             x <= y /\ Same(Drawdown(Whole(WorthAt(x)), Whole(WorthAt(y))), most)
        /\ \A x, y \in 1..m :
             x <= y => ~Below(most, Drawdown(Whole(WorthAt(x)), Whole(WorthAt(y))))
    BY <2>3, <2>4, Zenon
  <2> QED BY <1>2, <2>3, <2>5, Zenon DEF IsLargestFall
<1>9. IsLargestFall(worst, 0)
  <2>1. PICK k \in Nat \ {0} : k = m + 1
    OBVIOUS
  <2>2. PICK worth : worth = [n \in 1..k |-> WorthAt(n - 1)]
    OBVIOUS
  <2>3. \A n \in 1..k : worth[n] \in Nat \ {0} /\ Same(rebuilt[n], Whole(worth[n]))
    <3>1. ASSUME NEW n \in 1..k
          PROVE  worth[n] \in Nat \ {0} /\ Same(rebuilt[n], Whole(worth[n]))
      <4>1. PICK j \in 0..m : j = n - 1 /\ j + 1 = n
        BY <2>1
      <4>2. worth[n] = WorthAt(j)
        BY <2>2, <4>1
      <4> QED BY <1>3, <1>4, <4>1, <4>2
    <3> QED BY <3>1
  <2>4. /\ \E x, y \in 1..k :
             x <= y /\ Same(Drawdown(Whole(worth[x]), Whole(worth[y])), worst)
        /\ \A x, y \in 1..k :
             x <= y => ~Below(worst, Drawdown(Whole(worth[x]), Whole(worth[y])))
    <3>1. Len(rebuilt) = k
      BY <1>3, <2>1
    <3>2. Follows(rebuilt, worth, k)
      BY <1>3, <2>3, <3>1, Zenon DEF Follows
    <3>3. IsWorst(DrawdownSeries(rebuilt), worst, worth, k)
      BY <1>7, <3>2, WorstIs
    <3> QED BY <3>3, Zenon DEF IsWorst
  <2>5. \E i, j \in 0..m : i <= j /\ Same(Drawdown(Whole(WorthAt(i)), Whole(WorthAt(j))), worst)
    <3>1. PICK x \in 1..k, y \in 1..k :
            x <= y /\ Same(Drawdown(Whole(worth[x]), Whole(worth[y])), worst)
      BY <2>4
    <3>2. PICK i \in 0..m, j \in 0..m : i = x - 1 /\ j = y - 1 /\ i <= j
      BY <2>1, <3>1
    <3>3. worth[x] = WorthAt(i) /\ worth[y] = WorthAt(j)
      BY <2>2, <3>2
    <3> QED BY <3>1, <3>2, <3>3
  <2>6. ASSUME NEW i \in 0..m, NEW j \in 0..m, i <= j
        PROVE  ~Below(worst, Drawdown(Whole(WorthAt(i)), Whole(WorthAt(j))))
    <3>1. PICK x \in 1..k, y \in 1..k : x = i + 1 /\ y = j + 1 /\ x <= y /\ x - 1 = i /\ y - 1 = j
      BY <2>1, <2>6
    <3>2. worth[x] = WorthAt(i) /\ worth[y] = WorthAt(j)
      BY <2>2, <3>1
    <3> QED BY <2>4, <3>1, <3>2
  <2> QED BY <1>2, <2>5, <2>6, Zenon DEF IsLargestFall
<1> QED BY <1>2, <1>3, <1>5, <1>6, <1>7, <1>8, <1>9, Zenon DEF DrawdownsAgree

(* The report agrees with itself: the statistics of the broker with those  *)
(* of the log, the curve with the account, the drawdown of the chart with  *)
(* that of the analysis, in every run of any length and at any prices.     *)
THEOREM ReportsAgree == ReportSpec => []ReportAgrees
<1>1. ReportInv => ReportAgrees
  BY ReportTyped, StatsTheSame, CurveTheEquity, ReturnsTheSame, DrawdownsTheSame, Zenon
     DEF ReportAgrees
<1> QED BY <1>1, ReportInductive, PTL
=============================================================================

----------------------- MODULE MarketAndReplayProofs -----------------------
(***************************************************************************)
(* Theorems about the realtime market reads, for any keys, timeout,        *)
(* intervals, retry policy and bounds, and about the replay of strategies  *)
(* by the live adapter, for any configurations, warm-up period and bounds. *)
(*                                                                         *)
(* FreshIsFresh rests on the thread of the present question being the last *)
(* one started, RequestsAreSpaced on that thread being the only one at     *)
(* work until a question times out, and AnswersNeverGoBack on the cache    *)
(* being no younger than the present question.                             *)
(*                                                                         *)
(* LiveFollowsStrategy and SignalsAreEarned rest on the strategy of the    *)
(* backtest being the replay of all bars, and the window having them all   *)
(* while they fit.                                                         *)
(***************************************************************************)
EXTENDS RealtimeMarket, StrategyReplay, SequenceTheorems, NaturalsInduction,
        WellFoundedInduction, TLAPS

Datum == [key : Key, at : Time]

SnapshotOK ==
  snapshot \in [ok : BOOLEAN, fallback : BOOLEAN, timed_out : BOOLEAN,
                key : Key \cup {"none"}, since : Time, data : {Nothing} \cup Datum]

\* Threads that no question started are untouched; a thread that sleeps before
\* a retry has an attempt left; no thread has an answer of the future.
Threads ==
  \A n \in Thread :
    /\ n > asked => thread[n].stage = "new"
    /\ thread[n].stage = "backoff" => thread[n].attempt < MaxAttempts
    /\ thread[n].at <= now

\* The last thread works on the present question, and its answer is younger.
Current ==
  Waiting =>
    /\ asked \in Thread
    /\ question.at <= now
    /\ thread[asked].key = question.key
    /\ thread[asked].stage = "done" => thread[asked].at >= question.at

\* As long as no question timed out, at most the last thread is at work, and
\* the limiter knows when the last request left.
Alone ==
  ~abandoned =>
    /\ left = last
    /\ \A n \in Thread : thread[n].stage \in {"new", "done"} \/ (Waiting /\ n = asked)
    /\ \A n \in Thread : thread[n].stage = "pacing" =>
         last # Never /\ thread[n].until = last + Interval

\* The cache is never younger than the present question, and the last snapshot,
\* if it is ok, is what the cache holds for its key.
Known ==
  /\ \A k \in Key : cache[k].at <= now /\ (Waiting => cache[k].at <= question.at)
  /\ snapshot.ok => /\ snapshot.key \in Key
                    /\ snapshot.data # Nothing
                    /\ snapshot.data = cache[snapshot.key]

Typed == TypeOK /\ SnapshotOK
Spaced == ~abandoned => spaced

IInv == Typed /\ Threads /\ Current /\ Alone /\ Known /\ FreshIsFresh /\ Spaced

-----------------------------------------------------------------------------
(***************************************************************************)
(* Facts about rows                                                        *)
(***************************************************************************)
Stage == {"new", "limiter", "pacing", "inflight", "backoff", "done"}

Row == [stage : Stage, key : Key \cup {"none"}, attempt : 0..MaxAttempts,
        delay : 0..(MaxDelay + InitialDelay), until : Nat,
        answer : {"none", "data", "garbled", "failed"}, at : Time]

\* The types of the variables, field by field.
LEMMA Fields ==
  ASSUME Typed
  PROVE  /\ now \in Nat /\ now \in Time /\ asked \in Nat
         /\ \A n \in Thread :
              /\ n \in Nat /\ n >= 1
              /\ thread[n] \in Row
              /\ thread[n].stage \in Stage
              /\ thread[n].key \in Key \cup {"none"}
              /\ thread[n].attempt \in 0..MaxAttempts
              /\ thread[n].delay \in Nat
              /\ thread[n].until \in Nat
              /\ thread[n].at \in Time /\ thread[n].at \in Nat
         /\ thread \in [Thread -> Row]
         /\ last \in Nat \cup {Never} /\ left \in Nat \cup {Never}
         /\ Waiting => question.key \in Key /\ question.at \in Time /\ question.at \in Nat
         /\ \A k \in Key : /\ cache[k] \in {Nothing} \cup Datum
                           /\ cache[k].at \in Int
                           /\ cache[k] # Nothing => cache[k].at \in Nat
  <1> USE BoundAssumption, PolicyAssumption DEF Typed, TypeOK
  <1>1. /\ now \in Nat /\ now \in Time /\ asked \in Nat
        /\ last \in Nat \cup {Never} /\ left \in Nat \cup {Never}
    BY DEF Time
  <1>2. thread \in [Thread -> Row]
    BY DEF Row, Stage
  <1>3. ASSUME NEW n \in Thread
        PROVE  /\ n \in Nat /\ n >= 1
               /\ thread[n] \in Row
               /\ thread[n].stage \in Stage
               /\ thread[n].key \in Key \cup {"none"}
               /\ thread[n].attempt \in 0..MaxAttempts
               /\ thread[n].delay \in Nat
               /\ thread[n].until \in Nat
               /\ thread[n].at \in Time /\ thread[n].at \in Nat
    <2>1. n \in Nat /\ n >= 1
      BY DEF Thread
    <2>2. thread[n] \in Row
      BY <1>2
    <2> QED
      BY <2>1, <2>2 DEF Row, Time
  <1>4. Waiting => question.key \in Key /\ question.at \in Time /\ question.at \in Nat
    BY DEF Waiting, Time
  <1>5. ASSUME NEW k \in Key
        PROVE  /\ cache[k] \in {Nothing} \cup Datum
               /\ cache[k].at \in Int
               /\ cache[k] # Nothing => cache[k].at \in Nat
    <2>1. cache[k] \in {Nothing} \cup Datum
      BY DEF Datum
    <2>2. Nothing.at = -1
      BY DEF Nothing, Never
    <2> QED
      BY <2>1, <2>2 DEF Datum, Time
  <1> QED
    BY <1>1, <1>2, <1>3, <1>4, <1>5

\* The delays of the retry policy stay within its bounds.
LEMMA DelayTyped ==
  ASSUME NEW d \in Nat
  PROVE  /\ Lesser(d * Multiplier, MaxDelay) \in 0..(MaxDelay + InitialDelay)
         /\ \A failure : NextDelay(d, failure) \in Nat
         /\ InitialDelay \in 0..(MaxDelay + InitialDelay)
  <1>1. d * Multiplier \in Nat
    BY PolicyAssumption
  <1> DEFINE e == d * Multiplier
  <1>2. Lesser(e, MaxDelay) \in 0..(MaxDelay + InitialDelay)
    <2> HIDE DEF e
    <2>1. e \in Nat
      BY <1>1 DEF e
    <2> QED
      BY <2>1, PolicyAssumption DEF Lesser
  <1> QED
    BY <1>2, PolicyAssumption DEF Lesser, NextDelay, Greater

LEMMA InitInv == Init => IInv
  <1> SUFFICES ASSUME Init PROVE IInv
    OBVIOUS
  <1>1. New \in Row /\ New.stage = "new" /\ New.at = 0
    BY PolicyAssumption, BoundAssumption DEF New, Row, Stage, Time
  <1>2. Typed
    <2>1. thread \in [Thread -> Row]
      BY <1>1 DEF Init
    <2>2. 0 \in Time /\ asked \in 0..MaxRequests
      BY BoundAssumption DEF Init, Time
    <2>3. TypeOK
      BY <2>1, <2>2 DEF Init, TypeOK, Row, Stage
    <2>4. SnapshotOK
      BY <2>2 DEF Init, SnapshotOK
    <2> QED
      BY <2>3, <2>4 DEF Typed
  <1>3. Threads /\ Current /\ Alone /\ Known /\ FreshIsFresh /\ Spaced
    BY <1>1 DEF Init, Threads, Current, Alone, Known, FreshIsFresh, Spaced, Waiting,
                Idle, Nothing, Never, Thread
  <1> QED
    BY <1>2, <1>3 DEF IInv

-----------------------------------------------------------------------------
(***************************************************************************)
(* The steps of a thread                                                   *)
(***************************************************************************)
\* What the owner sees of a step of thread n: its row becomes r, of the same
\* question, and only the limiter and the history change beside it.
ThreadStep(n, r) ==
  /\ thread[n].stage \notin {"new", "done"}
  /\ r \in Row
  /\ r.stage # "new" /\ r.key = thread[n].key
  /\ r.stage = "done" => r.at = now
  /\ r.stage # "done" => r.at = thread[n].at
  /\ r.stage = "backoff" => r.attempt < MaxAttempts
  /\ thread' = [thread EXCEPT ![n] = r]
  /\ UNCHANGED <<now, asked, question, cache, snapshot, abandoned>>

\* Such a step keeps everything but what the limiter promises.
LEMMA ThreadStepKeeps ==
  ASSUME IInv, NEW n \in Thread, NEW r, ThreadStep(n, r),
         last' \in Time \cup {Never}, left' \in Time \cup {Never}, spaced' \in BOOLEAN
  PROVE  Typed' /\ Threads' /\ Current' /\ Known' /\ FreshIsFresh'
  <1> USE DEF IInv
  <1>1. /\ thread'[n] = r
        /\ \A m \in Thread : m # n => thread'[m] = thread[m]
        /\ thread' \in [Thread -> Row]
    BY Fields DEF ThreadStep
  <1>2. Typed'
    BY <1>1 DEF Typed, TypeOK, SnapshotOK, ThreadStep, Row, Stage, Thread, Time
  <1>3. Threads'
    <2> SUFFICES ASSUME NEW m \in Thread
                 PROVE  /\ m > asked => thread'[m].stage = "new"
                        /\ thread'[m].stage = "backoff" => thread'[m].attempt < MaxAttempts
                        /\ thread'[m].at <= now
      BY DEF Threads, ThreadStep, Thread
    <2>1. CASE m = n
      <3>1. ~(n > asked)
        BY DEF Threads, ThreadStep
      <3>2. r.at <= now
        BY Fields DEF Threads, ThreadStep
      <3> QED
        BY <1>1, <2>1, <3>1, <3>2 DEF ThreadStep
    <2>2. CASE m # n
      BY <1>1, <2>2 DEF Threads
    <2> QED
      BY <2>1, <2>2
  <1>4. Current'
    <2> SUFFICES ASSUME Waiting
                 PROVE  /\ asked \in Thread /\ question.at <= now
                        /\ thread'[asked].key = question.key
                        /\ thread'[asked].stage = "done" => thread'[asked].at >= question.at
      BY DEF Current, ThreadStep, Waiting, Thread
    <2>1. CASE asked = n
      BY <1>1, <2>1, Fields DEF Current, ThreadStep
    <2>2. CASE asked # n
      BY <1>1, <2>2 DEF Current
    <2> QED
      BY <2>1, <2>2
  <1>5. Known' /\ FreshIsFresh'
    BY DEF Known, FreshIsFresh, ThreadStep, Waiting
  <1> QED
    BY <1>2, <1>3, <1>4, <1>5

\* It keeps what the limiter promises when the time of the last request stays
\* and the thread does not start to pace itself.
LEMMA QuietKeepsAlone ==
  ASSUME IInv, NEW n \in Thread, NEW r, ThreadStep(n, r),
         r.stage # "pacing", UNCHANGED <<last, left, spaced>>
  PROVE  IInv'
  <1> USE DEF IInv
  <1>1. Typed' /\ Threads' /\ Current' /\ Known' /\ FreshIsFresh'
    <2>1. last' \in Time \cup {Never} /\ left' \in Time \cup {Never} /\ spaced' \in BOOLEAN
      BY DEF Typed, TypeOK
    <2> QED
      BY <2>1, ThreadStepKeeps
  <1>2. /\ thread'[n] = r
        /\ \A m \in Thread : m # n => thread'[m] = thread[m]
    BY Fields DEF ThreadStep
  <1>3. Alone' /\ Spaced'
    <2> SUFFICES ASSUME ~abandoned PROVE Alone' /\ Spaced'
      BY DEF Alone, Spaced, ThreadStep
    <2>1. Waiting /\ n = asked
      BY DEF Alone, ThreadStep
    <2> QED
      BY <1>2, <2>1 DEF Alone, Spaced, ThreadStep, Waiting, Thread
  <1> QED
    BY <1>1, <1>3

\* A thread that leaves the limiter in time keeps the requests apart.
LEMMA PaceKeeps ==
  ASSUME IInv, NEW n \in Thread, thread[n].stage \in {"limiter", "pacing"}, Pace(n),
         UNCHANGED <<now, asked, question, cache, snapshot, abandoned>>,
         ~abandoned => last = Never \/ now - last >= Interval
  PROVE  IInv'
  <1> USE DEF IInv
  <1> DEFINE r == [thread[n] EXCEPT !.stage = "inflight"]
  <1>1. /\ r \in Row /\ r.stage = "inflight" /\ r.key = thread[n].key /\ r.at = thread[n].at
        /\ thread' = [thread EXCEPT ![n] = r]
    BY Fields DEF Pace, Row, Stage
  <1> HIDE DEF r
  <1>2. ThreadStep(n, r)
    BY <1>1 DEF ThreadStep
  <1>3. Typed' /\ Threads' /\ Current' /\ Known' /\ FreshIsFresh'
    <2>1. last' \in Time \cup {Never} /\ left' \in Time \cup {Never} /\ spaced' \in BOOLEAN
      BY DEF Typed, TypeOK, Pace
    <2> QED
      BY <1>2, <2>1, ThreadStepKeeps
  <1>4. Alone' /\ Spaced'
    <2> SUFFICES ASSUME ~abandoned PROVE Alone' /\ Spaced'
      BY DEF Alone, Spaced
    <2>1. Waiting /\ n = asked
      BY DEF Alone
    <2>2. /\ thread'[n] = r
          /\ \A m \in Thread : m # n => thread'[m] = thread[m]
      BY <1>1, Fields
    <2>3. Alone'
      BY <1>1, <2>1, <2>2 DEF Alone, Pace, Waiting, Thread
    <2>4. Spaced'
      BY DEF Alone, Spaced, Pace
    <2> QED
      BY <2>3, <2>4
  <1> QED
    BY <1>3, <1>4

LEMMA WaitInv == ASSUME IInv, NEW n \in Thread, Wait(n) PROVE IInv'
  <1> USE DEF IInv
  <1>1. CASE last # Never /\ now - last < Interval
    <2> DEFINE r == [thread[n] EXCEPT !.stage = "pacing", !.until = last + Interval]
    <2>1. last + Interval \in Nat
      BY <1>1, Fields, PolicyAssumption
    <2>2. thread' = [thread EXCEPT ![n] = r]
      BY <1>1, Fields DEF Wait
    <2>3. /\ r \in Row /\ r.stage = "pacing" /\ r.key = thread[n].key /\ r.at = thread[n].at
          /\ r.until = last + Interval
      BY <2>1, Fields DEF Row, Stage
    <2> HIDE DEF r
    <2>4. ThreadStep(n, r)
      BY <1>1, <2>2, <2>3 DEF ThreadStep, Wait
    <2>5. Typed' /\ Threads' /\ Current' /\ Known' /\ FreshIsFresh'
      <3>1. last' \in Time \cup {Never} /\ left' \in Time \cup {Never} /\ spaced' \in BOOLEAN
        BY <1>1 DEF Typed, TypeOK, Wait
      <3> QED
        BY <2>4, <3>1, ThreadStepKeeps
    <2>6. Alone' /\ Spaced'
      <3> SUFFICES ASSUME ~abandoned PROVE Alone' /\ Spaced'
        BY DEF Alone, Spaced, Wait
      <3>1. Waiting /\ n = asked
        BY DEF Alone, Wait
      <3>2. /\ thread'[n] = r
            /\ \A m \in Thread : m # n => thread'[m] = thread[m]
        BY <2>2, Fields
      <3> QED
        BY <1>1, <2>3, <3>1, <3>2 DEF Alone, Spaced, Wait, Waiting, Thread
    <2> QED
      BY <2>5, <2>6
  <1>2. CASE ~(last # Never /\ now - last < Interval)
    <2>1. last = Never \/ now - last >= Interval
      BY <1>2, Fields, PolicyAssumption
    <2> QED
      BY <1>2, <2>1, PaceKeeps DEF Wait
  <1> QED
    BY <1>1, <1>2

LEMMA WakeUpInv == ASSUME IInv, NEW n \in Thread, WakeUp(n) PROVE IInv'
  <1> USE DEF IInv
  <1>1. ~abandoned => last = Never \/ now - last >= Interval
    BY Fields, PolicyAssumption DEF Alone, WakeUp
  <1> QED
    BY <1>1, PaceKeeps DEF WakeUp

LEMMA AnswerInv ==
  ASSUME IInv, NEW n \in Thread, NEW answer \in {"data", "garbled"}, Answer(n, answer)
  PROVE  IInv'
  <1> USE DEF IInv
  <1> DEFINE r == [thread[n] EXCEPT !.stage = "done", !.answer = answer, !.at = now]
  <1>1. thread' = [thread EXCEPT ![n] = r]
    BY Fields DEF Answer
  <1>2. r \in Row /\ r.stage = "done" /\ r.key = thread[n].key /\ r.at = now
    BY Fields DEF Row, Stage
  <1> HIDE DEF r
  <1>3. ThreadStep(n, r)
    BY <1>1, <1>2 DEF ThreadStep, Answer
  <1> QED
    BY <1>2, <1>3, QuietKeepsAlone DEF Answer

LEMMA FailInv ==
  ASSUME IInv, NEW n \in Thread, NEW failure \in Failure, Fail(n, failure)
  PROVE  IInv'
  <1> USE DEF IInv
  <1>1. CASE Retryable(n, failure)
    <2> DEFINE d == now + NextDelay(thread[n].delay, failure)
               r == [thread[n] EXCEPT !.stage = "backoff", !.until = d]
    <2>1. d \in Nat
      BY Fields, DelayTyped
    <2>2. thread' = [thread EXCEPT ![n] = r]
      BY <1>1, Fields DEF Fail
    <2> HIDE DEF d
    <2>3. /\ r \in Row /\ r.stage = "backoff" /\ r.key = thread[n].key /\ r.at = thread[n].at
          /\ r.attempt = thread[n].attempt
      BY <2>1, Fields DEF Row, Stage
    <2> HIDE DEF r
    <2>4. ThreadStep(n, r)
      BY <1>1, <2>2, <2>3 DEF ThreadStep, Fail, Retryable
    <2> QED
      BY <2>3, <2>4, QuietKeepsAlone DEF Fail
  <1>2. CASE ~Retryable(n, failure)
    <2> DEFINE r == [thread[n] EXCEPT !.stage = "done", !.answer = "failed", !.at = now]
    <2>1. thread' = [thread EXCEPT ![n] = r]
      BY <1>2, Fields DEF Fail
    <2>2. r \in Row /\ r.stage = "done" /\ r.key = thread[n].key /\ r.at = now
      BY Fields DEF Row, Stage
    <2> HIDE DEF r
    <2>3. ThreadStep(n, r)
      BY <2>1, <2>2 DEF ThreadStep, Fail
    <2> QED
      BY <2>2, <2>3, QuietKeepsAlone DEF Fail
  <1> QED
    BY <1>1, <1>2

LEMMA RetryInv == ASSUME IInv, NEW n \in Thread, Retry(n) PROVE IInv'
  <1> USE DEF IInv
  <1> DEFINE d == Lesser(thread[n].delay * Multiplier, MaxDelay)
             r == [thread[n] EXCEPT !.stage = "limiter", !.attempt = @ + 1, !.delay = d]
  <1>1. d \in 0..(MaxDelay + InitialDelay)
    BY Fields, DelayTyped
  <1>2. thread' = [thread EXCEPT ![n] = r]
    BY Fields DEF Retry, EnterAttempt
  <1> HIDE DEF d
  <1>3. thread[n].attempt + 1 \in 0..MaxAttempts
    BY Fields, PolicyAssumption DEF Threads, Retry
  <1>4. r \in Row /\ r.stage = "limiter" /\ r.key = thread[n].key /\ r.at = thread[n].at
    BY <1>1, <1>3, Fields DEF Row, Stage
  <1> HIDE DEF r
  <1>5. ThreadStep(n, r)
    BY <1>2, <1>4 DEF ThreadStep, Retry
  <1> QED
    BY <1>4, <1>5, QuietKeepsAlone DEF Retry

-----------------------------------------------------------------------------
(***************************************************************************)
(* The steps of the owner                                                  *)
(***************************************************************************)
LEMMA AskInv == ASSUME IInv, NEW k \in Key, Ask(k) PROVE IInv'
  <1> USE DEF IInv
  <1> DEFINE r == [New EXCEPT !.stage = "limiter", !.key = k,
                              !.attempt = 1, !.delay = InitialDelay]
  <1>1. asked + 1 \in Thread /\ asked' = asked + 1 /\ asked' \in 0..MaxRequests
    BY Fields, BoundAssumption DEF Ask, Thread
  <1>2. thread' = [thread EXCEPT ![asked + 1] = r]
    BY DEF Ask
  <1>3. r \in Row /\ r.stage = "limiter" /\ r.key = k /\ r.at = 0
    <2>1. New \in Row /\ New.at = 0
      BY PolicyAssumption, BoundAssumption DEF New, Row, Stage, Time
    <2>2. 1 \in 0..MaxAttempts /\ InitialDelay \in 0..(MaxDelay + InitialDelay)
      BY PolicyAssumption
    <2> QED
      BY <2>1, <2>2 DEF Row, Stage
  <1> HIDE DEF r
  <1>4. /\ thread' \in [Thread -> Row]
        /\ thread'[asked + 1] = r
        /\ \A m \in Thread : m # asked + 1 => thread'[m] = thread[m]
    BY <1>1, <1>2, <1>3, Fields
  <1>5. Waiting' /\ question' = [key |-> k, at |-> now]
    BY Fields DEF Ask, Waiting, Idle, Never
  <1>6. Typed'
    <2>1. question' \in [key : Key, at : Time]
      BY <1>5, Fields
    <2>2. UNCHANGED <<now, last, cache, snapshot, left, spaced, abandoned>>
      BY DEF Ask
    <2> QED
      BY <1>1, <1>4, <2>1, <2>2 DEF Typed, TypeOK, SnapshotOK, Row, Stage, Thread, Time
  <1>7. Threads'
    <2> SUFFICES ASSUME NEW m \in Thread
                 PROVE  /\ m > asked' => thread'[m].stage = "new"
                        /\ thread'[m].stage = "backoff" => thread'[m].attempt < MaxAttempts
                        /\ thread'[m].at <= now
      BY DEF Threads, Ask, Thread
    <2>1. CASE m = asked + 1
      BY <1>1, <1>3, <1>4, <2>1, Fields
    <2>2. CASE m # asked + 1
      BY <1>1, <1>4, <2>2, Fields DEF Threads
    <2> QED
      BY <2>1, <2>2
  <1>8. Current'
    BY <1>1, <1>3, <1>4, <1>5, Fields DEF Current, Ask, Thread
  <1>9. Alone' /\ Spaced'
    BY <1>1, <1>3, <1>4, <1>5 DEF Alone, Spaced, Ask, Thread
  <1>10. Known' /\ FreshIsFresh'
    BY <1>5, Fields DEF Known, FreshIsFresh, Ask
  <1> QED
    BY <1>6, <1>7, <1>8, <1>9, <1>10

\* A question that is over leaves the threads and the limiter alone.
LEMMA ReturnKeeps ==
  ASSUME IInv, question' = Idle, UNCHANGED <<now, asked, thread, last, left, spaced>>,
         cache' \in [Key -> {Nothing} \cup Datum], snapshot' \in [ok : BOOLEAN,
           fallback : BOOLEAN, timed_out : BOOLEAN, key : Key \cup {"none"}, since : Time,
           data : {Nothing} \cup Datum],
         \/ abandoned' = TRUE
         \/ abandoned' = abandoned /\ thread[asked].stage = "done"
  PROVE  Typed' /\ Threads' /\ Current' /\ Alone' /\ Spaced'
  <1> USE DEF IInv
  <1>1. Typed'
    BY DEF Typed, TypeOK, SnapshotOK, Datum, Thread, Time
  <1>2. Threads' /\ Current'
    BY DEF Threads, Current, Waiting, Thread
  <1>3. Alone' /\ Spaced'
    BY DEF Alone, Spaced, Waiting, Thread
  <1> QED
    BY <1>1, <1>2, <1>3

LEMMA ReceiveInv == ASSUME IInv, NEW n \in Thread, Receive(n) PROVE IInv'
  <1> USE DEF IInv
  <1> DEFINE data == [key |-> thread[n].key, at |-> thread[n].at]
  <1>1. n = asked /\ Waiting /\ thread[n].stage = "done"
    BY DEF Receive, Answered
  <1>2. /\ data.key = question.key /\ data.at >= question.at /\ data.at <= now
        /\ data \in Datum /\ data # Nothing
    <2>1. thread[n].key = question.key /\ question.key \in Key /\ thread[n].at \in Time
      BY <1>1, Fields DEF Current
    <2>2. thread[n].at >= question.at /\ thread[n].at <= now
      BY <1>1 DEF Current, Threads
    <2>3. data.at # Never
      BY <2>1 DEF Time, Never
    <2> QED
      BY <2>1, <2>2, <2>3 DEF Datum, Nothing
  <1>3. /\ cache' = [cache EXCEPT ![question.key] = data]
        /\ snapshot' = [ok |-> TRUE, fallback |-> FALSE, timed_out |-> FALSE,
                        key |-> question.key, since |-> question.at, data |-> data]
        /\ question' = Idle /\ UNCHANGED <<now, asked, thread, last, left, spaced, abandoned>>
    BY DEF Receive, SetCache, Return
  <1> HIDE DEF data
  <1>4. question.key \in Key /\ question.at \in Time
    BY <1>1, Fields
  <1>5. cache' \in [Key -> {Nothing} \cup Datum]
    BY <1>2, <1>3, <1>4 DEF Typed, TypeOK, Datum
  <1>6. Typed' /\ Threads' /\ Current' /\ Alone' /\ Spaced'
    BY <1>1, <1>2, <1>3, <1>4, <1>5, ReturnKeeps
  <1>7. Known'
    <2>1. /\ cache'[question.key] = data
          /\ \A k \in Key : k # question.key => cache'[k] = cache[k]
      BY <1>3, <1>4 DEF Typed, TypeOK
    <2> QED
      BY <1>2, <1>3, <1>4, <2>1 DEF Known, Waiting
  <1>8. FreshIsFresh'
    BY <1>2, <1>3 DEF FreshIsFresh
  <1> QED
    BY <1>6, <1>7, <1>8

\* What a fallback answers.
LEMMA FallBackFacts ==
  ASSUME IInv, Waiting, NEW timed_out \in BOOLEAN, FallBack(timed_out),
         \/ abandoned' = TRUE
         \/ abandoned' = abandoned /\ thread[asked].stage = "done"
  PROVE  IInv'
  <1> USE DEF IInv
  <1>1. /\ UNCHANGED <<cache, now, asked, thread, last, left, spaced>> /\ question' = Idle
        /\ \/ /\ cache[question.key] = Nothing
              /\ snapshot' = [ok |-> FALSE, fallback |-> FALSE, timed_out |-> timed_out,
                              key |-> question.key, since |-> question.at, data |-> Nothing]
           \/ /\ cache[question.key] # Nothing
              /\ snapshot' = [ok |-> TRUE, fallback |-> TRUE, timed_out |-> timed_out,
                              key |-> question.key, since |-> question.at,
                              data |-> cache[question.key]]
    BY DEF FallBack, Return
  <1>2. question.key \in Key /\ question.at \in Time /\ cache[question.key] \in {Nothing} \cup Datum
    BY Fields
  <1>3. cache' \in [Key -> {Nothing} \cup Datum]
    BY <1>1 DEF Typed, TypeOK, Datum
  <1>4. Typed' /\ Threads' /\ Current' /\ Alone' /\ Spaced'
    <2>1. snapshot' \in [ok : BOOLEAN, fallback : BOOLEAN, timed_out : BOOLEAN,
                         key : Key \cup {"none"}, since : Time, data : {Nothing} \cup Datum]
      <3>1. CASE cache[question.key] = Nothing
        <4>1. snapshot' = [ok |-> FALSE, fallback |-> FALSE, timed_out |-> timed_out,
                           key |-> question.key, since |-> question.at, data |-> Nothing]
          BY <1>1, <3>1
        <4> QED
          BY <1>2, <4>1
      <3>2. CASE cache[question.key] # Nothing
        <4>1. snapshot' = [ok |-> TRUE, fallback |-> TRUE, timed_out |-> timed_out,
                           key |-> question.key, since |-> question.at,
                           data |-> cache[question.key]]
          BY <1>1, <3>2
        <4> QED
          BY <1>2, <3>2, <4>1
      <3> QED
        BY <3>1, <3>2
    <2> QED
      BY <1>1, <1>3, <2>1, ReturnKeeps
  <1>5. Known' /\ FreshIsFresh'
    BY <1>1, <1>2 DEF Known, FreshIsFresh, Waiting
  <1> QED
    BY <1>4, <1>5

LEMMA TickInv == ASSUME IInv, Tick PROVE IInv'
  <1> USE DEF IInv
  <1>1. now' \in Time /\ now' = now + 1
    BY Fields, BoundAssumption DEF Tick, Time
  <1>2. Typed'
    BY <1>1 DEF Typed, TypeOK, SnapshotOK, Tick, Time, Thread
  <1>3. Threads' /\ Current' /\ Known'
    BY <1>1, Fields DEF Threads, Current, Known, Tick, Waiting, Thread
  <1>4. Alone' /\ Spaced' /\ FreshIsFresh'
    BY DEF Alone, Spaced, FreshIsFresh, Tick, Waiting, Thread
  <1> QED
    BY <1>2, <1>3, <1>4

LEMMA StepInv == IInv /\ [Next]_vars => IInv'
  <1> SUFFICES ASSUME IInv, [Next]_vars PROVE IInv'
    OBVIOUS
  <1>1. ASSUME NEW n \in Thread, ReceiveError(n) PROVE IInv'
    BY <1>1, FallBackFacts DEF ReceiveError, Answered
  <1>2. CASE TimeOut
    BY <1>2, FallBackFacts DEF TimeOut
  <1>3. CASE UNCHANGED vars
    BY <1>3 DEF vars, IInv, Typed, TypeOK, SnapshotOK, Threads, Current, Alone, Known,
                FreshIsFresh, Spaced, Waiting, Thread, Time
  <1> QED
    BY <1>1, <1>2, <1>3, AskInv, WaitInv, WakeUpInv, AnswerInv, FailInv, RetryInv,
       ReceiveInv, TickInv DEF Next

-----------------------------------------------------------------------------
\* The invariant holds in every state.
THEOREM Inductive == Spec => []IInv
  BY InitInv, StepInv, PTL DEF Spec

\* The late answer of an abandoned thread is never taken for the answer to a
\* later question: a snapshot that is not a fallback is about the key that was
\* asked, and younger than the question.
THEOREM FreshAnswers == Spec => []FreshIsFresh
  <1>1. IInv => FreshIsFresh
    BY DEF IInv
  <1> QED
    BY <1>1, Inductive, PTL

\* All variables keep their types, and as long as no question timed out every
\* request leaves at least the rate limit's interval after the one before.
THEOREM SpacedRequests == Spec => []RequestsAreSpaced
  <1>1. IInv => RequestsAreSpaced
    BY DEF IInv, Typed, Spaced, RequestsAreSpaced
  <1> QED
    BY <1>1, Inductive, PTL

\* One answer: it is ok when the cache knows the key, and no older than the
\* cache or the snapshot before.
LEMMA AnswerForward ==
  ASSUME IInv, [Next]_vars, NEW k \in Key, question.key = k, snapshot' # snapshot,
         cache[k] # Nothing
  PROVE  /\ snapshot'.ok
         /\ snapshot'.data.at >= cache[k].at
         /\ snapshot.key = k /\ snapshot.ok => snapshot'.data.at >= snapshot.data.at
  <1> USE DEF IInv
  <1>1. \/ \E n \in Thread : Receive(n)
        \/ \E n \in Thread : ReceiveError(n)
        \/ TimeOut
    BY DEF Next, vars, Ask, Wait, WakeUp, Answer, Fail, Retry, Tick
  <1>2. snapshot.key = k /\ snapshot.ok => snapshot.data.at = cache[k].at
    BY DEF Known
  <1>3. snapshot'.ok /\ snapshot'.data.at >= cache[k].at
    <2>1. ASSUME NEW n \in Thread, Receive(n)
          PROVE  snapshot'.ok /\ snapshot'.data.at >= cache[k].at
      <3>1. snapshot'.ok /\ snapshot'.data.at = thread[n].at
        BY <2>1 DEF Receive, Return
      <3>2. thread[n].at >= question.at /\ cache[k].at <= question.at /\ Waiting
        BY <2>1 DEF Receive, Answered, Current, Known
      <3> QED
        BY <3>1, <3>2, Fields
    <2>2. ASSUME NEW n \in Thread, ReceiveError(n)
          PROVE  snapshot'.ok /\ snapshot'.data.at >= cache[k].at
      BY <2>2, Fields DEF ReceiveError, FallBack, Return
    <2>3. CASE TimeOut
      BY <2>3, Fields DEF TimeOut, FallBack, Return
    <2> QED
      BY <1>1, <2>1, <2>2, <2>3
  <1> QED
    BY <1>2, <1>3

\* No answer goes back behind data that was shown before, whatever the threads
\* of earlier questions do.
THEOREM AnswersOnlyAdvance == Spec => AnswersNeverGoBack
  <1>1. IInv /\ [Next]_vars =>
          [\A k \in Key : question.key = k /\ snapshot' # snapshot /\ cache[k] # Nothing =>
             /\ snapshot'.ok
             /\ snapshot'.data.at >= cache[k].at
             /\ snapshot.key = k /\ snapshot.ok => snapshot'.data.at >= snapshot.data.at]_vars
    BY AnswerForward
  <1> QED
    BY <1>1, Inductive, PTL DEF Spec, AnswersNeverGoBack


-----------------------------------------------------------------------------
(***************************************************************************)
(* The replay of strategies                                                *)
(***************************************************************************)
(* Every set of naturals has a least one, and a bounded one a greatest.    *)
LEMMA LeastNatural ==
  ASSUME NEW T, T \subseteq Nat, T # {}
  PROVE  \E n \in T : \A m \in T : n <= m
<1> DEFINE R == OpToRel(<, Nat)
<1>1. IsWellFoundedOn(R, Nat)
  BY NatLessThanWellFounded
<1>2. \A m, n \in Nat : <<m, n>> \in R <=> m < n
  BY DEF OpToRel
<1> HIDE DEF R
<1>3. PICK n \in T : \A m \in T : ~ (<<m, n>> \in R)
  BY <1>1, WFMin
<1>4. ASSUME NEW m \in T PROVE n <= m
  <2>1. m \in Nat /\ n \in Nat /\ ~ (<<m, n>> \in R)
    BY <1>3
  <2>2. ~ (m < n)
    BY <1>2, <2>1
  <2> QED BY <2>1, <2>2
<1> QED BY <1>4

-----------------------------------------------------------------------------
(***************************************************************************)
(* One bar                                                                 *)
(***************************************************************************)
Seen(s) == s.age + 1 >= Warm

LEMMA WarmTyped == ASSUME setup \in Setups PROVE Warm \in Nat \ {0} /\ (setup.kind # "grid" => Warm = Period)
  BY NumberAssumption DEF Warm

LEMMA SetupFields ==
  ASSUME setup \in Setups
  PROVE  /\ setup.kind \in {"sma", "bollinger", "grid"} /\ setup.lookback \in Nat \ {0}
         /\ setup.warmup \in BOOLEAN /\ MaxBars[setup.kind] \in Nat
  BY SetupAssumption, NumberAssumption DEF Setup, Kind

LEMMA StrategyFields ==
  ASSUME NEW s \in Strategy
  PROVE  /\ s.held \in BOOLEAN /\ s.order \in Order /\ s.below \in BOOLEAN /\ s.above \in BOOLEAN
         /\ s.age \in Nat
         /\ s = [held |-> s.held, order |-> s.order, below |-> s.below, above |-> s.above,
                 age |-> s.age]
  BY DEF Strategy

LEMMA FreshTyped == Fresh \in Strategy
  BY DEF Fresh, Strategy, Order

(* What SMA, Bollinger and Grid make of a strategy whose order has filled. *)
LEMMA SmaIs ==
  ASSUME NEW s \in Strategy, NEW bar
  PROVE  LET t == SMA(s, bar) IN
         /\ t \in Strategy /\ t.age = s.age /\ t.held = s.held /\ t.below = s.below
         /\ t.order \in {"none", "buy", "close"}
         /\ t.order = "buy" => bar.cross = "golden"
         /\ t.order = "close" => s.held
         /\ t.order = "buy" => ~s.held
<1>1. PICK h \in BOOLEAN, o \in Order, b \in BOOLEAN, a \in BOOLEAN, g \in Nat :
        s = [held |-> h, order |-> o, below |-> b, above |-> a, age |-> g]
  BY StrategyFields
<1>2. PICK x : x = IF ~h /\ bar.cross = "golden" THEN "buy"
                   ELSE IF h /\ bar.cross = "dead" THEN "close" ELSE "none"
  OBVIOUS
<1>3. SMA(s, bar) = [held |-> h, order |-> x, below |-> b, above |-> a, age |-> g]
  BY <1>1, <1>2 DEF SMA
<1>4. x \in Order /\ x \in {"none", "buy", "close"}
      /\ (x = "buy" => bar.cross = "golden") /\ (x = "close" => h) /\ (x = "buy" => ~h)
  BY <1>2 DEF Order
<1>5. [held |-> h, order |-> x, below |-> b, above |-> a, age |-> g] \in Strategy
  BY <1>4 DEF Strategy
<1> QED BY <1>1, <1>3, <1>4, <1>5

LEMMA GridIs ==
  ASSUME NEW s \in Strategy, NEW bar
  PROVE  LET t == Grid(s, bar) IN
         /\ t \in Strategy /\ t.age = s.age /\ t.held = s.held /\ t.below = s.below
         /\ t.order \in {"none", "grid"}
<1>1. PICK h \in BOOLEAN, o \in Order, b \in BOOLEAN, a \in BOOLEAN, g \in Nat :
        s = [held |-> h, order |-> o, below |-> b, above |-> a, age |-> g]
  BY StrategyFields
<1>2. PICK x : x = IF g = 1 THEN "grid" ELSE "none"
  OBVIOUS
<1>3. Grid(s, bar) = [held |-> h, order |-> x, below |-> b, above |-> a, age |-> g]
  BY <1>1, <1>2 DEF Grid
<1>4. x \in Order /\ x \in {"none", "grid"}
  BY <1>2 DEF Order
<1>5. [held |-> h, order |-> x, below |-> b, above |-> a, age |-> g] \in Strategy
  BY <1>4 DEF Strategy
<1> QED BY <1>1, <1>3, <1>4, <1>5

LEMMA BollingerIs ==
  ASSUME NEW s \in Strategy, s.order = "none", NEW bar
  PROVE  LET t == Bollinger(s, bar) IN
         /\ t \in Strategy /\ t.age = s.age /\ t.held = s.held
         /\ t.order \in {"none", "buy", "close", "exit"}
         /\ t.order = "buy" => s.below /\ ~t.below /\ ~s.held
         /\ t.order # "buy" => t.below = (s.below \/ bar.place = "under")
         /\ t.order \in {"close", "exit"} => s.held
         /\ s.held /\ bar.place = "over" => t.order = "close"
<1>1. PICK h \in BOOLEAN, o \in Order, b \in BOOLEAN, a \in BOOLEAN, g \in Nat :
        s = [held |-> h, order |-> o, below |-> b, above |-> a, age |-> g]
  BY StrategyFields
<1>2. PICK x \in BOOLEAN, y \in BOOLEAN : x = (s.below \/ bar.place = "under") /\ y = (s.above \/ bar.place = "over")
  OBVIOUS
<1>3. x \in BOOLEAN /\ y \in BOOLEAN
  OBVIOUS
<1>4. s.held = h /\ s.below = b /\ s.above = a /\ s.age = g
  BY <1>1
<1>5. PICK v : v = [held |-> h, order |-> "none", below |-> x, above |-> y, age |-> g]
  OBVIOUS
<1>6. v = [s EXCEPT !.below = @ \/ bar.place = "under", !.above = @ \/ bar.place = "over"]
  <2>1. v = [s EXCEPT !.below = x, !.above = y]
    <3>1. PICK u : u = [s EXCEPT !.below = x]
      OBVIOUS
    <3>2. u = [held |-> h, order |-> "none", below |-> x, above |-> a, age |-> g]
      BY <1>1, <3>1
    <3>3. [u EXCEPT !.above = y] = v
      BY <1>5, <3>2
    <3>4. [s EXCEPT !.below = x, !.above = y] = [u EXCEPT !.above = y]
      BY <3>1
    <3> QED BY <3>3, <3>4
  <2> QED BY <1>2, <2>1, Zenon
<1>7. Bollinger(s, bar) =
        CASE ~v.held /\ (v.below /\ bar.place # "under" /\ bar.move = "rise") -> Entered(v)
          [] v.held /\ (v.above /\ bar.place # "over" /\ bar.move = "fall") ->
               [v EXCEPT !.order = "exit", !.above = FALSE]
          [] v.held /\ ~(v.above /\ bar.place # "over" /\ bar.move = "fall")
               /\ bar.place \in {"upper", "over"} -> [v EXCEPT !.order = "close"]
          [] OTHER -> v
  BY <1>6, Zenon DEF Bollinger
<1>8. PICK t : t = Bollinger(s, bar)
  OBVIOUS
<1>9. \/ t = [held |-> h, order |-> "buy", below |-> FALSE, above |-> y, age |-> g]
         /\ x /\ bar.place # "under" /\ ~h
      \/ t = [held |-> h, order |-> "exit", below |-> x, above |-> FALSE, age |-> g] /\ h
         /\ bar.place # "over"
      \/ t = [held |-> h, order |-> "close", below |-> x, above |-> y, age |-> g] /\ h
      \/ t = [held |-> h, order |-> "none", below |-> x, above |-> y, age |-> g]
         /\ ~ (h /\ bar.place = "over")
  <2>1. v.held = h /\ v.below = x /\ v.above = y
    BY <1>5
  <2>2. CASE ~h /\ x /\ bar.place # "under" /\ bar.move = "rise"
    <3>1. t = Entered(v)
      BY <1>7, <1>8, <2>1, <2>2
    <3> QED BY <1>5, <2>2, <3>1 DEF Entered
  <2>3. CASE h /\ y /\ bar.place # "over" /\ bar.move = "fall"
    <3>1. t = [v EXCEPT !.order = "exit", !.above = FALSE]
      BY <1>7, <1>8, <2>1, <2>3
    <3> QED BY <1>5, <2>3, <3>1
  <2>4. CASE h /\ ~(y /\ bar.place # "over" /\ bar.move = "fall") /\ bar.place \in {"upper", "over"}
    <3>1. t = [v EXCEPT !.order = "close"]
      BY <1>7, <1>8, <2>1, <2>4
    <3> QED BY <1>5, <2>4, <3>1
  <2>5. CASE /\ ~ (~h /\ x /\ bar.place # "under" /\ bar.move = "rise")
             /\ ~ (h /\ y /\ bar.place # "over" /\ bar.move = "fall")
             /\ ~ (h /\ ~(y /\ bar.place # "over" /\ bar.move = "fall") /\ bar.place \in {"upper", "over"})
    <3>1. t = v
      BY <1>7, <1>8, <2>1, <2>5
    <3>2. ~ (h /\ bar.place = "over")
      BY <2>5
    <3> QED BY <1>5, <3>1, <3>2
  <2> QED BY <2>2, <2>3, <2>4, <2>5
<1>10. x <=> b \/ bar.place = "under"
  BY <1>2, <1>4
<1>11. CASE t = [held |-> h, order |-> "buy", below |-> FALSE, above |-> y, age |-> g]
            /\ x /\ bar.place # "under" /\ ~h
  BY <1>3, <1>4, <1>8, <1>10, <1>11 DEF Strategy, Order
<1>12. CASE t = [held |-> h, order |-> "exit", below |-> x, above |-> FALSE, age |-> g] /\ h
            /\ bar.place # "over"
  BY <1>2, <1>3, <1>4, <1>8, <1>12 DEF Strategy, Order
<1>13. CASE t = [held |-> h, order |-> "close", below |-> x, above |-> y, age |-> g] /\ h
  BY <1>2, <1>3, <1>4, <1>8, <1>13 DEF Strategy, Order
<1>14. CASE t = [held |-> h, order |-> "none", below |-> x, above |-> y, age |-> g]
            /\ ~ (h /\ bar.place = "over")
  BY <1>2, <1>3, <1>4, <1>8, <1>14 DEF Strategy, Order
<1> QED BY <1>9, <1>11, <1>12, <1>13, <1>14

(* The open order fills.                                                   *)
LEMMA FilledIs ==
  ASSUME NEW s \in Strategy
  PROVE  LET f == Filled(s) IN
         /\ f \in Strategy /\ f.held = HeldAfter(s) /\ f.order = "none" /\ f.below = s.below
         /\ f.age = s.age + 1
<1>1. PICK h \in BOOLEAN, o \in Order, b \in BOOLEAN, a \in BOOLEAN, g \in Nat :
        s = [held |-> h, order |-> o, below |-> b, above |-> a, age |-> g]
  BY StrategyFields
<1>2. PICK k \in BOOLEAN : k = HeldAfter(s)
  BY StrategyFields DEF HeldAfter
<1>3. PICK u : u = [s EXCEPT !.held = k]
  OBVIOUS
<1>4. PICK v : v = [u EXCEPT !.order = "none"]
  OBVIOUS
<1>5. PICK w : w = [v EXCEPT !.age = s.age + 1]
  OBVIOUS
<1>6. Filled(s) = w
  <2>1. Filled(s) = [s EXCEPT !.held = k, !.order = "none", !.age = s.age + 1]
    <3>1. [s EXCEPT !.held = HeldAfter(s), !.order = "none", !.age = @ + 1]
            = [s EXCEPT !.held = k, !.order = "none", !.age = s.age + 1]
      BY <1>2, Zenon
    <3> QED BY <3>1 DEF Filled
  <2> QED BY <1>3, <1>4, <1>5, <2>1
<1>7. u = [held |-> k, order |-> o, below |-> b, above |-> a, age |-> g] /\ s.age = g
  BY <1>1, <1>3
<1>8. v = [held |-> k, order |-> "none", below |-> b, above |-> a, age |-> g]
  BY <1>4, <1>7
<1>9. w = [held |-> k, order |-> "none", below |-> b, above |-> a, age |-> g + 1]
  BY <1>5, <1>7, <1>8
<1>10. w \in Strategy
  <2>1. g + 1 \in Nat /\ "none" \in Order
    BY DEF Order
  <2> QED BY <1>9, <2>1 DEF Strategy
<1>11. w.held = k /\ w.order = "none" /\ w.below = b /\ w.age = g + 1 /\ s.below = b
  BY <1>1, <1>9
<1> QED BY <1>2, <1>6, <1>7, <1>10, <1>11

(* There was no cash for it.                                               *)
LEMMA RefusedIs ==
  ASSUME NEW s \in Strategy
  PROVE  Refused(s) \in Strategy /\ Refused(s).order = "none"
<1>1. PICK h \in BOOLEAN, o \in Order, b \in BOOLEAN, a \in BOOLEAN, g \in Nat :
        s = [held |-> h, order |-> o, below |-> b, above |-> a, age |-> g]
  BY StrategyFields
<1>2. Refused(s) = [held |-> h, order |-> "none", below |-> b, above |-> a, age |-> g + 1]
  <2>1. PICK u : u = [s EXCEPT !.order = "none"]
    OBVIOUS
  <2>2. u = [held |-> h, order |-> "none", below |-> b, above |-> a, age |-> g] /\ s.age = g
    BY <1>1, <2>1
  <2>3. Refused(s) = [u EXCEPT !.age = s.age + 1]
    BY <2>1 DEF Refused
  <2> QED BY <2>2, <2>3
<1>3. g + 1 \in Nat /\ "none" \in Order
  BY DEF Order
<1> QED BY <1>2, <1>3 DEF Strategy

LEMMA SeeingIs ==
  ASSUME setup \in Setups, NEW s \in Strategy, s.order = "none", NEW bar
  PROVE  Seeing(s, bar) \in Strategy
<1>1. SMA(s, bar) \in Strategy /\ Bollinger(s, bar) \in Strategy /\ Grid(s, bar) \in Strategy
  BY SmaIs, BollingerIs, GridIs
<1>2. Decide(s, bar) \in Strategy
  BY <1>1, SetupFields DEF Decide
<1> QED BY <1>2 DEF Seeing

LEMMA StepIs ==
  ASSUME setup \in Setups, NEW s \in Strategy, NEW bar
  PROVE  LET t == Step(s, bar) IN
         /\ t \in Strategy /\ t.age = s.age + 1 /\ t.held = HeldAfter(s)
         /\ ~Seen(s) => t.order = "none" /\ t.below = s.below
         /\ t.order = "buy" => ~HeldAfter(s)
         /\ t.order \in {"close", "exit"} => HeldAfter(s) /\ setup.kind # "grid"
         /\ setup.kind = "sma" => t.order # "buy" \/ bar.cross = "golden"
         /\ setup.kind = "bollinger" =>
              /\ t.order = "buy" => s.below /\ ~t.below
              /\ t.below => s.below \/ (bar.place = "under" /\ Seen(s))
              /\ HeldAfter(s) /\ bar.place = "over" /\ Seen(s) => t.order = "close"
         /\ setup.kind = "grid" => t.order \in {"none", "grid"}
         /\ setup.kind # "grid" => t.order \in {"none", "buy", "close", "exit"}
<1>1. PICK f \in Strategy :
        /\ f = Filled(s) /\ f.held = HeldAfter(s) /\ f.order = "none"
        /\ f.below = s.below /\ f.age = s.age + 1
  BY FilledIs
<1>2. Step(s, bar) = IF f.age < Warm THEN f ELSE Decide(f, bar)
  BY <1>1 DEF Step, Seeing
<1>3. s.age \in Nat /\ Warm \in Nat /\ (f.age < Warm <=> ~Seen(s))
  BY <1>1, StrategyFields, WarmTyped DEF Seen
<1>4. CASE ~Seen(s)
  BY <1>1, <1>2, <1>3, <1>4
<1>5. CASE Seen(s) /\ setup.kind = "sma"
  <2>1. Step(s, bar) = SMA(f, bar)
    BY <1>2, <1>3, <1>5 DEF Decide
  <2>2. PICK t : t = SMA(f, bar)
    OBVIOUS
  <2>3. /\ t \in Strategy /\ t.age = f.age /\ t.held = f.held /\ t.below = f.below
        /\ t.order \in {"none", "buy", "close"}
        /\ t.order = "buy" => bar.cross = "golden"
        /\ t.order = "close" => f.held
        /\ t.order = "buy" => ~f.held
    BY <1>1, <2>2, SmaIs
  <2>4. t.order = "buy" => ~HeldAfter(s)
    BY <1>1, <2>3, Zenon
  <2>5. t.order \in {"close", "exit"} => HeldAfter(s)
    BY <1>1, <2>3
  <2>6. t.age = s.age + 1 /\ t.held = HeldAfter(s)
    BY <1>1, <2>3
  <2>7. setup.kind = "sma" /\ t = Step(s, bar) /\ Seen(s)
    BY <1>5, <2>1, <2>2
  <2> HIDE DEF Seen
  <2> QED BY <2>3, <2>4, <2>5, <2>6, <2>7
<1>6. CASE Seen(s) /\ setup.kind = "bollinger"
  <2>1. Step(s, bar) = Bollinger(f, bar)
    BY <1>2, <1>3, <1>6 DEF Decide
  <2>2. PICK t : t = Bollinger(f, bar)
    OBVIOUS
  <2>3. /\ t \in Strategy /\ t.age = f.age /\ t.held = f.held
        /\ t.order \in {"none", "buy", "close", "exit"}
        /\ t.order \in {"close", "exit"} => f.held
        /\ t.order = "buy" => f.below /\ ~t.below /\ ~f.held
        /\ t.order # "buy" => t.below = (f.below \/ bar.place = "under")
        /\ f.held /\ bar.place = "over" => t.order = "close"
    BY <1>1, <2>2, BollingerIs
  <2>4. t.below => f.below \/ bar.place = "under"
    BY <2>3, Zenon
  <2>5. t.age = s.age + 1 /\ t.held = HeldAfter(s)
    BY <1>1, <2>3
  <2>6. t.order = "buy" => s.below /\ ~t.below /\ ~HeldAfter(s)
    BY <1>1, <2>3, Zenon
  <2>7. t.below => s.below \/ (bar.place = "under" /\ Seen(s))
    BY <1>1, <1>6, <2>4, Zenon
  <2>10. HeldAfter(s) /\ bar.place = "over" => t.order = "close"
    BY <1>1, <2>3, Zenon
  <2>8. t.order \in {"close", "exit"} => HeldAfter(s)
    BY <1>1, <2>3, Zenon
  <2>9. setup.kind = "bollinger" /\ t = Step(s, bar) /\ Seen(s)
    BY <1>6, <2>1, <2>2
  <2> HIDE DEF Seen
  <2> QED BY <2>3, <2>5, <2>6, <2>7, <2>8, <2>9, <2>10
<1>7. CASE Seen(s) /\ setup.kind = "grid"
  <2>1. Step(s, bar) = Grid(f, bar)
    BY <1>2, <1>3, <1>7 DEF Decide
  <2> QED BY <1>1, <1>7, <2>1, GridIs
<1> QED BY <1>4, <1>5, <1>6, <1>7, SetupFields

-----------------------------------------------------------------------------
(***************************************************************************)
(* All bars                                                                *)
(***************************************************************************)
IsRun(g, h, m) ==
  g = [n \in 0..m |-> IF n = 0 THEN Fresh ELSE Step(g[n - 1], h[n])]

LEMMA RunValue ==
  ASSUME NEW g, NEW h, NEW m \in Nat, IsRun(g, h, m), NEW n \in 0..m
  PROVE  g[n] = IF n = 0 THEN Fresh ELSE Step(g[n - 1], h[n])
<1>1. g = [k \in 0..m |-> IF k = 0 THEN Fresh ELSE Step(g[k - 1], h[k])]
  BY DEF IsRun
<1> QED BY <1>1

(* What happened depends on the bars that were seen.                       *)
LEMMA RunIsUnique ==
  ASSUME NEW g, NEW h, NEW m \in Nat, IsRun(g, h, m),
         NEW f, NEW j, NEW k \in Nat, IsRun(f, j, k),
         NEW n \in Nat, n <= m, n <= k, \A i \in 1..n : h[i] = j[i]
  PROVE  g[n] = f[n]
<1> DEFINE T == {i \in 0..n : g[i] # f[i]}
<1>1. SUFFICES ASSUME T # {} PROVE FALSE
  OBVIOUS
<1>2. PICK i \in T : \A l \in T : i <= l
  <2>1. T \subseteq Nat
    OBVIOUS
  <2> HIDE DEF T
  <2> QED BY <1>1, <2>1, LeastNatural
<1>3. i \in 0..m /\ i \in 0..k
  OBVIOUS
<1>4. i # 0
  BY <1>3, RunValue
<1>5. g[i - 1] = f[i - 1]
  BY <1>2, <1>4
<1>6. h[i] = j[i]
  BY <1>4
<1>7. g[i] = Step(g[i - 1], h[i]) /\ f[i] = Step(f[i - 1], j[i])
  BY <1>3, <1>4, RunValue
<1> QED BY <1>5, <1>6, <1>7

LEMMA RunExists == ASSUME NEW h, NEW m \in Nat PROVE \E g : IsRun(g, h, m)
<1> DEFINE T == {k \in 0..m : ~ \E g : IsRun(g, h, k)}
<1>1. SUFFICES ASSUME T # {} PROVE FALSE
  OBVIOUS
<1>2. PICK k \in T : \A l \in T : k <= l
  <2>1. T \subseteq Nat
    OBVIOUS
  <2> HIDE DEF T
  <2> QED BY <1>1, <2>1, LeastNatural
<1>3. CASE k = 0
  <2> DEFINE f == [n \in 0..0 |-> Fresh]
  <2>1. f = [n \in 0..0 |-> IF n = 0 THEN Fresh ELSE Step(f[n - 1], h[n])]
    OBVIOUS
  <2> HIDE DEF f
  <2>2. IsRun(f, h, 0)
    BY <2>1 DEF IsRun
  <2> QED BY <1>3, <2>2
<1>4. CASE k # 0
  <2>1. k - 1 \in 0..m /\ k - 1 \notin T /\ k - 1 \in Nat
    BY <1>2, <1>4
  <2>2. PICK g : IsRun(g, h, k - 1)
    BY <2>1
  <2> DEFINE f == [n \in 0..k |-> IF n = k THEN Step(g[k - 1], h[k]) ELSE g[n]]
  <2>3. \A n \in 0..k : f[n] = IF n = 0 THEN Fresh ELSE Step(f[n - 1], h[n])
    <3>1. ASSUME NEW n \in 0..k, n = k PROVE f[n] = Step(f[n - 1], h[n])
      BY <1>4, <3>1
    <3>2. ASSUME NEW n \in 0..k, n # k
          PROVE  f[n] = IF n = 0 THEN Fresh ELSE Step(f[n - 1], h[n])
      <4>1. n \in 0..(k - 1)
        BY <3>2
      <4>2. g[n] = IF n = 0 THEN Fresh ELSE Step(g[n - 1], h[n])
        BY <2>1, <2>2, <4>1, RunValue
      <4>3. f[n] = g[n] /\ (n # 0 => f[n - 1] = g[n - 1])
        BY <3>2, <4>1
      <4> QED BY <4>2, <4>3
    <3> QED BY <1>4, <3>1, <3>2
  <2>4. f = [n \in 0..k |-> f[n]]
    OBVIOUS
  <2> HIDE DEF f
  <2>5. IsRun(f, h, k)
    BY <2>3, <2>4 DEF IsRun
  <2> QED BY <2>5
<1> QED BY <1>3, <1>4

LEMMA ReplayIsRun ==
  ASSUME NEW h, Len(h) \in Nat
  PROVE  \E g : IsRun(g, h, Len(h)) /\ Replay(h) = g[Len(h)]
<1>1. Replay(h) = (CHOOSE g : IsRun(g, h, Len(h)))[Len(h)]
  BY DEF Replay, IsRun
<1>2. \E g : IsRun(g, h, Len(h))
  BY RunExists
<1> QED BY <1>1, <1>2

LEMMA ReplayOfNone == Replay(<<>>) = Fresh
<1>1. Len(<<>>) = 0
  OBVIOUS
<1>2. PICK g : IsRun(g, <<>>, 0) /\ Replay(<<>>) = g[0]
  BY <1>1, ReplayIsRun
<1> QED BY <1>2, RunValue

(* One more bar is one more step.                                          *)
LEMMA ReplayGrows ==
  ASSUME NEW S, NEW h \in Seq(S), NEW bar \in S
  PROVE  Replay(Append(h, bar)) = Step(Replay(h), bar)
<1>1. PICK m \in Nat : m = Len(h)
  OBVIOUS
<1>2. PICK j : j = Append(h, bar) /\ Len(j) = m + 1 /\ j[m + 1] = bar /\ \A i \in 1..m : h[i] = j[i]
  <2>1. Len(Append(h, bar)) = m + 1
    BY <1>1, AppendProperties
  <2>2. Append(h, bar)[m + 1] = bar
    BY <1>1, AppendProperties
  <2>3. \A i \in 1..m : Append(h, bar)[i] = h[i]
    BY <1>1, AppendProperties
  <2> QED BY <2>1, <2>2, <2>3
<1>3. PICK g : IsRun(g, h, m) /\ Replay(h) = g[m]
  BY <1>1, ReplayIsRun
<1>4. PICK f : IsRun(f, j, m + 1) /\ Replay(j) = f[m + 1]
  <2>1. Len(j) \in Nat /\ Len(j) = m + 1
    BY <1>2
  <2>2. \E f : IsRun(f, j, Len(j)) /\ Replay(j) = f[Len(j)]
    BY <2>1, ReplayIsRun
  <2> QED BY <2>1, <2>2
<1>5. g[m] = f[m]
  <2>1. m + 1 \in Nat /\ m <= m /\ m <= m + 1
    OBVIOUS
  <2>2. \A i \in 1..m : h[i] = j[i]
    BY <1>2
  <2> QED BY <1>3, <1>4, <2>1, <2>2, RunIsUnique
<1>6. f[m + 1] = Step(f[m], j[m + 1])
  BY <1>4, RunValue
<1> QED BY <1>2, <1>3, <1>4, <1>5, <1>6

-----------------------------------------------------------------------------
(* The strategy is the one that was chosen.                                *)
LEMMA StepStays == ASSUME setup' = setup PROVE \A s, bar : Step(s, bar)' = Step(s, bar)
<1>1. Warm' = Warm
  BY DEF Warm
<1>2. \A s, bar : Decide(s, bar)' = Decide(s, bar)
  BY DEF Decide, SMA, Bollinger, Grid, Entered
<1> QED BY <1>1, <1>2 DEF Step, Seeing, Filled, HeldAfter

LEMMA BarStays == ASSUME setup' = setup PROVE Bar' = Bar
  BY DEF Bar

LEMMA RunShows ==
  ASSUME setup \in Setups, NEW g, NEW h, NEW m \in Nat, IsRun(g, h, m), NEW n \in 0..m
  PROVE  /\ g[n] \in Strategy /\ g[n].age = n
         /\ /\ setup.kind # "grid"
            /\ HeldAfter(g[n]) \/ g[n].order # "none" \/ (setup.kind = "bollinger" /\ g[n].below)
            => \E i \in Period..n : IsCause(h[i])
<1> DEFINE Shown(k) == \E i \in Period..k : IsCause(h[i])
           Meant(s) == HeldAfter(s) \/ s.order # "none" \/ (setup.kind = "bollinger" /\ s.below)
           Good(k) == g[k] \in Strategy /\ g[k].age = k /\ (setup.kind # "grid" /\ Meant(g[k]) => Shown(k))
           T == {k \in 0..m : ~Good(k)}
<1>1. SUFFICES ASSUME T # {} PROVE FALSE
  OBVIOUS
<1>2. PICK k \in T : \A l \in T : k <= l
  <2>1. T \subseteq Nat
    OBVIOUS
  <2> HIDE DEF T
  <2> QED BY <1>1, <2>1, LeastNatural
<1>3. k \in 0..m /\ ~Good(k)
  BY <1>2
<1>4. Good(0)
  <2>1. g[0] = Fresh
    <3>1. 0 \in 0..m
      OBVIOUS
    <3>2. g[0] = IF 0 = 0 THEN Fresh ELSE Step(g[0 - 1], h[0])
      BY <3>1, RunValue
    <3> QED BY <3>2
  <2>2. Fresh \in Strategy /\ Fresh.age = 0 /\ ~HeldAfter(Fresh) /\ Fresh.order = "none" /\ ~Fresh.below
    BY FreshTyped DEF Fresh, HeldAfter
  <2>3. ~Meant(Fresh)
    BY <2>2
  <2> QED BY <2>1, <2>2, <2>3
<1>5. k # 0
  BY <1>3, <1>4
<1>6. Good(k - 1) /\ k - 1 \in Nat
  BY <1>2, <1>5
<1> HIDE DEF T
<1>7. PICK s, t : s = g[k - 1] /\ t = g[k] /\ t = Step(s, h[k])
  BY <1>3, <1>5, RunValue
<1>8. s \in Strategy /\ s.age = k - 1 /\ (setup.kind # "grid" /\ Meant(s) => Shown(k - 1))
  BY <1>6, <1>7
<1>9. /\ t \in Strategy /\ t.age = s.age + 1 /\ t.held = HeldAfter(s)
      /\ ~Seen(s) => t.order = "none" /\ t.below = s.below
      /\ t.order \in {"close", "exit"} => HeldAfter(s)
      /\ setup.kind = "sma" => t.order # "buy" \/ h[k].cross = "golden"
      /\ setup.kind = "bollinger" =>
           /\ t.order = "buy" => s.below
           /\ t.below => s.below \/ (h[k].place = "under" /\ Seen(s))
      /\ setup.kind # "grid" => t.order \in {"none", "buy", "close", "exit"}
  <2>1. PICK bar : bar = h[k]
    OBVIOUS
  <2>2. /\ t \in Strategy /\ t.age = s.age + 1 /\ t.held = HeldAfter(s)
        /\ ~Seen(s) => t.order = "none" /\ t.below = s.below
        /\ t.order \in {"close", "exit"} => HeldAfter(s) /\ setup.kind # "grid"
        /\ setup.kind = "sma" => t.order # "buy" \/ bar.cross = "golden"
        /\ setup.kind = "bollinger" =>
             /\ t.order = "buy" => s.below /\ ~t.below
             /\ t.below => s.below \/ (bar.place = "under" /\ Seen(s))
             /\ HeldAfter(s) /\ bar.place = "over" /\ Seen(s) => t.order = "close"
        /\ setup.kind # "grid" => t.order \in {"none", "buy", "close", "exit"}
    <3>1. t = Step(s, bar) /\ s \in Strategy
      BY <1>7, <1>8, <2>1
    <3> QED BY <3>1, StepIs
  <2> HIDE DEF Seen
  <2> QED BY <2>1, <2>2
<1>10. t.age = k
  BY <1>3, <1>8, <1>9
<1>11. ASSUME setup.kind # "grid", Meant(t) PROVE Shown(k)
  <2>1. Meant(s) \/ (Seen(s) /\ IsCause(h[k]))
    BY <1>9, <1>11, SetupFields DEF HeldAfter, IsCause
  <2>2. CASE Meant(s)
    <3>1. PICK i \in Period..(k - 1) : IsCause(h[i])
      BY <1>8, <1>11, <2>2
    <3>2. i \in Period..k
      BY <1>3, <1>6, NumberAssumption
    <3> QED BY <3>1, <3>2
  <2>3. CASE Seen(s) /\ IsCause(h[k])
    <3>1. k \in Period..k
      BY <1>3, <1>8, <1>11, <2>3, WarmTyped, NumberAssumption DEF Seen
    <3> QED BY <2>3, <3>1
  <2> QED BY <2>1, <2>2, <2>3
<1> QED BY <1>3, <1>7, <1>9, <1>10, <1>11

(* So every replay is the same replay after the step.                      *)
ReplaysAreRuns ==
  \A h : Len(h) \in Nat => \E g : IsRun(g, h, Len(h)) /\ Replay(h) = g[Len(h)]

LEMMA EveryReplayIsARun == ReplaysAreRuns
  BY ReplayIsRun DEF ReplaysAreRuns

LEMMA ReplayStays ==
  ASSUME setup' = setup
  PROVE  \A h : Len(h) \in Nat => Replay(h)' = Replay(h)
<1>1. ReplaysAreRuns
  BY EveryReplayIsARun
<1>2. ReplaysAreRuns'
  BY EveryReplayIsARun, PTL
<1>3. ASSUME NEW h, Len(h) \in Nat PROVE Replay(h)' = Replay(h)
  <2>1. PICK g : IsRun(g, h, Len(h)) /\ Replay(h) = g[Len(h)]
    BY <1>1, <1>3 DEF ReplaysAreRuns
  <2>2. PICK f : IsRun(f, h, Len(h))' /\ Replay(h)' = f[Len(h)]
    BY <1>2, <1>3 DEF ReplaysAreRuns
  <2>3. IsRun(f, h, Len(h))
    BY <2>2, StepStays DEF IsRun
  <2>4. g[Len(h)] = f[Len(h)]
    BY <1>3, <2>1, <2>3, RunIsUnique
  <2> QED BY <2>1, <2>2, <2>4
<1> QED BY <1>3

-----------------------------------------------------------------------------
(***************************************************************************)
(* The adapter                                                             *)
(***************************************************************************)
(* The account and what the strategy believes.                             *)
Follows(h) ==
  /\ h => real <= 1 + unsold
  /\ ~h => real <= unsold
  /\ h /\ bought => real >= 1

(* What is known of the strategy that saw every bar and had its orders     *)
(* filled: one that waits for the rebound has seen a dip that no buy has   *)
(* used, and one that holds a position has seen no peak since it bought.   *)
Ideal(s) ==
  /\ setup.kind = "bollinger" /\ s.below => dipped
  /\ setup.kind = "bollinger" /\ HeldAfter(s) => ~peaked
  /\ setup.kind # "grid" => Follows(HeldAfter(s))

(* The strategy of the backtest is the replay of all bars, while it had    *)
(* the cash; the window has them all while they fit.                       *)
ReplayInv ==
  /\ ReplayTypeOK
  /\ ~short => backtest = Replay(bars)
  /\ AllInWindow => window = bars /\ Ideal(Replay(bars))

LEMMA ReplayInvInit == ReplayInit => ReplayInv
<1> SUFFICES ASSUME ReplayInit PROVE ReplayInv
  OBVIOUS
<1>1. ReplayTypeOK
  <2>1. bars \in Seq(Bar) /\ window \in Seq(Bar) /\ Len(window) = 0
    BY DEF ReplayInit
  <2>2. setup \in Setups /\ setup.lookback \in Nat
    BY SetupFields DEF ReplayInit
  <2>3. restarts \in 0..MaxRestarts
    BY NumberAssumption DEF ReplayInit
  <2>4. backtest \in Strategy
    BY FreshTyped DEF ReplayInit
  <2>5. /\ signal \in Order /\ real = 0 /\ dipped = FALSE /\ peaked = FALSE
        /\ short = FALSE /\ bought = FALSE /\ unsold = 0
    BY DEF ReplayInit, Order
  <2>6. Len(window) <= setup.lookback
    BY <2>1, <2>2
  <2> QED BY <2>1, <2>2, <2>3, <2>4, <2>5, <2>6 DEF ReplayTypeOK
<1>2. Replay(bars) = Fresh /\ backtest = Fresh /\ window = bars
  BY ReplayOfNone DEF ReplayInit
<1>3. ~HeldAfter(Fresh) /\ ~Fresh.below
  BY DEF Fresh, HeldAfter
<1>4. Ideal(Fresh)
  BY <1>3 DEF Ideal, Follows, ReplayInit
<1> QED BY <1>1, <1>2, <1>4 DEF ReplayInv

(* A restart reads the bars that fit.                                      *)
LEMMA RestartKeeps ==
  ASSUME ReplayInv, Restart
  PROVE  ReplayInv' /\ SameSignals /\ BuysNeedADip /\ UpperExitsAreLate /\ SignalsAreShown
<1>1. setup' = setup /\ bars' = bars /\ backtest' = backtest /\ real' = real /\ dipped' = dipped
      /\ peaked' = peaked /\ signal' = "none" /\ short' = short /\ bought' = bought
      /\ unsold' = unsold /\ restarts < MaxRestarts /\ restarts' = restarts + 1
      /\ window' = IF setup.warmup THEN Recent ELSE <<>>
  BY DEF Restart, account, marks
<1>2. ReplayTypeOK /\ setup \in Setups /\ bars \in Seq(Bar)
  BY DEF ReplayInv, ReplayTypeOK
<1>3. PICK m \in Nat, l \in Nat \ {0} : m = Len(bars) /\ l = setup.lookback
  BY <1>2, SetupFields
<1>4. PICK a \in Nat \ {0} : a = IF m > l THEN m - l + 1 ELSE 1
  <2>1. (IF m > l THEN m - l + 1 ELSE 1) \in Nat \ {0}
    BY <1>3
  <2> QED BY <2>1
<1>5. Recent = SubSeq(bars, a, m)
  BY <1>3, <1>4 DEF Recent
<1>6. Recent \in Seq(Bar) /\ Len(Recent) <= l
  <2>1. \A i \in a..m : bars[i] \in Bar
    BY <1>2, <1>3
  <2>2. SubSeq(bars, a, m) \in Seq(Bar) /\ Len(SubSeq(bars, a, m)) = IF a <= m THEN m - a + 1 ELSE 0
    BY <2>1, SubSeqProperties
  <2> QED BY <1>4, <1>5, <2>2
<1>7. m <= l => Recent = bars
  <2> SUFFICES ASSUME m <= l PROVE Recent = bars
    OBVIOUS
  <2>1. a = 1
    BY <1>4
  <2>2. SubSeq(bars, 1, Len(bars)) = bars
    BY <1>2, SubSeqFull
  <2> QED BY <1>3, <1>5, <2>1, <2>2
<1>8. ReplayTypeOK'
  <2>1. window' \in Seq(Bar) /\ Len(window') <= setup'.lookback
    BY <1>1, <1>3, <1>6
  <2>2. Bar' = Bar
    BY <1>1, BarStays
  <2>3. restarts' \in 0..MaxRestarts
    BY <1>1, <1>2, NumberAssumption DEF ReplayTypeOK
  <2> QED BY <1>1, <1>2, <2>1, <2>2, <2>3 DEF ReplayTypeOK, Order
<1>9. PICK v : v = Replay(bars) /\ v = Replay(bars)'
  <2>1. PICK h : h = bars /\ Len(h) \in Nat
    BY <1>2
  <2>2. Replay(h)' = Replay(h)
    BY <1>1, <2>1, ReplayStays
  <2>3. Replay(bars)' = Replay(h)'
    BY <1>1, <2>1
  <2> QED BY <2>1, <2>2, <2>3
<1>10. (~short => backtest = Replay(bars))'
  BY <1>1, <1>9 DEF ReplayInv
<1>11. AllInWindow' => AllInWindow /\ window' = bars'
  BY <1>1, <1>3, <1>7 DEF AllInWindow
<1>12. Ideal(v) => Ideal(v)'
  BY <1>1 DEF Ideal, Follows, HeldAfter
<1>13. (AllInWindow => window = bars /\ Ideal(Replay(bars)))'
  <2> SUFFICES ASSUME AllInWindow' PROVE window' = bars' /\ Ideal(Replay(bars))'
    OBVIOUS
  <2>1. Ideal(v)'
    BY <1>9, <1>11, <1>12 DEF ReplayInv
  <2>2. Ideal(Replay(bars))'
    BY <1>9, <2>1 DEF Ideal
  <2> QED BY <1>11, <2>2
<1> QED BY <1>1, <1>8, <1>10, <1>13 DEF ReplayInv, SameSignals, BuysNeedADip, UpperExitsAreLate, SignalsAreShown

(* A tick: the window slides, and its replay gives the signal.             *)
LEMMA TickKeeps ==
  ASSUME ReplayInv, MinBars <= Period, NEW bar \in Bar, NEW poor \in BOOLEAN,
         NEW accepted \in BOOLEAN, OnRun(bar, poor, accepted)
  PROVE  ReplayInv' /\ SameSignals /\ BuysNeedADip /\ UpperExitsAreLate /\ SignalsAreShown
<1>1. PICK h, o : h = Push(bar) /\ o = Signal(h)
  OBVIOUS
<1>2. /\ setup' = setup /\ bars' = Append(bars, bar) /\ window' = h
      /\ (Len(bars) + 1 < Warm => bar = Blank)
      /\ backtest' = IF poor THEN Seeing(Refused(backtest), bar) ELSE Step(backtest, bar)
      /\ short' = (short \/ poor)
      /\ signal' = o /\ Execute(o, accepted) /\ restarts' = restarts
      /\ dipped' = (IF o = "buy" THEN FALSE ELSE dipped \/ bar.place = "under")
      /\ peaked' = (IF o = "buy" THEN FALSE ELSE peaked \/ bar.place = "over")
  BY <1>1 DEF OnRun
<1>3. /\ setup \in Setups /\ bars \in Seq(Bar) /\ window \in Seq(Bar)
      /\ Len(window) <= setup.lookback /\ backtest \in Strategy /\ signal \in Order
      /\ real \in Nat /\ dipped \in BOOLEAN /\ peaked \in BOOLEAN /\ restarts \in 0..MaxRestarts
      /\ short \in BOOLEAN /\ bought \in BOOLEAN /\ unsold \in Nat
  BY DEF ReplayInv, ReplayTypeOK
<1>4. PICK l \in Nat \ {0} : l = setup.lookback
  BY <1>3, SetupFields
<1>5. h \in Seq(Bar) /\ Len(h) <= l /\ Len(h) \in Nat
  <2>1. CASE Len(window) = l
    <3>1. h = Append(Tail(window), bar)
      BY <1>1, <1>4, <2>1 DEF Push
    <3>2. window # <<>>
      BY <2>1
    <3>3. Tail(window) \in Seq(Bar) /\ Len(Tail(window)) = l - 1
      BY <1>3, <2>1, <3>2, HeadTailProperties
    <3> QED BY <3>1, <3>3, AppendProperties
  <2>2. CASE Len(window) # l
    <3>1. h = Append(window, bar) /\ Len(window) \in Nat /\ Len(window) < l
      BY <1>1, <1>3, <1>4, <2>2 DEF Push
    <3> QED BY <1>3, <3>1, AppendProperties
  <2> QED BY <2>1, <2>2
<1>6. PICK k \in Nat : k = Len(h)
  BY <1>5
<1>7. PICK g : IsRun(g, h, k) /\ Replay(h) = g[k]
  BY <1>6, ReplayIsRun
<1>8. /\ g[k] \in Strategy /\ g[k].age = k
      /\ setup.kind # "grid" /\ g[k].order # "none" => \E i \in Period..k : IsCause(h[i])
  <2>1. k \in 0..k
    OBVIOUS
  <2> QED BY <1>3, <1>7, <2>1, RunShows
<1>9. o = IF k < MinBars THEN "none" ELSE g[k].order
  BY <1>1, <1>6, <1>7 DEF Signal
<1>10. o \in Order /\ (o # "none" => o = g[k].order)
  <2>1. g[k].order \in Order
    BY <1>8, StrategyFields
  <2> QED BY <1>9, <2>1 DEF Order
<1>11. SignalsAreShown
  <2>1. setup.kind # "grid" /\ o # "none" => \E i \in Period..k : IsCause(h[i])
    BY <1>8, <1>10
  <2> QED BY <1>2, <1>6, <2>1 DEF SignalsAreShown, IsCause
(* What a strategy whose orders are filled makes of the bar.               *)
<1>12. PICK s, t : s = Replay(bars) /\ t = Step(s, bar)
  OBVIOUS
<1>13. s \in Strategy /\ s.age = Len(bars)
  <2>1. PICK n \in Nat : n = Len(bars)
    BY <1>3
  <2>2. PICK f : IsRun(f, bars, n) /\ Replay(bars) = f[n]
    BY <2>1, ReplayIsRun
  <2>3. n \in 0..n
    OBVIOUS
  <2> QED BY <1>3, <1>12, <2>1, <2>2, <2>3, RunShows
<1>14. /\ t \in Strategy /\ t.age = s.age + 1 /\ t.held = HeldAfter(s)
       /\ ~Seen(s) => t.order = "none" /\ t.below = s.below
       /\ t.order = "buy" => ~HeldAfter(s)
       /\ t.order \in {"close", "exit"} => HeldAfter(s) /\ setup.kind # "grid"
       /\ setup.kind = "bollinger" =>
            /\ t.order = "buy" => s.below /\ ~t.below
            /\ t.below => s.below \/ bar.place = "under"
            /\ HeldAfter(s) /\ bar.place = "over" /\ Seen(s) => t.order = "close"
  BY <1>12, <1>13, <1>3, StepIs
<1>15. PICK j : j = Append(bars, bar) /\ j \in Seq(Bar) /\ Len(j) = Len(bars) + 1
  BY <1>3, AppendProperties
<1>16. t = Replay(j)
  BY <1>3, <1>12, <1>15, ReplayGrows
<1>17. Len(bars) \in Nat /\ Len(j) \in Nat
  BY <1>3, <1>15
<1>18. AllInWindow' => AllInWindow /\ j = h /\ t = g[k] /\ Ideal(s)
  <2> SUFFICES ASSUME AllInWindow' PROVE AllInWindow /\ j = h /\ t = g[k] /\ Ideal(s)
    OBVIOUS
  <2>1. setup.warmup /\ Len(j) <= l
    BY <1>2, <1>4, <1>15 DEF AllInWindow
  <2>2. AllInWindow
    BY <1>4, <1>15, <1>17, <2>1 DEF AllInWindow
  <2>3. window = bars /\ Len(window) # l
    BY <1>15, <1>17, <2>1, <2>2, <1>4 DEF ReplayInv
  <2>4. j = h
    BY <1>1, <1>4, <1>15, <2>3 DEF Push
  <2>5. Ideal(s)
    BY <1>12, <2>2 DEF ReplayInv
  <2> QED BY <1>7, <1>16, <2>2, <2>4, <2>5
<1>19. AllInWindow' /\ setup.kind # "grid" => o = t.order
  <2> SUFFICES ASSUME AllInWindow', setup.kind # "grid" PROVE o = t.order
    OBVIOUS
  <2>1. t = g[k] /\ t.age = k
    BY <1>8, <1>18
  <2>2. CASE k < MinBars
    <3>1. ~Seen(s)
      BY <1>3, <1>6, <1>13, <1>14, <2>1, <2>2, WarmTyped, StrategyFields, NumberAssumption DEF Seen
    <3> QED BY <1>9, <1>14, <2>2, <3>1
  <2>3. CASE ~(k < MinBars)
    BY <1>9, <2>1, <2>3
  <2> QED BY <2>2, <2>3
(* The backtest is that strategy while it has the cash.                    *)
<1>20. ~short' => backtest' = t
  <2> SUFFICES ASSUME ~short' PROVE backtest' = t
    OBVIOUS
  <2>1. ~short /\ ~poor
    BY <1>2, <1>3
  <2>2. backtest = s
    BY <1>12, <2>1 DEF ReplayInv
  <2> QED BY <1>2, <1>12, <2>1, <2>2
<1>21. backtest' \in Strategy
  <2>1. Step(backtest, bar) \in Strategy
    BY <1>3, StepIs
  <2>2. Refused(backtest) \in Strategy /\ Refused(backtest).order = "none"
    BY <1>3, RefusedIs
  <2>3. Seeing(Refused(backtest), bar) \in Strategy
    BY <1>3, <2>2, SeeingIs
  <2> QED BY <1>2, <2>1, <2>3
<1>22. SameSignals
  BY <1>2, <1>19, <1>20 DEF SameSignals
<1>23. BuysNeedADip
  <2> SUFFICES ASSUME setup.kind = "bollinger", AllInWindow', signal' = "buy" PROVE dipped
    BY DEF BuysNeedADip
  <2>1. t.order = "buy"
    BY <1>2, <1>19
  <2>2. s.below
    BY <1>14, <2>1
  <2> QED BY <1>18, <2>2 DEF Ideal
(* A bar above the band, while a position is held, closes it.              *)
<1>24. setup.kind = "bollinger" /\ HeldAfter(s) /\ bar.place = "over" => t.order = "close"
  <2> SUFFICES ASSUME setup.kind = "bollinger", HeldAfter(s), bar.place = "over"
               PROVE  t.order = "close"
    OBVIOUS
  <2>1. bar # Blank
    BY DEF Blank
  <2>2. Seen(s)
    BY <1>2, <1>3, <1>13, <1>17, <2>1, WarmTyped DEF Seen
  <2> QED BY <1>14, <2>2
<1>25. UpperExitsAreLate
  <2> SUFFICES ASSUME setup.kind = "bollinger", AllInWindow', signal' = "exit" PROVE ~peaked'
    BY DEF UpperExitsAreLate
  <2>1. t.order = "exit"
    BY <1>2, <1>19
  <2>2. HeldAfter(s) /\ bar.place # "over"
    BY <1>14, <1>24, <2>1
  <2>3. ~peaked
    BY <1>18, <2>2 DEF Ideal
  <2> QED BY <1>2, <2>2, <2>3
<1>26. ReplayTypeOK'
  <2>1. Bar' = Bar
    BY <1>2, BarStays
  <2>2. real' \in Nat /\ bought' \in BOOLEAN /\ unsold' \in Nat
    BY <1>2, <1>3 DEF Execute
  <2>3. bars' \in Seq(Bar)' /\ window' \in Seq(Bar)' /\ Len(window') <= setup'.lookback
    BY <1>2, <1>4, <1>5, <1>15, <2>1
  <2>4. signal' \in Order /\ short' \in BOOLEAN
    BY <1>2, <1>3, <1>10
  <2>5. dipped' \in BOOLEAN /\ peaked' \in BOOLEAN
    BY <1>2, <1>3
  <2> QED BY <1>2, <1>3, <1>21, <2>2, <2>3, <2>4, <2>5 DEF ReplayTypeOK
(* The account follows.                                                    *)
<1>27. AllInWindow' /\ setup.kind # "grid" => Follows(HeldAfter(t))'
  <2> SUFFICES ASSUME AllInWindow', setup.kind # "grid"
               PROVE  /\ HeldAfter(t) => real' <= 1 + unsold'
                      /\ ~HeldAfter(t) => real' <= unsold'
                      /\ HeldAfter(t) /\ bought' => real' >= 1
    BY DEF Follows, HeldAfter
  <2>1. /\ HeldAfter(s) => real <= 1 + unsold
        /\ ~HeldAfter(s) => real <= unsold
        /\ HeldAfter(s) /\ bought => real >= 1
    BY <1>18 DEF Ideal, Follows
  <2>2. /\ real' = CASE o = "buy" /\ accepted -> real + 1
                      [] o \in {"close", "exit"} /\ real > 0 /\ accepted -> real - 1
                      [] OTHER -> real
        /\ bought' = IF o = "buy" THEN accepted ELSE bought
        /\ unsold' = IF o \in {"close", "exit"} /\ real > 0 /\ ~accepted THEN unsold + 1 ELSE unsold
    BY <1>2 DEF Execute
  <2>3. o = t.order
    BY <1>19
  <2>4. CASE o = "buy"
    <3>1. HeldAfter(t) /\ ~HeldAfter(s)
      BY <1>14, <2>3, <2>4 DEF HeldAfter
    <3>2. unsold' = unsold /\ (accepted => real' = real + 1) /\ (~accepted => real' = real)
          /\ (bought' => accepted)
      BY <2>2, <2>4
    <3> QED BY <1>3, <2>1, <3>1, <3>2
  <2>5. CASE o \in {"close", "exit"}
    <3>1. ~HeldAfter(t) /\ HeldAfter(s)
      BY <1>14, <2>3, <2>5 DEF HeldAfter
    <3>2. real' <= unsold'
      BY <1>3, <2>1, <2>2, <2>5, <3>1
    <3> QED BY <3>1, <3>2
  <2>6. CASE o \notin {"buy", "close", "exit"}
    <3>1. HeldAfter(t) = HeldAfter(s)
      BY <1>14, <2>3, <2>6 DEF HeldAfter
    <3>2. real' = real /\ unsold' = unsold /\ bought' = bought
      BY <2>2, <2>6
    <3> QED BY <2>1, <3>1, <3>2
  <2> QED BY <2>4, <2>5, <2>6
<1>28. AllInWindow' => Ideal(t)'
  <2> SUFFICES ASSUME AllInWindow' PROVE Ideal(t)'
    OBVIOUS
  <2>1. setup.kind = "bollinger" /\ t.below => dipped'
    <3> SUFFICES ASSUME setup.kind = "bollinger", t.below PROVE dipped'
      OBVIOUS
    <3>1. o # "buy"
      BY <1>14, <1>19
    <3>2. s.below \/ bar.place = "under"
      BY <1>14
    <3>3. s.below => dipped
      BY <1>18 DEF Ideal
    <3> QED BY <1>2, <3>1, <3>2, <3>3
  <2>2. setup.kind = "bollinger" /\ HeldAfter(t) => ~peaked'
    <3> SUFFICES ASSUME setup.kind = "bollinger", HeldAfter(t), o # "buy" PROVE ~peaked'
      BY <1>2
    <3>1. HeldAfter(s) /\ t.order # "close"
      BY <1>14, <1>19 DEF HeldAfter
    <3>2. bar.place # "over" /\ ~peaked
      BY <1>18, <1>24, <3>1 DEF Ideal
    <3> QED BY <1>2, <3>2
  <2> QED BY <1>2, <1>27, <2>1, <2>2 DEF Ideal, HeldAfter
<1>29. PICK u : u = Replay(bars)' /\ u = t
  <2>1. Replay(j)' = Replay(j)
    BY <1>2, <1>17, ReplayStays
  <2>2. Replay(bars)' = Replay(j)'
    BY <1>2, <1>15
  <2> QED BY <1>16, <2>1, <2>2
<1>30. (~short => backtest = Replay(bars))'
  BY <1>20, <1>29
<1>31. (AllInWindow => window = bars /\ Ideal(Replay(bars)))'
  <2> SUFFICES ASSUME AllInWindow' PROVE window' = bars' /\ Ideal(Replay(bars))'
    OBVIOUS
  <2>1. Ideal(t)'
    BY <1>28
  <2>2. Ideal(Replay(bars))'
    BY <1>29, <2>1 DEF Ideal
  <2> QED BY <1>2, <1>15, <1>18, <2>2
<1> QED BY <1>11, <1>22, <1>23, <1>25, <1>26, <1>30, <1>31 DEF ReplayInv

LEMMA ReplayInvNext ==
  ASSUME MinBars <= Period, ReplayInv, [ReplayNext]_replayVars
  PROVE  ReplayInv'
<1>1. CASE Restart
  BY <1>1, RestartKeeps
<1>2. ASSUME NEW bar \in Bar, NEW poor \in BOOLEAN, NEW accepted \in BOOLEAN,
             OnRun(bar, poor, accepted)
      PROVE  ReplayInv'
  BY <1>2, TickKeeps
<1>3. CASE UNCHANGED replayVars
  <2>1. PICK v : v = Replay(bars) /\ v = Replay(bars)'
    <3>1. PICK h : h = bars /\ Len(h) \in Nat
      BY DEF ReplayInv, ReplayTypeOK
    <3>2. Replay(h)' = Replay(h)
      BY <1>3, <3>1, ReplayStays DEF replayVars
    <3>3. Replay(bars)' = Replay(h)'
      BY <1>3, <3>1 DEF replayVars
    <3> QED BY <3>1, <3>2, <3>3
  <2>2. Bar' = Bar
    BY <1>3, BarStays DEF replayVars
  <2>3. ReplayTypeOK'
    BY <1>3, <2>2 DEF replayVars, account, marks, ReplayInv, ReplayTypeOK
  <2>4. Ideal(v) => Ideal(v)'
    BY <1>3 DEF replayVars, account, marks, Ideal, Follows, HeldAfter
  <2>5. (AllInWindow => window = bars /\ Ideal(Replay(bars)))'
    <3> SUFFICES ASSUME AllInWindow' PROVE window' = bars' /\ Ideal(Replay(bars))'
      OBVIOUS
    <3>1. AllInWindow /\ window' = bars'
      BY <1>3 DEF replayVars, AllInWindow, ReplayInv
    <3>2. Ideal(v)'
      BY <2>1, <2>4, <3>1 DEF ReplayInv
    <3>3. Ideal(Replay(bars))'
      BY <2>1, <3>2 DEF Ideal
    <3> QED BY <3>1, <3>3
  <2>6. (~short => backtest = Replay(bars))'
    BY <1>3, <2>1 DEF replayVars, ReplayInv
  <2> QED BY <2>3, <2>5, <2>6 DEF ReplayInv
<1> QED BY <1>1, <1>2, <1>3 DEF ReplayNext

(* BacktraderAdapter replays the strategy from the bars it still has: as   *)
(* long as these are all the bars there were, the strategy it finds is     *)
(* the one of a backtest that had the cash, restarts included.  The hypothesis: the adapter  *)
(* does not wait for more bars than the indicators do (_min_bars is 2).    *)
THEOREM ReplayInductive ==
  ASSUME MinBars <= Period
  PROVE  ReplaySpec => []ReplayInv
<1>1. ReplayInit => ReplayInv
  BY ReplayInvInit
<1>2. ReplayInv /\ [ReplayNext]_replayVars => ReplayInv'
  BY ReplayInvNext
<1> QED BY <1>1, <1>2, PTL DEF ReplaySpec

(* The live account and what the replayed strategy believes it holds part  *)
(* only by refused orders (_SignalInterceptor, execute_signal), on every   *)
(* tick.                                                                   *)
THEOREM LiveFollows ==
  ASSUME MinBars <= Period
  PROVE  ReplaySpec => []LiveFollowsStrategy
<1>1. ReplayInv => LiveFollowsStrategy
  <2> SUFFICES ASSUME ReplayInv PROVE LiveFollowsStrategy
    OBVIOUS
  <2>1. ReplayTypeOK /\ real \in Nat /\ unsold \in Nat
    BY DEF ReplayInv, ReplayTypeOK
  <2>2. ASSUME AllInWindow, setup.kind # "grid"
        PROVE  real <= Believed + unsold /\ (Believed = 1 /\ bought => real >= 1)
    <3>1. Follows(HeldAfter(Replay(window)))
      BY <2>2 DEF ReplayInv, Ideal
    <3> QED BY <2>1, <3>1 DEF Follows, Believed
  <2> QED BY <2>1, <2>2 DEF LiveFollowsStrategy
<1> QED BY <1>1, ReplayInductive, PTL

(* No signal without its reason: the backtest gives it too while it has    *)
(* the cash, a buy of the bands has a dip of its own and an exit at the    *)
(* upper band only a peak of before (BollingerStrategy.next), and the      *)
(* window of the adapter shows the cross or the dip                        *)
(* (BacktraderAdapter.on_run).                                             *)
THEOREM SignalsEarned ==
  ASSUME MinBars <= Period
  PROVE  ReplaySpec => SignalsAreEarned
<1> DEFINE Earned == SameSignals /\ BuysNeedADip /\ UpperExitsAreLate /\ SignalsAreShown
<1>1. ReplayInv /\ [ReplayNext]_replayVars => [Earned]_replayVars
  <2> SUFFICES ASSUME ReplayInv, ReplayNext PROVE Earned
    OBVIOUS
  <2>1. CASE Restart
    BY <2>1, RestartKeeps
  <2>2. ASSUME NEW bar \in Bar, NEW poor \in BOOLEAN, NEW accepted \in BOOLEAN,
               OnRun(bar, poor, accepted)
        PROVE  Earned
    BY <2>2, TickKeeps
  <2> QED BY <2>1, <2>2 DEF ReplayNext
<1> QED BY <1>1, ReplayInductive, PTL DEF ReplaySpec, SignalsAreEarned
=============================================================================

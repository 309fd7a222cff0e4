--------------------------- MODULE RealtimeMarket ---------------------------
(***************************************************************************)
(* Realtime market reads: RealtimeMarketDataService                        *)
(* (src/src/data/realtime_market.py) over MarketDataFetcher                *)
(* (src/src/data/market.py) with its retries and the RequestRateLimiter    *)
(* (src/src/data/market_retry.py) that all requests share.                 *)
(*                                                                         *)
(* The owner of the service (the realtime loop, an engine, a command) asks *)
(* one question at a time.  Every question runs in a daemon thread of its  *)
(* own; when it takes longer than Timeout the owner stops waiting and      *)
(* falls back, but the thread is never told: it goes on waiting, retrying  *)
(* and pacing itself with the shared limiter while the next questions run. *)
(*                                                                         *)
(* Time is a number of ticks that passes freely between any two steps, so  *)
(* sleeps and timeouts may be overrun, as those of an operating system.    *)
(* The exchange may answer at any time, or never.                          *)
(***************************************************************************)
EXTENDS Integers, Sequences, FiniteSets

CONSTANTS
  Key,            \* the cache keys: channel, symbol and parameters
  Timeout,        \* RealtimeMarketDataService._timeout_seconds
  Interval,       \* RequestRateLimiter._min_interval_seconds
  MaxAttempts,    \* RetryPolicy
  InitialDelay,
  Multiplier,
  MaxDelay,
  MaxRequests,    \* bound: questions asked
  LastAsk,        \* bound: the last tick at which a question is asked
  Horizon         \* bound: the last tick

ASSUME PolicyAssumption ==     \* RetryPolicy.__post_init__, RealtimeMarketDataService.__init__
  /\ MaxAttempts \in Nat \ {0} /\ InitialDelay \in Nat \ {0}
  /\ Multiplier \in Nat \ {0} /\ MaxDelay \in Nat \ {0}
  /\ Timeout \in Nat \ {0} /\ Interval \in Nat \ {0}
ASSUME BoundAssumption == MaxRequests \in Nat /\ LastAsk \in Nat /\ Horizon \in Nat

VARIABLES
  now,       \* time.monotonic
  asked,     \* how many questions were asked; the n-th one runs in thread n
  question,  \* what the owner waits for: its key and when it asked
  thread,    \* the daemon threads
  last,      \* RequestRateLimiter._last_request_at
  cache,     \* RealtimeMarketDataService._fallback_cache
  snapshot,  \* the snapshot the owner received last
  left,      \* history: when the last request left
  spaced,    \* history: every request left Interval after the one before
  abandoned  \* history: a question timed out, so its thread runs on by itself

vars == <<now, asked, question, thread, last, cache, snapshot, left, spaced, abandoned>>

Thread == 1..MaxRequests
Time == 0..Horizon
Never == -1
Nothing == [at |-> Never]           \* no data: the empty payload
Idle == [key |-> "none", at |-> Never]

(* What a call of the exchange comes to; "hangs" is the absence of a step. *)
Failure == {"network", "rate_limit", "refused"}

TypeOK ==
  /\ now \in Time /\ asked \in 0..MaxRequests
  /\ question \in {Idle} \cup [key : Key, at : Time]
  /\ thread \in [Thread -> [stage : {"new", "limiter", "pacing", "inflight", "backoff", "done"},
                            key : Key \cup {"none"}, attempt : 0..MaxAttempts,
                            delay : 0..(MaxDelay + InitialDelay), until : Nat,
                            answer : {"none", "data", "garbled", "failed"}, at : Time]]
  /\ last \in Time \cup {Never} /\ left \in Time \cup {Never}
  /\ cache \in [Key -> {Nothing} \cup [key : Key, at : Time]]
  /\ snapshot.ok \in BOOLEAN /\ snapshot.fallback \in BOOLEAN /\ snapshot.timed_out \in BOOLEAN
  /\ spaced \in BOOLEAN /\ abandoned \in BOOLEAN

New == [stage |-> "new", key |-> "none", attempt |-> 0, delay |-> 0, until |-> 0,
        answer |-> "none", at |-> 0]

Init ==
  /\ now = 0 /\ asked = 0 /\ question = Idle
  /\ thread = [n \in Thread |-> New]
  /\ last = Never /\ left = Never
  /\ cache = [k \in Key |-> Nothing]
  /\ snapshot = [ok |-> FALSE, fallback |-> FALSE, timed_out |-> FALSE, key |-> "none",
                 since |-> 0, data |-> Nothing]
  /\ spaced = TRUE /\ abandoned = FALSE

Lesser(a, b) == IF a <= b THEN a ELSE b
Greater(a, b) == IF a >= b THEN a ELSE b

-----------------------------------------------------------------------------
(***************************************************************************)
(* A thread: MarketDataFetcher._request                                    *)
(***************************************************************************)
EnterAttempt(n, delay) ==
  thread' = [thread EXCEPT ![n].stage = "limiter", ![n].attempt = @ + 1, ![n].delay = delay]

(* Faulty variant of Pace: a limiter that forgets the requests that waited. *)
PaceForgets(n) ==
  /\ spaced' = (spaced /\ (left = Never \/ now - left >= Interval))
  /\ left' = now
  /\ last' = IF thread[n].stage = "pacing" THEN last ELSE now
  /\ thread' = [thread EXCEPT ![n].stage = "inflight"]

(* The end of wait: the time is noted and the request leaves. *)
Pace(n) ==
  /\ spaced' = (spaced /\ (left = Never \/ now - left >= Interval))
  /\ left' = now
  /\ last' = now
  /\ thread' = [thread EXCEPT ![n].stage = "inflight"]

(* RequestRateLimiter.wait: the time of the last request is read without a *)
(* lock, and written only after the sleep that it leads to.                *)
Wait(n) ==
  /\ thread[n].stage = "limiter"
  /\ IF last # Never /\ now - last < Interval
     THEN /\ thread' = [thread EXCEPT ![n].stage = "pacing", ![n].until = last + Interval]
          /\ UNCHANGED <<last, left, spaced>>
     ELSE Pace(n)
  /\ UNCHANGED <<now, asked, question, cache, snapshot, abandoned>>

WakeUp(n) ==
  /\ thread[n].stage = "pacing" /\ now >= thread[n].until
  /\ Pace(n)
  /\ UNCHANGED <<now, asked, question, cache, snapshot, abandoned>>

(* The exchange answers with data of this moment, or with something that   *)
(* normalize_*_payload will not take.                                      *)
Answer(n, answer) ==
  /\ thread[n].stage = "inflight"
  /\ thread' = [thread EXCEPT ![n].stage = "done", ![n].answer = answer, ![n].at = now]
  /\ UNCHANGED <<now, asked, question, last, cache, snapshot, left, spaced, abandoned>>

(* _next_delay: after a rate limit error at least the limiter's interval,  *)
(* but never more than max_delay_seconds.                                  *)
NextDelay(delay, failure) ==
  Lesser(IF failure = "rate_limit" THEN Greater(delay, Interval) ELSE delay, MaxDelay)

Retryable(n, failure) == failure # "refused" /\ thread[n].attempt < MaxAttempts

(* An error either ends the request or puts it to sleep before a retry. *)
Fail(n, failure) ==
  /\ thread[n].stage = "inflight"
  /\ thread' = IF Retryable(n, failure)
               THEN [thread EXCEPT ![n].stage = "backoff",
                                   ![n].until = now + NextDelay(thread[n].delay, failure)]
               ELSE [thread EXCEPT ![n].stage = "done", ![n].answer = "failed", ![n].at = now]
  /\ UNCHANGED <<now, asked, question, last, cache, snapshot, left, spaced, abandoned>>

Retry(n) ==
  /\ thread[n].stage = "backoff" /\ now >= thread[n].until
  /\ EnterAttempt(n, Lesser(thread[n].delay * Multiplier, MaxDelay))
  /\ UNCHANGED <<now, asked, question, last, cache, snapshot, left, spaced, abandoned>>

-----------------------------------------------------------------------------
(***************************************************************************)
(* The owner: RealtimeMarketDataService                                    *)
(***************************************************************************)
Waiting == question # Idle

(* get_latest_price, get_depth, get_klines: _run_with_timeout starts a     *)
(* thread.                                                                 *)
Ask(k) ==
  /\ ~Waiting
  /\ asked < MaxRequests /\ now <= LastAsk
  /\ asked' = asked + 1
  /\ question' = [key |-> k, at |-> now]
  /\ thread' = [thread EXCEPT ![asked + 1] = [New EXCEPT !.stage = "limiter", !.key = k,
                                                         !.attempt = 1, !.delay = InitialDelay]]
  /\ UNCHANGED <<now, last, cache, snapshot, left, spaced, abandoned>>

(* Faulty variant of Answered: one result queue for all the requests. *)
AnsweredAny(n) == thread[n].stage = "done" /\ thread[n].answer # "none"

(* The result queue of the present question has an item: it belongs to the *)
(* thread that was started for it.                                         *)
Answered(n) == n = asked /\ thread[n].stage = "done"

Return(ok, fallback, timed_out, data) ==
  /\ snapshot' = [ok |-> ok, fallback |-> fallback, timed_out |-> timed_out,
                  key |-> question.key, since |-> question.at, data |-> data]
  /\ question' = Idle
  /\ UNCHANGED <<now, asked, thread, last, left, spaced>>

SetCache(k, data) == cache' = [cache EXCEPT ![k] = data]

Receive(n) ==
  /\ Waiting /\ Answered(n) /\ thread[n].answer = "data"
  /\ UNCHANGED abandoned
  /\ LET data == [key |-> thread[n].key, at |-> thread[n].at]
     IN  SetCache(question.key, data) /\ Return(TRUE, FALSE, FALSE, data)

(* Faulty variant of FallBack: an error is reported although data is known. *)
FallBackEmpty(timed_out) ==
  /\ UNCHANGED cache
  /\ IF cache[question.key] = Nothing \/ ~timed_out
     THEN Return(FALSE, FALSE, timed_out, Nothing)
     ELSE Return(TRUE, TRUE, timed_out, cache[question.key])

(* _fallback_snapshot: what is in the cache, as ok, else the empty payload. *)
FallBack(timed_out) ==
  /\ UNCHANGED cache
  /\ IF cache[question.key] = Nothing
     THEN Return(FALSE, FALSE, timed_out, Nothing)
     ELSE Return(TRUE, TRUE, timed_out, cache[question.key])

ReceiveError(n) ==
  /\ Waiting /\ Answered(n) /\ thread[n].answer \in {"garbled", "failed"}
  /\ FallBack(FALSE) /\ UNCHANGED abandoned

(* Faulty variant of Expired: queue.get without a timeout. *)
ExpiredNever == FALSE

Expired == now >= question.at + Timeout

TimeOut ==
  /\ Waiting /\ Expired /\ (\A n \in Thread : ~Answered(n))
  /\ FallBack(TRUE)
  /\ abandoned' = TRUE

Tick ==
  /\ now < Horizon
  /\ now' = now + 1
  /\ UNCHANGED <<asked, question, thread, last, cache, snapshot, left, spaced, abandoned>>

Next ==
  \/ \E k \in Key : Ask(k)
  \/ \E n \in Thread : Wait(n)
  \/ \E n \in Thread : WakeUp(n)
  \/ \E n \in Thread, answer \in {"data", "garbled"} : Answer(n, answer)
  \/ \E n \in Thread, failure \in Failure : Fail(n, failure)
  \/ \E n \in Thread : Retry(n)
  \/ \E n \in Thread : Receive(n)
  \/ \E n \in Thread : ReceiveError(n)
  \/ TimeOut
  \/ Tick

Spec == Init /\ [][Next]_vars

(* Time passes, and the owner's queue.get returns once there is a result   *)
(* or the timeout is over.  Nothing is assumed of the threads or of the    *)
(* exchange.                                                               *)
FairSpec ==
  /\ Spec
  /\ WF_vars(Tick)
  /\ WF_vars(TimeOut \/ \E n \in Thread : Receive(n) \/ ReceiveError(n))

-----------------------------------------------------------------------------
(***************************************************************************)
(* What the service promises                                               *)
(***************************************************************************)

(* A snapshot that is not a fallback holds data of the question's own key  *)
(* that the exchange gave after the question was asked: the late answer of *)
(* an abandoned thread is never taken for the answer to a later question   *)
(* (_run_with_timeout's queue per request).                                *)
FreshIsFresh ==
  snapshot.ok /\ ~snapshot.fallback =>
    snapshot.data.key = snapshot.key /\ snapshot.data.at >= snapshot.since

(* Once data of a key is known, every answer about it is ok, and no answer *)
(* goes back behind data that was shown before: not by a fallback, and not *)
(* when threads of earlier questions finish late (_set_cache, _get_cache). *)
AnswersNeverGoBack ==
  [][\A k \in Key : question.key = k /\ snapshot' # snapshot /\ cache[k] # Nothing =>
       /\ snapshot'.ok
       /\ snapshot'.data.at >= cache[k].at
       /\ snapshot.key = k /\ snapshot.ok => snapshot'.data.at >= snapshot.data.at]_vars

(* Requests leave the process at least the exchange's rate limit apart.    *)
(* This holds as long as no thread is abandoned (RequestRateLimiter.wait); *)
(* after a timeout two threads read the time of the last request at once.  *)
RequestsAreSpaced == TypeOK /\ (~abandoned => spaced)

(* The owner gets some answer to every question, whatever the exchange and *)
(* the threads do: a hanging call never blocks the loop (_run_with_timeout). *)
EveryQuestionIsAnswered == Waiting ~> ~Waiting
=============================================================================

--------------------------- MODULE ProviderLimiter ---------------------------
(***************************************************************************)
(* GlobalRateLimiter (providers/rate_limit.py) under the streams that use  *)
(* it: a concurrency slot for the length of a stream, a sliding window on  *)
(* the requests, a block of the whole provider after a 429, and retries    *)
(* with growing delays.  Time is in ticks; delays are kept as what remains *)
(* of them.                                                                *)
(***************************************************************************)
EXTENDS SlidingWindow

CONSTANTS
  Streams,
  Limiters,        \* instances of the scope, 1 .. n, each made for a new configuration
  MaxConcurrency,  \* max_concurrency
  MaxRetries,      \* max_retries of execute_with_retry
  LongBlock        \* the 60 s of map_error, in ticks

ASSUME StreamsAreFinite == IsFiniteSet(Streams)
ASSUME FirstLimiter == 1 \in Limiters
ASSUME SomeConcurrency == MaxConcurrency \in Nat

VARIABLES
  pc,       \* where a stream's task is
  lim,      \* the limiter its provider object holds
  attempt,  \* of the present execute_with_retry
  again,    \* the streams whose request was downgraded and is on its second one
  sleep,    \* what is left of its current sleep
  current,  \* the limiter _scoped_instances has for the scope
  times,    \* _times of a limiter's window
  blocked,  \* what is left until _blocked_until
  free,     \* value of _concurrency_sem
  sends,    \* ages of the requests sent through a limiter within a window
  pause     \* what is left of the longest block asked for

vars == <<pc, lim, attempt, again, sleep, current, times, blocked, free, sends, pause>>

\* Jitter is less than a tick: a delay may end one tick later
Delays(n) == {2^n, 2^n + 1}
Longest == LET longest == 2^MaxRetries + 1 IN IF LongBlock > longest THEN LongBlock ELSE longest
Less(n) == IF n > 0 THEN n - 1 ELSE 0

Holding == {"check", "blocked", "window", "sent", "backoff", "streaming"}

TypeOK ==
  /\ pc \in [Streams -> {"idle", "slot", "done"} \cup Holding]
  /\ lim \in [Streams -> Limiters]
  /\ attempt \in [Streams -> 0..MaxRetries]
  /\ again \subseteq Streams
  /\ sleep \in [Streams -> 0..Longest]
  /\ current \in Limiters
  /\ times \in [Limiters -> Seq(Age)]
  /\ blocked \in [Limiters -> 0..Longest]
  /\ free \in [Limiters -> 0..MaxConcurrency]
  /\ sends \in [Limiters -> Seq(Age)]
  /\ pause \in [Limiters -> 0..Longest]

Init ==
  /\ pc = [s \in Streams |-> "idle"]
  /\ lim = [s \in Streams |-> 1]
  /\ attempt = [s \in Streams |-> 0]
  /\ again = {}
  /\ sleep = [s \in Streams |-> 0]
  /\ current = 1
  /\ times = [l \in Limiters |-> <<>>]
  /\ blocked = [l \in Limiters |-> 0]
  /\ free = [l \in Limiters |-> MaxConcurrency]
  /\ sends = [l \in Limiters |-> <<>>]
  /\ pause = [l \in Limiters |-> 0]

Goto(s, where) == pc' = [pc EXCEPT ![s] = where]

\* get_scoped_instance with another configuration: the scope gets a new
\* limiter, the provider objects made before keep theirs
Reconfigure ==
  /\ current + 1 \in Limiters
  /\ current' = current + 1
  /\ UNCHANGED <<pc, lim, attempt, again, sleep, times, blocked, free, sends, pause>>

\* concurrency_slot
Request(s) ==
  /\ pc[s] = "idle"
  /\ Goto(s, "slot")
  /\ lim' = [lim EXCEPT ![s] = current]
  /\ UNCHANGED <<attempt, again, sleep, current, times, blocked, free, sends, pause>>

TakeSlot(s) ==
  /\ pc[s] = "slot" /\ free[lim[s]] > 0
  /\ free' = [free EXCEPT ![lim[s]] = @ - 1]
  /\ Goto(s, "check")
  /\ UNCHANGED <<lim, attempt, again, sleep, current, times, blocked, sends, pause>>

\* A slip: the slot is given back to the limiter the scope has now
ReleaseCurrent(s) == free' = [free EXCEPT ![current] = @ + 1]
Release(s) == free' = [free EXCEPT ![lim[s]] = @ + 1]

\* wait_if_blocked looks at the block once and sleeps for what is left of it
CheckBlock(s) ==
  /\ pc[s] = "check"
  /\ sleep' = [sleep EXCEPT ![s] = blocked[lim[s]]]
  /\ Goto(s, IF blocked[lim[s]] > 0 THEN "blocked" ELSE "window")
  /\ UNCHANGED <<lim, attempt, again, current, times, blocked, free, sends, pause>>

BlockOver(s) ==
  /\ pc[s] = "blocked" /\ sleep[s] = 0
  /\ Goto(s, "window")
  /\ UNCHANGED <<lim, attempt, again, sleep, current, times, blocked, free, sends, pause>>

\* A window slot is taken and the request sent with no await in between
Send(s) ==
  /\ pc[s] = "window" /\ SlotFree(times[lim[s]])
  /\ times' = [times EXCEPT ![lim[s]] = Acquired(@)]
  /\ sends' = [sends EXCEPT ![lim[s]] = Append(@, 0)]
  /\ Goto(s, "sent")
  /\ UNCHANGED <<lim, attempt, again, sleep, current, blocked, free, pause>>

SetBlocked(l, d) ==
  /\ blocked' = [blocked EXCEPT ![l] = d]
  /\ pause' = [pause EXCEPT ![l] = IF d > @ THEN d ELSE @]

\* _create_stream is left: what it counted is gone
Left(s) == attempt' = [attempt EXCEPT ![s] = 0] /\ again' = again \ {s}

Answered(s) ==
  /\ pc[s] = "sent"
  /\ Left(s)
  /\ Goto(s, "streaming")
  /\ UNCHANGED <<lim, sleep, current, times, blocked, free, sends, pause>>

\* A 429 with attempts left
RateLimited(s) ==
  /\ pc[s] = "sent" /\ attempt[s] < MaxRetries
  /\ \E d \in Delays(attempt[s]) : sleep' = [sleep EXCEPT ![s] = d] /\ SetBlocked(lim[s], d)
  /\ Goto(s, "backoff")
  /\ UNCHANGED <<lim, attempt, again, current, times, free, sends>>

\* A slip: the retry goes straight to the request
RetryUnthrottled(s) ==
  /\ pc[s] = "backoff" /\ sleep[s] = 0
  /\ attempt' = [attempt EXCEPT ![s] = @ + 1]
  /\ sends' = [sends EXCEPT ![lim[s]] = Append(@, 0)]
  /\ Goto(s, "sent")
  /\ UNCHANGED <<lim, again, sleep, current, times, blocked, free, pause>>
Retry(s) ==
  /\ pc[s] = "backoff" /\ sleep[s] = 0
  /\ attempt' = [attempt EXCEPT ![s] = @ + 1]
  /\ Goto(s, "check")
  /\ UNCHANGED <<lim, again, sleep, current, times, blocked, free, sends, pause>>

\* The last 429: map_error blocks the provider for long
Exhausted(s) ==
  /\ pc[s] = "sent" /\ attempt[s] = MaxRetries
  /\ SetBlocked(lim[s], LongBlock)
  /\ Release(s)
  /\ Left(s)
  /\ Goto(s, "done")
  /\ UNCHANGED <<lim, sleep, current, times, sends>>

\* A 400 of NVIDIA NIM for a field it does not know: _create_stream has the
\* request without it executed once more, with attempts of its own
Downgraded(s) ==
  /\ pc[s] = "sent" /\ s \notin again
  /\ again' = again \cup {s}
  /\ attempt' = [attempt EXCEPT ![s] = 0]
  /\ Goto(s, "check")
  /\ UNCHANGED <<lim, sleep, current, times, blocked, free, sends, pause>>

\* _raise_for_status, any other 400, or no answer at all: map_error has no block
\* for it
Errs(s) ==
  /\ pc[s] = "sent"
  /\ Release(s)
  /\ Left(s)
  /\ Goto(s, "done")
  /\ UNCHANGED <<lim, sleep, current, times, blocked, sends, pause>>

\* A slip: the end of a stream does not give the slot back
EndsKeepsSlot(s) ==
  /\ pc[s] = "streaming"
  /\ Goto(s, "done")
  /\ UNCHANGED <<lim, attempt, again, sleep, current, times, blocked, free, sends, pause>>

\* The stream ends, or breaks off
Ends(s) ==
  /\ pc[s] = "streaming"
  /\ Release(s)
  /\ Goto(s, "done")
  /\ UNCHANGED <<lim, attempt, again, sleep, current, times, blocked, sends, pause>>

\* The client goes away
Cancel(s) ==
  /\ pc[s] \in Holding \cup {"slot"}
  /\ IF pc[s] \in Holding THEN Release(s) ELSE UNCHANGED free
  /\ sleep' = [sleep EXCEPT ![s] = 0]
  /\ Left(s)
  /\ Goto(s, "done")
  /\ UNCHANGED <<lim, current, times, blocked, sends, pause>>

Tick ==
  /\ sleep' = [s \in Streams |-> Less(sleep[s])]
  /\ times' = [l \in Limiters |-> Older(times[l])]
  /\ blocked' = [l \in Limiters |-> Less(blocked[l])]
  /\ sends' = [l \in Limiters |-> Recent(sends[l])]
  /\ pause' = [l \in Limiters |-> Less(pause[l])]
  /\ UNCHANGED <<pc, lim, attempt, again, current, free>>

Next ==
  \/ Reconfigure
  \/ \E s \in Streams :
       \/ Request(s) \/ TakeSlot(s) \/ CheckBlock(s) \/ BlockOver(s) \/ Send(s) \/ Answered(s)
       \/ RateLimited(s) \/ Retry(s) \/ Exhausted(s) \/ Downgraded(s) \/ Errs(s)
       \/ Ends(s) \/ Cancel(s)
  \/ Tick

\* Tasks run when they can, time passes, and a request is answered or fails:
\* httpx has a read timeout
Fairness ==
  /\ WF_vars(Tick)
  /\ \A s \in Streams :
       /\ WF_vars(TakeSlot(s)) /\ WF_vars(CheckBlock(s)) /\ WF_vars(BlockOver(s))
       /\ WF_vars(Send(s)) /\ WF_vars(Retry(s)) /\ WF_vars(Ends(s))
       /\ WF_vars(Answered(s) \/ RateLimited(s) \/ Exhausted(s) \/ Downgraded(s) \/ Errs(s))

Spec == Init /\ [][Next]_vars /\ Fairness

-----------------------------------------------------------------------------
(* Properties                                                              *)

\* Requests, retries included, stay within the window: no interval of its
\* length holds more than the limit (_acquire_proactive_slot).
SendsWithinRate == \A l \in Limiters : Len(sends[l]) <= Rate

\* However a stream ends, and whatever the scope's limiter is by then, its
\* slot goes back to the semaphore it came from: free slots and holders make
\* up max_concurrency.
SlotsAccounted ==
  \A l \in Limiters :
    free[l] + Cardinality({s \in Streams : pc[s] \in Holding /\ lim[s] = l}) = MaxConcurrency

\* A request for a stream comes to an end, through blocks, retries and a full
\* semaphore.
StreamsEnd == \A s \in Streams : pc[s] = "slot" ~> pc[s] = "done"

\* The class docstring: a 429 pauses all requests of the provider.
PausedMeansPaused ==
  [][\A s \in Streams : Send(s) => pause[lim[s]] = 0]_vars
=============================================================================

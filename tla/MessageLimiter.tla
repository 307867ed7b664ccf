---------------------------- MODULE MessageLimiter ----------------------------
(***************************************************************************)
(* MessagingRateLimiter (messaging/limiter.py): every message, edit and    *)
(* deletion sent to the chat goes through one queue of keys, in which a    *)
(* later call with a key that is still queued replaces the earlier one,    *)
(* and one worker that honours flood waits and the sliding window.         *)
(*                                                                         *)
(* Calls are numbered in the order they are made; the number stands for    *)
(* the text to be shown.  A call with a key in Edits is fire_and_forget,   *)
(* whose wrapper retries; one with another key is an awaited enqueue with  *)
(* a key of its own.  One tick is a second.                                *)
(***************************************************************************)
EXTENDS SlidingWindow

CONSTANTS
  Key,        \* dedup keys
  Edits,      \* the keys of fire_and_forget calls
  MaxCalls,   \* bound: calls made
  MaxErrors,  \* bound: sends that fail
  FloodWait   \* the pause a flood error asks for, in ticks

ASSUME EditsAreKeys == Edits \subseteq Key
ASSUME LimiterBoundsAreNats == MaxCalls \in Nat /\ MaxErrors \in Nat /\ FloodWait \in Nat

MaxRetries == 2   \* max_retries

VARIABLES
  calls,        \* how many calls were made
  keyOf,        \* the key of each call
  call,         \* where each call is
  tries,        \* attempts that failed, by call
  nap,          \* what is left of the sleep before the next attempt
  queueList,    \* _queue_list
  func,         \* _queue_map[key][0], or 0 when the key is absent
  futures,      \* _queue_map[key][1]
  worker,       \* where the worker is
  heldFunc,     \* the worker's locals func and futures
  heldFutures,
  pause,        \* what is left of _paused_until
  times,        \* the limiter's deque
  starts,       \* ages of the sends begun less than a window ago
  shown,        \* the last text the chat platform applied, by key
  errors        \* how much of the bound is used

callVars == <<calls, keyOf, call, tries, nap>>
queueVars == <<queueList, func, futures>>
workerVars == <<worker, heldFunc, heldFutures>>
clockVars == <<pause, times, starts>>
vars == <<callVars, queueVars, workerVars, clockVars, shown, errors>>

Call == 1..MaxCalls

\* The platforms name an edit or a deletion after its message, so that calls
\* for one message share a key
Keying == [Call -> Key]

TypeOK ==
  /\ calls \in 0..MaxCalls
  /\ keyOf \in [Call -> Key]
  /\ call \in [Call -> {"none", "waiting", "sleeping", "done", "failed"}]
  /\ tries \in [Call -> 0..MaxRetries]
  /\ nap \in [Call -> 0..2^(MaxRetries - 1)]
  /\ queueList \in Seq(Key)
  /\ func \in [Key -> 0..MaxCalls]
  /\ futures \in [Key -> SUBSET Call]
  /\ worker \in {"idle", "pausing", "acquiring", "sending", "stopped"}
  /\ heldFunc \in 0..MaxCalls
  /\ heldFutures \in SUBSET Call
  /\ pause \in 0..FloodWait
  /\ times \in Seq(Age)
  /\ starts \in Seq(Age)
  /\ shown \in [Key -> 0..MaxCalls]
  /\ errors \in 0..MaxErrors

Init ==
  /\ calls = 0
  /\ keyOf \in Keying
  /\ call = [u \in Call |-> "none"]
  /\ tries = [u \in Call |-> 0]
  /\ nap = [u \in Call |-> 0]
  /\ queueList = <<>>
  /\ func = [k \in Key |-> 0]
  /\ futures = [k \in Key |-> {}]
  /\ worker = "idle"
  /\ heldFunc = 0
  /\ heldFutures = {}
  /\ pause = 0
  /\ times = <<>>
  /\ starts = <<>>
  /\ shown = [k \in Key |-> 0]
  /\ errors = 0

-----------------------------------------------------------------------------
(* Callers *)

\* Slips in _enqueue_internal_multi: the old text is kept; the futures of the
\* replaced call are dropped.
PutKeepsText(u, k) ==
  /\ func' = [func EXCEPT ![k] = IF @ = 0 THEN u ELSE @]
  /\ futures' = [futures EXCEPT ![k] = @ \cup {u}]
  /\ queueList' = IF func[k] = 0 THEN Append(queueList, k) ELSE queueList
PutDropsFutures(u, k) ==
  /\ func' = [func EXCEPT ![k] = u]
  /\ futures' = [futures EXCEPT ![k] = {u}]
  /\ queueList' = IF func[k] = 0 THEN Append(queueList, k) ELSE queueList

\* _enqueue_internal_multi
Put(u, k) ==
  /\ func' = [func EXCEPT ![k] = u]
  /\ futures' = [futures EXCEPT ![k] = @ \cup {u}]
  /\ queueList' = IF func[k] = 0 THEN Append(queueList, k) ELSE queueList

\* enqueue, or the first attempt of fire_and_forget's wrapper.  A key outside
\* Edits is made for one call.
Enqueue ==
  /\ calls < MaxCalls
  /\ LET u == calls + 1
     IN  /\ keyOf[u] \notin Edits => \A v \in 1..calls : keyOf[v] # keyOf[u]
         /\ call' = [call EXCEPT ![u] = "waiting"]
         /\ Put(u, keyOf[u])
  /\ calls' = calls + 1
  /\ UNCHANGED <<keyOf, tries, nap, workerVars, clockVars, shown, errors>>

Due(u) == call[u] = "sleeping" /\ nap[u] = 0

\* The wrapper enqueues its own text again.  Sleeps of one length end in the
\* order they began, which for one key is the order of the calls.
Retry(u) ==
  /\ Due(u)
  /\ \A v \in Call : Due(v) /\ keyOf[v] = keyOf[u] /\ tries[v] = tries[u] => u <= v
  /\ call' = [call EXCEPT ![u] = "waiting"]
  /\ Put(u, keyOf[u])
  /\ UNCHANGED <<calls, keyOf, tries, nap, workerVars, clockVars, shown, errors>>

-----------------------------------------------------------------------------
(* _worker *)

\* A slip in _worker: the pause is not looked at
TakeIgnoresPause(k) ==
  /\ heldFunc' = func[k]
  /\ heldFutures' = futures[k]
  /\ worker' = "acquiring"

TakeEntry(k) ==
  /\ heldFunc' = func[k]
  /\ heldFutures' = futures[k]
  /\ worker' = IF pause > 0 THEN "pausing" ELSE "acquiring"

Take ==
  /\ worker = "idle"
  /\ queueList # <<>>
  /\ LET k == Head(queueList)
     IN  /\ TakeEntry(k)
         /\ func' = [func EXCEPT ![k] = 0]
         /\ futures' = [futures EXCEPT ![k] = {}]
  /\ queueList' = Tail(queueList)
  /\ UNCHANGED <<callVars, clockVars, shown, errors>>

PauseOver ==
  /\ worker = "pausing"
  /\ pause = 0
  /\ worker' = "acquiring"
  /\ UNCHANGED <<callVars, queueVars, heldFunc, heldFutures, clockVars, shown, errors>>

Acquire ==
  /\ worker = "acquiring"
  /\ SlotFree(times)
  /\ times' = Acquired(times)
  /\ starts' = Append(starts, 0)
  /\ worker' = "sending"
  /\ UNCHANGED <<callVars, queueVars, heldFunc, heldFutures, pause, shown, errors>>

Release ==
  /\ worker' = "idle"
  /\ heldFunc' = 0
  /\ heldFutures' = {}

SendSucceeds ==
  /\ worker = "sending"
  /\ call' = [u \in Call |-> IF u \in heldFutures THEN "done" ELSE call[u]]
  /\ shown' = [shown EXCEPT ![keyOf[heldFunc]] = heldFunc]
  /\ Release
  /\ UNCHANGED <<calls, keyOf, tries, nap, queueVars, clockVars, errors>>

\* A slip in what the callers do with an exception: it is not handed to the
\* futures.
RaiseNothing(u, transient) == "waiting"

\* fire_and_forget's wrapper retries a transient error; enqueue only raises.
Raise(u, transient) ==
  IF transient /\ keyOf[u] \in Edits /\ tries[u] < MaxRetries
  THEN "sleeping" ELSE "failed"

\* The platform call raises.  A flood error pauses the worker; a connection
\* may also break after the platform has applied the text.
SendFails(kind, applied) ==
  /\ worker = "sending"
  /\ errors < MaxErrors
  /\ errors' = errors + 1
  /\ applied => kind = "transient"
  /\ call' = [u \in Call |-> IF u \in heldFutures THEN Raise(u, kind = "transient") ELSE call[u]]
  /\ LET asleep == {u \in heldFutures : call'[u] = "sleeping"}
     IN  /\ tries' = [u \in Call |-> IF u \in asleep THEN tries[u] + 1 ELSE tries[u]]
         /\ nap' = [u \in Call |-> IF u \in asleep THEN 2^tries[u] ELSE nap[u]]
  /\ pause' = IF kind = "flood" THEN FloodWait ELSE pause
  /\ shown' = IF applied THEN [shown EXCEPT ![keyOf[heldFunc]] = heldFunc] ELSE shown
  /\ Release
  /\ UNCHANGED <<calls, keyOf, queueVars, times, starts>>

\* shutdown: the worker is cancelled wherever it is, and what it held and
\* what is queued stays unanswered.
Shutdown ==
  /\ worker # "stopped"
  /\ worker' = "stopped"
  /\ UNCHANGED <<callVars, queueVars, heldFunc, heldFutures, clockVars, shown, errors>>

\* A second passes; timers that are due fire first.
Tick ==
  /\ \A u \in Call : ~Due(u)
  /\ \/ pause > 0
     \/ \E u \in Call : nap[u] > 0
     \/ \E i \in DOMAIN times : times[i] < Window
     \/ starts # <<>>
  /\ pause' = IF pause > 0 THEN pause - 1 ELSE 0
  /\ nap' = [u \in Call |-> IF nap[u] > 0 THEN nap[u] - 1 ELSE 0]
  /\ times' = Older(times)
  /\ starts' = Recent(starts)
  /\ UNCHANGED <<calls, keyOf, call, tries, queueVars, workerVars, shown, errors>>

-----------------------------------------------------------------------------
Next ==
  \/ Enqueue
  \/ \E u \in Call : Retry(u)
  \/ Take
  \/ PauseOver
  \/ Acquire
  \/ SendSucceeds
  \/ \E kind \in {"flood", "transient", "other"}, applied \in BOOLEAN : SendFails(kind, applied)
  \/ Shutdown
  \/ Tick

Spec == Init /\ [][Next]_vars

\* The event loop runs what is ready, time passes, and a platform call
\* returns or raises.
Fairness ==
  /\ WF_vars(Take)
  /\ WF_vars(PauseOver)
  /\ WF_vars(Acquire)
  /\ WF_vars(SendSucceeds)
  /\ WF_vars(Tick)
  /\ \A u \in Call : WF_vars(Retry(u))

FairSpec == Spec /\ Fairness

-----------------------------------------------------------------------------
(* Properties *)

\* Fewer than a window apart, no more than Rate sends are begun.
\* (rate_limit.py: "at most rate_limit acquisitions in any interval of length
\* rate_window")
NoBurst == Len(starts) <= Rate

\* A call that waits has its future in one place: queued under its key or in
\* the worker's hands.  No replacement of a text loses a waiting call.
\* (_enqueue_internal_multi extends the list of futures)
WaitingIsHeld ==
  \A u \in Call : call[u] = "waiting" <=>
    (u \in futures[keyOf[u]]) # (u \in heldFutures)

\* No send is begun while a flood wait lasts.
\* (_worker: "Check for manual pause (FloodWait)")
FloodWaitIsKept ==
  [][worker # "sending" /\ worker' = "sending" => pause = 0]_vars

MadeTo(k) == {u \in 1..calls : keyOf[u] = k}
Latest(k) == CHOOSE u \in MadeTo(k) : \A v \in MadeTo(k) : v <= u
QuietKey(k) == MadeTo(k) # {} /\ \A u \in MadeTo(k) : call[u] \in {"done", "failed"}

\* When a key is quiet and none of its calls was retried, the chat shows the
\* text of its last call, provided that one was sent. (task compaction)
QuietShowsLatest ==
  \A k \in Key :
    /\ QuietKey(k)
    /\ call[Latest(k)] = "done"
    /\ \A u \in MadeTo(k) : tries[u] = 0
    => shown[k] = Latest(k)

\* Every call is answered, unless the limiter is shut down.
\* (enqueue: "return its future result")
EveryCallAnswered ==
  \A u \in Call : call[u] = "waiting" ~> call[u] \in {"done", "failed"} \/ worker = "stopped"
=============================================================================

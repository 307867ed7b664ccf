--------------------------- MODULE ChatSideProofs ---------------------------
(***************************************************************************)
(* The two ends of the user's chat (ChatSide).  The rate limiter for any   *)
(* number of calls, keys and errors and every rate, window and flood wait: *)
(* no waiting call is forgotten, no burst is sent, a flood wait is kept,   *)
(* and the last of several texts is the one that stays.  The adapters for  *)
(* any number of messages and /clear commands: a cancelled voice note      *)
(* never runs, and a prompt that runs has its status in the chat.          *)
(***************************************************************************)
EXTENDS ChatSide, SlidingWindowProofs

-----------------------------------------------------------------------------
(* Where the futures are *)

CallState == {"none", "waiting", "sleeping", "done", "failed"}

FutureTypes ==
  /\ calls \in Nat
  /\ keyOf \in [Call -> Key]
  /\ call \in [Call -> CallState]
  /\ futures \in [Key -> SUBSET Call]
  /\ heldFutures \in SUBSET Call

\* A call is queued under its own key, and a call not yet made is nowhere.
QueuedUnderOwnKey == \A k \in Key : \A u \in futures[k] : keyOf[u] = k
UnmadeIsNone == \A u \in Call : u > calls => call[u] = "none"

\* Whoever is queued or held waits, and the worker holds nothing while it
\* looks for work.
NotBoth == \A u \in Call : ~(u \in futures[keyOf[u]] /\ u \in heldFutures)
IdleHoldsNothing == worker = "idle" => heldFutures = {}

FutureInv ==
  /\ FutureTypes
  /\ QueuedUnderOwnKey
  /\ UnmadeIsNone
  /\ NotBoth
  /\ IdleHoldsNothing
  /\ WaitingIsHeld

LEMMA FutureInit == Init => FutureInv
<1> SUFFICES ASSUME Init PROVE FutureInv
  OBVIOUS
<1>1. FutureTypes
  BY DEF Init, FutureTypes, CallState, Keying
<1>2. WaitingIsHeld
  BY <1>1 DEF Init, FutureTypes, WaitingIsHeld
<1> QED BY <1>1, <1>2 DEF Init, FutureInv, QueuedUnderOwnKey, UnmadeIsNone, NotBoth,
                          IdleHoldsNothing, FutureTypes

\* A call that was neither queued nor held is queued and waits.
LEMMA PutStep ==
  ASSUME FutureInv, NEW u \in Call, call[u] # "waiting",
         call' = [call EXCEPT ![u] = "waiting"], Put(u, keyOf[u]),
         UNCHANGED <<keyOf, worker, heldFutures>>,
         calls' \in Nat, calls' >= calls, u <= calls'
  PROVE  FutureInv'
<1> USE DEF FutureInv, FutureTypes
<1>1. u \notin futures[keyOf[u]] /\ u \notin heldFutures
  BY DEF WaitingIsHeld, NotBoth
<1>2. \A k \in Key : futures'[k] = IF k = keyOf[u] THEN futures[k] \cup {u} ELSE futures[k]
  BY DEF Put
<1>3. \A v \in Call : call'[v] = IF v = u THEN "waiting" ELSE call[v]
  OBVIOUS
<1>4. FutureTypes'
  <2>1. futures' \in [Key -> SUBSET Call]
    BY DEF Put
  <2>2. call' \in [Call -> CallState]
    BY DEF CallState
  <2> QED BY <2>1, <2>2
<1>5. QueuedUnderOwnKey'
  <2> SUFFICES ASSUME NEW k \in Key, NEW v \in futures'[k]
               PROVE  keyOf'[v] = k
    BY DEF QueuedUnderOwnKey
  <2>1. keyOf' = keyOf
    OBVIOUS
  <2>2. \A w \in futures[k] : keyOf[w] = k
    BY DEF QueuedUnderOwnKey
  <2>3. futures'[k] = IF k = keyOf[u] THEN futures[k] \cup {u} ELSE futures[k]
    BY <1>2
  <2> HIDE DEF FutureInv, FutureTypes
  <2>4. v \in futures[k] \/ (k = keyOf[u] /\ v = u)
    BY <2>3
  <2> QED BY <2>1, <2>2, <2>4
<1>6. UnmadeIsNone'
  BY <1>3 DEF UnmadeIsNone, Call
<1>7. \A v \in Call : keyOf[v] \in Key /\ (v # u => (v \in futures'[keyOf[v]] <=> v \in futures[keyOf[v]]))
  BY <1>2
<1>8. u \in futures'[keyOf[u]]
  BY <1>2
<1>9. NotBoth'
  BY <1>1, <1>7 DEF NotBoth
<1>10. WaitingIsHeld'
  BY <1>1, <1>3, <1>7, <1>8 DEF WaitingIsHeld
<1> QED BY <1>4, <1>5, <1>6, <1>9, <1>10 DEF IdleHoldsNothing

\* What the worker held is answered.
LEMMA AnswerStep ==
  ASSUME FutureInv, call' \in [Call -> CallState],
         \A u \in Call : IF u \in heldFutures THEN call'[u] \notin {"none", "waiting"}
                         ELSE call'[u] = call[u],
         heldFutures' = {}, UNCHANGED <<calls, keyOf, futures>>
  PROVE  FutureInv'
<1> USE DEF FutureInv, FutureTypes
<1>1. \A u \in heldFutures : call[u] = "waiting" /\ u \notin futures[keyOf[u]]
  BY DEF NotBoth, WaitingIsHeld
<1>2. UnmadeIsNone'
  BY <1>1 DEF UnmadeIsNone
<1>3. WaitingIsHeld'
  BY <1>1 DEF WaitingIsHeld
<1> QED BY <1>2, <1>3 DEF QueuedUnderOwnKey, NotBoth, IdleHoldsNothing

\* The worker takes over the futures of a key.
LEMMA TakeStep ==
  ASSUME FutureInv, NEW k \in Key, worker = "idle",
         heldFutures' = futures[k], futures' = [futures EXCEPT ![k] = {}],
         worker' # "idle", UNCHANGED <<calls, keyOf, call>>
  PROVE  FutureInv'
<1> USE DEF FutureInv, FutureTypes
<1>1. heldFutures = {}
  BY DEF IdleHoldsNothing
<1>2. \A l \in Key : futures'[l] = IF l = k THEN {} ELSE futures[l]
  OBVIOUS
<1>3. \A u \in Call : /\ keyOf[u] \in Key
                      /\ u \in futures[k] => keyOf[u] = k
  BY DEF QueuedUnderOwnKey
<1>4. NotBoth'
  BY <1>2, <1>3 DEF NotBoth
<1>5. \A u \in Call : (u \in futures'[keyOf[u]] \/ u \in heldFutures') <=> u \in futures[keyOf[u]]
  BY <1>2, <1>3
<1>6. WaitingIsHeld'
  BY <1>1, <1>4, <1>5 DEF WaitingIsHeld, NotBoth
<1>7. QueuedUnderOwnKey'
  BY <1>2 DEF QueuedUnderOwnKey
<1>8. FutureTypes'
  <2>1. futures' \in [Key -> SUBSET Call]
    BY <1>2
  <2> QED BY <2>1
<1> QED BY <1>4, <1>6, <1>7, <1>8 DEF UnmadeIsNone, IdleHoldsNothing

LEMMA FutureStep == FutureInv /\ queueList \in Seq(Key) /\ [Next]_vars => FutureInv'
<1> SUFFICES ASSUME FutureInv, queueList \in Seq(Key), [Next]_vars PROVE FutureInv'
  OBVIOUS
<1>1. CASE Enqueue
  <2> DEFINE u == calls + 1
  <2>1. u \in Call /\ u > calls /\ calls \in Nat
    BY <1>1, LimiterBoundsAreNats DEF Enqueue, FutureInv, FutureTypes, Call
  <2>2. call[u] = "none"
    BY <2>1 DEF FutureInv, UnmadeIsNone
  <2>3. /\ call' = [call EXCEPT ![u] = "waiting"]
        /\ Put(u, keyOf[u])
        /\ calls' = u
        /\ UNCHANGED <<keyOf, worker, heldFutures>>
    BY <1>1 DEF Enqueue, workerVars
  <2> HIDE DEF u
  <2>4. calls' \in Nat /\ calls' >= calls /\ u <= calls'
    BY <2>1, <2>3 DEF u
  <2> QED BY <2>1, <2>2, <2>3, <2>4, PutStep
<1>2. ASSUME NEW u \in Call, Retry(u)
      PROVE  FutureInv'
  <2>1. call[u] = "sleeping" /\ calls' = calls /\ calls \in Nat
    BY <1>2 DEF Retry, Due, FutureInv, FutureTypes
  <2>2. u <= calls
    BY <2>1 DEF FutureInv, UnmadeIsNone, Call
  <2>3. /\ call[u] # "waiting"
        /\ call' = [call EXCEPT ![u] = "waiting"]
        /\ Put(u, keyOf[u])
        /\ UNCHANGED <<keyOf, worker, heldFutures>>
    BY <1>2, <2>1 DEF Retry, workerVars
  <2>4. calls' \in Nat /\ calls' >= calls /\ u <= calls'
    BY <2>1, <2>2
  <2> QED BY <2>3, <2>4, PutStep
<1>3. CASE Take
  <2>1. Head(queueList) \in Key
    BY <1>3 DEF Take
  <2>2. /\ heldFutures' = futures[Head(queueList)]
        /\ futures' = [futures EXCEPT ![Head(queueList)] = {}]
        /\ worker = "idle" /\ worker' # "idle"
        /\ UNCHANGED <<calls, keyOf, call>>
    BY <1>3 DEF Take, TakeEntry, callVars
  <2> QED BY <2>1, <2>2, TakeStep
<1>4. CASE SendSucceeds
  <2>1. /\ \A u \in Call : call'[u] = IF u \in heldFutures THEN "done" ELSE call[u]
        /\ call' \in [Call -> CallState]
    BY <1>4 DEF SendSucceeds, FutureInv, FutureTypes, CallState
  <2> QED BY <1>4, <2>1, AnswerStep DEF SendSucceeds, Release, queueVars
<1>5. ASSUME NEW kind \in {"flood", "transient", "other"}, NEW applied \in BOOLEAN,
             SendFails(kind, applied)
      PROVE  FutureInv'
  <2>1. \A u \in Call : Raise(u, kind = "transient") \in {"sleeping", "failed"}
    BY DEF Raise
  <2>2. call' = [u \in Call |-> IF u \in heldFutures THEN Raise(u, kind = "transient") ELSE call[u]]
    BY <1>5 DEF SendFails
  <2>3. /\ \A u \in Call : IF u \in heldFutures THEN call'[u] \notin {"none", "waiting"}
                           ELSE call'[u] = call[u]
        /\ call' \in [Call -> CallState]
    <3> HIDE DEF FutureInv
    <3>1. \A u \in Call : call[u] \in CallState
      BY DEF FutureInv, FutureTypes
    <3>2. \A u \in Call : (IF u \in heldFutures THEN Raise(u, kind = "transient") ELSE call[u]) \in CallState
      BY <2>1, <3>1 DEF CallState
    <3> QED BY <2>1, <2>2, <3>2
  <2> QED BY <1>5, <2>3, AnswerStep DEF SendFails, Release, queueVars
<1>6. ASSUME UNCHANGED <<calls, keyOf, call, futures, heldFutures>>,
             worker' = "idle" => worker = "idle"
      PROVE  FutureInv'
  BY <1>6 DEF FutureInv, FutureTypes, QueuedUnderOwnKey, UnmadeIsNone, NotBoth,
              IdleHoldsNothing, WaitingIsHeld
<1>7. CASE PauseOver \/ Acquire \/ Shutdown \/ Tick \/ UNCHANGED vars
  BY <1>6, <1>7 DEF PauseOver, Acquire, Shutdown, Tick, vars, callVars, queueVars, workerVars
<1> QED BY <1>1, <1>2, <1>3, <1>4, <1>5, <1>7 DEF Next

LEMMA QueueTypeStep ==
  /\ Init => queueList \in Seq(Key)
  /\ FutureInv /\ queueList \in Seq(Key) /\ [Next]_vars => queueList' \in Seq(Key)
<1>1. Init => queueList \in Seq(Key)
  BY DEF Init
<1>2. ASSUME FutureInv, queueList \in Seq(Key), [Next]_vars
      PROVE  queueList' \in Seq(Key)
  <2>1. ASSUME NEW u \in Call, Put(u, keyOf[u])
        PROVE  queueList' \in Seq(Key)
    <3>1. keyOf[u] \in Key
      BY <1>2 DEF FutureInv, FutureTypes
    <3> QED BY <1>2, <2>1, <3>1 DEF Put
  <2>2. CASE Enqueue
    <3>1. calls + 1 \in Call
      BY <2>2, LimiterBoundsAreNats, <1>2 DEF Enqueue, FutureInv, FutureTypes, Call
    <3> QED BY <2>1, <2>2, <3>1 DEF Enqueue
  <2>3. ASSUME NEW u \in Call, Retry(u)
        PROVE  queueList' \in Seq(Key)
    BY <2>1, <2>3 DEF Retry
  <2>4. CASE Take
    BY <1>2, <2>4 DEF Take
  <2>5. CASE \/ PauseOver \/ Acquire \/ SendSucceeds \/ Shutdown \/ Tick \/ UNCHANGED vars
             \/ \E kind \in {"flood", "transient", "other"}, applied \in BOOLEAN :
                  SendFails(kind, applied)
    BY <1>2, <2>5 DEF PauseOver, Acquire, SendSucceeds, Shutdown, Tick, SendFails, vars, queueVars
  <2> QED BY <1>2, <2>2, <2>3, <2>4, <2>5 DEF Next
<1> QED BY <1>1, <1>2

\* A call that waits has its future in one place, queued or in the worker's
\* hands, however calls, replacements, retries and failures interleave
\* (_enqueue_internal_multi, _worker).
THEOREM NoCallIsForgotten == Spec => []WaitingIsHeld
<1> DEFINE I == FutureInv /\ queueList \in Seq(Key)
<1>1. Init => I
  BY FutureInit, QueueTypeStep
<1>2. I /\ [Next]_vars => I'
  BY FutureStep, QueueTypeStep
<1>3. I => WaitingIsHeld
  BY DEF FutureInv
<1> HIDE DEF I
<1> QED BY <1>1, <1>2, <1>3, PTL DEF Spec

-----------------------------------------------------------------------------
(* The window and the flood wait *)

StartsInv == InWindow(times, starts)

LEMMA StartsStep == StartsInv /\ [Next]_vars => StartsInv'
<1> SUFFICES ASSUME StartsInv, [Next]_vars PROVE StartsInv'
  OBVIOUS
<1>1. CASE Acquire
  BY <1>1, AcquireStep DEF Acquire, StartsInv
<1>2. CASE Tick
  BY <1>2, AgeStep DEF Tick, StartsInv
<1>3. CASE UNCHANGED <<times, starts>>
  BY <1>3 DEF StartsInv
<1>4. CASE Enqueue \/ Take \/ PauseOver \/ SendSucceeds \/ Shutdown \/ UNCHANGED vars
  BY <1>3, <1>4 DEF Enqueue, Take, PauseOver, SendSucceeds, Shutdown, vars, clockVars
<1>5. CASE \/ \E u \in Call : Retry(u)
           \/ \E kind \in {"flood", "transient", "other"}, applied \in BOOLEAN :
                SendFails(kind, applied)
  BY <1>3, <1>5 DEF Retry, SendFails, clockVars
<1> QED BY <1>1, <1>2, <1>4, <1>5 DEF Next

\* No interval of the window's length sees more than Rate sends begin, for
\* every rate and window.
\* (rate_limit.py: "at most rate_limit acquisitions in any interval of length
\* rate_window")
THEOREM BurstsAreBounded == Spec => []NoBurst
<1>1. Init => StartsInv
  <2> SUFFICES ASSUME Init PROVE StartsInv
    OBVIOUS
  <2>1. times = <<>> /\ starts = <<>> /\ <<>> \in Log /\ Len(<<>>) = 0
    BY DEF Init, Log
  <2>2. Covers(<<>>, <<>>, 0)
    BY <2>1 DEF Covers
  <2> QED BY <2>1, <2>2, RateIsPositive DEF StartsInv, InWindow
<1>2. StartsInv => NoBurst
  BY DEF StartsInv, InWindow, NoBurst
<1> QED BY <1>1, <1>2, StartsStep, PTL DEF Spec

\* The worker that is past its look at the pause finds none.
PauseInv == worker \in {"acquiring", "sending"} => pause = 0

LEMMA PauseStep ==
  ASSUME PauseInv, pause \in Nat, [Next]_vars
  PROVE  /\ PauseInv' /\ pause' \in Nat
         /\ worker # "sending" /\ worker' = "sending" => pause = 0
<1>1. CASE Enqueue \/ PauseOver \/ SendSucceeds \/ Shutdown \/ Acquire \/ UNCHANGED vars
  BY <1>1 DEF Enqueue, PauseOver, SendSucceeds, Shutdown, Acquire, Release, vars, workerVars,
              clockVars, PauseInv
<1>2. CASE Take
  BY <1>2 DEF Take, TakeEntry, clockVars, PauseInv
<1>3. CASE Tick
  BY <1>3 DEF Tick, workerVars, PauseInv
<1>4. CASE \/ \E u \in Call : Retry(u)
           \/ \E kind \in {"flood", "transient", "other"}, applied \in BOOLEAN :
                SendFails(kind, applied)
  BY <1>4, LimiterBoundsAreNats DEF Retry, SendFails, Release, workerVars, clockVars, PauseInv
<1> QED BY <1>1, <1>2, <1>3, <1>4 DEF Next

\* No send begins while a flood wait lasts.
\* (_worker: "Check for manual pause (FloodWait)")
THEOREM PausesAreKept == Spec => FloodWaitIsKept
<1> DEFINE I == PauseInv /\ pause \in Nat
<1>1. Init => I
  BY DEF Init, PauseInv
<1>2. I /\ [Next]_vars => I' /\ (worker # "sending" /\ worker' = "sending" => pause = 0)
  BY PauseStep
<1> HIDE DEF I
<1> QED BY <1>1, <1>2, PTL DEF Spec, FloodWaitIsKept

-----------------------------------------------------------------------------
(* Which text is shown *)

TextTypes ==
  /\ calls \in 0..MaxCalls
  /\ queueList \in Seq(Key)
  /\ func \in [Key -> Nat]
  /\ heldFunc \in Nat
  /\ tries \in [Call -> Nat]
  /\ shown \in [Key -> Nat]

\* A key is queued once, with a text that belongs to it; the worker at work
\* holds a text; and whoever sleeps has tried.
QueueInOrder ==
  /\ \A i \in DOMAIN queueList : func[queueList[i]] # 0
  /\ \A i, j \in DOMAIN queueList : queueList[i] = queueList[j] => i = j
TextUnderOwnKey == \A k \in Key : func[k] # 0 => func[k] \in Call /\ keyOf[func[k]] = k
AtWork == worker \in {"pausing", "acquiring", "sending"}
WorkerHoldsText == AtWork => heldFunc \in Call
SleepersTried == \A u \in Call : call[u] = "sleeping" => tries[u] > 0

Newest(u) == u \in 1..calls /\ \A v \in 1..calls : keyOf[v] = keyOf[u] => v <= u
Untried(k) == \A u \in 1..calls : keyOf[u] = k => tries[u] = 0

HasNewest == \A k \in Key : MadeTo(k) # {} => \E u \in MadeTo(k) : Newest(u)

\* While no call for its key was retried, the newest call is queued and held
\* along with its own text, and when it is done nothing is left to send.
NewestInForce(u) ==
  /\ func[keyOf[u]] # 0 => u \in futures[keyOf[u]]
  /\ u \in futures[keyOf[u]] => func[keyOf[u]] = u
  /\ u \in heldFutures => heldFunc = u
  /\ call[u] = "done" => /\ shown[keyOf[u]] = u
                         /\ func[keyOf[u]] = 0
                         /\ AtWork => keyOf[heldFunc] # keyOf[u]
NewestInv == \A u \in Call : Newest(u) /\ Untried(keyOf[u]) => NewestInForce(u)

TextInv ==
  /\ FutureInv /\ TextTypes
  /\ QueueInOrder /\ TextUnderOwnKey /\ WorkerHoldsText /\ SleepersTried
  /\ HasNewest /\ NewestInv

LEMMA TextInit == Init => TextInv
<1> SUFFICES ASSUME Init PROVE TextInv
  OBVIOUS
<1>1. FutureInv
  BY FutureInit
<1>2. TextTypes /\ QueueInOrder
  BY LimiterBoundsAreNats DEF Init, TextTypes, QueueInOrder
<1>3. TextUnderOwnKey /\ WorkerHoldsText /\ SleepersTried
  BY DEF Init, TextUnderOwnKey, WorkerHoldsText, AtWork, SleepersTried
<1>4. ASSUME NEW u \in 1..calls PROVE FALSE
  BY <1>4 DEF Init
<1>5. HasNewest /\ NewestInv
  BY <1>4 DEF HasNewest, MadeTo, NewestInv, Newest
<1> QED BY <1>1, <1>2, <1>3, <1>5 DEF TextInv

\* The queue after a call for key k.
LEMMA PutInOrder ==
  ASSUME TextTypes, QueueInOrder, NEW u \in Nat, u # 0, NEW k \in Key, Put(u, k)
  PROVE  QueueInOrder' /\ queueList' \in Seq(Key)
<1> DEFINE n == Len(queueList)
<1>1. queueList \in Seq(Key) /\ n \in Nat /\ DOMAIN queueList = 1..n
  BY DEF TextTypes
<1>2. \A l \in Key : func'[l] = IF l = k THEN u ELSE func[l]
  BY DEF Put, TextTypes
<1>3. \A i \in 1..n : queueList[i] \in Key /\ func[queueList[i]] # 0
  BY <1>1 DEF QueueInOrder
<1>4. CASE func[k] # 0
  <2>1. queueList' = queueList
    BY <1>4 DEF Put
  <2> QED BY <1>1, <1>2, <1>3, <2>1 DEF QueueInOrder
<1>5. CASE func[k] = 0
  <2>1. queueList' = Append(queueList, k)
    BY <1>5 DEF Put
  <2>2. /\ queueList' \in Seq(Key) /\ DOMAIN queueList' = 1..(n + 1)
        /\ queueList'[n + 1] = k
        /\ \A i \in 1..n : queueList'[i] = queueList[i]
    BY <1>1, <2>1
  <2> HIDE DEF n
  <2>3. \A i \in 1..(n + 1) : i \in 1..n \/ i = n + 1
    BY <1>1
  <2>4. \A i \in 1..n : queueList[i] # k
    BY <1>3, <1>5
  <2>5. \A i \in DOMAIN queueList' : func'[queueList'[i]] # 0
    BY <1>2, <1>3, <2>2, <2>3
  <2>6. \A i, j \in DOMAIN queueList' : queueList'[i] = queueList'[j] => i = j
    BY <1>1, <2>2, <2>3, <2>4 DEF QueueInOrder
  <2> QED BY <2>2, <2>5, <2>6 DEF QueueInOrder
<1> QED BY <1>4, <1>5

\* A call is queued: it is the newest for its key, or it was tried before.
LEMMA TextPut ==
  ASSUME TextInv, FutureInv', NEW u \in Call, call[u] # "waiting",
         call' = [call EXCEPT ![u] = "waiting"], Put(u, keyOf[u]),
         UNCHANGED <<keyOf, tries, worker, heldFunc, heldFutures, shown>>, calls' \in 0..MaxCalls,
         \A v \in Call : Newest(v)' /\ Untried(keyOf[v])' =>
           v = u \/ (keyOf[v] # keyOf[u] /\ Newest(v) /\ Untried(keyOf[v])),
         HasNewest'
  PROVE  TextInv'
<1> USE DEF TextInv
<1> DEFINE k == keyOf[u]
<1>1. k \in Key /\ u \in Nat /\ u # 0
  BY DEF FutureInv, FutureTypes, Call
<1>2. u \notin futures[k] /\ u \notin heldFutures
  BY DEF FutureInv, WaitingIsHeld, NotBoth
<1>3. QueueInOrder' /\ queueList' \in Seq(Key)
  BY <1>1, PutInOrder
<1>4. \A l \in Key : /\ func'[l] = IF l = k THEN u ELSE func[l]
                     /\ futures'[l] = IF l = k THEN futures[k] \cup {u} ELSE futures[l]
  BY DEF Put, TextTypes, FutureInv, FutureTypes
<1>5. TextTypes'
  BY <1>1, <1>3 DEF TextTypes, Put
<1>6. TextUnderOwnKey'
  BY <1>1, <1>4 DEF TextUnderOwnKey
<1>7. \A v \in Call : call'[v] = IF v = u THEN "waiting" ELSE call[v]
  BY DEF FutureInv, FutureTypes
<1>8. WorkerHoldsText' /\ SleepersTried'
  BY <1>7 DEF WorkerHoldsText, AtWork, SleepersTried
<1>9. ASSUME NEW v \in Call, Newest(v)', Untried(keyOf[v])'
      PROVE  NewestInForce(v)'
  <2>1. CASE v = u
    BY <1>1, <1>2, <1>4, <1>7, <2>1 DEF NewestInForce
  <2>2. CASE keyOf[v] # k /\ Newest(v) /\ Untried(keyOf[v])
    <3>1. keyOf[v] \in Key
      BY DEF FutureInv, FutureTypes
    <3>2. func'[keyOf[v]] = func[keyOf[v]] /\ futures'[keyOf[v]] = futures[keyOf[v]]
      BY <1>4, <2>2, <3>1
    <3>3. call'[v] = call[v]
      BY <1>7, <2>2
    <3>4. NewestInForce(v)
      BY <2>2 DEF NewestInv
    <3> QED BY <3>2, <3>3, <3>4 DEF NewestInForce, AtWork
  <2> QED BY <1>9, <2>1, <2>2
<1>10. NewestInv'
  BY <1>9 DEF NewestInv
<1> QED BY <1>3, <1>5, <1>6, <1>8, <1>10

LEMMA MadeAreCalls ==
  ASSUME TextTypes
  PROVE  calls \in Nat /\ \A u \in 1..calls : u \in Call /\ u \in Nat
BY LimiterBoundsAreNats DEF TextTypes, Call

LEMMA SameCalls ==
  ASSUME UNCHANGED <<calls, keyOf>>
  PROVE  /\ HasNewest => HasNewest'
         /\ \A u \in Call : Newest(u)' <=> Newest(u)
         /\ tries' = tries => \A k \in Key : Untried(k)' <=> Untried(k)
BY DEF HasNewest, MadeTo, Newest, Untried

\* The worker takes a text along with the futures of its key.
LEMMA TextTake ==
  ASSUME TextInv, FutureInv', Take
  PROVE  TextInv'
<1> USE DEF TextInv
<1> DEFINE k == Head(queueList)
           n == Len(queueList)
<1>1. /\ queueList \in Seq(Key) /\ queueList # <<>> /\ k \in Key
      /\ n \in Nat /\ n >= 1 /\ k = queueList[1]
      /\ DOMAIN queueList = 1..n
  BY DEF Take, TextTypes
<1>2. /\ queueList' \in Seq(Key) /\ DOMAIN queueList' = 1..(n - 1)
      /\ \A i \in 1..(n - 1) : i + 1 \in 1..n /\ queueList'[i] = queueList[i + 1]
  BY <1>1 DEF Take
<1>3. /\ heldFunc' = func[k] /\ heldFutures' = futures[k]
      /\ func' = [func EXCEPT ![k] = 0] /\ futures' = [futures EXCEPT ![k] = {}]
      /\ UNCHANGED <<calls, keyOf, call, tries, shown>>
  BY DEF Take, TakeEntry, callVars
<1>4. func[k] # 0
  BY <1>1 DEF QueueInOrder
<1>5. func[k] \in Call /\ keyOf[func[k]] = k
  BY <1>1, <1>4 DEF TextUnderOwnKey
<1>6. \A l \in Key : /\ func'[l] = IF l = k THEN 0 ELSE func[l]
                     /\ futures'[l] = IF l = k THEN {} ELSE futures[l]
  BY <1>1, <1>3 DEF TextTypes, FutureInv, FutureTypes
<1> HIDE DEF k, n
<1>7. QueueInOrder'
  <2>1. \A i, j \in 1..n : queueList[i] = queueList[j] => i = j
    BY <1>1 DEF QueueInOrder
  <2>2. \A i \in 1..n : queueList[i] \in Key /\ func[queueList[i]] # 0
    BY <1>1 DEF QueueInOrder
  <2>3. ASSUME NEW i \in 1..(n - 1)
        PROVE  queueList'[i] \in Key /\ queueList'[i] # k /\ func[queueList'[i]] # 0
    <3>1. i + 1 \in 1..n /\ 1 \in 1..n /\ i + 1 # 1 /\ queueList'[i] = queueList[i + 1]
      BY <1>1, <1>2
    <3>2. queueList[i + 1] # queueList[1]
      BY <2>1, <3>1
    <3> QED BY <1>1, <2>2, <3>1, <3>2
  <2>4. ASSUME NEW i \in 1..(n - 1), NEW j \in 1..(n - 1), queueList'[i] = queueList'[j]
        PROVE  i = j
    <3>1. /\ i + 1 \in 1..n /\ queueList'[i] = queueList[i + 1]
          /\ j + 1 \in 1..n /\ queueList'[j] = queueList[j + 1]
      BY <1>2
    <3>2. i + 1 = j + 1
      BY <2>1, <2>4, <3>1
    <3> QED BY <1>1, <3>2
  <2> QED BY <1>2, <1>6, <2>3, <2>4 DEF QueueInOrder
<1>8. TextTypes'
  BY <1>1, <1>2, <1>3 DEF TextTypes
<1>9. TextUnderOwnKey'
  BY <1>3, <1>6 DEF TextUnderOwnKey
<1>10. WorkerHoldsText' /\ SleepersTried'
  BY <1>3, <1>5 DEF WorkerHoldsText, SleepersTried
<1>11. HasNewest'
  BY <1>3, SameCalls
<1>12. ASSUME NEW u \in Call, Newest(u)', Untried(keyOf[u])'
       PROVE  NewestInForce(u)'
  <2>1. keyOf[u] \in Key
    BY DEF FutureInv, FutureTypes
  <2>2. NewestInForce(u)
    BY <1>3, <1>12, <2>1, SameCalls DEF NewestInv
  <2>3. CASE keyOf[u] = k
    <3>1. func'[keyOf[u]] = 0 /\ futures'[keyOf[u]] = {}
      BY <1>6, <2>1, <2>3
    <3>2. call[u] # "done"
      BY <1>4, <2>2, <2>3 DEF NewestInForce
    <3> QED BY <1>3, <2>2, <2>3, <3>1, <3>2 DEF NewestInForce
  <2>4. CASE keyOf[u] # k
    <3>1. func'[keyOf[u]] = func[keyOf[u]] /\ futures'[keyOf[u]] = futures[keyOf[u]]
      BY <1>6, <2>1, <2>4
    <3>2. u \notin heldFutures'
      BY <1>1, <1>3, <2>4 DEF FutureInv, QueuedUnderOwnKey
    <3>3. keyOf[heldFunc'] # keyOf[u]
      BY <1>3, <1>5, <2>4
    <3> QED BY <1>3, <2>2, <3>1, <3>2, <3>3 DEF NewestInForce
  <2> QED BY <2>3, <2>4
<1>13. NewestInv'
  BY <1>12 DEF NewestInv
<1> QED BY <1>7, <1>8, <1>9, <1>10, <1>11, <1>13

\* A send ends: what was held is answered, and what was sent may be shown.
LEMMA TextSent ==
  ASSUME TextInv, FutureInv', AtWork, worker' = "idle", heldFunc' = 0, heldFutures' = {},
         UNCHANGED <<calls, keyOf, queueList, func, futures>>,
         tries' \in [Call -> Nat], \A u \in Call : tries'[u] >= tries[u], SleepersTried',
         \/ /\ shown' = [shown EXCEPT ![keyOf[heldFunc]] = heldFunc]
            /\ \A u \in Call : call'[u] = "done" => call[u] = "done" \/ u \in heldFutures
         \/ /\ shown' = shown
            /\ \A u \in Call : call'[u] = "done" => call[u] = "done"
  PROVE  TextInv'
<1> USE DEF TextInv
<1> DEFINE sent == keyOf[heldFunc]
<1>1. heldFunc \in Call /\ heldFunc \in Nat /\ sent \in Key
  BY DEF WorkerHoldsText, TextTypes, FutureInv, FutureTypes
<1>2. \A k \in Key : shown'[k] = shown[k] \/ (k = sent /\ shown'[k] = heldFunc)
  BY <1>1 DEF TextTypes
<1>3. TextTypes'
  BY <1>1 DEF TextTypes
<1>4. QueueInOrder' /\ TextUnderOwnKey'
  BY DEF QueueInOrder, TextUnderOwnKey
<1>5. ~AtWork'
  BY DEF AtWork
<1>6. WorkerHoldsText'
  BY <1>5 DEF WorkerHoldsText
<1>7. HasNewest'
  BY SameCalls
<1>8. ASSUME NEW u \in Call, Newest(u)', Untried(keyOf[u])'
      PROVE  NewestInForce(u)'
  <2>1. keyOf[u] \in Key
    BY DEF FutureInv, FutureTypes
  <2>2. Untried(keyOf[u])
    <3> SUFFICES ASSUME NEW v \in 1..calls, keyOf[v] = keyOf[u]
                 PROVE  tries[v] = 0
      BY DEF Untried
    <3>1. v \in Call /\ tries'[v] = 0
      BY <1>8, MadeAreCalls DEF Untried
    <3> QED BY <3>1 DEF TextTypes
  <2>3. NewestInForce(u)
    BY <1>8, <2>2, SameCalls DEF NewestInv
  <2>4. u \notin heldFutures'
    OBVIOUS
  <2>5. call'[u] = "done" => shown'[keyOf[u]] = u /\ func[keyOf[u]] = 0
    <3>1. CASE call[u] = "done"
      <4>1. keyOf[u] # sent /\ shown[keyOf[u]] = u /\ func[keyOf[u]] = 0
        BY <2>3, <3>1 DEF NewestInForce
      <4> QED BY <1>2, <2>1, <4>1
    <3>2. CASE /\ u \in heldFutures
               /\ shown' = [shown EXCEPT ![sent] = heldFunc]
      <4>1. heldFunc = u /\ sent = keyOf[u]
        BY <2>3, <3>2 DEF NewestInForce
      <4>2. shown'[keyOf[u]] = u
        BY <2>1, <3>2, <4>1 DEF TextTypes
      <4>3. u \notin futures[keyOf[u]]
        BY <3>2 DEF FutureInv, NotBoth
      <4> QED BY <2>3, <4>2, <4>3 DEF NewestInForce
    <3> QED BY <3>1, <3>2
  <2> QED BY <1>5, <2>3, <2>4, <2>5 DEF NewestInForce
<1>9. NewestInv'
  BY <1>8 DEF NewestInv
<1> QED BY <1>3, <1>4, <1>6, <1>7, <1>9

\* Steps that neither queue, take nor send.
LEMMA TextKept ==
  ASSUME TextInv, FutureInv',
         UNCHANGED <<calls, keyOf, call, tries, queueList, func, futures, heldFunc, heldFutures, shown>>,
         AtWork' => AtWork
  PROVE  TextInv'
<1> USE DEF TextInv
<1>1. TextTypes' /\ QueueInOrder' /\ TextUnderOwnKey'
  BY DEF TextTypes, QueueInOrder, TextUnderOwnKey
<1>2. WorkerHoldsText' /\ SleepersTried'
  BY DEF WorkerHoldsText, SleepersTried
<1>3. HasNewest'
  BY SameCalls
<1>4. ASSUME NEW u \in Call, Newest(u)', Untried(keyOf[u])'
      PROVE  NewestInForce(u)'
  <2>1. keyOf[u] \in Key
    BY DEF FutureInv, FutureTypes
  <2>2. NewestInForce(u)
    BY <1>4, <2>1, SameCalls DEF NewestInv
  <2> QED BY <2>2 DEF NewestInForce
<1> QED BY <1>1, <1>2, <1>3, <1>4 DEF NewestInv

LEMMA TextStep == TextInv /\ [Next]_vars => TextInv'
<1> SUFFICES ASSUME TextInv, [Next]_vars PROVE TextInv'
  OBVIOUS
<1> USE DEF TextInv
<1>1. FutureInv'
  BY FutureStep DEF TextTypes
<1>2. CASE Enqueue
  <2>0. PICK u \in Call : u = calls + 1
    BY <1>2, LimiterBoundsAreNats DEF Enqueue, TextTypes, Call
  <2>1. u > calls /\ calls \in Nat /\ u \in Nat /\ u \in 0..MaxCalls
    BY <2>0, LimiterBoundsAreNats DEF TextTypes, Call
  <2>2. call[u] = "none"
    BY <2>1 DEF FutureInv, UnmadeIsNone
  <2>3. /\ call' = [call EXCEPT ![u] = "waiting"]
        /\ Put(u, keyOf[u])
        /\ calls' = u
        /\ UNCHANGED <<keyOf, tries, worker, heldFunc, heldFutures, shown>>
    BY <1>2, <2>0 DEF Enqueue, workerVars
  <2>4. \A v \in 1..calls' : v = u \/ v \in 1..calls
    BY <2>0, <2>1, <2>3
  <2>5. u \in 1..calls' /\ \A v \in 1..calls : v \in 1..calls' /\ v < u
    BY <2>0, <2>1, <2>3
  <2>6. ASSUME NEW v \in Call, Newest(v)', Untried(keyOf[v])', v # u
        PROVE  keyOf[v] # keyOf[u] /\ Newest(v) /\ Untried(keyOf[v])
    <3>1. v \in 1..calls /\ v < u
      BY <2>4, <2>5, <2>6 DEF Newest
    <3>2. keyOf[v] # keyOf[u]
      BY <2>1, <2>3, <2>5, <2>6, <3>1 DEF Newest
    <3>3. Newest(v)
      BY <2>3, <2>5, <2>6, <3>1 DEF Newest
    <3> QED BY <2>3, <2>5, <2>6, <3>2, <3>3 DEF Untried
  <2>7. HasNewest'
    <3> SUFFICES ASSUME NEW k \in Key, NEW w \in MadeTo(k)'
                 PROVE  \E v \in MadeTo(k)' : Newest(v)'
      BY DEF HasNewest
    <3>1. CASE keyOf[u] = k
      <4>1. Newest(u)'
        BY <2>1, <2>3 DEF Newest
      <4>2. u \in MadeTo(k)'
        BY <2>3, <2>5, <3>1 DEF MadeTo
      <4> QED BY <4>1, <4>2
    <3>2. CASE keyOf[u] # k
      <4>1. w \in MadeTo(k)
        BY <2>3, <2>4, <3>2 DEF MadeTo
      <4>2. PICK v \in MadeTo(k) : Newest(v)
        BY <4>1 DEF HasNewest
      <4>3. Newest(v)'
        BY <2>3, <2>4, <2>5, <3>2, <4>2 DEF Newest, MadeTo
      <4>4. v \in MadeTo(k)'
        BY <2>3, <2>5, <4>2 DEF MadeTo
      <4> QED BY <4>3, <4>4
    <3> QED BY <3>1, <3>2
  <2>8. calls' \in 0..MaxCalls /\ call[u] # "waiting"
    BY <2>1, <2>2, <2>3
  <2>9. \A v \in Call : Newest(v)' /\ Untried(keyOf[v])' =>
          v = u \/ (keyOf[v] # keyOf[u] /\ Newest(v) /\ Untried(keyOf[v]))
    BY <2>6
  <2> QED BY <1>1, <2>3, <2>7, <2>8, <2>9, TextPut
<1>3. ASSUME NEW u \in Call, Retry(u)
      PROVE  TextInv'
  <2>1. /\ call[u] = "sleeping" /\ u \in 1..calls /\ tries[u] > 0
        /\ call' = [call EXCEPT ![u] = "waiting"]
        /\ Put(u, keyOf[u])
        /\ UNCHANGED <<calls, keyOf, tries, worker, heldFunc, heldFutures, shown>>
    BY <1>3 DEF Retry, Due, SleepersTried, workerVars, FutureInv, UnmadeIsNone, FutureTypes, Call
  <2>2. ASSUME NEW v \in Call, Newest(v)', Untried(keyOf[v])'
        PROVE  keyOf[v] # keyOf[u] /\ Newest(v) /\ Untried(keyOf[v])
    <3>1. keyOf[v] # keyOf[u]
      BY <2>1, <2>2 DEF Untried
    <3> QED BY <2>1, <2>2, <3>1 DEF Newest, Untried
  <2>3. HasNewest'
    BY <2>1, SameCalls
  <2>4. calls' \in 0..MaxCalls /\ call[u] # "waiting"
    BY <2>1 DEF TextTypes
  <2> QED BY <1>1, <2>1, <2>2, <2>3, <2>4, TextPut
<1>4. CASE Take
  BY <1>1, <1>4, TextTake
<1>5. CASE SendSucceeds
  <2>1. /\ AtWork /\ worker' = "idle" /\ heldFunc' = 0 /\ heldFutures' = {}
        /\ UNCHANGED <<calls, keyOf, tries, queueList, func, futures>>
        /\ shown' = [shown EXCEPT ![keyOf[heldFunc]] = heldFunc]
        /\ \A u \in Call : call'[u] = IF u \in heldFutures THEN "done" ELSE call[u]
    BY <1>5 DEF SendSucceeds, Release, queueVars, AtWork
  <2>2. tries' \in [Call -> Nat] /\ \A u \in Call : tries'[u] >= tries[u]
    BY <2>1 DEF TextTypes
  <2>3. SleepersTried'
    BY <2>1 DEF SleepersTried
  <2>4. \A u \in Call : call'[u] = "done" => call[u] = "done" \/ u \in heldFutures
    BY <2>1
  <2> QED BY <1>1, <2>1, <2>2, <2>3, <2>4, TextSent
<1>6. ASSUME NEW kind \in {"flood", "transient", "other"}, NEW applied \in BOOLEAN,
             SendFails(kind, applied)
      PROVE  TextInv'
  <2> DEFINE asleep == {u \in heldFutures : call'[u] = "sleeping"}
  <2>1. /\ AtWork /\ worker' = "idle" /\ heldFunc' = 0 /\ heldFutures' = {}
        /\ UNCHANGED <<calls, keyOf, queueList, func, futures>>
        /\ shown' = [shown EXCEPT ![keyOf[heldFunc]] = heldFunc] \/ shown' = shown
        /\ tries' = [u \in Call |-> IF u \in asleep THEN tries[u] + 1 ELSE tries[u]]
        /\ call' = [u \in Call |-> IF u \in heldFutures THEN Raise(u, kind = "transient") ELSE call[u]]
    BY <1>6 DEF SendFails, Release, queueVars, AtWork
  <2>2. \A u \in Call : (call'[u] \in {"sleeping", "failed"} /\ u \in heldFutures) \/ call'[u] = call[u]
    BY <2>1 DEF Raise
  <2> HIDE DEF asleep
  <2>3. /\ tries' \in [Call -> Nat]
        /\ \A u \in Call : tries'[u] >= tries[u] /\ (u \in asleep => tries'[u] > 0)
    BY <2>1 DEF TextTypes
  <2>4. SleepersTried'
    <3> SUFFICES ASSUME NEW u \in Call, call'[u] = "sleeping"
                 PROVE  tries'[u] > 0
      BY DEF SleepersTried
    <3>1. CASE u \in heldFutures
      BY <2>3, <3>1 DEF asleep
    <3>2. CASE call'[u] = call[u]
      BY <2>3, <3>2 DEF SleepersTried, TextTypes
    <3> QED BY <2>2, <3>1, <3>2
  <2>5. \A u \in Call : call'[u] = "done" => call[u] = "done"
    BY <2>2
  <2> QED BY <1>1, <2>1, <2>3, <2>4, <2>5, TextSent
<1>7. CASE PauseOver \/ Acquire \/ Shutdown \/ Tick \/ UNCHANGED vars
  <2>1. UNCHANGED <<calls, keyOf, call, tries, queueList, func, futures, heldFunc, heldFutures, shown>>
    BY <1>7 DEF PauseOver, Acquire, Shutdown, Tick, vars, callVars, queueVars, workerVars
  <2>2. AtWork' => AtWork
    BY <1>7 DEF PauseOver, Acquire, Shutdown, Tick, vars, workerVars, AtWork
  <2> QED BY <1>1, <2>1, <2>2, TextKept
<1> QED BY <1>2, <1>3, <1>4, <1>5, <1>6, <1>7 DEF Next

\* For any number of calls, keys, failures and retries of other keys: the text
\* that a key's quiet calls leave in the chat is that of the last one.
\* (_enqueue_internal_multi replaces what is queued, _worker takes the text and
\* the futures together)
THEOREM LastTextStays == Spec => []QuietShowsLatest
<1>1. TextInv => QuietShowsLatest
  <2> SUFFICES ASSUME TextInv, NEW k \in Key, MadeTo(k) # {}, call[Latest(k)] = "done",
                      \A u \in MadeTo(k) : tries[u] = 0
               PROVE  shown[k] = Latest(k)
    BY DEF QuietShowsLatest, QuietKey
  <2> USE DEF TextInv
  <2>1. PICK u \in MadeTo(k) : Newest(u)
    BY DEF HasNewest
  <2>2. u \in Call /\ keyOf[u] = k /\ \A v \in MadeTo(k) : v <= u
    BY <2>1, MadeAreCalls DEF Newest, MadeTo
  <2>3. \A v \in MadeTo(k) : v \in 1..calls
    BY DEF MadeTo
  <2>4. /\ Latest(k) \in MadeTo(k)
        /\ \A v \in MadeTo(k) : v <= Latest(k)
    BY <2>2 DEF Latest
  <2>5. calls \in Nat
    BY DEF TextTypes
  <2>6. Latest(k) = u
    BY <2>2, <2>3, <2>4, <2>5
  <2>7. Untried(k)
    BY DEF Untried, MadeTo
  <2> QED BY <2>1, <2>2, <2>6, <2>7 DEF NewestInv, NewestInForce
<1> QED BY <1>1, TextInit, TextStep, PTL DEF Spec

-----------------------------------------------------------------------------
(* The adapters: what is where                                             *)

Places ==
  {"unsent", "sent", "status", "transcribing", "placing", "apology", "dropping", "done"}
ClearPlaces == {"unsent", "sent", "deleting", "answering", "done"}

\* The message of a /clear that was not sent yet is any
Targets == Messages \cup {CHOOSE m \in Messages : TRUE}

PlatformTypes ==
  /\ platform \in {"telegram", "discord"}
  /\ updates \in Seq([what : {"message"}, of : Messages]
                       \cup [what : {"clear"}, of : 1..MaxClears, id : Ids])
  /\ msgs \in [Messages -> [kind : {"none", "text", "voice"}, at : Places, tries : Nat]]
  /\ pending \subseteq Messages \X Ids
  /\ chat \in [Messages -> SUBSET Ids]
  /\ clear \in [1..MaxClears -> [of : Targets, at : ClearPlaces, tries : Nat]]
  /\ fate \in [Messages -> [prompt : BOOLEAN, cancelled : BOOLEAN]]

\* A message is handed over once, and not before it was sent.
QueuedOnce ==
  /\ \A i \in DOMAIN updates : updates[i].what = "message" => msgs[updates[i].of].at = "sent"
  /\ \A i, j \in DOMAIN updates :
       updates[i].what = "message" /\ updates[j].what = "message" /\ updates[i].of = updates[j].of
         => i = j

Registered(m) == \E id \in Ids : <<m, id>> \in pending
Deleting(m) == \E c \in 1..MaxClears : clear[c].of = m /\ clear[c].at = "deleting"

\* On its way to the tree a message is neither found in the registry nor being
\* cleared; a note that may still get there is in the registry as long as
\* nobody cancelled it.  A status is deleted only when neither holds.
OnItsWay(m) ==
  msgs[m].at \in {"unsent", "sent", "status", "placing"} =>
    ~Registered(m) /\ ~Deleting(m) /\ ~fate[m].cancelled /\ ~fate[m].prompt
InTree(m) ==
  fate[m].prompt => msgs[m].at = "done" /\ ~Registered(m) /\ ~Deleting(m) /\ ~fate[m].cancelled
TakenOut(m) == fate[m].cancelled \/ Deleting(m) => ~Registered(m)
StatusStays(m) ==
  \/ msgs[m].at = "placing"
  \/ fate[m].prompt
  \/ msgs[m].at = "transcribing" /\ Registered(m)
  => "status" \in chat[m]

NoteInv(m) == OnItsWay(m) /\ InTree(m) /\ TakenOut(m) /\ StatusStays(m)

AdapterInv == PlatformTypes /\ QueuedOnce /\ \A m \in Messages : NoteInv(m)

-----------------------------------------------------------------------------
\* The queue of updates is in order after a step that hands none over and
\* takes no message out of it.
LEMMA QueueKept ==
  ASSUME PlatformTypes, QueuedOnce, UNCHANGED updates,
         \A m \in Messages : msgs[m].at = "sent" => msgs'[m].at = "sent"
  PROVE  QueuedOnce'
<1>1. \A i \in DOMAIN updates : updates[i].what = "message" => updates[i].of \in Messages
  BY DEF PlatformTypes
<1> QED BY <1>1 DEF QueuedOnce

\* What a step says nothing about stays in order.
LEMMA NoteKept ==
  ASSUME NEW m \in Messages, NoteInv(m),
         msgs'[m] = msgs[m], chat'[m] = chat[m], fate'[m] = fate[m],
         Registered(m)' <=> Registered(m), Deleting(m)' => Deleting(m)
  PROVE  NoteInv(m)'
BY DEF NoteInv, OnItsWay, InTree, TakenOut, StatusStays

\* Popping takes out the entries of one message.
LEMMA PopRegistered ==
  ASSUME NEW m \in Messages, NEW id \in Ids, pending' = Popped(m, id)
  PROVE  /\ pending' \subseteq pending
         /\ ~Registered(m)'
         /\ \A n \in Messages : n # m => (Registered(n)' <=> Registered(n))
BY DEF Popped, Registered

\* A step of message m's handler from its place to another.
LEMMA Advances ==
  ASSUME PlatformTypes, NEW m \in Messages, NEW at \in Places, msgs' = Advance(m, at)
  PROVE  /\ msgs' \in [Messages -> [kind : {"none", "text", "voice"}, at : Places, tries : Nat]]
         /\ msgs'[m].at = at
         /\ \A n \in Messages : n # m => msgs'[n] = msgs[n]
<1> DEFINE again == IF at \in {"done", "transcribing"} THEN 0 ELSE 1
<1>1. again \in Nat OBVIOUS
<1>2. msgs' = [msgs EXCEPT ![m].at = at, ![m].tries = again] BY DEF Advance
<1> HIDE DEF again
<1>3. msgs[m] \in [kind : {"none", "text", "voice"}, at : Places, tries : Nat] BY DEF PlatformTypes
<1> DEFINE moved == [msgs[m] EXCEPT !.at = at, !.tries = again]
<1>4. moved \in [kind : {"none", "text", "voice"}, at : Places, tries : Nat] /\ moved.at = at
  BY <1>1, <1>3
<1>5. msgs' = [msgs EXCEPT ![m] = moved] BY <1>2 DEF PlatformTypes
<1> HIDE DEF moved
<1> QED BY <1>4, <1>5 DEF PlatformTypes

LEMMA TriesAgain ==
  ASSUME PlatformTypes, NEW m \in Messages, TryAgain(m)
  PROVE  /\ msgs' \in [Messages -> [kind : {"none", "text", "voice"}, at : Places, tries : Nat]]
         /\ msgs'[m].at = msgs[m].at
         /\ \A n \in Messages : n # m => msgs'[n] = msgs[n]
<1>1. PICK again \in Retries(msgs[m].tries) : msgs' = [msgs EXCEPT ![m].tries = again]
  BY DEF TryAgain
<1>2. msgs[m].tries \in Nat BY DEF PlatformTypes
<1>3. again \in Nat BY <1>1, <1>2 DEF Retries, LastTry, MaxTries
<1> DEFINE T == [kind : {"none", "text", "voice"}, at : Places, tries : Nat]
<1>4. msgs \in [Messages -> T] BY DEF PlatformTypes
<1>5. \A x \in T : [x EXCEPT !.tries = again] \in T /\ [x EXCEPT !.tries = again].at = x.at
  BY <1>3
<1>6. /\ DOMAIN msgs' = Messages /\ msgs' = [n \in Messages |-> msgs'[n]]
      /\ msgs'[m] = [msgs[m] EXCEPT !.tries = again]
      /\ \A n \in Messages : n # m => msgs'[n] = msgs[n]
  BY <1>1, <1>4
<1> HIDE DEF T
<1>7. msgs'[m] \in T /\ msgs'[m].at = msgs[m].at BY <1>4, <1>5, <1>6
<1>8. msgs' \in [Messages -> T] BY <1>4, <1>6, <1>7
<1> QED BY <1>6, <1>7, <1>8 DEF T

\* A handler's step that touches neither the registry, nor the chat, nor the
\* tree, and does not set out for the tree.
LEMMA MovesOn ==
  ASSUME AdapterInv, NEW m \in Messages,
         UNCHANGED <<platform, updates, pending, chat, clear, fate>>,
         msgs' \in [Messages -> [kind : {"none", "text", "voice"}, at : Places, tries : Nat]],
         \A n \in Messages : n # m => msgs'[n] = msgs[n],
         msgs[m].at \notin {"unsent", "sent", "done"},
         msgs'[m].at \in {msgs[m].at, "apology", "dropping", "done"}
  PROVE  AdapterInv'
<1> USE DEF AdapterInv
<1>1. PlatformTypes' BY DEF PlatformTypes
<1>2. QueuedOnce' BY QueueKept
<1>3. ASSUME NEW n \in Messages PROVE NoteInv(n)'
  <2>1. (Registered(n)' <=> Registered(n)) /\ (Deleting(n)' <=> Deleting(n))
    BY DEF Registered, Deleting
  <2>2. CASE n = m
    BY <2>1, <2>2 DEF NoteInv, OnItsWay, InTree, TakenOut, StatusStays
  <2>3. CASE n # m BY <2>1, <2>3, NoteKept
  <2> QED BY <2>2, <2>3
<1> QED BY <1>1, <1>2, <1>3

-----------------------------------------------------------------------------
(* The user and the dispatch of updates                                    *)

LEMMA UserSendsStep ==
  ASSUME AdapterInv, NEW m \in Messages, UserSends(m)
  PROVE  AdapterInv'
<1> USE DEF AdapterInv
<1>1. PICK kind \in {"text", "voice"} : msgs' = [msgs EXCEPT ![m].kind = kind, ![m].at = "sent"]
  BY DEF UserSends
<1> DEFINE u == [what |-> "message", of |-> m]
<1>2. updates' = Append(updates, u) BY DEF UserSends
<1>3. /\ msgs' \in [Messages -> [kind : {"none", "text", "voice"}, at : Places, tries : Nat]]
      /\ msgs'[m].at = "sent"
      /\ \A n \in Messages : n # m => msgs'[n] = msgs[n]
  <2> DEFINE sent == [msgs[m] EXCEPT !.kind = kind, !.at = "sent"]
             Record == [kind : {"none", "text", "voice"}, at : Places, tries : Nat]
  <2>1. msgs \in [Messages -> Record] /\ "sent" \in Places BY DEF PlatformTypes, Places
  <2>2. msgs' = [msgs EXCEPT ![m] = sent] BY <1>1, <2>1
  <2>3. msgs[m] \in Record BY <2>1
  <2>4. sent \in Record /\ sent.at = "sent" BY <2>1, <2>3
  <2> HIDE DEF sent, Record
  <2>5. /\ msgs' \in [Messages -> Record] /\ msgs'[m] = sent
        /\ \A n \in Messages : n # m => msgs'[n] = msgs[n]
    BY <2>1, <2>2, <2>4
  <2> QED BY <2>4, <2>5 DEF Record
<1>4. updates' \in Seq([what : {"message"}, of : Messages]
                         \cup [what : {"clear"}, of : 1..MaxClears, id : Ids])
  BY <1>2 DEF PlatformTypes
<1>5. chat' = [chat EXCEPT ![m] = {"prompt"}] BY DEF UserSends
<1>6. chat' \in [Messages -> SUBSET Ids] BY <1>5 DEF PlatformTypes, Ids
<1>7. PlatformTypes'
  BY <1>3, <1>4, <1>6 DEF PlatformTypes, UserSends
<1>8. msgs[m].at = "unsent" BY DEF UserSends
<1>9. QueuedOnce'
  <2>1. \A i \in DOMAIN updates : updates[i].what = "message" => updates[i].of \in Messages \ {m}
    BY <1>8 DEF QueuedOnce, PlatformTypes
  <2>2. DOMAIN updates' = 1..(Len(updates) + 1) /\ DOMAIN updates = 1..Len(updates)
        /\ Len(updates) \in Nat
    BY <1>2 DEF PlatformTypes
  <2>3. \A i \in DOMAIN updates' : i # Len(updates) + 1 => i \in DOMAIN updates /\ updates'[i] = updates[i]
    BY <1>2, <2>2 DEF PlatformTypes
  <2>4. updates'[Len(updates) + 1] = u BY <1>2 DEF PlatformTypes
  <2>5. \A i \in DOMAIN updates' : updates'[i].what = "message" => msgs'[updates'[i].of].at = "sent"
    BY <1>3, <2>1, <2>3, <2>4 DEF QueuedOnce
  <2>6. ASSUME NEW i \in DOMAIN updates', NEW j \in DOMAIN updates',
               updates'[i].what = "message", updates'[j].what = "message",
               updates'[i].of = updates'[j].of
        PROVE  i = j
    BY <2>1, <2>3, <2>4, <2>6 DEF QueuedOnce
  <2> QED BY <2>5, <2>6 DEF QueuedOnce
<1>10. ASSUME NEW n \in Messages PROVE NoteInv(n)'
  <2>1. (Registered(n)' <=> Registered(n)) /\ (Deleting(n)' <=> Deleting(n)) /\ fate' = fate
    BY DEF Registered, Deleting, UserSends
  <2>2. CASE n = m
    BY <1>3, <1>8, <2>1, <2>2 DEF NoteInv, OnItsWay, InTree, TakenOut, StatusStays
  <2>3. CASE n # m
    <3>1. chat'[n] = chat[n] BY <1>5, <2>3 DEF PlatformTypes
    <3> QED BY <1>3, <2>1, <2>3, <3>1, NoteKept
  <2> QED BY <2>2, <2>3
<1> QED BY <1>7, <1>9, <1>10

LEMMA UserClearsStep ==
  ASSUME AdapterInv, NEW c \in 1..MaxClears, NEW m \in Messages, NEW id \in Ids, UserClears(c, m, id)
  PROVE  AdapterInv'
<1> USE DEF AdapterInv
<1> DEFINE u == [what |-> "clear", of |-> c, id |-> id]
<1>1. updates' = Append(updates, u) /\ UNCHANGED <<platform, msgs, pending, chat, fate>>
  BY DEF UserClears
<1>2. clear' = [clear EXCEPT ![c].of = m, ![c].at = "sent"] BY DEF UserClears
<1>3. clear' \in [1..MaxClears -> [of : Targets, at : ClearPlaces, tries : Nat]]
  <2> DEFINE sent == [clear[c] EXCEPT !.of = m, !.at = "sent"]
             Record == [of : Targets, at : ClearPlaces, tries : Nat]
  <2>1. clear \in [1..MaxClears -> Record] /\ m \in Targets /\ "sent" \in ClearPlaces
    BY DEF PlatformTypes, Targets, ClearPlaces
  <2>2. clear' = [clear EXCEPT ![c] = sent] BY <1>2, <2>1
  <2>3. sent \in Record BY <2>1
  <2> HIDE DEF sent, Record
  <2>4. clear' \in [1..MaxClears -> Record] BY <2>1, <2>2, <2>3
  <2> QED BY <2>4 DEF Record
<1>4. updates' \in Seq([what : {"message"}, of : Messages]
                         \cup [what : {"clear"}, of : 1..MaxClears, id : Ids])
  BY <1>1 DEF PlatformTypes
<1>5. PlatformTypes' BY <1>1, <1>3, <1>4 DEF PlatformTypes
<1>6. QueuedOnce'
  <2>1. \A i \in DOMAIN updates' : updates'[i].what = "message" => i \in DOMAIN updates /\ updates'[i] = updates[i]
    BY <1>1 DEF PlatformTypes
  <2> QED BY <1>1, <2>1 DEF QueuedOnce
<1>7. ASSUME NEW n \in Messages PROVE NoteInv(n)'
  <2>1. Registered(n)' <=> Registered(n) BY <1>1 DEF Registered
  <2>2. Deleting(n)' => Deleting(n) BY <1>2 DEF Deleting, PlatformTypes
  <2> QED BY <1>1, <2>1, <2>2, NoteKept
<1> QED BY <1>5, <1>6, <1>7

\* The update handed over is taken off the queue.
LEMMA DispatchQueue ==
  ASSUME PlatformTypes, QueuedOnce, updates # <<>>, updates' = Tail(updates)
  PROVE  /\ Head(updates) \in [what : {"message"}, of : Messages]
                                \cup [what : {"clear"}, of : 1..MaxClears, id : Ids]
         /\ updates' \in Seq([what : {"message"}, of : Messages]
                               \cup [what : {"clear"}, of : 1..MaxClears, id : Ids])
         /\ Head(updates).what = "message" => msgs[Head(updates).of].at = "sent"
         /\ (\A m \in Messages :
               msgs[m].at = "sent" /\ (Head(updates).what = "message" => m # Head(updates).of)
                 => msgs'[m].at = "sent")
              => QueuedOnce'
<1>1. /\ Head(updates) = updates[1]
      /\ DOMAIN updates = 1..Len(updates)
      /\ Len(updates) \in Nat
      /\ Len(updates) >= 1
  BY DEF PlatformTypes
<1>2. updates' \in Seq([what : {"message"}, of : Messages]
                         \cup [what : {"clear"}, of : 1..MaxClears, id : Ids])
  BY DEF PlatformTypes
<1>3. \A i \in DOMAIN updates' : i + 1 \in DOMAIN updates /\ updates'[i] = updates[i + 1] /\ i \in Nat /\ i >= 1
  BY DEF PlatformTypes
<1>4. \A i \in DOMAIN updates : updates[i].what = "message" => updates[i].of \in Messages
  BY DEF PlatformTypes
<1>5. ASSUME \A m \in Messages :
               msgs[m].at = "sent" /\ (Head(updates).what = "message" => m # Head(updates).of)
                 => msgs'[m].at = "sent"
      PROVE  QueuedOnce'
  <2>1. ASSUME NEW i \in DOMAIN updates', updates'[i].what = "message"
        PROVE  msgs'[updates'[i].of].at = "sent"
    <3> DEFINE n == updates[i + 1].of
    <3>1. i + 1 \in DOMAIN updates /\ updates'[i].of = n /\ updates[i + 1].what = "message"
      BY <1>3, <2>1
    <3>2. n \in Messages /\ msgs[n].at = "sent" BY <1>4, <3>1 DEF QueuedOnce
    <3>3. 1 \in DOMAIN updates /\ i + 1 # 1 BY <1>1, <1>3
    <3>4. Head(updates).what = "message" => n # Head(updates).of BY <1>1, <3>1, <3>3 DEF QueuedOnce
    <3> QED BY <1>5, <3>1, <3>2, <3>4
  <2>2. ASSUME NEW i \in DOMAIN updates', NEW j \in DOMAIN updates',
               updates'[i].what = "message", updates'[j].what = "message",
               updates'[i].of = updates'[j].of
        PROVE  i = j
    <3>1. i + 1 = j + 1 BY <1>3, <2>2 DEF QueuedOnce
    <3> QED BY <1>3, <3>1
  <2> QED BY <2>1, <2>2 DEF QueuedOnce
<1>6. Head(updates).what = "message" => msgs[Head(updates).of].at = "sent"
  BY <1>1 DEF QueuedOnce
<1> QED BY <1>1, <1>2, <1>5, <1>6 DEF PlatformTypes

LEMMA ReceiveStep ==
  ASSUME AdapterInv, MayDispatch, Head(updates).what = "message", Receive(Head(updates).of),
         updates' = Tail(updates), UNCHANGED <<platform, chat>>
  PROVE  AdapterInv'
<1> USE DEF AdapterInv
<1>1. updates # <<>> BY DEF MayDispatch
<1> DEFINE m == Head(updates).of
<1>2. m \in Messages BY <1>1, DispatchQueue
<1>3. msgs[m].at = "sent" BY <1>1, DispatchQueue
<1>4. UNCHANGED <<pending, clear, fate>> BY DEF Receive
<1>5. /\ msgs' \in [Messages -> [kind : {"none", "text", "voice"}, at : Places, tries : Nat]]
      /\ msgs'[m].at \in {"status", "done"}
      /\ \A n \in Messages : n # m => msgs'[n] = msgs[n]
  <2>1. CASE msgs' = [msgs EXCEPT ![m].at = "status", ![m].tries = 1]
    <3>1. msgs' = [msgs EXCEPT ![m] = [msgs[m] EXCEPT !.at = "status", !.tries = 1]]
      BY <2>1, <1>2 DEF PlatformTypes
    <3>2. msgs[m] \in [kind : {"none", "text", "voice"}, at : Places, tries : Nat]
      BY <1>2 DEF PlatformTypes
    <3> HIDE DEF m
    <3> QED BY <3>1, <3>2, <1>2 DEF PlatformTypes, Places
  <2>2. CASE msgs' = [msgs EXCEPT ![m].at = "done"]
    <3> HIDE DEF m
    <3> QED BY <2>2, <1>2 DEF PlatformTypes, Places
  <2> QED BY <2>1, <2>2 DEF Receive
<1> HIDE DEF m
<1>6. PlatformTypes' BY <1>1, <1>4, <1>5, DispatchQueue DEF PlatformTypes
<1>7. QueuedOnce' BY <1>1, <1>5, DispatchQueue DEF m
<1>8. ASSUME NEW n \in Messages PROVE NoteInv(n)'
  <2>1. (Registered(n)' <=> Registered(n)) /\ (Deleting(n)' <=> Deleting(n))
    BY <1>4 DEF Registered, Deleting
  <2>2. CASE n = m
    BY <1>3, <1>4, <1>5, <2>1, <2>2 DEF NoteInv, OnItsWay, InTree, TakenOut, StatusStays
  <2>3. CASE n # m BY <1>4, <1>5, <2>1, <2>3, NoteKept
  <2> QED BY <2>2, <2>3
<1> QED BY <1>6, <1>7, <1>8

\* A prompt leaves the tree, or a pending note the registry, before anything
\* of it is deleted.
LEMMA ClearCommandStep ==
  ASSUME AdapterInv, MayDispatch, Head(updates).what = "clear",
         ClearCommand(Head(updates).of, Head(updates).id),
         updates' = Tail(updates), UNCHANGED <<platform, chat>>
  PROVE  AdapterInv'
<1> USE DEF AdapterInv
<1>1. updates # <<>> BY DEF MayDispatch
<1>2. PICK c \in 1..MaxClears, id \in Ids : c = Head(updates).of /\ id = Head(updates).id
  BY <1>1, DispatchQueue
<1> DEFINE m == clear[c].of
           found == <<m, id>> \in pending
           at == IF fate[m].prompt \/ found THEN "deleting" ELSE "answering"
<1>3. /\ clear' = [clear EXCEPT ![c].at = at, ![c].tries = 1]
      /\ pending' = IF found /\ ~fate[m].prompt THEN Popped(m, id) ELSE pending
      /\ fate' = IF fate[m].prompt THEN [fate EXCEPT ![m].prompt = FALSE]
                 ELSE IF found THEN [fate EXCEPT ![m].cancelled = TRUE] ELSE fate
      /\ UNCHANGED msgs
  BY <1>2 DEF ClearCommand
<1>4. /\ clear' \in [1..MaxClears -> [of : Targets, at : ClearPlaces, tries : Nat]]
      /\ clear'[c].of = m /\ clear'[c].at = at
      /\ \A d \in 1..MaxClears : d # c => clear'[d] = clear[d]
  <2>1. clear[c] \in [of : Targets, at : ClearPlaces, tries : Nat] BY DEF PlatformTypes
  <2>2. clear' = [clear EXCEPT ![c] = [clear[c] EXCEPT !.at = at, !.tries = 1]]
    BY <1>3 DEF PlatformTypes
  <2>3. at \in ClearPlaces BY DEF ClearPlaces
  <2> HIDE DEF at
  <2> QED BY <2>1, <2>2, <2>3 DEF PlatformTypes
<1>5. pending' \subseteq pending BY <1>3 DEF Popped
<1>6. fate' \in [Messages -> [prompt : BOOLEAN, cancelled : BOOLEAN]]
  BY <1>3 DEF PlatformTypes
<1>7. PlatformTypes' BY <1>1, <1>3, <1>4, <1>5, <1>6, DispatchQueue DEF PlatformTypes
<1>8. QueuedOnce' BY <1>1, <1>3, DispatchQueue
<1>9. ASSUME NEW n \in Messages PROVE NoteInv(n)'
  <2>1. msgs' = msgs /\ chat' = chat BY <1>3
  <2>2. CASE n # m
    <3>1. Registered(n)' <=> Registered(n) BY <1>3, <2>2 DEF Registered, Popped
    <3>2. Deleting(n)' => Deleting(n) BY <1>4, <2>2 DEF Deleting
    <3>3. fate'[n] = fate[n] BY <1>3, <2>2 DEF PlatformTypes
    <3> QED BY <2>1, <3>1, <3>2, <3>3, NoteKept
  <2>3. CASE n = m /\ fate[n].prompt
    <3>1. pending' = pending /\ ~fate'[n].prompt /\ fate'[n].cancelled = fate[n].cancelled
      BY <1>3, <2>3 DEF PlatformTypes
    <3>2. Registered(n)' <=> Registered(n) BY <3>1 DEF Registered
    <3>3. msgs[n].at = "done" /\ ~Registered(n) BY <2>3 DEF NoteInv, InTree
    <3> QED BY <2>1, <3>1, <3>2, <3>3 DEF NoteInv, OnItsWay, InTree, TakenOut, StatusStays
  <2>4. CASE n = m /\ ~fate[n].prompt /\ found
    <3>1. pending' = Popped(n, id) /\ fate'[n].prompt = fate[n].prompt BY <1>3, <2>4 DEF PlatformTypes
    <3>2. Registered(n) /\ ~Registered(n)' BY <2>4, <3>1, PopRegistered DEF Registered
    <3> QED BY <2>1, <2>4, <3>1, <3>2 DEF NoteInv, OnItsWay, InTree, TakenOut, StatusStays
  <2>5. CASE n = m /\ ~fate[n].prompt /\ ~found
    <3>1. pending' = pending /\ fate' = fate BY <1>3, <2>5
    <3>2. Registered(n)' <=> Registered(n) BY <3>1 DEF Registered
    <3>3. Deleting(n)' => Deleting(n) BY <1>4, <2>5 DEF Deleting
    <3> QED BY <2>1, <3>1, <3>2, <3>3, NoteKept
  <2> QED BY <2>2, <2>3, <2>4, <2>5
<1> QED BY <1>7, <1>8, <1>9

-----------------------------------------------------------------------------
(* The handlers                                                            *)

LEMMA StatusSentStep ==
  ASSUME AdapterInv, NEW m \in Messages, StatusSent(m)
  PROVE  AdapterInv'
<1> USE DEF AdapterInv
<1>1. msgs[m].at = "status" /\ chat' = [chat EXCEPT ![m] = @ \cup {"status"}]
      /\ UNCHANGED <<platform, updates, clear>>
  BY DEF StatusSent
<1>2. PICK at \in {"transcribing", "done"} : msgs' = Advance(m, at)
  BY DEF StatusSent, NoteRegistered, PromptPlaced
<1>3. /\ msgs' \in [Messages -> [kind : {"none", "text", "voice"}, at : Places, tries : Nat]]
      /\ msgs'[m].at = at
      /\ \A n \in Messages : n # m => msgs'[n] = msgs[n]
  BY <1>2, Advances DEF Places
<1>4. /\ chat' \in [Messages -> SUBSET Ids]
      /\ "status" \in chat'[m]
      /\ \A n \in Messages : n # m => chat'[n] = chat[n]
  BY <1>1 DEF PlatformTypes, Ids
<1>5. \/ pending' = pending \cup ({m} \X Ids) /\ fate' = fate
      \/ at = "done" /\ pending' = pending /\ fate' = [fate EXCEPT ![m].prompt = TRUE]
  <2>1. CASE NoteRegistered(m) BY <2>1 DEF NoteRegistered
  <2>2. CASE PromptPlaced(m)
    <3>1. msgs'[m].at = "done" BY <2>2, Advances DEF PromptPlaced, Places
    <3> QED BY <1>3, <2>2, <3>1 DEF PromptPlaced
  <2> QED BY <2>1, <2>2 DEF StatusSent
<1>6. NoteRegistered(m) => at = "transcribing"
  <2>1. SUFFICES ASSUME NoteRegistered(m) PROVE at = "transcribing" OBVIOUS
  <2>2. msgs'[m].at = "transcribing" BY <2>1, Advances DEF NoteRegistered, Places
  <2> QED BY <1>3, <2>2
<1>7. PlatformTypes'
  <2>1. pending' \subseteq Messages \X Ids BY <1>5 DEF PlatformTypes
  <2>2. fate' \in [Messages -> [prompt : BOOLEAN, cancelled : BOOLEAN]]
    <3>1. CASE fate' = fate BY <3>1 DEF PlatformTypes
    <3>2. CASE fate' = [fate EXCEPT ![m].prompt = TRUE]
      <4>1. fate[m] \in [prompt : BOOLEAN, cancelled : BOOLEAN] BY DEF PlatformTypes
      <4>2. [fate[m] EXCEPT !.prompt = TRUE] \in [prompt : BOOLEAN, cancelled : BOOLEAN] BY <4>1
      <4>3. fate' = [fate EXCEPT ![m] = [fate[m] EXCEPT !.prompt = TRUE]] BY <3>2 DEF PlatformTypes
      <4> QED BY <4>2, <4>3 DEF PlatformTypes
    <3> QED BY <1>5, <3>1, <3>2
  <2> QED BY <1>1, <1>3, <1>4, <2>1, <2>2 DEF PlatformTypes
<1>8. QueuedOnce' BY <1>1, <1>3, QueueKept
<1>9. ASSUME NEW n \in Messages PROVE NoteInv(n)'
  <2>1. Deleting(n)' <=> Deleting(n) BY <1>1 DEF Deleting
  <2>2. CASE n # m
    <3>1. Registered(n)' <=> Registered(n) BY <1>5, <2>2 DEF Registered
    <3>2. fate'[n] = fate[n] BY <1>5, <2>2 DEF PlatformTypes
    <3> QED BY <1>3, <1>4, <2>1, <2>2, <3>1, <3>2, NoteKept
  <2>3. CASE n = m
    <3>1. ~Registered(m) /\ ~Deleting(m) /\ ~fate[m].cancelled /\ ~fate[m].prompt
      BY <1>1 DEF NoteInv, OnItsWay
    <3>2. CASE NoteRegistered(m)
      <4>1. fate' = fate /\ at = "transcribing" BY <1>6, <3>2 DEF NoteRegistered
      <4> QED BY <1>3, <1>4, <2>1, <2>3, <3>1, <4>1 DEF NoteInv, OnItsWay, InTree, TakenOut, StatusStays
    <3>3. CASE PromptPlaced(m)
      <4>1. pending' = pending /\ fate' = [fate EXCEPT ![m].prompt = TRUE] /\ msgs'[m].at = "done"
        BY <3>3, Advances DEF PromptPlaced, Places
      <4>2. fate'[m].cancelled = fate[m].cancelled BY <4>1 DEF PlatformTypes
      <4>3. Registered(m)' <=> Registered(m) BY <4>1 DEF Registered
      <4> QED BY <1>4, <2>1, <2>3, <3>1, <4>1, <4>2, <4>3
              DEF NoteInv, OnItsWay, InTree, TakenOut, StatusStays
    <3> QED BY <3>2, <3>3 DEF StatusSent
  <2> QED BY <2>2, <2>3
<1> QED BY <1>7, <1>8, <1>9

LEMMA StatusFailsStep ==
  ASSUME AdapterInv, NEW m \in Messages, StatusFails(m)
  PROVE  AdapterInv'
<1> USE DEF AdapterInv
<1>1. msgs[m].at = "status" /\ UNCHANGED <<platform, updates, pending, chat, clear, fate>>
  BY DEF StatusFails
<1>2. CASE TryAgain(m) BY <1>1, <1>2, TriesAgain, MovesOn
<1>3. CASE \E at \in {"done", "apology"} : msgs' = Advance(m, at)
  BY <1>1, <1>3, Advances, MovesOn DEF Places
<1> QED BY <1>2, <1>3 DEF StatusFails

\* Only a note that nobody cancelled sets out for the tree.
LEMMA TranscriptionEndsStep ==
  ASSUME AdapterInv, NEW m \in Messages, TranscriptionEnds(m)
  PROVE  AdapterInv'
<1> USE DEF AdapterInv
<1>1. msgs[m].at = "transcribing" /\ UNCHANGED <<platform, updates, chat, clear, fate>>
  BY DEF TranscriptionEnds
<1>2. CASE <<m, "prompt">> \in pending /\ msgs' = Advance(m, "placing") /\ pending' = Popped(m, "prompt")
  <2>1. /\ msgs' \in [Messages -> [kind : {"none", "text", "voice"}, at : Places, tries : Nat]]
        /\ msgs'[m].at = "placing"
        /\ \A n \in Messages : n # m => msgs'[n] = msgs[n]
    BY <1>2, Advances DEF Places
  <2>2. /\ pending' \subseteq pending
        /\ ~Registered(m)'
        /\ \A n \in Messages : n # m => (Registered(n)' <=> Registered(n))
    BY <1>2, PopRegistered DEF Ids
  <2>3. PlatformTypes' BY <1>1, <2>1, <2>2 DEF PlatformTypes
  <2>4. QueuedOnce' BY <1>1, <2>1, QueueKept
  <2>5. ASSUME NEW n \in Messages PROVE NoteInv(n)'
    <3>1. Deleting(n)' <=> Deleting(n) BY <1>1 DEF Deleting
    <3>2. CASE n # m BY <1>1, <2>1, <2>2, <3>1, <3>2, NoteKept
    <3>3. CASE n = m
      <4>1. Registered(m) BY <1>2 DEF Registered, Ids
      <4>2. ~fate[m].cancelled /\ ~Deleting(m) /\ ~fate[m].prompt /\ "status" \in chat[m]
        BY <1>1, <4>1 DEF NoteInv, TakenOut, InTree, StatusStays
      <4> QED BY <1>1, <2>1, <2>2, <3>1, <3>3, <4>2 DEF NoteInv, OnItsWay, InTree, TakenOut, StatusStays
    <3> QED BY <3>2, <3>3
  <2> QED BY <2>3, <2>4, <2>5
<1>3. CASE UNCHANGED pending /\ \E at \in {"dropping", "apology"} : msgs' = Advance(m, at)
  BY <1>1, <1>3, Advances, MovesOn DEF Places
<1> QED BY <1>2, <1>3 DEF TranscriptionEnds, Transcribed

LEMMA PlacedStep ==
  ASSUME AdapterInv, NEW m \in Messages, Placed(m)
  PROVE  AdapterInv'
<1> USE DEF AdapterInv
<1>1. /\ msgs[m].at = "placing" /\ msgs' = Advance(m, "done")
      /\ fate' = [fate EXCEPT ![m].prompt = TRUE]
      /\ UNCHANGED <<platform, updates, pending, chat, clear>>
  BY DEF Placed
<1>2. /\ msgs' \in [Messages -> [kind : {"none", "text", "voice"}, at : Places, tries : Nat]]
      /\ msgs'[m].at = "done"
      /\ \A n \in Messages : n # m => msgs'[n] = msgs[n]
  BY <1>1, Advances DEF Places
<1>3. /\ fate' \in [Messages -> [prompt : BOOLEAN, cancelled : BOOLEAN]]
      /\ fate'[m].cancelled = fate[m].cancelled
      /\ \A n \in Messages : n # m => fate'[n] = fate[n]
  BY <1>1 DEF PlatformTypes
<1>4. PlatformTypes' BY <1>1, <1>2, <1>3 DEF PlatformTypes
<1>5. QueuedOnce' BY <1>1, <1>2, QueueKept
<1>6. ASSUME NEW n \in Messages PROVE NoteInv(n)'
  <2>1. (Registered(n)' <=> Registered(n)) /\ (Deleting(n)' <=> Deleting(n))
    BY <1>1 DEF Registered, Deleting
  <2>2. CASE n = m
    <3>1. ~Registered(m) /\ ~Deleting(m) /\ ~fate[m].cancelled /\ "status" \in chat[m]
      BY <1>1 DEF NoteInv, OnItsWay, StatusStays
    <3> QED BY <1>1, <1>2, <1>3, <2>1, <2>2, <3>1 DEF NoteInv, OnItsWay, InTree, TakenOut, StatusStays
  <2>3. CASE n # m BY <1>1, <1>2, <1>3, <2>1, <2>3, NoteKept
  <2> QED BY <2>2, <2>3
<1> QED BY <1>4, <1>5, <1>6

LEMMA PlacingFailsStep ==
  ASSUME AdapterInv, NEW m \in Messages, PlacingFails(m)
  PROVE  AdapterInv'
<1> USE DEF AdapterInv
<1>1. msgs[m].at = "placing" /\ UNCHANGED <<platform, updates, pending, chat, clear, fate>>
  BY DEF PlacingFails
<1>2. CASE TryAgain(m) BY <1>1, <1>2, TriesAgain, MovesOn
<1>3. CASE msgs' = Advance(m, "apology") BY <1>1, <1>3, Advances, MovesOn DEF Places
<1> QED BY <1>2, <1>3 DEF PlacingFails

LEMMA StatusDroppedStep ==
  ASSUME AdapterInv, NEW m \in Messages, StatusDropped(m)
  PROVE  AdapterInv'
<1> USE DEF AdapterInv
<1>1. msgs[m].at = "dropping" /\ UNCHANGED <<platform, updates, pending, clear, fate>>
  BY DEF StatusDropped
<1>2. CASE chat' = [chat EXCEPT ![m] = @ \ {"status"}] /\ msgs' = Advance(m, "done")
  <2>1. /\ msgs' \in [Messages -> [kind : {"none", "text", "voice"}, at : Places, tries : Nat]]
        /\ msgs'[m].at = "done"
        /\ \A n \in Messages : n # m => msgs'[n] = msgs[n]
    BY <1>2, Advances DEF Places
  <2>2. PlatformTypes' BY <1>1, <1>2, <2>1 DEF PlatformTypes
  <2>3. QueuedOnce' BY <1>1, <2>1, QueueKept
  <2>4. ASSUME NEW n \in Messages PROVE NoteInv(n)'
    <3>1. (Registered(n)' <=> Registered(n)) /\ (Deleting(n)' <=> Deleting(n))
      BY <1>1 DEF Registered, Deleting
    <3>2. CASE n = m
      <4>1. ~fate[m].prompt BY <1>1 DEF NoteInv, InTree
      <4> QED BY <1>1, <2>1, <3>1, <3>2, <4>1 DEF NoteInv, OnItsWay, InTree, TakenOut, StatusStays
    <3>3. CASE n # m
      <4>1. chat'[n] = chat[n] BY <1>2, <3>3 DEF PlatformTypes
      <4> QED BY <1>1, <2>1, <3>1, <3>3, <4>1, NoteKept
    <3> QED BY <3>2, <3>3
  <2> QED BY <2>2, <2>3, <2>4
<1>3. CASE TryAgain(m) /\ UNCHANGED chat BY <1>1, <1>3, TriesAgain, MovesOn
<1>4. CASE msgs' = Advance(m, "done") /\ UNCHANGED chat
  BY <1>1, <1>4, Advances, MovesOn DEF Places
<1> QED BY <1>2, <1>3, <1>4 DEF StatusDropped

LEMMA ApologyStep ==
  ASSUME AdapterInv, NEW m \in Messages, Apology(m)
  PROVE  AdapterInv'
<1> USE DEF AdapterInv
<1>1. msgs[m].at = "apology" /\ UNCHANGED <<platform, updates, pending, chat, clear, fate>>
  BY DEF Apology
<1>2. CASE TryAgain(m) BY <1>1, <1>2, TriesAgain, MovesOn
<1>3. CASE msgs' = Advance(m, "done") BY <1>1, <1>3, Advances, MovesOn DEF Places
<1> QED BY <1>2, <1>3 DEF Apology

\* A /clear goes on, or tries its call again.
LEMMA ClearMovesOn ==
  ASSUME PlatformTypes, NEW c \in 1..MaxClears,
         \/ clear' = [clear EXCEPT ![c].at = "answering", ![c].tries = 1]
         \/ clear' = [clear EXCEPT ![c].at = "done", ![c].tries = 0]
         \/ ClearAgain(c)
  PROVE  /\ clear' \in [1..MaxClears -> [of : Targets, at : ClearPlaces, tries : Nat]]
         /\ \A n \in Messages : Deleting(n)' => Deleting(n)
<1>1. clear[c] \in [of : Targets, at : ClearPlaces, tries : Nat] BY DEF PlatformTypes
<1>2. PICK at \in {clear[c].at, "answering", "done"}, again \in Nat :
        clear' = [clear EXCEPT ![c] = [clear[c] EXCEPT !.at = at, !.tries = again]]
  <2>1. CASE clear' = [clear EXCEPT ![c].at = "answering", ![c].tries = 1]
    <3>1. clear' = [clear EXCEPT ![c] = [clear[c] EXCEPT !.at = "answering", !.tries = 1]]
      BY <2>1 DEF PlatformTypes
    <3> QED BY <3>1
  <2>2. CASE clear' = [clear EXCEPT ![c].at = "done", ![c].tries = 0]
    <3>1. clear' = [clear EXCEPT ![c] = [clear[c] EXCEPT !.at = "done", !.tries = 0]]
      BY <2>2 DEF PlatformTypes
    <3> QED BY <3>1
  <2>3. CASE ClearAgain(c)
    <3>1. PICK again \in Retries(clear[c].tries) : clear' = [clear EXCEPT ![c].tries = again]
      BY <2>3 DEF ClearAgain
    <3>2. again \in Nat BY <1>1, <3>1 DEF Retries, LastTry, MaxTries
    <3>3. [clear[c] EXCEPT !.tries = again] = [clear[c] EXCEPT !.at = clear[c].at, !.tries = again]
      BY <1>1
    <3>4. clear' = [clear EXCEPT ![c] = [clear[c] EXCEPT !.tries = again]]
      BY <3>1 DEF PlatformTypes
    <3> QED BY <3>2, <3>3, <3>4
  <2> QED BY <2>1, <2>2, <2>3
<1>3. clear' \in [1..MaxClears -> [of : Targets, at : ClearPlaces, tries : Nat]]
  <2> DEFINE moved == [clear[c] EXCEPT !.at = at, !.tries = again]
  <2>1. moved \in [of : Targets, at : ClearPlaces, tries : Nat] BY <1>1 DEF ClearPlaces
  <2>2. clear' = [clear EXCEPT ![c] = moved] BY <1>2
  <2> HIDE DEF moved
  <2> QED BY <2>1, <2>2 DEF PlatformTypes
<1>4. /\ clear'[c].of = clear[c].of /\ clear'[c].at = at
      /\ \A d \in 1..MaxClears : d # c => clear'[d] = clear[d]
  BY <1>1, <1>2 DEF PlatformTypes
<1> QED BY <1>2, <1>3, <1>4 DEF Deleting

\* What a /clear deletes is out of the tree and of the registry.
LEMMA ClearedStep ==
  ASSUME AdapterInv, NEW c \in 1..MaxClears, Cleared(c)
  PROVE  AdapterInv'
<1> USE DEF AdapterInv
<1>1. clear[c].at = "deleting" /\ UNCHANGED <<platform, updates, msgs, pending, fate>>
  BY DEF Cleared
<1>2. /\ clear' \in [1..MaxClears -> [of : Targets, at : ClearPlaces, tries : Nat]]
      /\ \A n \in Messages : Deleting(n)' => Deleting(n)
  BY ClearMovesOn DEF Cleared
<1>3. \/ chat' = chat
      \/ \E kept \in SUBSET Ids : chat' = [chat EXCEPT ![clear[c].of] = kept]
  <2>1. CASE DeletedAtOnce(clear[c].of) BY <2>1 DEF DeletedAtOnce
  <2>2. CASE DeletedOneByOne(clear[c].of)
    <3>1. PICK kept \in SUBSET chat[clear[c].of] : chat' = [chat EXCEPT ![clear[c].of] = kept]
      BY <2>2 DEF DeletedOneByOne
    <3>2. CASE clear[c].of \in Messages BY <3>1, <3>2 DEF PlatformTypes
    <3>3. CASE clear[c].of \notin Messages
      <4>1. chat' = chat BY <3>1, <3>3 DEF PlatformTypes
      <4> QED BY <4>1
    <3> QED BY <3>2, <3>3
  <2> QED BY <2>1, <2>2 DEF Cleared
<1>4. /\ chat' \in [Messages -> SUBSET Ids]
      /\ \A n \in Messages : n # clear[c].of => chat'[n] = chat[n]
  BY <1>3 DEF PlatformTypes
<1>5. PlatformTypes' BY <1>1, <1>2, <1>4 DEF PlatformTypes
<1>6. QueuedOnce' BY <1>1, QueueKept
<1>7. ASSUME NEW n \in Messages PROVE NoteInv(n)'
  <2>1. Registered(n)' <=> Registered(n) BY <1>1 DEF Registered
  <2>2. CASE n = clear[c].of
    <3>1. Deleting(n) BY <1>1, <2>2 DEF Deleting
    <3>2. ~Registered(n) /\ ~fate[n].prompt /\ msgs[n].at # "placing"
      BY <3>1 DEF NoteInv, OnItsWay, InTree, TakenOut
    <3> QED BY <1>1, <1>2, <2>1, <3>2 DEF NoteInv, OnItsWay, InTree, TakenOut, StatusStays
  <2>3. CASE n # clear[c].of BY <1>1, <1>2, <1>4, <2>1, <2>3, NoteKept
  <2> QED BY <2>2, <2>3
<1> QED BY <1>5, <1>6, <1>7

LEMMA AnsweredStep ==
  ASSUME AdapterInv, NEW c \in 1..MaxClears, Answered(c)
  PROVE  AdapterInv'
<1> USE DEF AdapterInv
<1>1. UNCHANGED <<platform, updates, msgs, pending, chat, fate>> BY DEF Answered
<1>2. /\ clear' \in [1..MaxClears -> [of : Targets, at : ClearPlaces, tries : Nat]]
      /\ \A n \in Messages : Deleting(n)' => Deleting(n)
  BY ClearMovesOn DEF Answered
<1>3. PlatformTypes' BY <1>1, <1>2 DEF PlatformTypes
<1>4. QueuedOnce' BY <1>1, QueueKept
<1>5. ASSUME NEW n \in Messages PROVE NoteInv(n)'
  <2>1. Registered(n)' <=> Registered(n) BY <1>1 DEF Registered
  <2> QED BY <1>1, <1>2, <2>1, NoteKept
<1> QED BY <1>3, <1>4, <1>5

-----------------------------------------------------------------------------
LEMMA AdapterInitially == PlatformInit => AdapterInv
<1> SUFFICES ASSUME PlatformInit PROVE AdapterInv OBVIOUS
<1>1. PlatformTypes BY DEF PlatformInit, PlatformTypes, Places, ClearPlaces, Targets, Ids
<1>2. QueuedOnce BY DEF PlatformInit, QueuedOnce
<1>3. \A m \in Messages : NoteInv(m)
  BY DEF PlatformInit, NoteInv, OnItsWay, InTree, TakenOut, StatusStays, Registered, Deleting
<1> QED BY <1>1, <1>2, <1>3 DEF AdapterInv

LEMMA AdapterInductive == AdapterInv /\ [PlatformNext]_platformVars => AdapterInv'
<1> SUFFICES ASSUME AdapterInv, [PlatformNext]_platformVars PROVE AdapterInv' OBVIOUS
<1>1. DOMAIN clear = 1..MaxClears BY DEF AdapterInv, PlatformTypes
<1>2. ASSUME NEW m \in Messages, UserSends(m) PROVE AdapterInv' BY <1>2, UserSendsStep
<1>3. ASSUME NEW m \in Messages, Handle(m) PROVE AdapterInv'
  BY <1>3, StatusSentStep, StatusFailsStep, TranscriptionEndsStep, PlacedStep, PlacingFailsStep,
     StatusDroppedStep, ApologyStep DEF Handle
<1>4. ASSUME NEW c \in DOMAIN clear, NEW m \in Messages, NEW id \in Ids, UserClears(c, m, id)
      PROVE  AdapterInv'
  BY <1>1, <1>4, UserClearsStep
<1>5. ASSUME NEW c \in DOMAIN clear, HandleClear(c) PROVE AdapterInv'
  BY <1>1, <1>5, ClearedStep, AnsweredStep DEF HandleClear
<1>6. ASSUME Dispatch PROVE AdapterInv'
  <2>1. MayDispatch /\ updates' = Tail(updates) /\ UNCHANGED <<platform, chat>>
    BY <1>6 DEF Dispatch
  <2>2. Head(updates) \in [what : {"message"}, of : Messages]
                            \cup [what : {"clear"}, of : 1..MaxClears, id : Ids]
    BY <2>1, DispatchQueue DEF MayDispatch, AdapterInv
  <2>3. CASE Head(updates).what = "message" BY <1>6, <2>1, <2>3, ReceiveStep DEF Dispatch
  <2>4. CASE Head(updates).what = "clear" BY <1>6, <2>1, <2>4, ClearCommandStep DEF Dispatch
  <2> QED BY <2>2, <2>3, <2>4
<1>7. CASE UNCHANGED platformVars
  BY <1>7 DEF platformVars, AdapterInv, PlatformTypes, QueuedOnce, NoteInv, OnItsWay, InTree, TakenOut,
              StatusStays, Registered, Deleting
<1> QED BY <1>2, <1>3, <1>4, <1>5, <1>6, <1>7 DEF PlatformNext

\* The variables stay in their types, the queue of updates in order, and what
\* each place of a message's handler says of the registry, the tree and the
\* chat is true.
THEOREM AdapterIsInOrder == PlatformSpec => []AdapterInv
BY AdapterInitially, AdapterInductive, PTL DEF PlatformSpec

\* A note whose cancellation was confirmed is in the registry no more, and only
\* a note in the registry sets out for the tree.
THEOREM CancelledStaysOut == PlatformSpec => []CancelledNeverRuns
<1>1. AdapterInv => CancelledNeverRuns BY DEF AdapterInv, NoteInv, InTree, CancelledNeverRuns
<1> QED BY <1>1, AdapterIsInOrder, PTL

\* Whatever a /clear or a cancelled note deletes, it left the tree before.
THEOREM StatusOfPromptStays == PlatformSpec => []PromptsHaveStatus
<1>1. AdapterInv => PromptsHaveStatus BY DEF AdapterInv, NoteInv, StatusStays, PromptsHaveStatus
<1> QED BY <1>1, AdapterIsInOrder, PTL

-----------------------------------------------------------------------------
(* Both ends together                                                      *)

\* A behaviour of the two together is one of each (limiter.py and the handlers
\* of telegram.py and discord.py share no state): what is proved of the limiter
\* and of the adapter alone holds of both.
THEOREM ChatIsLimiterAndAdapter == ChatSpec => Spec /\ PlatformSpec
<1>1. ChatInit => Init /\ PlatformInit BY DEF ChatInit
<1>2. [ChatNext]_chatVars => [Next]_vars /\ [PlatformNext]_platformVars
  BY DEF ChatNext, AdapterStep, LimiterStep, chatVars
<1> QED BY <1>1, <1>2, PTL DEF ChatSpec, Spec, PlatformSpec
=============================================================================

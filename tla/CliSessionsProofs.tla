--------------------------- MODULE CliSessionsProofs ---------------------------
(***************************************************************************)
(* The safety of CliSessions, for any number of tasks and "/stop"          *)
(* commands.                                                               *)
(*                                                                         *)
(* A CLI session is in the manager's maps at most once: the proof follows  *)
(* a session object, which enters the pending map once, when its own task  *)
(* gets it, and from there moves to the map of sessions or leaves.         *)
(*                                                                         *)
(* A process that runs is tracked: while its task is at work it is         *)
(* registered, and its session is in the maps under the id remove_session  *)
(* will look for, so that the removal finds it, and stop_all too.  The     *)
(* invariant TrackInv says why no other task of the tree, no "/stop" and   *)
(* no stop() that goes on by itself comes in between.                      *)
(***************************************************************************)
EXTENDS CliSessions, FiniteSetTheorems, WellFoundedInduction, TLAPS

Phases == {"new", "getting", "using", "registering", "leaving", "removing", "dropping", "done"}

MapTypes ==
  /\ phase \in [Task -> Phases]
  /\ parent \in [Task -> Id \cup {None}]
  /\ temp \in [Task -> Id \cup {None}]
  /\ pending \in [Id -> Task \cup {None}]
  /\ sessions \in [Id -> Task \cup {None}]
  /\ tempToReal \in [Id -> Id \cup {None}]

\* A session has one entry, in one of the two maps.
OneEntry ==
  \A s \in Task : \A i, j \in Id :
    /\ pending[i] = s /\ pending[j] = s => i = j
    /\ sessions[i] = s /\ sessions[j] = s => i = j
    /\ ~(pending[i] = s /\ sessions[j] = s)

\* A task that was not handed a session has not created one.
Uncreated(t) == phase[t] \in {"new", "getting"}
NoEarlyEntry ==
  \A t \in Task : Uncreated(t) => \A i \in Id : pending[i] # t /\ sessions[i] # t

RegistersAnId == \A t \in Task : phase[t] = "registering" => temp[t] \in Id

MapInv == MapTypes /\ OneEntry /\ NoEarlyEntry /\ RegistersAnId

LEMMA IdsAreIds ==
  /\ \A t \in Task : Real(t) \in Id /\ Temp(t) \in Id
  BY DEF Id, Tree

LEMMA MapInit == Init => MapInv
<1> SUFFICES ASSUME Init PROVE MapInv
  OBVIOUS
<1>1. MapTypes
  BY DEF Init, MapTypes, Phases
<1>2. OneEntry /\ NoEarlyEntry
  BY ActorsDiffer DEF Init, OneEntry, NoEarlyEntry
<1> QED BY <1>1, <1>2 DEF Init, MapInv, RegistersAnId

-----------------------------------------------------------------------------
(* What a step may do to the maps *)

\* A step that only takes entries away
LEMMA ShrinkStep ==
  ASSUME MapInv, MapTypes', RegistersAnId',
         \A i \in Id : pending'[i] \in {pending[i], None} /\ sessions'[i] \in {sessions[i], None},
         \A t \in Task : Uncreated(t)' => Uncreated(t)
  PROVE  MapInv'
<1>1. \A s \in Task : \A i \in Id : /\ pending'[i] = s => pending[i] = s
                                    /\ sessions'[i] = s => sessions[i] = s
  BY ActorsDiffer
<1>2. OneEntry'
  BY <1>1 DEF MapInv, OneEntry
<1>3. NoEarlyEntry'
  BY <1>1 DEF MapInv, NoEarlyEntry
<1> QED BY <1>2, <1>3 DEF MapInv

\* A step of t that leaves the maps alone and moves t on
LEMMA MoveStep ==
  ASSUME MapInv, NEW t \in Task, NEW where \in Phases,
         phase' = [phase EXCEPT ![t] = where],
         where = "new" => FALSE, where = "getting" => phase[t] = "new",
         where = "registering" => temp'[t] \in Id,
         \A u \in Task : u # t => temp'[u] = temp[u],
         temp' \in [Task -> Id \cup {None}], parent' \in [Task -> Id \cup {None}],
         UNCHANGED <<pending, sessions, tempToReal>>
  PROVE  MapInv'
<1>1. \A u \in Task : phase'[u] = IF u = t THEN where ELSE phase[u]
  BY DEF MapInv, MapTypes
<1>2. MapTypes'
  BY DEF MapInv, MapTypes
<1>3. RegistersAnId'
  BY <1>1 DEF MapInv, RegistersAnId
<1>4. \A u \in Task : Uncreated(u)' => Uncreated(u)
  BY <1>1 DEF Uncreated
<1>5. \A i \in Id : pending'[i] \in {pending[i], None} /\ sessions'[i] \in {sessions[i], None}
  OBVIOUS
<1> QED BY <1>2, <1>3, <1>4, <1>5, ShrinkStep

\* A step that none of this depends on
LEMMA StutterStep ==
  ASSUME MapInv, UNCHANGED <<phase, parent, temp, pending, sessions, tempToReal>>
  PROVE  MapInv'
BY DEF MapInv, MapTypes, OneEntry, NoEarlyEntry, RegistersAnId, Uncreated

\* get_or_create_session: a new session goes into the pending map, over what
\* the id stood for.
LEMMA GetStep ==
  ASSUME MapInv, NEW t \in Task, GetOrCreateSession(t)
  PROVE  MapInv'
<1> DEFINE id == IF parent[t] = None THEN Temp(t) ELSE parent[t]
<1>1. id \in Id
  BY IdsAreIds DEF MapInv, MapTypes
<1>2. /\ phase[t] = "getting"
      /\ phase' = [phase EXCEPT ![t] = "using"]
      /\ UNCHANGED <<parent, sessions, tempToReal>>
  BY DEF GetOrCreateSession
<1>3. CASE UNCHANGED <<temp, pending>>
  BY <1>2, <1>3, MoveStep DEF Phases, MapInv, MapTypes
<1>4. CASE pending' = [pending EXCEPT ![id] = t] /\ temp' = [temp EXCEPT ![t] = id]
  <2> HIDE DEF id
  <2>1. \A i \in Id : pending'[i] = IF i = id THEN t ELSE pending[i]
    BY <1>1, <1>4 DEF MapInv, MapTypes
  <2>2. \A u \in Task : phase'[u] = IF u = t THEN "using" ELSE phase[u]
    BY <1>2 DEF MapInv, MapTypes
  <2>3. \A i \in Id : pending[i] # t /\ sessions[i] # t
    BY <1>2 DEF MapInv, NoEarlyEntry, Uncreated
  <2>4. MapTypes'
    <3>1. phase' \in [Task -> Phases]
      BY <1>2 DEF MapInv, MapTypes, Phases
    <3> QED BY <1>1, <1>2, <1>4, <3>1 DEF MapInv, MapTypes
  <2>5. OneEntry'
    BY <1>2, <2>1, <2>3 DEF MapInv, OneEntry
  <2>6. NoEarlyEntry'
    BY <1>2, <2>1, <2>2 DEF MapInv, NoEarlyEntry, Uncreated
  <2>7. RegistersAnId'
    BY <1>1, <1>4, <2>2 DEF MapInv, MapTypes, RegistersAnId
  <2> QED BY <2>4, <2>5, <2>6, <2>7 DEF MapInv
<1> QED BY <1>3, <1>4 DEF GetOrCreateSession

\* register_real_session_id moves the entry it finds.
LEMMA RegisterStep ==
  ASSUME MapInv, NEW t \in Task, RegisterRealSessionId(t)
  PROVE  MapInv'
<1>1. temp[t] \in Id /\ Real(t) \in Id
  BY IdsAreIds DEF RegisterRealSessionId, MapInv, RegistersAnId
<1>2. /\ phase[t] = "registering"
      /\ phase' = [phase EXCEPT ![t] = "using"]
      /\ temp' = [temp EXCEPT ![t] = None]
      /\ parent' = parent
      /\ Register(temp[t], Real(t))
  BY DEF RegisterRealSessionId
<1>3. CASE UNCHANGED mapVars
  BY <1>2, <1>3, MoveStep DEF mapVars, Phases, MapInv, MapTypes
<1>4. CASE /\ pending[temp[t]] # None
           /\ pending' = [pending EXCEPT ![temp[t]] = None]
           /\ sessions' = [sessions EXCEPT ![Real(t)] = pending[temp[t]]]
           /\ tempToReal' = [tempToReal EXCEPT ![temp[t]] = Real(t)]
  <2> DEFINE i0 == temp[t]
             r0 == Real(t)
             s0 == pending[i0]
  <2>1. s0 \in Task /\ i0 \in Id /\ r0 \in Id
    BY <1>1, <1>4 DEF MapInv, MapTypes
  <2>2. MapTypes'
    <3>1. phase' \in [Task -> Phases] /\ temp' \in [Task -> Id \cup {None}]
      BY <1>2 DEF MapInv, MapTypes, Phases
    <3>2. /\ pending' \in [Id -> Task \cup {None}]
          /\ sessions' \in [Id -> Task \cup {None}]
          /\ tempToReal' \in [Id -> Id \cup {None}]
      <4> HIDE DEF i0, r0, s0
      <4> QED BY <1>4, <2>1 DEF MapInv, MapTypes, i0, r0, s0
    <3> QED BY <1>2, <3>1, <3>2 DEF MapInv, MapTypes
  <2>3. \A i \in Id : /\ pending'[i] = IF i = i0 THEN None ELSE pending[i]
                      /\ sessions'[i] = IF i = r0 THEN s0 ELSE sessions[i]
    BY <1>4, <2>1 DEF MapInv, MapTypes
  <2>4. \A u \in Task : phase'[u] = IF u = t THEN "using" ELSE phase[u]
    BY <1>2 DEF MapInv, MapTypes
  <2>5. pending[i0] = s0
    OBVIOUS
  <2> HIDE DEF i0, r0, s0
  <2>6. \A i \in Id : sessions[i] # s0 /\ (pending[i] = s0 => i = i0)
    BY <2>1, <2>5 DEF MapInv, OneEntry
  <2>7. ~Uncreated(s0)
    BY <2>1, <2>5 DEF MapInv, NoEarlyEntry
  <2>8. OneEntry'
    <3> SUFFICES ASSUME NEW s \in Task, NEW i \in Id, NEW j \in Id
                 PROVE  /\ pending'[i] = s /\ pending'[j] = s => i = j
                        /\ sessions'[i] = s /\ sessions'[j] = s => i = j
                        /\ ~(pending'[i] = s /\ sessions'[j] = s)
      BY DEF OneEntry
    <3>1. pending'[i] = s => pending[i] = s /\ i # i0
      BY <2>3, ActorsDiffer
    <3>2. pending'[j] = s => pending[j] = s
      BY <2>3, ActorsDiffer
    <3>3. CASE s = s0
      BY <2>3, <2>6, <3>1, <3>3
    <3>4. CASE s # s0
      BY <2>3, <3>1, <3>2, <3>4 DEF MapInv, OneEntry
    <3> QED BY <3>3, <3>4
  <2>9. NoEarlyEntry'
    <3>1. \A u \in Task : Uncreated(u)' => Uncreated(u)
      BY <2>4 DEF Uncreated
    <3>2. \A u \in Task : Uncreated(u) => u # s0
      BY <2>7
    <3> QED BY <2>3, <3>1, <3>2, ActorsDiffer DEF MapInv, NoEarlyEntry
  <2>10. RegistersAnId'
    BY <1>2, <2>4 DEF MapInv, MapTypes, RegistersAnId
  <2> QED BY <2>2, <2>8, <2>9, <2>10 DEF MapInv
<1> QED BY <1>2, <1>3, <1>4 DEF Register

\* A step that moves t on to a later phase, or does not
LEMMA LaterStep ==
  ASSUME MapInv, NEW t \in Task, NEW where \in Phases \ {"new", "getting", "registering"},
         phase' = [phase EXCEPT ![t] = where] \/ UNCHANGED phase,
         UNCHANGED <<parent, temp, pending, sessions, tempToReal>>
  PROVE  MapInv'
<1>1. CASE phase' = [phase EXCEPT ![t] = where]
  <2>1. temp' \in [Task -> Id \cup {None}] /\ parent' \in [Task -> Id \cup {None}]
    BY DEF MapInv, MapTypes
  <2> QED BY <1>1, <2>1, MoveStep
<1>2. CASE UNCHANGED phase
  BY <1>2, StutterStep
<1> QED BY <1>1, <1>2

\* The end of a task, or a wait in remove_session, that only takes entries away
LEMMA TakingStep ==
  ASSUME MapInv, NEW t \in Task, NEW where \in {"removing", "dropping", "done"},
         phase' = [phase EXCEPT ![t] = where],
         UNCHANGED <<parent, temp>>,
         \/ UNCHANGED pending
         \/ \E i : pending' = [pending EXCEPT ![i] = None],
         \/ UNCHANGED sessions
         \/ \E i : sessions' = [sessions EXCEPT ![i] = None],
         \/ UNCHANGED tempToReal
         \/ \E i : tempToReal' = [tempToReal EXCEPT ![i] = None]
  PROVE  MapInv'
<1>1. \A u \in Task : phase'[u] = IF u = t THEN where ELSE phase[u]
  BY DEF MapInv, MapTypes
<1>2. MapTypes'
  <2>1. phase' \in [Task -> Phases]
    BY DEF MapInv, MapTypes, Phases
  <2> QED BY <2>1 DEF MapInv, MapTypes
<1>3. RegistersAnId'
  BY <1>1 DEF MapInv, RegistersAnId
<1>4. \A u \in Task : Uncreated(u)' => Uncreated(u)
  BY <1>1 DEF Uncreated
<1>5. \A i \in Id : pending'[i] \in {pending[i], None} /\ sessions'[i] \in {sessions[i], None}
  BY DEF MapInv, MapTypes
<1> QED BY <1>2, <1>3, <1>4, <1>5, ShrinkStep

-----------------------------------------------------------------------------
(* The actions *)

LEMMA RemoveSteps ==
  ASSUME MapInv, NEW t \in Task, RemoveSession(t) \/ SessionRemoved(t) \/ CancelInRemove(t)
  PROVE  MapInv'
<1>1. CASE RemoveSession(t)
  <2>1. \E where \in {"removing", "dropping", "done"} : phase' = [phase EXCEPT ![t] = where]
    BY <1>1 DEF RemoveSession, AwaitStop, EndTask, Done
  <2>2. UNCHANGED <<parent, temp>>
    BY <1>1 DEF RemoveSession
  <2>3. UNCHANGED pending \/ \E i : pending' = [pending EXCEPT ![i] = None]
    BY <1>1 DEF RemoveSession, mapVars
  <2>4. UNCHANGED sessions \/ \E i : sessions' = [sessions EXCEPT ![i] = None]
    BY <1>1 DEF RemoveSession, mapVars
  <2>5. UNCHANGED tempToReal \/ \E i : tempToReal' = [tempToReal EXCEPT ![i] = None]
    BY <1>1 DEF RemoveSession, ForgetAlias, mapVars
  <2> QED BY <2>1, <2>2, <2>3, <2>4, <2>5, TakingStep
<1>2. CASE SessionRemoved(t)
  <2>1. phase' = [phase EXCEPT ![t] = "done"]
    BY <1>2 DEF SessionRemoved, Done
  <2>2. UNCHANGED <<parent, temp, pending, sessions>>
    BY <1>2 DEF SessionRemoved
  <2>3. UNCHANGED tempToReal \/ \E i : tempToReal' = [tempToReal EXCEPT ![i] = None]
    BY <1>2 DEF SessionRemoved, ForgetAlias
  <2> QED BY <2>1, <2>2, <2>3, TakingStep
<1>3. CASE CancelInRemove(t)
  BY <1>3, LaterStep DEF CancelInRemove, Done, mapVars, Phases
<1> QED BY <1>1, <1>2, <1>3

LEMMA StopAllSteps ==
  ASSUME MapInv, StopAllBegins \/ StopAllStopped
  PROVE  MapInv'
<1>1. UNCHANGED <<phase, parent, temp>>
  BY DEF StopAllBegins, StopAllStopped, handlerVars
<1>2. \/ UNCHANGED <<pending, sessions, tempToReal>>
      \/ /\ pending' = [i \in Id |-> None]
         /\ sessions' = [i \in Id |-> None]
         /\ tempToReal' = [i \in Id |-> None]
  BY DEF StopAllBegins, StopAllStopped, StopAllGoesOn, mapVars
<1>3. CASE UNCHANGED <<pending, sessions, tempToReal>>
  BY <1>1, <1>3, StutterStep
<1>4. CASE /\ pending' = [i \in Id |-> None]
           /\ sessions' = [i \in Id |-> None]
           /\ tempToReal' = [i \in Id |-> None]
  <2>1. MapTypes' /\ RegistersAnId'
    BY <1>1, <1>4 DEF MapInv, MapTypes, RegistersAnId
  <2>2. OneEntry' /\ NoEarlyEntry'
    BY <1>4, ActorsDiffer DEF OneEntry, NoEarlyEntry
  <2> QED BY <2>1, <2>2 DEF MapInv
<1> QED BY <1>2, <1>3, <1>4

LEMMA CommandSteps ==
  ASSUME MapInv, Commands
  PROVE  MapInv'
<1>1. ASSUME NEW t \in Task, NEW r \in Tree, NEW p \in Id \cup {None}, Start(t, r, p)
      PROVE  MapInv'
  <2>1. /\ phase[t] = "new"
        /\ phase' = [phase EXCEPT ![t] = "getting"]
        /\ parent' = [parent EXCEPT ![t] = p]
        /\ UNCHANGED <<temp, pending, sessions, tempToReal>>
    BY <1>1 DEF Start, mapVars
  <2>2. temp' \in [Task -> Id \cup {None}] /\ parent' \in [Task -> Id \cup {None}]
    BY <2>1 DEF MapInv, MapTypes
  <2>3. "getting" \in Phases
    BY DEF Phases
  <2> QED BY <2>1, <2>2, <2>3, MoveStep
<1>2. ASSUME NEW t \in Task, StopReply(t)
      PROVE  MapInv'
  BY <1>2, StutterStep DEF StopReply, handlerVars, mapVars
<1>3. CASE StopAll
  BY <1>3, StutterStep DEF StopAll, handlerVars, mapVars
<1> QED BY <1>1, <1>2, <1>3 DEF Commands

LEMMA GeneratorSteps ==
  ASSUME MapInv, Generators
  PROVE  MapInv'
<1> PICK t \in Task :
      \/ TakeCliLock(t) \/ Spawned(t) \/ SpawnFails(t) \/ StdoutEnds(t)
      \/ StderrEnds(t) \/ ProcessWaited(t) \/ GeneratorCloses(t) \/ StopReturns(t)
  BY DEF Generators
<1>1. UNCHANGED Untouched
  BY DEF TakeCliLock, Spawned, SpawnFails, StdoutEnds, StderrEnds, ProcessWaited,
         GeneratorCloses, StopReturns
<1>2. phase' = [phase EXCEPT ![t] = "leaving"] \/ UNCHANGED phase
  BY DEF TakeCliLock, Spawned, SpawnFails, StdoutEnds, StderrEnds, ProcessWaited,
         GeneratorCloses, StopReturns, Leave
<1> QED BY <1>1, <1>2, LaterStep DEF Untouched, mapVars, Phases

LEMMA HandlerSteps ==
  ASSUME MapInv, Handlers
  PROVE  MapInv'
<1> PICK t \in Task : SessionInfo(t) \/ SessionRemoved(t) \/ HandlerFails(t) \/ DeliverCancel(t)
  BY DEF Handlers
<1>1. CASE SessionInfo(t)
  <2>1. /\ phase' = [phase EXCEPT ![t] = "registering"]
        /\ temp[t] # None
        /\ UNCHANGED <<parent, temp, pending, sessions, tempToReal>>
    BY <1>1 DEF SessionInfo, mapVars
  <2>2. temp' \in [Task -> Id \cup {None}] /\ parent' \in [Task -> Id \cup {None}]
    BY <2>1 DEF MapInv, MapTypes
  <2>3. temp'[t] \in Id /\ "registering" \in Phases
    BY <2>1 DEF MapInv, MapTypes, Phases
  <2> QED BY <2>1, <2>2, <2>3, MoveStep
<1>2. CASE SessionRemoved(t)
  BY <1>2, RemoveSteps
<1>3. CASE HandlerFails(t)
  BY <1>3, LaterStep DEF HandlerFails, Leave, Untouched, mapVars, Phases
<1>4. CASE CancelInGenerator(t)
  <2>1. phase' = [phase EXCEPT ![t] = "leaving"] \/ UNCHANGED phase
    BY <1>4 DEF CancelInGenerator, Leave
  <2>2. UNCHANGED Untouched
    BY <1>4 DEF CancelInGenerator
  <2> QED BY <2>1, <2>2, LaterStep DEF Untouched, mapVars, Phases
<1>5. CASE CancelAtLock(t)
  <2>1. \E where \in {"leaving", "done"} : phase' = [phase EXCEPT ![t] = where]
    BY <1>5 DEF CancelAtLock, Done
  <2>2. UNCHANGED <<parent, temp, pending, sessions, tempToReal>>
    BY <1>5 DEF CancelAtLock, mapVars
  <2> QED BY <2>1, <2>2, LaterStep DEF Phases
<1>6. CASE CancelInRemove(t)
  BY <1>6, RemoveSteps
<1> QED BY <1>1, <1>2, <1>3, <1>4, <1>5, <1>6 DEF DeliverCancel

\* Nothing the tasks, the commands and the processes do puts a session into
\* the maps twice. (get_or_create_session, register_real_session_id,
\* remove_session, stop_all)
LEMMA MapStep == MapInv /\ [Next]_vars => MapInv'
<1> SUFFICES ASSUME MapInv, [Next]_vars PROVE MapInv'
  OBVIOUS
<1>1. CASE LockSteps
  BY <1>1, GetStep, RegisterStep, RemoveSteps, StopAllSteps DEF LockSteps
<1>2. CASE Commands
  BY <1>2, CommandSteps
<1>3. CASE Handlers
  BY <1>3, HandlerSteps
<1>4. CASE Generators
  BY <1>4, GeneratorSteps
<1>5. CASE StopAllStopped
  BY <1>5, StopAllSteps
<1>6. CASE Processes
  BY <1>6, StutterStep DEF Processes, Exits, KilledInShield, KilledByHolder, Untouched,
                           handlerVars, mapVars
<1>7. CASE UNCHANGED vars
  BY <1>7, StutterStep DEF vars, handlerVars, mapVars
<1> QED BY <1>1, <1>2, <1>3, <1>4, <1>5, <1>6, <1>7 DEF Next

\* A set with no two elements
LEMMA AtMostOne ==
  ASSUME NEW S, \A x, y \in S : x = y
  PROVE  /\ Cardinality(S) \in {0, 1}
         /\ Cardinality(S) = 0 <=> S = {}
<1>1. CASE S = {}
  BY <1>1, FS_EmptySet
<1>2. CASE S # {}
  <2> PICK x \in S : TRUE
    BY <1>2
  <2>1. S = {x}
    OBVIOUS
  <2> QED BY <2>1, FS_Singleton
<1> QED BY <1>1, <1>2

\* However many prompts, replies and "/stop" commands there are, the manager
\* has a session object under one id of one of its maps. (CLISessionManager)
THEOREM OneEntryEach == Spec => []OneEntryPerSession
<1>1. MapInv => OneEntryPerSession
  <2> SUFFICES ASSUME MapInv, NEW s \in Task
               PROVE  Cardinality({i \in Id : pending[i] = s})
                        + Cardinality({i \in Id : sessions[i] = s}) <= 1
    BY DEF OneEntryPerSession
  <2> DEFINE P == {i \in Id : pending[i] = s}
             R == {i \in Id : sessions[i] = s}
  <2>1. (\A x, y \in P : x = y) /\ (\A x, y \in R : x = y) /\ (P = {} \/ R = {})
    BY DEF MapInv, OneEntry
  <2> HIDE DEF P, R
  <2>2. /\ Cardinality(P) \in {0, 1} /\ (Cardinality(P) = 0 <=> P = {})
        /\ Cardinality(R) \in {0, 1} /\ (Cardinality(R) = 0 <=> R = {})
    BY <2>1, AtMostOne
  <2>3. Cardinality(P) + Cardinality(R) <= 1
    BY <2>1, <2>2
  <2> QED BY <2>3 DEF P, R
<1> QED BY <1>1, MapInit, MapStep, PTL DEF Spec


-----------------------------------------------------------------------------
(* The manager's lock                                                      *)

Waiter == Task \cup {Stopper}

LEMMA FirstOfPlaces ==
  ASSUME NEW S \in SUBSET Nat, S # {}
  PROVE  Min(S) \in S
<1> DEFINE less == {ss \in Nat \X Nat : ss[1] < ss[2]}
<1>1. IsWellFoundedOn(less, Nat) BY NatLessThanWellFounded DEF OpToRel
<1> HIDE DEF less
<1> PICK n \in S : TRUE OBVIOUS
<1>2. PICK m \in S : \A k \in S : ~(<<k, m>> \in less) BY <1>1, WFMin
<1>3. \A k \in S : m <= k
  <2> TAKE k \in S
  <2>1. k \in Nat /\ m \in Nat /\ ~(k < m) BY <1>2 DEF less
  <2> QED BY <2>1
<1> QED BY <1>3 DEF Min

LEMMA Joined ==
  ASSUME NEW S, NEW a \in Seq(S), NEW b \in Seq(S), NEW x \in 1..(Len(a) + Len(b))
  PROVE  (a \o b)[x] = IF x <= Len(a) THEN a[x] ELSE b[x - Len(a)]
OBVIOUS

\* The place of a later element among those after the one taken out
LEMMA LaterPlace ==
  ASSUME NEW j \in Nat, NEW k \in Nat, NEW n \in Nat, NEW m \in Nat,
         ~(j < k), j <= n - 1, k >= 1, k <= n, m = k - 1
  PROVE  /\ ~(j <= m)
         /\ j - m \in 1..(n - k)
         /\ (j - m) + k = j + 1
OBVIOUS

\* One of q is taken out, and the others keep their order.
LEMMA RemovedAt ==
  ASSUME NEW S, NEW q \in Seq(S), NEW k \in DOMAIN q
  PROVE  /\ RemoveAt(q, k) \in Seq(S)
         /\ Len(RemoveAt(q, k)) = Len(q) - 1
         /\ \A j \in 1..(Len(q) - 1) : RemoveAt(q, k)[j] = q[IF j < k THEN j ELSE j + 1]
<1>1. k \in 1..Len(q) /\ Len(q) \in Nat OBVIOUS
<1> DEFINE a == SubSeq(q, 1, k - 1)
           b == SubSeq(q, k + 1, Len(q))
<1>2. a \in Seq(S) /\ Len(a) = k - 1 /\ \A j \in 1..(k - 1) : a[j] = q[j] BY <1>1
<1>3. b \in Seq(S) /\ Len(b) = Len(q) - k /\ \A j \in 1..(Len(q) - k) : b[j] = q[j + k] BY <1>1
<1> HIDE DEF a, b
<1>4. a \o b \in Seq(S) /\ Len(a \o b) = Len(q) - 1 BY <1>1, <1>2, <1>3
<1>5. \A j \in 1..(Len(a) + Len(b)) : (a \o b)[j] = IF j <= Len(a) THEN a[j] ELSE b[j - Len(a)]
  BY <1>2, <1>3, Joined
<1>6. Len(a) = k - 1 /\ Len(b) = Len(q) - k /\ k \in Nat /\ k >= 1 /\ k <= Len(q) BY <1>1, <1>2, <1>3
<1>7. ASSUME NEW j \in 1..(Len(q) - 1) PROVE (a \o b)[j] = q[IF j < k THEN j ELSE j + 1]
  <2>1. j \in Nat /\ j >= 1 /\ j <= Len(q) - 1 /\ j \in 1..(Len(a) + Len(b)) BY <1>1, <1>6
  <2>2. CASE j < k
    <3>1. j \in 1..(k - 1) /\ j <= Len(a) BY <1>6, <2>1, <2>2
    <3>2. (a \o b)[j] = a[j] BY <1>5, <2>1, <3>1
    <3> QED BY <1>2, <2>2, <3>1, <3>2
  <2>3. CASE ~(j < k)
    <3> DEFINE x == j - Len(a)
    <3>1. Len(a) \in Nat BY <1>2
    <3>4. x \in 1..(Len(q) - k) /\ x + k = j + 1 /\ ~(j <= Len(a))
      <4> HIDE DEF a, b, x
      <4> QED BY <1>1, <1>6, <2>1, <2>3, <3>1, LaterPlace DEF x
    <3>2. (a \o b)[j] = b[x] BY <1>5, <2>1, <3>4
    <3> HIDE DEF x
    <3>3. b[x] = q[j + 1] BY <1>3, <3>4
    <3> QED BY <2>3, <3>2, <3>3
  <2> QED BY <2>2, <2>3
<1> QED BY <1>4, <1>7 DEF RemoveAt, a, b

\* A waiter leaves the queue.
Shortened(q, w) ==
  \/ w = q
  \/ \E k \in 1..Len(q) : /\ Len(w) = Len(q) - 1
                          /\ \A j \in 1..(Len(q) - 1) : w[j] = q[IF j < k THEN j ELSE j + 1]
LEMMA WithoutIs ==
  ASSUME NEW t, lockQueue \in Seq(Waiter)
  PROVE  /\ Without(t) \in Seq(Waiter)
         /\ \/ Without(t) = lockQueue
            \/ \E k \in 1..Len(lockQueue) :
                 /\ lockQueue[k] = t
                 /\ Len(Without(t)) = Len(lockQueue) - 1
                 /\ \A j \in 1..(Len(lockQueue) - 1) :
                      Without(t)[j] = lockQueue[IF j < k THEN j ELSE j + 1]
<1> DEFINE I == {i \in 1..Len(lockQueue) : lockQueue[i] = t}
           k == SelectInSeq(lockQueue, LAMBDA v : v = t)
<1>1. CASE I = {}
  <2>1. Without(t) = lockQueue BY <1>1 DEF Without, RemoveFirst
  <2> QED BY <2>1
<1>2. CASE I # {}
  <2>1. Without(t) = RemoveAt(lockQueue, k) BY <1>2 DEF Without, RemoveFirst
  <2>2. k = Min(I) BY <1>2 DEF SelectInSeq
  <2>3. I \in SUBSET Nat OBVIOUS
  <2>4. k \in I
    <3> HIDE DEF I, k
    <3> QED BY <1>2, <2>2, <2>3, FirstOfPlaces
  <2>5. k \in 1..Len(lockQueue) /\ lockQueue[k] = t BY <2>4
  <2> HIDE DEF I, k
  <2>6. k \in DOMAIN lockQueue BY <2>5
  <2> QED BY <2>1, <2>5, <2>6, RemovedAt
<1> QED BY <1>1, <1>2

LEMMA QueueTypes ==
  ASSUME lockQueue \in Seq(Waiter), NEW a \in Waiter
  PROVE  /\ Acquire(a) => lockQueue' \in Seq(Waiter) /\ granted' \in BOOLEAN
         /\ lockQueue # <<>> /\ Release => lockQueue' \in Seq(Waiter) /\ granted' \in BOOLEAN
<1>1. Append(lockQueue, a) \in Seq(Waiter) OBVIOUS
<1>2. lockQueue # <<>> => Tail(lockQueue) \in Seq(Waiter) OBVIOUS
<1> QED BY <1>1, <1>2 DEF Acquire, Release
\* Who waits for a process holds the lock.
Holder ==
  /\ victim # None => victimOf \in Task
  /\ stopper = "stopping" => lockQueue # <<>> /\ lockQueue[1] = Stopper /\ victimOf \in Task
  /\ \A t \in Task : phase[t] \in {"removing", "dropping"} =>
       lockQueue # <<>> /\ lockQueue[1] = t /\ victimOf \in Task

\* The stages of a task and of its generator
Working == {"queued", "spawning", "reading", "draining", "waiting", "stopping", "closing"}
Stage(t) ==
  /\ phase[t] = "new" <=> tree[t] = None
  /\ phase[t] = "new" => parent[t] = None
  /\ gen[t] = "none" <=> session[t] = None
  /\ phase[t] \in {"new", "getting"} => gen[t] = "none" /\ temp[t] = None /\ captured[t] = None
  /\ phase[t] = "using" => gen[t] \in Working
  /\ phase[t] = "registering" => gen[t] = "reading" /\ temp[t] # None
  /\ phase[t] \in {"leaving", "removing", "dropping"} => gen[t] \in {"closing", "over"}
  /\ phase[t] = "done" => gen[t] \in {"none", "closing", "over"}
  /\ gen[t] # "none" => (temp[t] = None <=> captured[t] # None)
  /\ gen[t] \in {"none", "queued", "spawning"} => proc[t] = "none"
  /\ t \in shielded => gen[t] \in {"stopping", "closing", "over"}
  /\ gen[t] = "stopping" => t \in asked
Stages == cancelReq \subseteq asked /\ \A t \in Task : Stage(t)

\* A session's process was started for it.
Runs == \A s \in Task : process[s] # None => session[process[s]] = s /\ proc[process[s]] # "none"

Base == MapInv /\ TypeOK /\ Holder /\ Stages /\ Runs

LEMMA QueueHeads ==
  ASSUME lockQueue \in Seq(Waiter), lockQueue # <<>>, NEW a
  PROVE  /\ Append(lockQueue, a)[1] = lockQueue[1] /\ Append(lockQueue, a) # <<>>
         /\ Head(lockQueue) = lockQueue[1]
         /\ a \in Waiter /\ a # lockQueue[1] =>
              /\ Without(a) # <<>> /\ Without(a)[1] = lockQueue[1]
              /\ Append(Without(a), a) # <<>> /\ Append(Without(a), a)[1] = lockQueue[1]
<1>1. Len(lockQueue) \in Nat /\ Len(lockQueue) >= 1 OBVIOUS
<1>2. ASSUME a \in Waiter, a # lockQueue[1] PROVE Without(a) # <<>> /\ Without(a)[1] = lockQueue[1]
  <2>1. CASE Without(a) = lockQueue BY <2>1
  <2>2. ASSUME NEW k \in 1..Len(lockQueue), lockQueue[k] = a, Len(Without(a)) = Len(lockQueue) - 1,
               \A j \in 1..(Len(lockQueue) - 1) : Without(a)[j] = lockQueue[IF j < k THEN j ELSE j + 1]
        PROVE  Without(a) # <<>> /\ Without(a)[1] = lockQueue[1]
    <3>1. k # 1 /\ k >= 1 /\ k <= Len(lockQueue) BY <1>2, <2>2
    <3>2. 1 \in 1..(Len(lockQueue) - 1) /\ 1 < k BY <1>1, <3>1
    <3>3. Len(Without(a)) # 0 BY <1>1, <2>2, <3>2
    <3> QED BY <2>2, <3>2, <3>3
  <2> QED BY <2>1, <2>2, WithoutIs
<1>3. Without(a) \in Seq(Waiter) BY WithoutIs
<1>4. ASSUME NEW q \in Seq(Waiter), q # <<>>, NEW b \in Waiter
      PROVE  Append(q, b)[1] = q[1] /\ Append(q, b) # <<>>
  BY <1>4
<1> QED BY <1>2, <1>3, <1>4

\* Where the lock is held, its release leaves a queue.
LEMMA Released ==
  ASSUME TypeOK, NEW a, HasLock(a), Release
  PROVE  lockQueue' \in Seq(Waiter) /\ granted' \in BOOLEAN
BY QueueTypes DEF TypeOK, HasLock, Waiter

LEMMA GetTypes ==
  ASSUME Base, NEW t \in Task, GetOrCreateSession(t)
  PROVE  TypeOK'
<1> DEFINE p == parent[t]
           id == IF p = None THEN Temp(t) ELSE p
<1>1. p \in Id \cup {None} /\ id \in Id BY IdsAreIds DEF Base, TypeOK
<1>2. Found(p) # None => Found(p) \in Task /\ Lookup(p) \in Id
  BY <1>1 DEF Base, TypeOK, Found, Lookup
<1>3. /\ session' \in [Task -> Task \cup {None}] /\ captured' \in [Task -> Id \cup {None}]
      /\ temp' \in [Task -> Id \cup {None}] /\ pending' \in [Id -> Task \cup {None}]
  <2>1. CASE /\ Found(p) # None
             /\ session' = [session EXCEPT ![t] = Found(p)]
             /\ captured' = [captured EXCEPT ![t] = Lookup(p)]
             /\ UNCHANGED <<temp, pending>>
    <3> HIDE DEF p
    <3> QED BY <1>2, <2>1 DEF Base, TypeOK
  <2>2. CASE /\ session' = [session EXCEPT ![t] = t]
             /\ pending' = [pending EXCEPT ![id] = t]
             /\ temp' = [temp EXCEPT ![t] = id]
             /\ UNCHANGED captured
    <3> HIDE DEF id
    <3> QED BY <1>1, <2>2 DEF Base, TypeOK
  <2> QED BY <2>1, <2>2 DEF GetOrCreateSession
<1>4. lockQueue' \in Seq(Waiter) /\ granted' \in BOOLEAN BY Released DEF GetOrCreateSession, Base
<1>5. phase' = [phase EXCEPT ![t] = "using"] /\ gen' = [gen EXCEPT ![t] = "queued"]
  BY DEF GetOrCreateSession
<1>6. UNCHANGED <<tree, parent, cancelReq, stopVars, treeVars, proc, process, pids, shielded,
                  sessions, tempToReal, realToTemp, victim, victimOf, allVars>>
  BY DEF GetOrCreateSession
<1> QED BY <1>3, <1>4, <1>5, <1>6 DEF Base, TypeOK, stopVars, treeVars, allVars, Waiter

LEMMA RegisterTypes ==
  ASSUME Base, NEW t \in Task, RegisterRealSessionId(t)
  PROVE  TypeOK'
<1>1. Real(t) \in Id /\ temp[t] \in Id \cup {None} BY IdsAreIds DEF Base, TypeOK
<1>2. /\ pending' \in [Id -> Task \cup {None}] /\ sessions' \in [Id -> Task \cup {None}]
      /\ tempToReal' \in [Id -> Id \cup {None}] /\ realToTemp' \in [Id -> Id \cup {None}]
  <2>1. CASE UNCHANGED mapVars BY <2>1 DEF Base, TypeOK, mapVars
  <2>2. CASE /\ pending[temp[t]] # None
             /\ pending' = [pending EXCEPT ![temp[t]] = None]
             /\ sessions' = [sessions EXCEPT ![Real(t)] = pending[temp[t]]]
             /\ tempToReal' = [tempToReal EXCEPT ![temp[t]] = Real(t)]
             /\ realToTemp' = [realToTemp EXCEPT ![Real(t)] = temp[t]]
    <3>1. temp[t] \in Id => pending[temp[t]] \in Task BY <2>2 DEF Base, TypeOK
    <3>2. temp[t] \in Id BY DEF RegisterRealSessionId, Base, MapInv, RegistersAnId
    <3> QED BY <1>1, <2>2, <3>1, <3>2 DEF Base, TypeOK
  <2> QED BY <2>1, <2>2 DEF RegisterRealSessionId, Register
<1>3. lockQueue' \in Seq(Waiter) /\ granted' \in BOOLEAN BY Released DEF RegisterRealSessionId, Base
<1>4. /\ captured' = [captured EXCEPT ![t] = Real(t)]
      /\ temp' = [temp EXCEPT ![t] = None]
      /\ phase' = [phase EXCEPT ![t] = "using"]
      /\ UNCHANGED <<tree, parent, gen, session, cancelReq, stopVars, treeVars, proc, process,
                     pids, shielded, victim, victimOf, allVars>>
  BY DEF RegisterRealSessionId
<1> QED BY <1>1, <1>2, <1>3, <1>4 DEF Base, TypeOK, stopVars, treeVars, allVars, Waiter

LEMMA RemoveTypes ==
  ASSUME Base, NEW t \in Task, RemoveSession(t)
  PROVE  TypeOK'
<1> DEFINE id == RemovedId(t)
<1>1. /\ pending' \in [Id -> Task \cup {None}] /\ sessions' \in [Id -> Task \cup {None}]
      /\ tempToReal' \in [Id -> Id \cup {None}] /\ realToTemp' \in [Id -> Id \cup {None}]
  BY DEF RemoveSession, ForgetAlias, mapVars, Base, TypeOK
<1>2. \/ phase' = [phase EXCEPT ![t] = "done"] /\ Release /\ UNCHANGED <<proc, victim, victimOf>>
         /\ cancelReq' = cancelReq \ {t} /\ isProcessing' = [isProcessing EXCEPT ![tree[t]] = FALSE]
      \/ \E s, where :
           /\ s \in {pending[id], sessions[id]} /\ s # None /\ where \in {"removing", "dropping"}
           /\ AwaitStop(t, s, where)
  BY DEF RemoveSession, EndTask, Done
<1>3. UNCHANGED <<tree, parent, temp, captured, gen, session, stopVars, currentTask,
                  process, pids, shielded, allVars>>
  BY DEF RemoveSession
<1>4. CASE /\ phase' = [phase EXCEPT ![t] = "done"] /\ Release /\ UNCHANGED <<proc, victim, victimOf>>
           /\ cancelReq' = cancelReq \ {t} /\ isProcessing' = [isProcessing EXCEPT ![tree[t]] = FALSE]
  <2>1. lockQueue' \in Seq(Waiter) /\ granted' \in BOOLEAN BY <1>4, Released DEF RemoveSession, Base
  <2> QED BY <1>1, <1>3, <1>4, <2>1 DEF Base, TypeOK, stopVars, allVars, Waiter
<1>5. ASSUME NEW s, NEW where, s \in {pending[id], sessions[id]}, s # None,
             where \in {"removing", "dropping"}, AwaitStop(t, s, where)
      PROVE  TypeOK'
  <2>1. id \in Id BY DEF RemoveSession, RemovedId, Base, Stages, Stage, TypeOK
  <2>2. s \in Task /\ process[s] \in Task \cup {None} BY <1>5, <2>1 DEF Base, TypeOK
  <2>3. phase' = [phase EXCEPT ![t] = where] /\ granted' = FALSE
        /\ UNCHANGED <<cancelReq, isProcessing, lockQueue>>
        /\ proc' = [proc EXCEPT ![process[s]] = "signalled"] /\ victim' = process[s] /\ victimOf' = s
    BY <1>5 DEF AwaitStop, BeginStop
  <2> QED BY <1>1, <1>3, <1>5, <2>2, <2>3 DEF Base, TypeOK, stopVars, allVars
<1> QED BY <1>2, <1>4, <1>5

LEMMA GetStage ==
  ASSUME Base, NEW t \in Task, GetOrCreateSession(t)
  PROVE  Stages'
<1> DEFINE p == parent[t]
           id == IF p = None THEN Temp(t) ELSE p
<1>1. p \in Id \cup {None} /\ id \in Id BY IdsAreIds DEF Base, TypeOK
<1>2. Found(p) # None => Found(p) \in Task /\ Lookup(p) \in Id
  BY <1>1 DEF Base, TypeOK, Found, Lookup
<1>3. session[t] = None /\ temp[t] = None /\ captured[t] = None /\ proc[t] = "none" /\ t \notin shielded
  BY DEF Base, Stages, Stage, GetOrCreateSession
<1>4. /\ session'[t] # None /\ (temp'[t] = None <=> captured'[t] # None)
      /\ \A u \in Task : u # t =>
           session'[u] = session[u] /\ temp'[u] = temp[u] /\ captured'[u] = captured[u]
  <2> HIDE DEF id, p
  <2>1. CASE /\ Found(p) # None
             /\ session' = [session EXCEPT ![t] = Found(p)]
             /\ captured' = [captured EXCEPT ![t] = Lookup(p)]
             /\ UNCHANGED <<temp, pending>>
    BY <1>2, <1>3, <2>1, NoneIsNoId DEF Base, TypeOK
  <2>2. CASE /\ session' = [session EXCEPT ![t] = t]
             /\ pending' = [pending EXCEPT ![id] = t]
             /\ temp' = [temp EXCEPT ![t] = id]
             /\ UNCHANGED captured
    BY <1>1, <1>3, <2>2, NoneIsNoId, ActorsDiffer DEF Base, TypeOK
  <2> QED BY <2>1, <2>2 DEF GetOrCreateSession, p, id
<1>5. /\ phase' = [phase EXCEPT ![t] = "using"] /\ gen' = [gen EXCEPT ![t] = "queued"]
      /\ phase[t] = "getting"
      /\ UNCHANGED <<tree, parent, cancelReq, asked, proc, shielded>>
  BY DEF GetOrCreateSession, stopVars
<1> QED BY <1>3, <1>4, <1>5 DEF Base, TypeOK, Stages, Stage, Working
\* The holder stays at the head, whoever joins or leaves the queue behind it.
LEMMA HolderStays ==
  ASSUME Base, NEW t \in Task, phase[t] \notin {"removing", "dropping"},
         \E where : phase' = [phase EXCEPT ![t] = where] /\ where \notin {"removing", "dropping"},
         lockQueue' \in {lockQueue, Append(lockQueue, t), Without(t), Append(Without(t), t)},
         UNCHANGED <<victim, victimOf, stopper>>
  PROVE  Holder'
<1>1. lockQueue \in Seq(Waiter) /\ t \in Waiter BY DEF Base, TypeOK, Waiter
<1>2. lockQueue # <<>> /\ lockQueue[1] # t => lockQueue' # <<>> /\ lockQueue'[1] = lockQueue[1]
  <2> SUFFICES ASSUME lockQueue # <<>>, lockQueue[1] # t
               PROVE  lockQueue' # <<>> /\ lockQueue'[1] = lockQueue[1]
    OBVIOUS
  <2>1. /\ Append(lockQueue, t)[1] = lockQueue[1] /\ Append(lockQueue, t) # <<>>
        /\ Without(t) # <<>> /\ Without(t)[1] = lockQueue[1]
        /\ Append(Without(t), t) # <<>> /\ Append(Without(t), t)[1] = lockQueue[1]
    BY <1>1, QueueHeads
  <2> QED BY <2>1
<1>3. \A u \in Task : phase'[u] \in {"removing", "dropping"} => phase'[u] = phase[u] /\ u # t
  BY DEF Base, TypeOK
<1> QED BY <1>2, <1>3, ActorsDiffer DEF Base, Holder

LEMMA RemoveHolds ==
  ASSUME Base, NEW t \in Task, RemoveSession(t)
  PROVE  Holder'
<1>1. lockQueue # <<>> /\ lockQueue[1] = t /\ phase[t] = "leaving" BY DEF RemoveSession, HasLock
<1>2. stopper # "stopping" /\ \A u \in Task : phase[u] \notin {"removing", "dropping"}
  BY <1>1, ActorsDiffer DEF Base, Holder
<1>3. stopper' = stopper BY DEF RemoveSession, allVars
<1>4. CASE EndTask(t)
  <2>1. phase' = [phase EXCEPT ![t] = "done"] /\ UNCHANGED <<victim, victimOf>> BY <1>4 DEF EndTask, Done
  <2> QED BY <1>2, <1>3, <2>1 DEF Base, Holder, TypeOK
<1>5. ASSUME NEW s, NEW where, s \in {pending[RemovedId(t)], sessions[RemovedId(t)]}, s # None,
             AwaitStop(t, s, where)
      PROVE  Holder'
  <2>1. RemovedId(t) \in Id BY DEF RemoveSession, RemovedId, Base, Stages, Stage, TypeOK
  <2>2. s \in Task BY <1>5, <2>1 DEF Base, TypeOK
  <2>3. phase' = [phase EXCEPT ![t] = where] /\ victimOf' = s /\ lockQueue' = lockQueue
    BY <1>5 DEF AwaitStop, BeginStop
  <2> QED BY <1>1, <1>2, <1>3, <2>2, <2>3 DEF Base, Holder, TypeOK
<1> QED BY <1>4, <1>5 DEF RemoveSession

LEMMA CancelledHolds ==
  ASSUME Base, NEW t \in Task, CancelInGenerator(t)
  PROVE  Holder'
<1>1. phase[t] = "using" /\ (phase' = [phase EXCEPT ![t] = "leaving"] \/ phase' = phase)
  BY DEF CancelInGenerator, Leave
<1>2. \E where : phase' = [phase EXCEPT ![t] = where] /\ where \notin {"removing", "dropping"}
  <2>1. phase = [phase EXCEPT ![t] = phase[t]] BY DEF Base, TypeOK
  <2> QED BY <1>1, <2>1
<1>3. lockQueue' \in {lockQueue, Append(lockQueue, t)} BY DEF CancelInGenerator, Leave, Acquire
<1>4. UNCHANGED <<victim, victimOf, stopper>> BY DEF CancelInGenerator, Untouched, allVars
<1> QED BY <1>1, <1>2, <1>3, <1>4, HolderStays

LEMMA ClosedHolds ==
  ASSUME Base, NEW t \in Task, GeneratorCloses(t)
  PROVE  Holder'
<1>1. CASE phase[t] = "using"
  <2>1. phase' = [phase EXCEPT ![t] = "leaving"] /\ lockQueue' = Append(lockQueue, t)
    BY <1>1 DEF GeneratorCloses, Leave, Acquire
  <2>2. UNCHANGED <<victim, victimOf, stopper>> BY DEF GeneratorCloses, Untouched, allVars
  <2>3. \E where : phase' = [phase EXCEPT ![t] = where] /\ where \notin {"removing", "dropping"}
    <3> WITNESS "leaving"
    <3> QED BY <2>1
  <2> QED BY <1>1, <2>1, <2>2, <2>3, HolderStays
<1>2. CASE phase[t] # "using"
  BY <1>2 DEF GeneratorCloses, Untouched, allVars, Base, Holder
<1> QED BY <1>1, <1>2

LEMMA CancelledAtLockHolds ==
  ASSUME Base, NEW t \in Task, CancelAtLock(t)
  PROVE  Holder'
<1>1. phase[t] \notin {"removing", "dropping"} BY DEF CancelAtLock
<1>2. phase' \in {[phase EXCEPT ![t] = "done"], [phase EXCEPT ![t] = "leaving"]} BY DEF CancelAtLock, Done
<1>3. lockQueue' \in {Without(t), Append(Without(t), t)} BY DEF CancelAtLock
<1>4. UNCHANGED <<victim, victimOf, stopper>> BY DEF CancelAtLock, allVars
<1> QED BY <1>1, <1>2, <1>3, <1>4, HolderStays

LEMMA StopAllTypes ==
  ASSUME Base, StopAll
  PROVE  TypeOK'
<1>1. cancelReq' \in SUBSET Task /\ asked' \in SUBSET Task /\ asked \subseteq asked'
  BY DEF StopAll, Cancel, Base, TypeOK
<1>2. lockQueue' \in Seq(Waiter) /\ granted' \in BOOLEAN
  BY QueueTypes DEF StopAll, Base, TypeOK, Waiter
<1>3. isProcessing' \in [Tree -> BOOLEAN] /\ stopper' = "waiting" /\ stopAlls' \in 0..MaxStopAlls
  BY StopAllsIsNat DEF StopAll, Base, TypeOK
<1>4. UNCHANGED <<handlerVars, gen, session, overlapped, cut, currentTask, proc, process, pids,
                  shielded, mapVars, victim, victimOf, toStop>>
  BY DEF StopAll
<1> QED BY <1>1, <1>2, <1>3, <1>4 DEF Base, TypeOK, handlerVars, mapVars, Waiter

LEMMA RemovedTypes ==
  ASSUME Base, NEW t \in Task, SessionRemoved(t) \/ (t \in cancelReq /\ CancelInRemove(t))
  PROVE  TypeOK'
<1>1. lockQueue # <<>> /\ lockQueue[1] = t /\ phase[t] \in {"removing", "dropping"}
  BY DEF SessionRemoved, CancelInRemove, Base, Holder
<1>2. Release /\ Done(t) /\ victim' = None /\ victimOf' = None /\ pids' \in SUBSET pids
  BY DEF SessionRemoved, CancelInRemove, Unregistered
<1>3. lockQueue' \in Seq(Waiter) /\ granted' \in BOOLEAN
  BY <1>1, <1>2, QueueTypes DEF Base, TypeOK, Waiter
<1>4. realToTemp' \in [Id -> Id \cup {None}] /\ tempToReal' \in [Id -> Id \cup {None}]
  BY DEF SessionRemoved, CancelInRemove, ForgetAlias, mapVars, Base, TypeOK
<1>5. cut' \in SUBSET asked /\ asked' = asked
  <2>1. CASE SessionRemoved(t) BY <2>1 DEF SessionRemoved, stopVars, Base, TypeOK
  <2>2. CASE t \in cancelReq /\ CancelInRemove(t) BY <2>2 DEF CancelInRemove, Base, TypeOK, Stages
  <2> QED BY <2>1, <2>2
<1>6. UNCHANGED <<tree, parent, temp, captured, gen, session, overlapped, currentTask, proc,
                  process, shielded, pending, sessions, allVars>>
  BY DEF SessionRemoved, CancelInRemove, stopVars, mapVars
<1> QED BY <1>2, <1>3, <1>4, <1>5, <1>6 DEF Base, TypeOK, Done, Waiter, allVars

LEMMA GoesOnTypes ==
  ASSUME Base, NEW S, S \subseteq Task, HasLock(Stopper), StopAllGoesOn(S),
         UNCHANGED <<handlerVars, gen, session, cancelReq, stopVars, treeVars, process, shielded, stopAlls>>,
         pids' \in SUBSET pids
  PROVE  TypeOK'
<1>1. CASE /\ \E s \in S \ {x \in S : ~Alive(process[x])} : BeginStop(s)
           /\ toStop' \subseteq S /\ stopper' = "stopping" /\ granted' = FALSE
           /\ UNCHANGED <<mapVars, lockQueue>>
  <2>1. PICK s \in S : BeginStop(s) BY <1>1
  <2>2. s \in Task /\ process[s] \in Task \cup {None} BY DEF Base, TypeOK
  <2>3. proc' = [proc EXCEPT ![process[s]] = "signalled"] /\ victim' = process[s] /\ victimOf' = s
    BY <2>1 DEF BeginStop
  <2> QED BY <1>1, <2>2, <2>3 DEF Base, TypeOK, handlerVars, stopVars, treeVars, mapVars
<1>2. CASE /\ toStop' = {} /\ stopper' = "idle" /\ Release /\ victim' = None /\ victimOf' = None
           /\ pending' = [i \in Id |-> None] /\ sessions' = [i \in Id |-> None]
           /\ tempToReal' = [i \in Id |-> None] /\ realToTemp' = [i \in Id |-> None]
           /\ UNCHANGED proc
  <2>1. lockQueue' \in Seq(Waiter) /\ granted' \in BOOLEAN BY <1>2, Released DEF Base
  <2> QED BY <1>2, <2>1 DEF Base, TypeOK, handlerVars, stopVars, treeVars, Waiter
<1> QED BY <1>1, <1>2 DEF StopAllGoesOn

LEMMA StopAllStepsTypes ==
  ASSUME Base, StopAllBegins \/ StopAllStopped
  PROVE  TypeOK'
<1>1. CASE StopAllBegins
  <2> DEFINE S == ({pending[i] : i \in Id} \cup {sessions[i] : i \in Id}) \ {None}
  <2>1. S \subseteq Task BY DEF Base, TypeOK
  <2>2. StopAllGoesOn(S) /\ HasLock(Stopper) BY <1>1 DEF StopAllBegins
  <2>3. UNCHANGED <<handlerVars, gen, session, cancelReq, stopVars, treeVars, process, shielded, stopAlls>>
        /\ pids' = pids
    BY <1>1 DEF StopAllBegins
  <2> HIDE DEF S
  <2> QED BY <2>1, <2>2, <2>3, GoesOnTypes
<1>2. CASE StopAllStopped
  <2> DEFINE S == toStop \ {victimOf}
  <2>1. S \subseteq Task BY DEF Base, TypeOK
  <2>2. StopAllGoesOn(S) /\ HasLock(Stopper) BY <1>2 DEF StopAllStopped, Base, Holder, HasLock
  <2>3. UNCHANGED <<handlerVars, gen, session, cancelReq, stopVars, treeVars, process, shielded, stopAlls>>
        /\ pids' \in SUBSET pids
    BY <1>2 DEF StopAllStopped, Unregistered
  <2> HIDE DEF S
  <2> QED BY <2>1, <2>2, <2>3, GoesOnTypes
<1> QED BY <1>1, <1>2

LEMMA CancelAtLockTypes ==
  ASSUME Base, NEW t \in Task, t \in cancelReq, CancelAtLock(t)
  PROVE  TypeOK'
<1>1. Without(t) \in Seq(Waiter) /\ Append(Without(t), t) \in Seq(Waiter)
  <2>1. lockQueue \in Seq(Waiter) /\ t \in Waiter BY DEF Base, TypeOK, Waiter
  <2>2. Without(t) \in Seq(Waiter) BY <2>1, WithoutIs
  <2> QED BY <2>1, <2>2
<1>2. lockQueue' \in Seq(Waiter) /\ granted' \in BOOLEAN
  BY <1>1 DEF CancelAtLock, Base, TypeOK
<1>3. t \in asked BY DEF Base, Stages
<1>4. UNCHANGED <<tree, parent, temp, captured, session, asked, overlapped, currentTask, mapVars,
                  victim, victimOf, allVars, proc, process, pids, shielded>>
  BY DEF CancelAtLock
<1>5. /\ phase' \in {[phase EXCEPT ![t] = "done"], [phase EXCEPT ![t] = "leaving"]}
      /\ cancelReq' = cancelReq \ {t} /\ gen' \in {gen, [gen EXCEPT ![t] = "closing"]}
      /\ isProcessing' \in {isProcessing, [isProcessing EXCEPT ![tree[t]] = FALSE]}
      /\ cut' \in {cut, cut \cup {t}}
  BY DEF CancelAtLock, Done
<1> QED BY <1>2, <1>3, <1>4, <1>5 DEF Base, TypeOK, Waiter, mapVars, allVars

LEMMA StartTypes ==
  ASSUME Base, NEW t \in Task, NEW r \in Tree, NEW p \in Id \cup {None}, Start(t, r, p)
  PROVE  TypeOK'
BY QueueTypes DEF Base, TypeOK, Waiter, Tree, Start, Acquire,
     handlerVars, stopVars, treeVars, mapVars, lockVars, allVars, Untouched

\* Every step keeps the types.
LEMMA TypesKept ==
  ASSUME Base, [Next]_vars
  PROVE  TypeOK'
<1>1. ASSUME NEW t \in Task, StopReply(t)
      PROVE  TypeOK'
  BY <1>1, QueueTypes DEF Base, TypeOK, Waiter, StopReply, handlerVars, treeVars, mapVars,
     lockVars, allVars, Cancel
<1>2. ASSUME NEW t \in Task, SessionInfo(t)
      PROVE  TypeOK'
  BY <1>2, QueueTypes DEF Base, TypeOK, Waiter, SessionInfo, stopVars, treeVars, mapVars,
     allVars, Acquire
<1>3. ASSUME NEW t \in Task, HandlerFails(t)
      PROVE  TypeOK'
  BY <1>3, QueueTypes DEF Base, TypeOK, Waiter, HandlerFails, Untouched, Leave, stopVars,
     treeVars, mapVars, allVars, Acquire
<1>4. ASSUME NEW t \in Task, t \in cancelReq, CancelInGenerator(t)
      PROVE  TypeOK'
  BY <1>4, QueueTypes DEF Base, TypeOK, Waiter, CancelInGenerator, Untouched, GeneratorEnds,
     Leave, stopVars, treeVars, mapVars, allVars, Unregistered, Acquire
<1>5. ASSUME NEW t \in Task, TakeCliLock(t)
      PROVE  TypeOK'
  BY <1>5, QueueTypes DEF Base, TypeOK, Waiter, TakeCliLock, Untouched, CliLockFree, stopVars,
     treeVars, mapVars, allVars
<1>6. ASSUME NEW t \in Task, Spawned(t)
      PROVE  TypeOK'
  BY <1>6, QueueTypes DEF Base, TypeOK, Waiter, Spawned, Untouched, stopVars, treeVars, mapVars,
     allVars
<1>7. ASSUME NEW t \in Task, SpawnFails(t)
      PROVE  TypeOK'
  BY <1>7, QueueTypes DEF Base, TypeOK, Waiter, SpawnFails, Untouched, GeneratorEnds, Leave,
     stopVars, treeVars, mapVars, allVars, Unregistered, Acquire
<1>8. ASSUME NEW t \in Task, StdoutEnds(t)
      PROVE  TypeOK'
  BY <1>8, QueueTypes DEF Base, TypeOK, Waiter, StdoutEnds, Untouched, stopVars, treeVars,
     mapVars, allVars
<1>9. ASSUME NEW t \in Task, StderrEnds(t)
      PROVE  TypeOK'
  BY <1>9, QueueTypes DEF Base, TypeOK, Waiter, StderrEnds, Untouched, stopVars, treeVars,
     mapVars, allVars
<1>10. ASSUME NEW t \in Task, ProcessWaited(t)
      PROVE  TypeOK'
  BY <1>10, QueueTypes DEF Base, TypeOK, Waiter, ProcessWaited, Untouched, Alive, GeneratorEnds,
     Leave, stopVars, treeVars, mapVars, allVars, Unregistered, Acquire
<1>11. ASSUME NEW t \in Task, GeneratorCloses(t)
      PROVE  TypeOK'
  BY <1>11, QueueTypes DEF Base, TypeOK, Waiter, GeneratorCloses, Untouched, GeneratorEnds,
     Leave, stopVars, treeVars, mapVars, allVars, Unregistered, Acquire
<1>12. ASSUME NEW t \in Task, StopReturns(t)
      PROVE  TypeOK'
  BY <1>12, QueueTypes DEF Base, TypeOK, Waiter, StopReturns, Untouched, Alive, Unregistered,
     stopVars, treeVars, mapVars, allVars
<1>13. ASSUME NEW t \in Task, Exits(t)
      PROVE  TypeOK'
  BY <1>13, QueueTypes DEF Base, TypeOK, Waiter, Exits, Untouched, Alive, stopVars, treeVars,
     mapVars, allVars
<1>14. ASSUME NEW t \in Task, KilledInShield(t)
      PROVE  TypeOK'
  BY <1>14, QueueTypes DEF Base, TypeOK, Waiter, KilledInShield, Untouched, Alive, stopVars,
     treeVars, mapVars, allVars
<1>15. CASE KilledByHolder
  BY <1>15 DEF Base, TypeOK, Waiter, Holder, KilledByHolder, handlerVars, stopVars, treeVars,
     mapVars, allVars, Alive
<1>16. CASE UNCHANGED <<vars>>
  BY <1>16 DEF Base, TypeOK, Waiter, vars, handlerVars, stopVars, treeVars, mapVars, lockVars,
     allVars, Untouched
<1> QED
  <2>1. CASE LockSteps
    BY <2>1, <1>16, GetTypes, RegisterTypes, RemoveTypes, StopAllStepsTypes DEF LockSteps,
       handlerVars, stopVars, treeVars, mapVars, allVars
  <2>2. CASE Commands
    BY <2>2, <1>1, <1>16, StopAllTypes, StartTypes DEF Commands, handlerVars, treeVars,
       mapVars, lockVars, allVars
  <2>3. CASE Handlers
    BY <2>3, <1>2, <1>3, <1>4, <1>16, RemovedTypes, CancelAtLockTypes DEF Handlers,
       DeliverCancel, stopVars, treeVars, mapVars, allVars, Untouched
  <2>4. CASE Generators
    BY <2>4, <1>5, <1>6, <1>7, <1>8, <1>9, <1>10, <1>11, <1>12, <1>16 DEF Generators, stopVars,
       treeVars, mapVars, allVars, Untouched
  <2>5. CASE StopAllStopped
    BY <2>5, <1>16, StopAllStepsTypes DEF handlerVars, stopVars, treeVars, mapVars
  <2>6. CASE Processes
    BY <2>6, <1>13, <1>14, <1>15, <1>16 DEF Processes, handlerVars, stopVars, treeVars,
       mapVars, allVars, Untouched
  <2>7. CASE UNCHANGED vars
    BY <2>7, <1>16 DEF vars, handlerVars, stopVars, treeVars, mapVars, lockVars, allVars
  <2> QED BY <2>1, <2>2, <2>3, <2>4, <2>5, <2>6, <2>7 DEF Next

\* The lock is held by who waits for a process.
LEMMA HolderKept ==
  ASSUME Base, [Next]_vars
  PROVE  Holder'
<1>1. ASSUME NEW t \in Task, GetOrCreateSession(t)
      PROVE  Holder'
  BY <1>1, ActorsDiffer, QueueHeads DEF Base, Holder, HasLock, TypeOK, Stages, Stage, Waiter,
     GetOrCreateSession, stopVars, treeVars, allVars, Release, Lookup, Found
<1>2. ASSUME NEW t \in Task, RegisterRealSessionId(t)
      PROVE  Holder'
  BY <1>2, ActorsDiffer, QueueHeads DEF Base, Holder, HasLock, TypeOK, Stages, Stage, Waiter,
     RegisterRealSessionId, stopVars, treeVars, allVars, Release, Register, mapVars
<1>3. CASE StopAllBegins
  BY <1>3, ActorsDiffer, QueueHeads DEF Base, Holder, HasLock, TypeOK, Stages, Stage, Waiter,
     StopAllBegins, handlerVars, stopVars, treeVars, StopAllGoesOn, mapVars, Release, BeginStop,
     Alive
<1>4. CASE StopAll
  BY <1>4, ActorsDiffer, QueueHeads DEF Base, Holder, HasLock, TypeOK, Stages, Stage, Waiter,
     StopAll, handlerVars, mapVars, Cancel, Acquire
<1>5. ASSUME NEW t \in Task, SessionInfo(t)
      PROVE  Holder'
  BY <1>5, ActorsDiffer, QueueHeads DEF Base, Holder, HasLock, TypeOK, Stages, Stage, Waiter,
     SessionInfo, stopVars, treeVars, mapVars, allVars, Acquire
<1>6. ASSUME NEW t \in Task, SessionRemoved(t)
      PROVE  Holder'
  BY <1>6, ActorsDiffer, QueueHeads DEF Base, Holder, HasLock, TypeOK, Stages, Stage, Waiter,
     SessionRemoved, stopVars, allVars, Release, Done, ForgetAlias, Alive, Unregistered
<1>7. ASSUME NEW t \in Task, HandlerFails(t)
      PROVE  Holder'
  BY <1>7, ActorsDiffer, QueueHeads DEF Base, Holder, HasLock, TypeOK, Stages, Stage, Waiter,
     HandlerFails, Untouched, Leave, stopVars, treeVars, mapVars, allVars, Acquire
<1>8. ASSUME NEW t \in Task, t \in cancelReq, CancelInRemove(t)
      PROVE  Holder'
  BY <1>8, ActorsDiffer, QueueHeads DEF Base, Holder, HasLock, TypeOK, Stages, Stage, Waiter,
     CancelInRemove, mapVars, allVars, Release, Done
<1>9. ASSUME NEW t \in Task, SpawnFails(t)
      PROVE  Holder'
  BY <1>9, ActorsDiffer, QueueHeads DEF Base, Holder, HasLock, TypeOK, Stages, Stage, Waiter,
     SpawnFails, Untouched, GeneratorEnds, Leave, stopVars, treeVars, mapVars, allVars,
     Unregistered, Acquire
<1>10. ASSUME NEW t \in Task, ProcessWaited(t)
      PROVE  Holder'
  BY <1>10, ActorsDiffer, QueueHeads DEF Base, Holder, HasLock, TypeOK, Stages, Stage, Waiter,
     ProcessWaited, Untouched, Alive, GeneratorEnds, Leave, stopVars, treeVars, mapVars,
     allVars, Unregistered, Acquire
<1>11. CASE StopAllStopped
  BY <1>11, ActorsDiffer, QueueHeads DEF Base, Holder, HasLock, TypeOK, Stages, Stage, Waiter,
     StopAllStopped, handlerVars, stopVars, treeVars, Alive, StopAllGoesOn, Unregistered,
     mapVars, Release, BeginStop
<1>12. CASE KilledByHolder
  BY <1>12, ActorsDiffer, QueueHeads DEF Base, Holder, HasLock, TypeOK, Stages, Stage, Waiter,
     KilledByHolder, handlerVars, stopVars, treeVars, mapVars, allVars, Alive
<1>13. ASSUME NEW t \in Task, NEW r \in Tree, NEW p \in Id \cup {None}, Start(t, r, p)
      PROVE  Holder'
  BY <1>13, ActorsDiffer, QueueHeads DEF Base, Holder, HasLock, TypeOK, Stages, Stage, Waiter,
     Start, mapVars, allVars, Acquire, Tree
<1>14. CASE UNCHANGED <<phase, lockQueue, victim, victimOf, stopper>>
  BY <1>14 DEF Base, Holder
<1> QED
  <2>1. CASE LockSteps
    BY <2>1, <1>1, <1>2, <1>3, <1>14, RemoveHolds DEF LockSteps, handlerVars, treeVars,
       mapVars, allVars, stopVars, Alive
  <2>2. CASE Commands
    BY <2>2, <1>4, <1>13, <1>14 DEF Commands, StopReply, handlerVars, treeVars, mapVars,
       lockVars, allVars, Cancel
  <2>3. CASE Handlers
    BY <2>3, <1>5, <1>6, <1>7, <1>8, <1>14, CancelledHolds, CancelledAtLockHolds DEF Handlers,
       DeliverCancel, treeVars, mapVars, allVars, Untouched, stopVars, Alive, Unregistered
  <2>4. CASE Generators
    BY <2>4, <1>9, <1>10, <1>14, ClosedHolds DEF Generators, treeVars, mapVars, allVars,
       TakeCliLock, Untouched, CliLockFree, stopVars, Spawned, StdoutEnds, StderrEnds,
       StopReturns, Alive, Unregistered
  <2>5. CASE StopAllStopped
    BY <2>5, <1>11, <1>14 DEF handlerVars, treeVars, mapVars, stopVars, Alive, Unregistered
  <2>6. CASE Processes
    BY <2>6, <1>12, <1>14 DEF Processes, handlerVars, treeVars, mapVars, allVars, Untouched,
       stopVars, Alive, Exits, KilledInShield
  <2>7. CASE UNCHANGED vars
    BY <2>7, <1>14 DEF handlerVars, treeVars, mapVars, lockVars, allVars, stopVars, vars
  <2> QED BY <2>1, <2>2, <2>3, <2>4, <2>5, <2>6, <2>7 DEF Next

\* Every step keeps the stages.
LEMMA StagesKept ==
  ASSUME Base, [Next]_vars
  PROVE  Stages'
<1>1. ASSUME NEW t \in Task, RegisterRealSessionId(t)
      PROVE  Stages'
  BY <1>1, ActorsDiffer, NoneIsNoId, IdsAreIds DEF Base, TypeOK, Stages, Stage, Over, Working,
     Runs, Holder, RegisterRealSessionId, stopVars, treeVars, allVars, Release, Register,
     mapVars
<1>2. ASSUME NEW t \in Task, RemoveSession(t)
      PROVE  Stages'
  BY <1>2, ActorsDiffer, NoneIsNoId, IdsAreIds DEF Base, TypeOK, Stages, Stage, Over, Working,
     Runs, Holder, RemoveSession, stopVars, mapVars, allVars, AwaitStop, EndTask, ForgetAlias,
     Alive, BeginStop, Release, Done
<1>3. CASE StopAllBegins
  BY <1>3, ActorsDiffer, NoneIsNoId, IdsAreIds DEF Base, TypeOK, Stages, Stage, Over, Working,
     Runs, Holder, StopAllBegins, handlerVars, stopVars, treeVars, StopAllGoesOn, mapVars,
     Release, BeginStop, Alive
<1>4. ASSUME NEW t \in Task, StopReply(t)
      PROVE  Stages'
  BY <1>4, ActorsDiffer, NoneIsNoId, IdsAreIds DEF Base, TypeOK, Stages, Stage, Over, Working,
     Runs, Holder, StopReply, handlerVars, treeVars, mapVars, lockVars, allVars, Cancel
<1>5. CASE StopAll
  BY <1>5, ActorsDiffer, NoneIsNoId, IdsAreIds DEF Base, TypeOK, Stages, Stage, Over, Working,
     Runs, Holder, StopAll, handlerVars, mapVars, Cancel, Acquire
<1>6. ASSUME NEW t \in Task, SessionInfo(t)
      PROVE  Stages'
  BY <1>6, ActorsDiffer, NoneIsNoId, IdsAreIds DEF Base, TypeOK, Stages, Stage, Over, Working,
     Runs, Holder, SessionInfo, stopVars, treeVars, mapVars, allVars, Acquire
<1>7. ASSUME NEW t \in Task, SessionRemoved(t)
      PROVE  Stages'
  BY <1>7, ActorsDiffer, NoneIsNoId, IdsAreIds DEF Base, TypeOK, Stages, Stage, Over, Working,
     Runs, Holder, SessionRemoved, stopVars, allVars, Release, Done, ForgetAlias, Alive,
     Unregistered
<1>8. ASSUME NEW t \in Task, HandlerFails(t)
      PROVE  Stages'
  BY <1>8, ActorsDiffer, NoneIsNoId, IdsAreIds DEF Base, TypeOK, Stages, Stage, Over, Working,
     Runs, Holder, HandlerFails, Untouched, Leave, stopVars, treeVars, mapVars, allVars, Acquire
<1>9. ASSUME NEW t \in Task, t \in cancelReq, CancelInGenerator(t)
      PROVE  Stages'
  BY <1>9, ActorsDiffer, NoneIsNoId, IdsAreIds DEF Base, TypeOK, Stages, Stage, Over, Working,
     Runs, Holder, CancelInGenerator, Untouched, GeneratorEnds, Leave, stopVars, treeVars,
     mapVars, allVars, Unregistered, Acquire
<1>10. ASSUME NEW t \in Task, t \in cancelReq, CancelAtLock(t)
      PROVE  Stages'
  BY <1>10, ActorsDiffer, NoneIsNoId, IdsAreIds DEF Base, TypeOK, Stages, Stage, Over, Working,
     Runs, Holder, CancelAtLock, mapVars, allVars, Done
<1>11. ASSUME NEW t \in Task, t \in cancelReq, CancelInRemove(t)
      PROVE  Stages'
  BY <1>11, ActorsDiffer, NoneIsNoId, IdsAreIds DEF Base, TypeOK, Stages, Stage, Over, Working,
     Runs, Holder, CancelInRemove, mapVars, allVars, Release, Done
<1>12. ASSUME NEW t \in Task, TakeCliLock(t)
      PROVE  Stages'
  BY <1>12, ActorsDiffer, NoneIsNoId, IdsAreIds DEF Base, TypeOK, Stages, Stage, Over, Working,
     Runs, Holder, TakeCliLock, Untouched, CliLockFree, stopVars, treeVars, mapVars, allVars
<1>13. ASSUME NEW t \in Task, Spawned(t)
      PROVE  Stages'
  BY <1>13, ActorsDiffer, NoneIsNoId, IdsAreIds DEF Base, TypeOK, Stages, Stage, Over, Working,
     Runs, Holder, Spawned, Untouched, stopVars, treeVars, mapVars, allVars
<1>14. ASSUME NEW t \in Task, SpawnFails(t)
      PROVE  Stages'
  BY <1>14, ActorsDiffer, NoneIsNoId, IdsAreIds DEF Base, TypeOK, Stages, Stage, Over, Working,
     Runs, Holder, SpawnFails, Untouched, GeneratorEnds, Leave, stopVars, treeVars, mapVars,
     allVars, Unregistered, Acquire
<1>15. ASSUME NEW t \in Task, StdoutEnds(t)
      PROVE  Stages'
  BY <1>15, ActorsDiffer, NoneIsNoId, IdsAreIds DEF Base, TypeOK, Stages, Stage, Over, Working,
     Runs, Holder, StdoutEnds, Untouched, stopVars, treeVars, mapVars, allVars
<1>16. ASSUME NEW t \in Task, StderrEnds(t)
      PROVE  Stages'
  BY <1>16, ActorsDiffer, NoneIsNoId, IdsAreIds DEF Base, TypeOK, Stages, Stage, Over, Working,
     Runs, Holder, StderrEnds, Untouched, stopVars, treeVars, mapVars, allVars
<1>17. ASSUME NEW t \in Task, ProcessWaited(t)
      PROVE  Stages'
  BY <1>17, ActorsDiffer, NoneIsNoId, IdsAreIds DEF Base, TypeOK, Stages, Stage, Over, Working,
     Runs, Holder, ProcessWaited, Untouched, Alive, GeneratorEnds, Leave, stopVars, treeVars,
     mapVars, allVars, Unregistered, Acquire
<1>18. ASSUME NEW t \in Task, GeneratorCloses(t)
      PROVE  Stages'
  BY <1>18, ActorsDiffer, NoneIsNoId, IdsAreIds DEF Base, TypeOK, Stages, Stage, Over, Working,
     Runs, Holder, GeneratorCloses, Untouched, GeneratorEnds, Leave, stopVars, treeVars,
     mapVars, allVars, Unregistered, Acquire
<1>19. ASSUME NEW t \in Task, StopReturns(t)
      PROVE  Stages'
  BY <1>19, ActorsDiffer, NoneIsNoId, IdsAreIds DEF Base, TypeOK, Stages, Stage, Over, Working,
     Runs, Holder, StopReturns, Untouched, Alive, Unregistered, stopVars, treeVars, mapVars,
     allVars
<1>20. CASE StopAllStopped
  BY <1>20, ActorsDiffer, NoneIsNoId, IdsAreIds DEF Base, TypeOK, Stages, Stage, Over, Working,
     Runs, Holder, StopAllStopped, handlerVars, stopVars, treeVars, Alive, StopAllGoesOn,
     Unregistered, mapVars, Release, BeginStop
<1>21. ASSUME NEW t \in Task, Exits(t)
      PROVE  Stages'
  BY <1>21, ActorsDiffer, NoneIsNoId, IdsAreIds DEF Base, TypeOK, Stages, Stage, Over, Working,
     Runs, Holder, Exits, Untouched, Alive, stopVars, treeVars, mapVars, allVars
<1>22. ASSUME NEW t \in Task, KilledInShield(t)
      PROVE  Stages'
  BY <1>22, ActorsDiffer, NoneIsNoId, IdsAreIds DEF Base, TypeOK, Stages, Stage, Over, Working,
     Runs, Holder, KilledInShield, Untouched, Alive, stopVars, treeVars, mapVars, allVars
<1>23. CASE KilledByHolder
  BY <1>23, ActorsDiffer, NoneIsNoId, IdsAreIds DEF Base, TypeOK, Stages, Stage, Over, Working,
     Runs, Holder, KilledByHolder, handlerVars, stopVars, treeVars, mapVars, allVars, Alive
<1>24. ASSUME NEW t \in Task, NEW r \in Tree, NEW p \in Id \cup {None}, Start(t, r, p)
      PROVE  Stages'
  BY <1>24, ActorsDiffer, NoneIsNoId, IdsAreIds DEF Base, TypeOK, Stages, Stage, Over, Working,
     Runs, Holder, Start, mapVars, allVars, Acquire, Tree
<1>25. CASE UNCHANGED <<tree, parent, phase, gen, session, temp, captured, cancelReq, asked,
                        proc, shielded>>
  BY <1>25 DEF Base, Stages, Stage
<1> QED
  <2>1. CASE LockSteps
    BY <2>1, <1>1, <1>2, <1>3, <1>25, GetStage DEF LockSteps, handlerVars, stopVars, treeVars,
       mapVars, allVars
  <2>2. CASE Commands
    BY <2>2, <1>4, <1>5, <1>24, <1>25 DEF Commands, handlerVars, treeVars, mapVars, lockVars,
       allVars
  <2>3. CASE Handlers
    BY <2>3, <1>6, <1>7, <1>8, <1>9, <1>10, <1>11, <1>25 DEF Handlers, DeliverCancel, stopVars,
       treeVars, mapVars, allVars, Untouched
  <2>4. CASE Generators
    BY <2>4, <1>12, <1>13, <1>14, <1>15, <1>16, <1>17, <1>18, <1>19, <1>25 DEF Generators,
       stopVars, treeVars, mapVars, allVars, Untouched
  <2>5. CASE StopAllStopped
    BY <2>5, <1>20, <1>25 DEF handlerVars, stopVars, treeVars, mapVars
  <2>6. CASE Processes
    BY <2>6, <1>21, <1>22, <1>23, <1>25 DEF Processes, handlerVars, stopVars, treeVars,
       mapVars, allVars, Untouched
  <2>7. CASE UNCHANGED vars
    BY <2>7, <1>25 DEF vars, handlerVars, stopVars, treeVars, mapVars, lockVars, allVars
  <2> QED BY <2>1, <2>2, <2>3, <2>4, <2>5, <2>6, <2>7 DEF Next

\* Every step keeps the processes with their sessions.
LEMMA RunsKept ==
  ASSUME Base, [Next]_vars
  PROVE  Runs'
<1>1. ASSUME NEW t \in Task, GetOrCreateSession(t)
      PROVE  Runs'
  BY <1>1, ActorsDiffer, NoneIsNoId, IdsAreIds DEF Base, TypeOK, Stages, Stage, Runs,
     GetOrCreateSession, stopVars, treeVars, allVars, Release, Lookup, Found
<1>2. ASSUME NEW t \in Task, RemoveSession(t)
      PROVE  Runs'
  BY <1>2, ActorsDiffer, NoneIsNoId, IdsAreIds DEF Base, TypeOK, Stages, Stage, Runs,
     RemoveSession, stopVars, mapVars, allVars, AwaitStop, EndTask, ForgetAlias, Alive,
     BeginStop, Release, Done
<1>3. CASE StopAllBegins
  BY <1>3, ActorsDiffer, NoneIsNoId, IdsAreIds DEF Base, TypeOK, Stages, Stage, Runs,
     StopAllBegins, handlerVars, stopVars, treeVars, StopAllGoesOn, mapVars, Release, BeginStop,
     Alive
<1>4. CASE StopAllStopped
  BY <1>4, ActorsDiffer, NoneIsNoId, IdsAreIds DEF Base, TypeOK, Stages, Stage, Runs,
     StopAllStopped, handlerVars, stopVars, treeVars, Alive, StopAllGoesOn, Unregistered,
     mapVars, Release, BeginStop
<1>5. ASSUME NEW t \in Task, t \in cancelReq, CancelInGenerator(t)
      PROVE  Runs'
  BY <1>5, ActorsDiffer, NoneIsNoId, IdsAreIds DEF Base, TypeOK, Stages, Stage, Runs,
     CancelInGenerator, Untouched, GeneratorEnds, Leave, stopVars, treeVars, mapVars, allVars,
     Unregistered, Acquire
<1>6. ASSUME NEW t \in Task, Spawned(t)
      PROVE  Runs'
  BY <1>6, ActorsDiffer, NoneIsNoId, IdsAreIds DEF Base, TypeOK, Stages, Stage, Runs, Spawned,
     Untouched, stopVars, treeVars, mapVars, allVars
<1>7. ASSUME NEW t \in Task, Exits(t)
      PROVE  Runs'
  BY <1>7, ActorsDiffer, NoneIsNoId, IdsAreIds DEF Base, TypeOK, Stages, Stage, Runs, Exits,
     Untouched, Alive, stopVars, treeVars, mapVars, allVars
<1>8. ASSUME NEW t \in Task, KilledInShield(t)
      PROVE  Runs'
  BY <1>8, ActorsDiffer, NoneIsNoId, IdsAreIds DEF Base, TypeOK, Stages, Stage, Runs,
     KilledInShield, Untouched, Alive, stopVars, treeVars, mapVars, allVars
<1>9. CASE KilledByHolder
  BY <1>9, ActorsDiffer, NoneIsNoId, IdsAreIds DEF Base, TypeOK, Stages, Stage, Runs,
     KilledByHolder, handlerVars, stopVars, treeVars, mapVars, allVars, Alive
<1>10. CASE UNCHANGED <<session, process, proc>>
  BY <1>10 DEF Base, Runs
<1> QED
  <2>1. CASE LockSteps
    BY <2>1, <1>1, <1>2, <1>3, <1>10 DEF LockSteps, RegisterRealSessionId, stopVars, treeVars,
       allVars, Release, Register, mapVars, handlerVars, Done, ForgetAlias, Alive
  <2>2. CASE Commands
    BY <2>2, <1>10 DEF Commands, treeVars, allVars, mapVars, StopReply, handlerVars, lockVars,
       Cancel, StopAll, Acquire, Start
  <2>3. CASE Handlers
    BY <2>3, <1>5, <1>10 DEF Handlers, DeliverCancel, stopVars, treeVars, allVars, Release,
       mapVars, Acquire, SessionInfo, SessionRemoved, Done, ForgetAlias, Alive, Unregistered,
       HandlerFails, Untouched, Leave, CancelAtLock, CancelInRemove, GeneratorEnds
  <2>4. CASE Generators
    BY <2>4, <1>6, <1>10 DEF Generators, stopVars, treeVars, allVars, mapVars, Acquire, Alive,
       Unregistered, Untouched, Leave, TakeCliLock, CliLockFree, SpawnFails, GeneratorEnds,
       StdoutEnds, StderrEnds, ProcessWaited, GeneratorCloses, StopReturns
  <2>5. CASE StopAllStopped
    BY <2>5, <1>4, <1>10 DEF stopVars, treeVars, Release, mapVars, handlerVars, Alive,
       Unregistered
  <2>6. CASE Processes
    BY <2>6, <1>7, <1>8, <1>9, <1>10 DEF Processes, stopVars, treeVars, allVars, mapVars,
       handlerVars, Alive, Untouched
  <2>7. CASE UNCHANGED vars
    BY <2>7, <1>10 DEF stopVars, treeVars, allVars, mapVars, handlerVars, lockVars, vars
  <2> QED BY <2>1, <2>2, <2>3, <2>4, <2>5, <2>6, <2>7 DEF Next

-----------------------------------------------------------------------------
(* Generators and processes                                                *)

\* A generator at work has its handler with it.
LEMMA InUse ==
  ASSUME Base, NEW t \in Task, gen[t] \in Working \ {"closing"}
  PROVE  phase[t] = "using" \/ (phase[t] = "registering" /\ gen[t] = "reading")
<1>1. Stage(t) BY DEF Base, Stages
<1>2. phase[t] \in {"new", "getting", "using", "registering", "leaving", "removing", "dropping", "done"}
  BY DEF Base, TypeOK
<1>3. gen[t] \notin {"none", "closing", "over"} BY DEF Working
<1>4. phase[t] \in {"using", "registering"} BY <1>1, <1>2, <1>3 DEF Stage
<1> QED BY <1>1, <1>4 DEF Stage

\* One generator at a time has a session, and its process.
Exclusive ==
  \A t, u \in Task : gen[t] \in InGenerator /\ gen[u] \in InGenerator /\ session[t] = session[u] => t = u
Owns == \A t \in Task : gen[t] \in InGenerator \ {"spawning"} => process[session[t]] = t

\* _cli_lock keeps the generators of a session apart.
LEMMA ExclusiveKept ==
  ASSUME Base, Exclusive, [Next]_vars
  PROVE  Exclusive'
<1>1. ASSUME NEW t \in Task, GetOrCreateSession(t)
      PROVE  Exclusive'
  BY <1>1, ActorsDiffer DEF Base, TypeOK, Stages, Stage, Exclusive, InGenerator,
     GetOrCreateSession, stopVars, treeVars, allVars, Release, Lookup, Found
<1>2. ASSUME NEW t \in Task, HandlerFails(t)
      PROVE  Exclusive'
  BY <1>2, ActorsDiffer DEF Base, TypeOK, Stages, Stage, Exclusive, InGenerator, HandlerFails,
     Untouched, Leave, stopVars, treeVars, mapVars, allVars, Acquire
<1>3. ASSUME NEW t \in Task, t \in cancelReq, CancelInGenerator(t)
      PROVE  Exclusive'
  BY <1>3, ActorsDiffer DEF Base, TypeOK, Stages, Stage, Exclusive, InGenerator,
     CancelInGenerator, Untouched, GeneratorEnds, Leave, stopVars, treeVars, mapVars, allVars,
     Unregistered, Acquire
<1>4. ASSUME NEW t \in Task, t \in cancelReq, CancelAtLock(t)
      PROVE  Exclusive'
  BY <1>4, ActorsDiffer DEF Base, TypeOK, Stages, Stage, Exclusive, InGenerator, CancelAtLock,
     mapVars, allVars, Done
<1>5. ASSUME NEW t \in Task, TakeCliLock(t)
      PROVE  Exclusive'
  BY <1>5, ActorsDiffer DEF Base, TypeOK, Stages, Stage, Exclusive, InGenerator, TakeCliLock,
     Untouched, CliLockFree, stopVars, treeVars, mapVars, allVars
<1>6. ASSUME NEW t \in Task, Spawned(t)
      PROVE  Exclusive'
  BY <1>6, ActorsDiffer DEF Base, TypeOK, Stages, Stage, Exclusive, InGenerator, Spawned,
     Untouched, stopVars, treeVars, mapVars, allVars
<1>7. ASSUME NEW t \in Task, SpawnFails(t)
      PROVE  Exclusive'
  BY <1>7, ActorsDiffer DEF Base, TypeOK, Stages, Stage, Exclusive, InGenerator, SpawnFails,
     Untouched, GeneratorEnds, Leave, stopVars, treeVars, mapVars, allVars, Unregistered,
     Acquire
<1>8. ASSUME NEW t \in Task, StdoutEnds(t)
      PROVE  Exclusive'
  BY <1>8, ActorsDiffer DEF Base, TypeOK, Stages, Stage, Exclusive, InGenerator, StdoutEnds,
     Untouched, stopVars, treeVars, mapVars, allVars
<1>9. ASSUME NEW t \in Task, StderrEnds(t)
      PROVE  Exclusive'
  BY <1>9, ActorsDiffer DEF Base, TypeOK, Stages, Stage, Exclusive, InGenerator, StderrEnds,
     Untouched, stopVars, treeVars, mapVars, allVars
<1>10. ASSUME NEW t \in Task, ProcessWaited(t)
      PROVE  Exclusive'
  BY <1>10, ActorsDiffer DEF Base, TypeOK, Stages, Stage, Exclusive, InGenerator, ProcessWaited,
     Untouched, Alive, GeneratorEnds, Leave, stopVars, treeVars, mapVars, allVars, Unregistered,
     Acquire
<1>11. ASSUME NEW t \in Task, GeneratorCloses(t)
      PROVE  Exclusive'
  BY <1>11, ActorsDiffer DEF Base, TypeOK, Stages, Stage, Exclusive, InGenerator,
     GeneratorCloses, Untouched, GeneratorEnds, Leave, stopVars, treeVars, mapVars, allVars,
     Unregistered, Acquire
<1>12. ASSUME NEW t \in Task, StopReturns(t)
      PROVE  Exclusive'
  BY <1>12, ActorsDiffer DEF Base, TypeOK, Stages, Stage, Exclusive, InGenerator, StopReturns,
     Untouched, Alive, Unregistered, stopVars, treeVars, mapVars, allVars
<1>13. CASE UNCHANGED <<gen, session>>
  BY <1>13 DEF Exclusive
<1> QED
  <2>1. CASE LockSteps
    BY <2>1, <1>1, <1>13 DEF LockSteps, RegisterRealSessionId, stopVars, treeVars, allVars,
       Release, Register, mapVars, RemoveSession, AwaitStop, EndTask, ForgetAlias, Alive,
       BeginStop, Done, StopAllBegins, handlerVars, StopAllGoesOn
  <2>2. CASE Commands
    BY <2>2, <1>13 DEF Commands, treeVars, allVars, mapVars, handlerVars, StopReply, lockVars,
       Cancel, StopAll, Acquire, Start
  <2>3. CASE Handlers
    BY <2>3, <1>2, <1>3, <1>4, <1>13 DEF Handlers, DeliverCancel, stopVars, treeVars, allVars,
       Release, mapVars, ForgetAlias, Alive, Done, Acquire, SessionInfo, SessionRemoved,
       Unregistered, CancelInRemove, Untouched
  <2>4. CASE Generators
    BY <2>4, <1>5, <1>6, <1>7, <1>8, <1>9, <1>10, <1>11, <1>12, <1>13 DEF Generators, stopVars,
       treeVars, allVars, mapVars, Alive, Acquire, Unregistered, Untouched
  <2>5. CASE StopAllStopped
    BY <2>5, <1>13 DEF stopVars, treeVars, Release, mapVars, Alive, BeginStop, handlerVars,
       StopAllGoesOn, Unregistered, StopAllStopped
  <2>6. CASE Processes
    BY <2>6, <1>13 DEF Processes, stopVars, treeVars, allVars, mapVars, Alive, handlerVars,
       Exits, Untouched, KilledInShield, KilledByHolder
  <2>7. CASE UNCHANGED vars
    BY <2>7, <1>13 DEF stopVars, treeVars, allVars, mapVars, handlerVars, lockVars, vars
  <2> QED BY <2>1, <2>2, <2>3, <2>4, <2>5, <2>6, <2>7 DEF Next

\* The process of a session is that of the generator at work.
LEMMA OwnsKept ==
  ASSUME Base, Exclusive, Owns, [Next]_vars
  PROVE  Owns'
<1>1. ASSUME NEW t \in Task, GetOrCreateSession(t)
      PROVE  Owns'
  BY <1>1, ActorsDiffer DEF Base, TypeOK, Stages, Stage, Exclusive, Owns, InGenerator,
     GetOrCreateSession, stopVars, treeVars, allVars, Release, Lookup, Found
<1>2. ASSUME NEW t \in Task, HandlerFails(t)
      PROVE  Owns'
  BY <1>2, ActorsDiffer DEF Base, TypeOK, Stages, Stage, Exclusive, Owns, InGenerator,
     HandlerFails, Untouched, Leave, stopVars, treeVars, mapVars, allVars, Acquire
<1>3. ASSUME NEW t \in Task, t \in cancelReq, CancelInGenerator(t)
      PROVE  Owns'
  BY <1>3, ActorsDiffer DEF Base, TypeOK, Stages, Stage, Exclusive, Owns, InGenerator,
     CancelInGenerator, Untouched, GeneratorEnds, Leave, stopVars, treeVars, mapVars, allVars,
     Unregistered, Acquire
<1>4. ASSUME NEW t \in Task, t \in cancelReq, CancelAtLock(t)
      PROVE  Owns'
  BY <1>4, ActorsDiffer DEF Base, TypeOK, Stages, Stage, Exclusive, Owns, InGenerator,
     CancelAtLock, mapVars, allVars, Done
<1>5. ASSUME NEW t \in Task, TakeCliLock(t)
      PROVE  Owns'
  BY <1>5, ActorsDiffer DEF Base, TypeOK, Stages, Stage, Exclusive, Owns, InGenerator,
     TakeCliLock, Untouched, CliLockFree, stopVars, treeVars, mapVars, allVars
<1>6. ASSUME NEW t \in Task, Spawned(t)
      PROVE  Owns'
  BY <1>6, ActorsDiffer DEF Base, TypeOK, Stages, Stage, Exclusive, Owns, InGenerator, Spawned,
     Untouched, stopVars, treeVars, mapVars, allVars
<1>7. ASSUME NEW t \in Task, SpawnFails(t)
      PROVE  Owns'
  BY <1>7, ActorsDiffer DEF Base, TypeOK, Stages, Stage, Exclusive, Owns, InGenerator,
     SpawnFails, Untouched, GeneratorEnds, Leave, stopVars, treeVars, mapVars, allVars,
     Unregistered, Acquire
<1>8. ASSUME NEW t \in Task, StdoutEnds(t)
      PROVE  Owns'
  BY <1>8, ActorsDiffer DEF Base, TypeOK, Stages, Stage, Exclusive, Owns, InGenerator,
     StdoutEnds, Untouched, stopVars, treeVars, mapVars, allVars
<1>9. ASSUME NEW t \in Task, StderrEnds(t)
      PROVE  Owns'
  BY <1>9, ActorsDiffer DEF Base, TypeOK, Stages, Stage, Exclusive, Owns, InGenerator,
     StderrEnds, Untouched, stopVars, treeVars, mapVars, allVars
<1>10. ASSUME NEW t \in Task, ProcessWaited(t)
      PROVE  Owns'
  BY <1>10, ActorsDiffer DEF Base, TypeOK, Stages, Stage, Exclusive, Owns, InGenerator,
     ProcessWaited, Untouched, Alive, GeneratorEnds, Leave, stopVars, treeVars, mapVars,
     allVars, Unregistered, Acquire
<1>11. ASSUME NEW t \in Task, GeneratorCloses(t)
      PROVE  Owns'
  BY <1>11, ActorsDiffer DEF Base, TypeOK, Stages, Stage, Exclusive, Owns, InGenerator,
     GeneratorCloses, Untouched, GeneratorEnds, Leave, stopVars, treeVars, mapVars, allVars,
     Unregistered, Acquire
<1>12. ASSUME NEW t \in Task, StopReturns(t)
      PROVE  Owns'
  BY <1>12, ActorsDiffer DEF Base, TypeOK, Stages, Stage, Exclusive, Owns, InGenerator,
     StopReturns, Untouched, Alive, Unregistered, stopVars, treeVars, mapVars, allVars
<1>13. CASE UNCHANGED <<gen, session, process>>
  BY <1>13 DEF Owns
<1> QED
  <2>1. CASE LockSteps
    BY <2>1, <1>1, <1>13 DEF LockSteps, RegisterRealSessionId, stopVars, treeVars, allVars,
       Release, Register, mapVars, RemoveSession, AwaitStop, EndTask, ForgetAlias, Alive,
       BeginStop, Done, StopAllBegins, handlerVars, StopAllGoesOn
  <2>2. CASE Commands
    BY <2>2, <1>13 DEF Commands, treeVars, allVars, mapVars, handlerVars, StopReply, lockVars,
       Cancel, StopAll, Acquire, Start
  <2>3. CASE Handlers
    BY <2>3, <1>2, <1>3, <1>4, <1>13 DEF Handlers, DeliverCancel, stopVars, treeVars, allVars,
       Release, mapVars, ForgetAlias, Alive, Done, Acquire, SessionInfo, SessionRemoved,
       Unregistered, CancelInRemove, Untouched
  <2>4. CASE Generators
    BY <2>4, <1>5, <1>6, <1>7, <1>8, <1>9, <1>10, <1>11, <1>12, <1>13 DEF Generators, stopVars,
       treeVars, allVars, mapVars, Alive, Acquire, Unregistered, Untouched
  <2>5. CASE StopAllStopped
    BY <2>5, <1>13 DEF stopVars, treeVars, Release, mapVars, Alive, BeginStop, handlerVars,
       StopAllGoesOn, Unregistered, StopAllStopped
  <2>6. CASE Processes
    BY <2>6, <1>13 DEF Processes, stopVars, treeVars, allVars, mapVars, Alive, handlerVars,
       Exits, Untouched, KilledInShield, KilledByHolder
  <2>7. CASE UNCHANGED vars
    BY <2>7, <1>13 DEF stopVars, treeVars, allVars, mapVars, handlerVars, lockVars, vars
  <2> QED BY <2>1, <2>2, <2>3, <2>4, <2>5, <2>6, <2>7 DEF Next

-----------------------------------------------------------------------------
(* Trees                                                                   *)

\* Two tasks of a tree that are at work are beside each other.
Beside ==
  \A t, u \in Task : ~Over(t) /\ ~Over(u) /\ tree[t] = tree[u] /\ t # u => t \in overlapped
Alone(t) == t \notin overlapped /\ ~Over(t)
\* The one that is at work alone is the one its tree knows
Current == \A t \in Task : Alone(t) => currentTask[tree[t]] = t

\* Session ids belong to trees.
In(i, r, trees) ==
  \E v \in Tree : (i = Real(v) \/ i = Temp(v)) /\ r = IF v = Old THEN Old ELSE trees[v]
SessionsOfTree ==
  \A t \in Task : session[t] # None => session[session[t]] # None /\ tree[session[t]] = tree[t]
OwnsAlone == \A t \in Task : Alone(t) /\ proc[t] # "none" => process[session[t]] = t
EntriesOfTree ==
  \A i \in Id :
    /\ pending[i] # None => session[pending[i]] # None /\ In(i, tree[pending[i]], tree)
    /\ sessions[i] # None => session[sessions[i]] # None /\ In(i, tree[sessions[i]], tree)
IdsOfTree ==
  \A t \in Task :
    /\ parent[t] # None => In(parent[t], tree[t], tree)
    /\ temp[t] # None => In(temp[t], tree[t], tree)
    /\ captured[t] # None => In(captured[t], tree[t], tree)
AliasOfTree ==
  \A i \in Id : tempToReal[i] # None => \E r \in Tree : In(i, r, tree) /\ In(tempToReal[i], r, tree)
ByTree == SessionsOfTree /\ EntriesOfTree /\ IdsOfTree /\ AliasOfTree

LEMMA OneTree ==
  ASSUME NEW i, NEW r, NEW q, NEW trees, In(i, r, trees), In(i, q, trees)
  PROVE  r = q
BY DEF In, Real, Temp

LEMMA OwnIds ==
  ASSUME NEW t \in Task
  PROVE  In(Real(t), tree[t], tree) /\ In(Temp(t), tree[t], tree)
BY ActorsDiffer DEF In, Tree

LEMMA InStays ==
  ASSUME NEW i, NEW r \in Tree, In(i, r, tree), \A v \in Task : tree[v] # None => tree'[v] = tree[v]
  PROVE  In(i, r, tree')
BY ActorsDiffer DEF In, Tree

\* The handler goes on from its generator's end.
LEMMA LeavesFromUse ==
  ASSUME Base, NEW t \in Task, SpawnFails(t) \/ ProcessWaited(t)
  PROVE  /\ phase[t] = "using" /\ phase' = [phase EXCEPT ![t] = "leaving"]
         /\ UNCHANGED <<tree, parent, overlapped, currentTask, session, proc, process,
                        isProcessing, temp, captured>>
<1>1. gen[t] \in {"spawning", "waiting"} BY DEF SpawnFails, ProcessWaited
<1>2. phase[t] = "using" BY <1>1, InUse DEF Working
<1> QED BY <1>2 DEF SpawnFails, ProcessWaited, Leave, Untouched, stopVars, treeVars

\* A step that starts no task
Along == /\ UNCHANGED <<tree, parent, overlapped, currentTask>>
         /\ \A u \in Task : ~Over(u)' => ~Over(u)

\* No other step gives a tree a task.
LEMMA OnlyStartsBegin ==
  ASSUME Base, \A t \in Task, r \in Tree, p \in Id \cup {None} : ~Start(t, r, p), [Next]_vars
  PROVE  Along
<1>1. ASSUME NEW t \in Task, GetOrCreateSession(t)
      PROVE  Along
  BY <1>1 DEF Base, TypeOK, Stages, Stage, Over, Along, GetOrCreateSession, stopVars, treeVars,
     allVars, Release, Lookup, Found
<1>2. ASSUME NEW t \in Task, RegisterRealSessionId(t)
      PROVE  Along
  BY <1>2 DEF Base, TypeOK, Stages, Stage, Over, Along, RegisterRealSessionId, stopVars,
     treeVars, allVars, Release, Register, mapVars
<1>3. ASSUME NEW t \in Task, RemoveSession(t)
      PROVE  Along
  BY <1>3 DEF Base, TypeOK, Stages, Stage, Over, Along, RemoveSession, stopVars, mapVars,
     allVars, AwaitStop, EndTask, ForgetAlias, Alive, BeginStop, Release, Done
<1>4. ASSUME NEW t \in Task, SessionInfo(t)
      PROVE  Along
  BY <1>4 DEF Base, TypeOK, Stages, Stage, Over, Along, SessionInfo, stopVars, treeVars,
     mapVars, allVars, Acquire
<1>5. ASSUME NEW t \in Task, SessionRemoved(t)
      PROVE  Along
  BY <1>5 DEF Base, TypeOK, Stages, Stage, Over, Along, SessionRemoved, stopVars, allVars,
     Release, Done, ForgetAlias, Alive, Unregistered
<1>6. ASSUME NEW t \in Task, HandlerFails(t)
      PROVE  Along
  BY <1>6 DEF Base, TypeOK, Stages, Stage, Over, Along, HandlerFails, Untouched, Leave,
     stopVars, treeVars, mapVars, allVars, Acquire
<1>7. ASSUME NEW t \in Task, t \in cancelReq, CancelInGenerator(t)
      PROVE  Along
  BY <1>7 DEF Base, TypeOK, Stages, Stage, Over, Along, CancelInGenerator, Untouched,
     GeneratorEnds, Leave, stopVars, treeVars, mapVars, allVars, Unregistered, Acquire
<1>8. ASSUME NEW t \in Task, t \in cancelReq, CancelAtLock(t)
      PROVE  Along
  BY <1>8 DEF Base, TypeOK, Stages, Stage, Over, Along, CancelAtLock, mapVars, allVars, Done
<1>9. ASSUME NEW t \in Task, t \in cancelReq, CancelInRemove(t)
      PROVE  Along
  BY <1>9 DEF Base, TypeOK, Stages, Stage, Over, Along, CancelInRemove, mapVars, allVars,
     Release, Done
<1>10. ASSUME NEW t \in Task, GeneratorCloses(t)
      PROVE  Along
  BY <1>10 DEF Base, TypeOK, Stages, Stage, Over, Along, GeneratorCloses, Untouched,
     GeneratorEnds, Leave, stopVars, treeVars, mapVars, allVars, Unregistered, Acquire
<1>11. ASSUME NEW t \in Task, SpawnFails(t) \/ ProcessWaited(t)
      PROVE  Along
  BY <1>11, LeavesFromUse DEF Base, TypeOK, Along, Over
<1>12. CASE UNCHANGED <<tree, parent, overlapped, currentTask, phase>>
  BY <1>12 DEF Along, Over
<1> QED
  <2>1. CASE LockSteps
    BY <2>1, <1>1, <1>2, <1>3, <1>12 DEF LockSteps, StopAllBegins, handlerVars, stopVars,
       treeVars, StopAllGoesOn, mapVars, Release, BeginStop, Alive, allVars
  <2>2. CASE Commands
    BY <2>2, <1>12 DEF Commands, handlerVars, treeVars, mapVars, StopReply, lockVars, allVars,
       Cancel, StopAll, Acquire
  <2>3. CASE Handlers
    BY <2>3, <1>4, <1>5, <1>6, <1>7, <1>8, <1>9, <1>12 DEF Handlers, DeliverCancel, stopVars,
       treeVars, mapVars, Release, Alive, allVars, Acquire, Untouched, Unregistered
  <2>4. CASE Generators
    BY <2>4, <1>10, <1>11, <1>12 DEF Generators, stopVars, treeVars, mapVars, Alive, allVars,
       Acquire, TakeCliLock, Untouched, CliLockFree, Spawned, StdoutEnds, StderrEnds,
       StopReturns, Unregistered
  <2>5. CASE StopAllStopped
    BY <2>5, <1>12 DEF handlerVars, stopVars, treeVars, StopAllGoesOn, mapVars, Release,
       BeginStop, Alive, Unregistered, StopAllStopped
  <2>6. CASE Processes
    BY <2>6, <1>12 DEF Processes, handlerVars, stopVars, treeVars, mapVars, Alive, allVars,
       Untouched, Exits, KilledInShield, KilledByHolder
  <2>7. CASE UNCHANGED vars
    BY <2>7, <1>12 DEF handlerVars, stopVars, treeVars, mapVars, lockVars, allVars, vars
  <2> QED BY <2>1, <2>2, <2>3, <2>4, <2>5, <2>6, <2>7 DEF Next

\* A task that starts beside another is noted.
LEMMA BesideKept ==
  ASSUME Base, Beside, [Next]_vars
  PROVE  Beside'
<1>1. CASE Along BY <1>1 DEF Along, Beside
<1>2. ASSUME NEW t \in Task, NEW r \in Tree, NEW p \in Id \cup {None}, Start(t, r, p)
      PROVE  Beside'
  BY <1>2 DEF Base, TypeOK, Beside, Over, Start
<1> QED BY <1>1, <1>2, OnlyStartsBegin

\* A tree knows the task that is at work in it alone.
LEMMA CurrentKept ==
  ASSUME Base, Beside, Current, [Next]_vars
  PROVE  Current'
<1>1. CASE Along BY <1>1 DEF Along, Current, Alone
<1>2. ASSUME NEW t \in Task, NEW r \in Tree, NEW p \in Id \cup {None}, Start(t, r, p)
      PROVE  Current'
  BY <1>2 DEF Base, TypeOK, Stages, Stage, Beside, Current, Over, Alone, Start
<1> QED BY <1>1, <1>2, OnlyStartsBegin

\* What get_or_create_session finds is of the tree of the prompt that was replied to.
LEMMA FoundInTree ==
  ASSUME Base, ByTree, NEW p \in Id, NEW r, In(p, r, tree)
  PROVE  /\ Lookup(p) \in Id /\ In(Lookup(p), r, tree)
         /\ Found(p) # None => Found(p) \in Task /\ session[Found(p)] # None /\ tree[Found(p)] = r
<1>1. tempToReal[p] \in Id \cup {None} BY DEF Base, TypeOK
<1>2. Lookup(p) \in Id /\ In(Lookup(p), r, tree)
  BY <1>1, OneTree DEF Lookup, ByTree, AliasOfTree
<1> DEFINE i == Lookup(p)
<1>3. Found(p) \in {sessions[i], pending[i]} BY NoneIsNoId DEF Found
<1> HIDE DEF i
<1>4. sessions[i] \in Task \cup {None} /\ pending[i] \in Task \cup {None} BY <1>2 DEF Base, TypeOK, i
<1>5. Found(p) # None => Found(p) \in Task /\ session[Found(p)] # None /\ In(i, tree[Found(p)], tree)
  BY <1>2, <1>3, <1>4 DEF ByTree, EntriesOfTree, i
<1> QED BY <1>2, <1>5, OneTree DEF i

LEMMA GetByTree ==
  ASSUME Base, ByTree, NEW t \in Task, GetOrCreateSession(t)
  PROVE  ByTree'
<1> DEFINE p == parent[t]
           id == IF p = None THEN Temp(t) ELSE p
<1>1. p \in Id \cup {None} /\ id \in Id BY IdsAreIds DEF Base, TypeOK
<1>2. p # None => In(p, tree[t], tree) BY DEF ByTree, IdsOfTree
<1>3. In(id, tree[t], tree) BY <1>2, OwnIds
<1>4. session[t] = None /\ tree' = tree /\ parent' = parent
  BY DEF Base, Stages, Stage, GetOrCreateSession
<1>5. UNCHANGED <<sessions, tempToReal>> BY DEF GetOrCreateSession
<1>6. CASE /\ Found(p) # None
           /\ session' = [session EXCEPT ![t] = Found(p)]
           /\ captured' = [captured EXCEPT ![t] = Lookup(p)]
           /\ UNCHANGED <<temp, pending>>
  <2>1. p # None BY <1>6 DEF Found
  <2>2. /\ Lookup(p) \in Id /\ In(Lookup(p), tree[t], tree)
        /\ Found(p) \in Task /\ session[Found(p)] # None /\ tree[Found(p)] = tree[t]
    BY <1>1, <1>2, <1>6, <2>1, FoundInTree
  <2> HIDE DEF p, id
  <2>3. \A u \in Task : /\ session'[u] = IF u = t THEN Found(p) ELSE session[u]
                        /\ captured'[u] = IF u = t THEN Lookup(p) ELSE captured[u]
    BY <1>6 DEF Base, TypeOK
  <2>4. SessionsOfTree'
    BY <1>4, <2>2, <2>3, ActorsDiffer DEF Base, TypeOK, ByTree, SessionsOfTree
  <2>5. EntriesOfTree'
    BY <1>4, <1>5, <1>6, <2>2, <2>3, ActorsDiffer DEF Base, TypeOK, ByTree, EntriesOfTree
  <2>6. IdsOfTree' BY <1>4, <1>6, <2>2, <2>3 DEF ByTree, IdsOfTree
  <2>7. AliasOfTree' BY <1>4, <1>5 DEF ByTree, AliasOfTree
  <2> QED BY <2>4, <2>5, <2>6, <2>7 DEF ByTree
<1>7. CASE /\ session' = [session EXCEPT ![t] = t]
           /\ pending' = [pending EXCEPT ![id] = t]
           /\ temp' = [temp EXCEPT ![t] = id]
           /\ UNCHANGED captured
  <2> HIDE DEF p, id
  <2>1. \A u \in Task : /\ session'[u] = IF u = t THEN t ELSE session[u]
                        /\ temp'[u] = IF u = t THEN id ELSE temp[u]
    BY <1>7 DEF Base, TypeOK
  <2>2. \A i \in Id : pending'[i] = IF i = id THEN t ELSE pending[i]
    BY <1>1, <1>7 DEF Base, TypeOK
  <2>3. SessionsOfTree' BY <1>4, <2>1, ActorsDiffer DEF Base, TypeOK, ByTree, SessionsOfTree
  <2>4. EntriesOfTree'
    BY <1>3, <1>4, <1>5, <2>1, <2>2, ActorsDiffer DEF Base, TypeOK, ByTree, EntriesOfTree
  <2>5. IdsOfTree' BY <1>3, <1>4, <1>7, <2>1 DEF ByTree, IdsOfTree
  <2>6. AliasOfTree' BY <1>4, <1>5 DEF ByTree, AliasOfTree
  <2> QED BY <2>3, <2>4, <2>5, <2>6 DEF ByTree
<1> QED BY <1>6, <1>7 DEF GetOrCreateSession

LEMMA StartByTree ==
  ASSUME Base, ByTree, NEW t \in Task, NEW r \in Tree, NEW p \in Id \cup {None}, Start(t, r, p)
  PROVE  ByTree'
<1>1. /\ tree' = [tree EXCEPT ![t] = r] /\ parent' = [parent EXCEPT ![t] = p] /\ phase[t] = "new"
      /\ UNCHANGED <<temp, captured, session, pending, sessions, tempToReal>>
  BY DEF Start, mapVars
<1>2. tree[t] = None /\ session[t] = None /\ temp[t] = None /\ captured[t] = None
  BY <1>1 DEF Base, Stages, Stage
<1>3. \A u \in Task : /\ tree'[u] = IF u = t THEN r ELSE tree[u]
                      /\ parent'[u] = IF u = t THEN p ELSE parent[u]
  BY <1>1 DEF Base, TypeOK
<1>4. \A i, q : q \in Tree /\ In(i, q, tree) => In(i, q, tree')
  BY <1>2, <1>3, InStays
<1>5. \A u \in Task : session[u] # None => tree[u] \in Tree /\ u # t
  BY <1>2 DEF Base, TypeOK, Stages, Stage
<1>6. p # None => In(p, r, tree') /\ r \in Tree
  <2> SUFFICES ASSUME p # None PROVE In(p, r, tree') OBVIOUS
  <2>1. PICK u \in Tree : p = Real(u) /\ r = IF u = Old THEN Old ELSE tree[u] BY DEF Start
  <2>2. In(p, r, tree) BY <2>1 DEF In
  <2> QED BY <2>2, <1>4
<1>7. SessionsOfTree'
  BY <1>1, <1>2, <1>3, ActorsDiffer DEF Base, TypeOK, ByTree, SessionsOfTree
<1>8. EntriesOfTree'
  <2>1. \A s \in Task : session[s] # None => tree'[s] = tree[s] /\ tree[s] \in Tree BY <1>3, <1>5
  <2>2. ASSUME NEW i \in Id, NEW s \in Task, session[s] # None, In(i, tree[s], tree)
        PROVE  session'[s] # None /\ In(i, tree'[s], tree')
    BY <1>1, <1>4, <2>1, <2>2
  <2>3. ASSUME NEW i \in Id, pending[i] # None
        PROVE  session'[pending'[i]] # None /\ In(i, tree'[pending'[i]], tree')
    <3>1. pending[i] \in Task BY <2>3 DEF Base, TypeOK
    <3> QED BY <1>1, <2>2, <2>3, <3>1 DEF ByTree, EntriesOfTree
  <2>4. ASSUME NEW i \in Id, sessions[i] # None
        PROVE  session'[sessions'[i]] # None /\ In(i, tree'[sessions'[i]], tree')
    <3>1. sessions[i] \in Task BY <2>4 DEF Base, TypeOK
    <3> QED BY <1>1, <2>2, <2>4, <3>1 DEF ByTree, EntriesOfTree
  <2> QED BY <1>1, <2>3, <2>4 DEF EntriesOfTree
<1>9. IdsOfTree'
  <2>1. \A u \in Task : parent[u] # None => In(parent[u], tree[u], tree) BY DEF ByTree, IdsOfTree
  <2>2. \A u \in Task : u # t /\ tree[u] \in Tree =>
          /\ parent'[u] # None => In(parent'[u], tree'[u], tree')
          /\ temp'[u] # None => In(temp'[u], tree'[u], tree')
          /\ captured'[u] # None => In(captured'[u], tree'[u], tree')
    BY <1>1, <1>3, <1>4 DEF ByTree, IdsOfTree
  <2>3. \A u \in Task : u # t /\ tree[u] = None => temp[u] = None /\ captured[u] = None /\ parent[u] = None
    BY DEF Base, Stages, Stage
  <2>4. \A u \in Task : tree[u] \in Tree \cup {None} BY DEF Base, TypeOK
  <2> QED BY <1>1, <1>2, <1>3, <1>6, <2>2, <2>3, <2>4 DEF IdsOfTree
<1>10. AliasOfTree' BY <1>1, <1>4 DEF ByTree, AliasOfTree
<1> QED BY <1>7, <1>8, <1>9, <1>10 DEF ByTree

\* What leaves the maps is of no matter.
OnlyLeaves ==
  /\ UNCHANGED <<tree, parent, temp, captured, session>>
  /\ \A i \in Id : /\ pending'[i] \in {pending[i], None}
                   /\ sessions'[i] \in {sessions[i], None}
                   /\ tempToReal'[i] \in {tempToReal[i], None}
LEMMA OnlyLeavesByTree ==
  ASSUME ByTree, OnlyLeaves
  PROVE  ByTree'
<1>1. SessionsOfTree' BY DEF ByTree, SessionsOfTree, OnlyLeaves
<1>2. EntriesOfTree' BY DEF ByTree, EntriesOfTree, OnlyLeaves
<1>3. IdsOfTree' BY DEF ByTree, IdsOfTree, OnlyLeaves
<1>4. AliasOfTree' BY DEF ByTree, AliasOfTree, OnlyLeaves
<1> QED BY <1>1, <1>2, <1>3, <1>4 DEF ByTree

\* Sessions and ids stay in their tree.
LEMMA ByTreeKept ==
  ASSUME Base, ByTree, [Next]_vars
  PROVE  ByTree'
<1>1. ASSUME NEW t \in Task, RegisterRealSessionId(t)
      PROVE  ByTree'
  BY <1>1, ActorsDiffer, OwnIds, OneTree DEF Base, TypeOK, Stages, Stage, SessionsOfTree,
     EntriesOfTree, IdsOfTree, AliasOfTree, ByTree, RegisterRealSessionId, stopVars, treeVars,
     allVars, Release, Register, mapVars
<1>2. ASSUME NEW t \in Task, RemoveSession(t)
      PROVE  ByTree'
  <2>1. OnlyLeaves
    BY <1>2 DEF Base, TypeOK, OnlyLeaves, RemoveSession, mapVars, ForgetAlias
  <2> QED BY <2>1, OnlyLeavesByTree
<1>3. CASE StopAllBegins
  <2>1. OnlyLeaves
    BY <1>3 DEF OnlyLeaves, StopAllBegins, handlerVars, treeVars, StopAllGoesOn, mapVars
  <2> QED BY <2>1, OnlyLeavesByTree
<1>4. CASE StopAllStopped
  <2>1. OnlyLeaves
    BY <1>4 DEF OnlyLeaves, StopAllStopped, handlerVars, treeVars, StopAllGoesOn, mapVars
  <2> QED BY <2>1, OnlyLeavesByTree
<1>5. ASSUME NEW t \in Task, SessionRemoved(t)
      PROVE  ByTree'
  <2>1. OnlyLeaves
    BY <1>5 DEF Base, TypeOK, OnlyLeaves, SessionRemoved, ForgetAlias
  <2> QED BY <2>1, OnlyLeavesByTree
<1>6. CASE UNCHANGED <<tree, parent, temp, captured, session, pending, sessions, tempToReal>>
  BY <1>6 DEF ByTree, SessionsOfTree, EntriesOfTree, IdsOfTree, AliasOfTree
<1> QED
  <2>1. CASE LockSteps
    BY <2>1, <1>1, <1>2, <1>3, <1>6, GetByTree DEF LockSteps, handlerVars, treeVars, mapVars,
       allVars, stopVars, Done, Release, Alive
  <2>2. CASE Commands
    BY <2>2, <1>6, StartByTree DEF Commands, StopReply, handlerVars, treeVars, mapVars,
       lockVars, allVars, Cancel, StopAll, Acquire
  <2>3. CASE Handlers
    BY <2>3, <1>5, <1>6 DEF Handlers, DeliverCancel, treeVars, mapVars, allVars, Acquire,
       SessionInfo, stopVars, HandlerFails, Untouched, Leave, CancelInGenerator, GeneratorEnds,
       Unregistered, CancelAtLock, Done, CancelInRemove, Release, Alive
  <2>4. CASE Generators
    BY <2>4, <1>6 DEF Generators, treeVars, mapVars, allVars, Acquire, stopVars, Untouched,
       Leave, GeneratorEnds, Unregistered, TakeCliLock, CliLockFree, Spawned, SpawnFails,
       StdoutEnds, StderrEnds, ProcessWaited, Alive, GeneratorCloses, StopReturns
  <2>5. CASE StopAllStopped
    BY <2>5, <1>4, <1>6 DEF handlerVars, treeVars, mapVars, stopVars, Unregistered, Release,
       Alive
  <2>6. CASE Processes
    BY <2>6, <1>6 DEF Processes, handlerVars, treeVars, mapVars, allVars, stopVars, Untouched,
       Alive, Exits, KilledInShield, KilledByHolder
  <2>7. CASE UNCHANGED vars
    BY <2>7, <1>6 DEF handlerVars, treeVars, mapVars, lockVars, allVars, stopVars, vars
  <2> QED BY <2>1, <2>2, <2>3, <2>4, <2>5, <2>6, <2>7 DEF Next

\* Who works alone in its tree has the session's process.
LEMMA OwnsAloneKept ==
  ASSUME Base, Beside, OwnsAlone, SessionsOfTree, [Next]_vars
  PROVE  OwnsAlone'
<1>1. ASSUME NEW t \in Task, GetOrCreateSession(t)
      PROVE  OwnsAlone'
  BY <1>1, ActorsDiffer, InUse DEF Base, TypeOK, Stages, Stage, Beside, OwnsAlone,
     SessionsOfTree, Over, Alone, Runs, Holder, Working, GetOrCreateSession, stopVars, treeVars,
     allVars, Release, Lookup, Found
<1>2. ASSUME NEW t \in Task, RegisterRealSessionId(t)
      PROVE  OwnsAlone'
  BY <1>2, ActorsDiffer, InUse DEF Base, TypeOK, Stages, Stage, Beside, OwnsAlone,
     SessionsOfTree, Over, Alone, Runs, Holder, Working, RegisterRealSessionId, stopVars,
     treeVars, allVars, Release, Register, mapVars
<1>3. ASSUME NEW t \in Task, RemoveSession(t)
      PROVE  OwnsAlone'
  BY <1>3, ActorsDiffer, InUse DEF Base, TypeOK, Stages, Stage, Beside, OwnsAlone,
     SessionsOfTree, Over, Alone, Runs, Holder, Working, RemoveSession, stopVars, mapVars,
     allVars, AwaitStop, EndTask, ForgetAlias, Alive, BeginStop, Release, Done
<1>4. CASE StopAllBegins
  BY <1>4, ActorsDiffer, InUse DEF Base, TypeOK, Stages, Stage, Beside, OwnsAlone,
     SessionsOfTree, Over, Alone, Runs, Holder, Working, StopAllBegins, handlerVars, stopVars,
     treeVars, StopAllGoesOn, mapVars, Release, BeginStop, Alive
<1>5. ASSUME NEW t \in Task, SessionInfo(t)
      PROVE  OwnsAlone'
  BY <1>5, ActorsDiffer, InUse DEF Base, TypeOK, Stages, Stage, Beside, OwnsAlone,
     SessionsOfTree, Over, Alone, Runs, Holder, Working, SessionInfo, stopVars, treeVars,
     mapVars, allVars, Acquire
<1>6. ASSUME NEW t \in Task, SessionRemoved(t)
      PROVE  OwnsAlone'
  BY <1>6, ActorsDiffer, InUse DEF Base, TypeOK, Stages, Stage, Beside, OwnsAlone,
     SessionsOfTree, Over, Alone, Runs, Holder, Working, SessionRemoved, stopVars, allVars,
     Release, Done, ForgetAlias, Alive, Unregistered
<1>7. ASSUME NEW t \in Task, HandlerFails(t)
      PROVE  OwnsAlone'
  BY <1>7, ActorsDiffer, InUse DEF Base, TypeOK, Stages, Stage, Beside, OwnsAlone,
     SessionsOfTree, Over, Alone, Runs, Holder, Working, HandlerFails, Untouched, Leave,
     stopVars, treeVars, mapVars, allVars, Acquire
<1>8. ASSUME NEW t \in Task, t \in cancelReq, CancelInGenerator(t)
      PROVE  OwnsAlone'
  BY <1>8, ActorsDiffer, InUse DEF Base, TypeOK, Stages, Stage, Beside, OwnsAlone,
     SessionsOfTree, Over, Alone, Runs, Holder, Working, CancelInGenerator, Untouched,
     GeneratorEnds, Leave, stopVars, treeVars, mapVars, allVars, Unregistered, Acquire
<1>9. ASSUME NEW t \in Task, t \in cancelReq, CancelAtLock(t)
      PROVE  OwnsAlone'
  BY <1>9, ActorsDiffer, InUse DEF Base, TypeOK, Stages, Stage, Beside, OwnsAlone,
     SessionsOfTree, Over, Alone, Runs, Holder, Working, CancelAtLock, mapVars, allVars, Done
<1>10. ASSUME NEW t \in Task, t \in cancelReq, CancelInRemove(t)
      PROVE  OwnsAlone'
  BY <1>10, ActorsDiffer, InUse DEF Base, TypeOK, Stages, Stage, Beside, OwnsAlone,
     SessionsOfTree, Over, Alone, Runs, Holder, Working, CancelInRemove, mapVars, allVars,
     Release, Done
<1>11. ASSUME NEW t \in Task, Spawned(t)
      PROVE  OwnsAlone'
  BY <1>11, ActorsDiffer, InUse DEF Base, TypeOK, Stages, Stage, Beside, OwnsAlone,
     SessionsOfTree, Over, Alone, Runs, Holder, Working, Spawned, Untouched, stopVars, treeVars,
     mapVars, allVars
<1>12. ASSUME NEW t \in Task, SpawnFails(t)
      PROVE  OwnsAlone'
  BY <1>12, ActorsDiffer, InUse DEF Base, TypeOK, Stages, Stage, Beside, OwnsAlone,
     SessionsOfTree, Over, Alone, Runs, Holder, Working, SpawnFails, Untouched, GeneratorEnds,
     Leave, stopVars, treeVars, mapVars, allVars, Unregistered, Acquire
<1>13. ASSUME NEW t \in Task, ProcessWaited(t)
      PROVE  OwnsAlone'
  BY <1>13, ActorsDiffer, InUse DEF Base, TypeOK, Stages, Stage, Beside, OwnsAlone,
     SessionsOfTree, Over, Alone, Runs, Holder, Working, ProcessWaited, Untouched, Alive,
     GeneratorEnds, Leave, stopVars, treeVars, mapVars, allVars, Unregistered, Acquire
<1>14. ASSUME NEW t \in Task, GeneratorCloses(t)
      PROVE  OwnsAlone'
  BY <1>14, ActorsDiffer, InUse DEF Base, TypeOK, Stages, Stage, Beside, OwnsAlone,
     SessionsOfTree, Over, Alone, Runs, Holder, Working, GeneratorCloses, Untouched,
     GeneratorEnds, Leave, stopVars, treeVars, mapVars, allVars, Unregistered, Acquire
<1>15. CASE StopAllStopped
  BY <1>15, ActorsDiffer, InUse DEF Base, TypeOK, Stages, Stage, Beside, OwnsAlone,
     SessionsOfTree, Over, Alone, Runs, Holder, Working, StopAllStopped, handlerVars, stopVars,
     treeVars, Alive, StopAllGoesOn, Unregistered, mapVars, Release, BeginStop
<1>16. ASSUME NEW t \in Task, Exits(t)
      PROVE  OwnsAlone'
  BY <1>16, ActorsDiffer, InUse DEF Base, TypeOK, Stages, Stage, Beside, OwnsAlone,
     SessionsOfTree, Over, Alone, Runs, Holder, Working, Exits, Untouched, Alive, stopVars,
     treeVars, mapVars, allVars
<1>17. ASSUME NEW t \in Task, KilledInShield(t)
      PROVE  OwnsAlone'
  BY <1>17, ActorsDiffer, InUse DEF Base, TypeOK, Stages, Stage, Beside, OwnsAlone,
     SessionsOfTree, Over, Alone, Runs, Holder, Working, KilledInShield, Untouched, Alive,
     stopVars, treeVars, mapVars, allVars
<1>18. CASE KilledByHolder
  BY <1>18, ActorsDiffer, InUse DEF Base, TypeOK, Stages, Stage, Beside, OwnsAlone,
     SessionsOfTree, Over, Alone, Runs, Holder, Working, KilledByHolder, handlerVars, stopVars,
     treeVars, mapVars, allVars, Alive
<1>19. ASSUME NEW t \in Task, NEW r \in Tree, NEW p \in Id \cup {None}, Start(t, r, p)
      PROVE  OwnsAlone'
  BY <1>19, ActorsDiffer, InUse DEF Base, TypeOK, Stages, Stage, Beside, OwnsAlone,
     SessionsOfTree, Over, Alone, Runs, Holder, Working, Start, mapVars, allVars, Acquire, Tree
<1>20. CASE UNCHANGED <<phase, overlapped, proc, process, session>>
  BY <1>20 DEF OwnsAlone, Alone, Over
<1> QED
  <2>1. CASE LockSteps
    BY <2>1, <1>1, <1>2, <1>3, <1>4, <1>20 DEF LockSteps, handlerVars, treeVars, mapVars,
       allVars, stopVars, Alive
  <2>2. CASE Commands
    BY <2>2, <1>19, <1>20 DEF Commands, StopReply, handlerVars, treeVars, mapVars, lockVars,
       allVars, Cancel, StopAll, Acquire
  <2>3. CASE Handlers
    BY <2>3, <1>5, <1>6, <1>7, <1>8, <1>9, <1>10, <1>20 DEF Handlers, DeliverCancel, treeVars,
       mapVars, allVars, Acquire, Untouched, stopVars, Alive, Unregistered
  <2>4. CASE Generators
    BY <2>4, <1>11, <1>12, <1>13, <1>14, <1>20 DEF Generators, treeVars, mapVars, allVars,
       Acquire, TakeCliLock, Untouched, CliLockFree, stopVars, StdoutEnds, StderrEnds,
       StopReturns, Alive, Unregistered
  <2>5. CASE StopAllStopped
    BY <2>5, <1>15, <1>20 DEF handlerVars, treeVars, mapVars, stopVars, Alive, Unregistered
  <2>6. CASE Processes
    BY <2>6, <1>16, <1>17, <1>18, <1>20 DEF Processes, handlerVars, treeVars, mapVars, allVars,
       Untouched, stopVars, Alive
  <2>7. CASE UNCHANGED vars
    BY <2>7, <1>20 DEF handlerVars, treeVars, mapVars, lockVars, allVars, stopVars, vars
  <2> QED BY <2>1, <2>2, <2>3, <2>4, <2>5, <2>6, <2>7 DEF Next

-----------------------------------------------------------------------------
(* Session ids                                                             *)

\* A session has an id of its own map, and an id that was replaced names none.
NotBoth == \A i \in Id : sessions[i] # None => pending[i] = None /\ \E v \in Task : i = Real(v)
Replaced == \A i \in Id : tempToReal[i] # None => sessions[i] = None
\* The id of a CLI process is in no map before the process announced it.
Unannounced ==
  \A u \in Task : captured[u] # Real(u) => pending[Real(u)] = None /\ tempToReal[Real(u)] = None
ForksAnnounced == \A u, t \in Task : parent[t] = Real(u) => captured[u] = Real(u)
OwnTemp == \A t \in Task : temp[t] # None => temp[t] \in {Temp(t), parent[t]}
Fresh == NotBoth /\ Replaced /\ Unannounced /\ ForksAnnounced /\ OwnTemp

LEMMA Names ==
  ASSUME NEW u, NEW v
  PROVE  /\ Real(u) = Real(v) => u = v
         /\ Temp(u) = Temp(v) => u = v
         /\ Real(u) # Temp(v)
BY DEF Real, Temp

LEMMA FreshShrinks ==
  ASSUME Base, Fresh, UNCHANGED <<captured, parent>>,
         \A t \in Task : temp'[t] \in {temp[t], None},
         \A i \in Id : /\ pending'[i] \in {pending[i], None} /\ sessions'[i] \in {sessions[i], None}
                       /\ tempToReal'[i] \in {tempToReal[i], None}
  PROVE  Fresh'
<1>1. NotBoth' /\ Replaced' BY DEF Fresh, NotBoth, Replaced
<1>2. Unannounced' BY IdsAreIds DEF Fresh, Unannounced
<1>3. ForksAnnounced' /\ OwnTemp' BY DEF Fresh, ForksAnnounced, OwnTemp
<1> QED BY <1>1, <1>2, <1>3 DEF Fresh

LEMMA GetFresh ==
  ASSUME Base, Fresh, NEW t \in Task, GetOrCreateSession(t)
  PROVE  Fresh'
<1> DEFINE p == parent[t]
           id == IF p = None THEN Temp(t) ELSE p
<1>1. p \in Id \cup {None} /\ id \in Id BY IdsAreIds DEF Base, TypeOK
<1>2. captured[t] = None /\ temp[t] = None /\ captured[t] # Real(t)
  BY IdsAreIds, NoneIsNoId DEF Base, Stages, Stage, GetOrCreateSession
<1>3. UNCHANGED <<parent, sessions, tempToReal>> BY DEF GetOrCreateSession
<1>4. CASE /\ Found(p) # None
           /\ session' = [session EXCEPT ![t] = Found(p)]
           /\ captured' = [captured EXCEPT ![t] = Lookup(p)]
           /\ UNCHANGED <<temp, pending>>
  <2>1. \A u \in Task : u # t => captured'[u] = captured[u] BY <1>4 DEF Base, TypeOK
  <2>2. NotBoth' /\ Replaced' /\ OwnTemp'
    BY <1>3, <1>4 DEF Fresh, NotBoth, Replaced, OwnTemp
  <2>3. Unannounced' /\ ForksAnnounced'
    BY <1>2, <1>3, <1>4, <2>1 DEF Fresh, Unannounced, ForksAnnounced
  <2> QED BY <2>2, <2>3 DEF Fresh
<1>5. CASE /\ Found(p) = None
           /\ pending' = [pending EXCEPT ![id] = t]
           /\ temp' = [temp EXCEPT ![t] = id]
           /\ UNCHANGED captured
  <2>1. sessions[id] = None
    <3>1. CASE p = None BY <1>1, <3>1, Names DEF Fresh, NotBoth
    <3>2. CASE p # None /\ tempToReal[p] # None BY <1>1, <3>2 DEF Fresh, Replaced
    <3>3. CASE p # None /\ tempToReal[p] = None BY <1>5, <3>3 DEF Found, Lookup
    <3> QED BY <3>1, <3>2, <3>3
  <2>2. \A u \in Task : id = Real(u) => captured[u] = Real(u)
    BY Names DEF Fresh, ForksAnnounced
  <2>3. id \in {Temp(t), parent[t]} OBVIOUS
  <2> HIDE DEF p, id
  <2>4. /\ \A i \in Id : pending'[i] = IF i = id THEN t ELSE pending[i]
        /\ \A u \in Task : temp'[u] = IF u = t THEN id ELSE temp[u]
    BY <1>1, <1>5 DEF Base, TypeOK
  <2>5. NotBoth' /\ Replaced' BY <1>3, <2>1, <2>4 DEF Fresh, NotBoth, Replaced
  <2>6. Unannounced' BY <1>3, <1>5, <2>2, <2>4, IdsAreIds DEF Fresh, Unannounced
  <2>7. ForksAnnounced' /\ OwnTemp' BY <1>3, <1>5, <2>3, <2>4 DEF Fresh, ForksAnnounced, OwnTemp
  <2> QED BY <2>5, <2>6, <2>7 DEF Fresh
<1> QED BY <1>4, <1>5 DEF GetOrCreateSession

LEMMA TempIsFresh ==
  ASSUME Base, Fresh, NEW t \in Task, phase[t] = "registering"
  PROVE  /\ temp[t] \in Id /\ temp[t] # Real(t) /\ pending[Real(t)] = None /\ tempToReal[Real(t)] = None
         /\ \A u \in Task : temp[t] = Real(u) => captured[u] = Real(u)
<1>1. temp[t] \in Id /\ temp[t] # None BY NoneIsNoId DEF Base, MapInv, RegistersAnId
<1>2. captured[t] = None BY <1>1 DEF Base, Stages, Stage
<1>3. captured[t] # Real(t) BY <1>2, IdsAreIds, NoneIsNoId
<1>4. \A u \in Task : temp[t] = Real(u) => captured[u] = Real(u)
  BY <1>1, Names DEF Fresh, ForksAnnounced, OwnTemp
<1> QED BY <1>1, <1>3, <1>4 DEF Fresh, Unannounced

LEMMA RegisterFresh ==
  ASSUME Base, Fresh, NEW t \in Task, RegisterRealSessionId(t)
  PROVE  Fresh'
<1>1. phase[t] = "registering" BY DEF RegisterRealSessionId
<1>2. /\ temp[t] \in Id /\ temp[t] # Real(t) /\ pending[Real(t)] = None /\ tempToReal[Real(t)] = None
      /\ \A u \in Task : temp[t] = Real(u) => captured[u] = Real(u)
  BY <1>1, TempIsFresh
<1>3. /\ \A u \in Task : /\ captured'[u] = IF u = t THEN Real(t) ELSE captured[u]
                         /\ temp'[u] = IF u = t THEN None ELSE temp[u]
      /\ parent' = parent
  BY DEF RegisterRealSessionId, Base, TypeOK
<1>4. ForksAnnounced' /\ OwnTemp'
  BY <1>3, Names DEF Fresh, ForksAnnounced, OwnTemp
<1>5. CASE UNCHANGED mapVars
  BY <1>3, <1>4, <1>5 DEF mapVars, Fresh, NotBoth, Replaced, Unannounced
<1>6. CASE /\ pending[temp[t]] # None
           /\ pending' = [pending EXCEPT ![temp[t]] = None]
           /\ sessions' = [sessions EXCEPT ![Real(t)] = pending[temp[t]]]
           /\ tempToReal' = [tempToReal EXCEPT ![temp[t]] = Real(t)]
  <2>1. \A i \in Id : /\ pending'[i] = IF i = temp[t] THEN None ELSE pending[i]
                      /\ sessions'[i] = IF i = Real(t) THEN pending[temp[t]] ELSE sessions[i]
                      /\ tempToReal'[i] = IF i = temp[t] THEN Real(t) ELSE tempToReal[i]
    BY <1>2, <1>6, IdsAreIds DEF Base, TypeOK
  <2>2. NotBoth' BY <1>2, <2>1 DEF Fresh, NotBoth
  <2>3. Replaced' BY <1>2, <1>6, <2>1 DEF Fresh, NotBoth, Replaced
  <2>4. Unannounced' BY <1>2, <1>3, <2>1, IdsAreIds DEF Fresh, Unannounced
  <2> QED BY <1>4, <2>2, <2>3, <2>4 DEF Fresh
<1> QED BY <1>5, <1>6 DEF RegisterRealSessionId, Register

LEMMA StartFresh ==
  ASSUME Base, Fresh, NEW t \in Task, NEW r \in Tree, NEW p \in Id \cup {None}, Start(t, r, p)
  PROVE  Fresh'
<1>1. /\ parent' = [parent EXCEPT ![t] = p] /\ phase[t] = "new" /\ p \in Known \cup {None}
      /\ UNCHANGED <<temp, captured, pending, sessions, tempToReal>>
  BY DEF Start, mapVars
<1>2. \A u \in Task : p = Real(u) => captured[u] = Real(u)
  BY <1>1, Names, IdsAreIds, NoneIsNoId, ActorsDiffer DEF Known
<1>3. \A u \in Task : parent'[u] = IF u = t THEN p ELSE parent[u] BY <1>1 DEF Base, TypeOK
<1>4. temp[t] = None BY <1>1 DEF Base, Stages, Stage
<1>5. NotBoth' /\ Replaced' /\ Unannounced' BY <1>1 DEF Fresh, NotBoth, Replaced, Unannounced
<1>6. ForksAnnounced' BY <1>1, <1>2, <1>3 DEF Fresh, ForksAnnounced
<1>7. OwnTemp' BY <1>1, <1>3, <1>4 DEF Fresh, OwnTemp
<1> QED BY <1>5, <1>6, <1>7 DEF Fresh

\* Ids stay fresh until their process announces them.
LEMMA FreshKept ==
  ASSUME Base, Fresh, [Next]_vars
  PROVE  Fresh'
<1>1. ASSUME NEW t \in Task, RemoveSession(t)
      PROVE  Fresh'
  BY <1>1, FreshShrinks DEF Base, TypeOK, RemoveSession, stopVars, mapVars, allVars, AwaitStop,
     EndTask, ForgetAlias, Alive, BeginStop, Release, Done
<1>2. CASE StopAllBegins
  BY <1>2, FreshShrinks DEF Base, TypeOK, StopAllBegins, handlerVars, stopVars, treeVars,
     StopAllGoesOn, mapVars, Release, BeginStop, Alive
<1>3. ASSUME NEW t \in Task, SessionRemoved(t)
      PROVE  Fresh'
  BY <1>3, FreshShrinks DEF Base, TypeOK, SessionRemoved, stopVars, allVars, Release, Done,
     ForgetAlias, Alive, Unregistered
<1>4. CASE StopAllStopped
  BY <1>4, FreshShrinks DEF Base, TypeOK, StopAllStopped, handlerVars, stopVars, treeVars,
     Alive, StopAllGoesOn, Unregistered, mapVars, Release, BeginStop
<1>5. CASE UNCHANGED <<parent, temp, captured, pending, sessions, tempToReal>>
  BY <1>5, FreshShrinks
<1> QED
  <2>1. CASE LockSteps
    BY <2>1, <1>1, <1>2, <1>5, GetFresh, RegisterFresh DEF LockSteps, handlerVars, treeVars,
       mapVars, allVars, stopVars, Done, Release, Alive
  <2>2. CASE Commands
    BY <2>2, <1>5, StartFresh DEF Commands, StopReply, handlerVars, treeVars, mapVars,
       lockVars, allVars, Cancel, StopAll, Acquire
  <2>3. CASE Handlers
    BY <2>3, <1>3, <1>5 DEF Handlers, DeliverCancel, treeVars, mapVars, allVars, Acquire,
       SessionInfo, stopVars, HandlerFails, Untouched, Leave, CancelInGenerator, GeneratorEnds,
       Unregistered, CancelAtLock, Done, CancelInRemove, Release, Alive
  <2>4. CASE Generators
    BY <2>4, <1>5 DEF Generators, treeVars, mapVars, allVars, Acquire, stopVars, Untouched,
       Leave, GeneratorEnds, Unregistered, TakeCliLock, CliLockFree, Spawned, SpawnFails,
       StdoutEnds, StderrEnds, ProcessWaited, Alive, GeneratorCloses, StopReturns
  <2>5. CASE StopAllStopped
    BY <2>5, <1>4, <1>5 DEF handlerVars, treeVars, mapVars, stopVars, Unregistered, Release,
       Alive
  <2>6. CASE Processes
    BY <2>6, <1>5 DEF Processes, handlerVars, treeVars, mapVars, allVars, stopVars, Untouched,
       Alive, Exits, KilledInShield, KilledByHolder
  <2>7. CASE UNCHANGED vars
    BY <2>7, <1>5 DEF handlerVars, treeVars, mapVars, lockVars, allVars, stopVars, vars
  <2> QED BY <2>1, <2>2, <2>3, <2>4, <2>5, <2>6, <2>7 DEF Next

-----------------------------------------------------------------------------
(* The order of the manager's lock                                         *)

Waits(q, a) == \E k \in 1..Len(q) : q[k] = a
Ahead(q, a, b) == \E j, k \in 1..Len(q) : j < k /\ q[j] = a /\ q[k] = b

LEMMA AheadWaits ==
  ASSUME NEW q, NEW a, NEW b
  PROVE  Ahead(q, a, b) => Waits(q, a) /\ Waits(q, b)
BY DEF Ahead, Waits

LEMMA FirstIsAhead ==
  ASSUME NEW q \in Seq(Waiter), q # <<>>, NEW b, Waits(q, b), b # q[1]
  PROVE  Ahead(q, q[1], b)
<1>1. PICK k \in 1..Len(q) : q[k] = b BY DEF Waits
<1>2. 1 \in 1..Len(q) /\ 1 < k BY <1>1
<1> QED BY <1>1, <1>2 DEF Ahead

LEMMA AppendOrder ==
  ASSUME NEW q \in Seq(Waiter), NEW a \in Waiter
  PROVE  /\ \A b : Waits(Append(q, a), b) <=> Waits(q, b) \/ b = a
         /\ \A b, c : Ahead(Append(q, a), b, c) => Ahead(q, b, c) \/ c = a
<1>1. Len(Append(q, a)) = Len(q) + 1 /\ Append(q, a)[Len(q) + 1] = a
      /\ \A k \in 1..Len(q) : Append(q, a)[k] = q[k]
  OBVIOUS
<1>2. \A k \in 1..Len(Append(q, a)) : k \in 1..Len(q) \/ k = Len(q) + 1 BY <1>1
<1>3. Len(q) \in Nat OBVIOUS
<1>4. \A k \in 1..Len(q) : k \in 1..Len(Append(q, a)) BY <1>1, <1>3
<1>5. Len(q) + 1 \in 1..Len(Append(q, a)) BY <1>1, <1>3
<1>6. \A j, k \in 1..Len(Append(q, a)) : j < k => j \in 1..Len(q) BY <1>1, <1>3
<1> HIDE <1>3
<1>7. ASSUME NEW b PROVE Waits(Append(q, a), b) <=> Waits(q, b) \/ b = a
  BY <1>1, <1>2, <1>4, <1>5 DEF Waits
<1>8. ASSUME NEW b, NEW c, Ahead(Append(q, a), b, c) PROVE Ahead(q, b, c) \/ c = a
  BY <1>1, <1>2, <1>6, <1>8 DEF Ahead
<1> QED BY <1>7, <1>8

LEMMA TailOrder ==
  ASSUME NEW q \in Seq(Waiter), q # <<>>
  PROVE  /\ \A b : Waits(Tail(q), b) => Waits(q, b)
         /\ \A b : Waits(q, b) /\ b # q[1] => Waits(Tail(q), b)
         /\ \A b, c : Ahead(Tail(q), b, c) => Ahead(q, b, c)
<1>1. Len(q) \in Nat /\ Len(q) >= 1 /\ Len(Tail(q)) = Len(q) - 1
      /\ \A k \in 1..(Len(q) - 1) : Tail(q)[k] = q[k + 1]
  OBVIOUS
<1>2. ASSUME NEW b, Waits(Tail(q), b) PROVE Waits(q, b)
  <2>1. PICK k \in 1..(Len(q) - 1) : q[k + 1] = b BY <1>1, <1>2 DEF Waits
  <2>2. k + 1 \in 1..Len(q) BY <1>1
  <2> QED BY <2>1, <2>2 DEF Waits
<1>3. ASSUME NEW b, Waits(q, b), b # q[1] PROVE Waits(Tail(q), b)
  <2>1. PICK k \in 1..Len(q) : q[k] = b BY <1>3 DEF Waits
  <2>2. k - 1 \in 1..(Len(q) - 1) /\ (k - 1) + 1 = k BY <1>1, <1>3, <2>1
  <2>3. Tail(q)[k - 1] = b BY <1>1, <2>1, <2>2
  <2> QED BY <1>1, <2>2, <2>3 DEF Waits
<1>4. ASSUME NEW b, NEW c, Ahead(Tail(q), b, c) PROVE Ahead(q, b, c)
  <2>1. PICK j, k \in 1..(Len(q) - 1) : j < k /\ q[j + 1] = b /\ q[k + 1] = c
    BY <1>1, <1>4 DEF Ahead
  <2>2. j + 1 \in 1..Len(q) /\ k + 1 \in 1..Len(q) /\ j + 1 < k + 1 BY <1>1, <2>1
  <2> QED BY <2>1, <2>2 DEF Ahead
<1> QED BY <1>2, <1>3, <1>4

LEMMA WithoutOrder ==
  ASSUME NEW t, lockQueue \in Seq(Waiter)
  PROVE  /\ \A b : Waits(Without(t), b) => Waits(lockQueue, b)
         /\ \A b : Waits(lockQueue, b) /\ b # t => Waits(Without(t), b)
         /\ \A b, c : Ahead(Without(t), b, c) => Ahead(lockQueue, b, c)
<1> DEFINE q == lockQueue
           w == Without(t)
<1>1. CASE w = q BY <1>1
<1>2. ASSUME NEW i \in 1..Len(q), q[i] = t, Len(w) = Len(q) - 1,
             \A j \in 1..(Len(q) - 1) : w[j] = q[IF j < i THEN j ELSE j + 1]
      PROVE  /\ \A b : Waits(w, b) => Waits(q, b)
             /\ \A b : Waits(q, b) /\ b # t => Waits(w, b)
             /\ \A b, c : Ahead(w, b, c) => Ahead(q, b, c)
  <2> DEFINE at(j) == IF j < i THEN j ELSE j + 1
  <2>1. Len(q) \in Nat /\ i \in Nat OBVIOUS
  <2> HIDE DEF q, w
  <2>2. \A j \in 1..(Len(q) - 1) : at(j) \in 1..Len(q) BY <2>1
  <2>3. \A j, k \in 1..(Len(q) - 1) : j < k => at(j) < at(k) BY <2>1
  <2>4. \A k \in 1..Len(q) : k # i => \E j \in 1..(Len(q) - 1) : at(j) = k
    <3> TAKE k \in 1..Len(q)
    <3>1. CASE k < i
      <4>1. k \in 1..(Len(q) - 1) /\ at(k) = k BY <2>1, <3>1
      <4> QED BY <4>1
    <3>2. CASE k > i
      <4>1. k - 1 \in 1..(Len(q) - 1) /\ at(k - 1) = k BY <2>1, <3>2
      <4> QED BY <4>1
    <3> QED BY <2>1, <3>1, <3>2
  <2>5. \A j \in 1..(Len(q) - 1) : w[j] = q[at(j)] BY <1>2
  <2> HIDE DEF at
  <2>6. \A b : Waits(w, b) => Waits(q, b) BY <1>2, <2>2, <2>5 DEF Waits
  <2>7. ASSUME NEW b, Waits(q, b), b # t PROVE Waits(w, b)
    BY <1>2, <2>4, <2>5, <2>7 DEF Waits
  <2>8. ASSUME NEW b, NEW c, Ahead(w, b, c) PROVE Ahead(q, b, c)
    <3>1. PICK j, k \in 1..(Len(q) - 1) : j < k /\ w[j] = b /\ w[k] = c BY <1>2, <2>8 DEF Ahead
    <3>2. at(j) \in 1..Len(q) /\ at(k) \in 1..Len(q) /\ at(j) < at(k) BY <2>2, <2>3, <3>1
    <3>3. q[at(j)] = b /\ q[at(k)] = c BY <2>5, <3>1
    <3> QED BY <3>2, <3>3 DEF Ahead
  <2> QED BY <2>6, <2>7, <2>8
<1>3. w = q \/ \E i \in 1..Len(q) : /\ q[i] = t /\ Len(w) = Len(q) - 1
                                   /\ \A j \in 1..(Len(q) - 1) : w[j] = q[IF j < i THEN j ELSE j + 1]
  BY WithoutIs
<1> HIDE DEF q, w
<1>4. /\ \A b : Waits(w, b) => Waits(q, b)
      /\ \A b : Waits(q, b) /\ b # t => Waits(w, b)
      /\ \A b, c : Ahead(w, b, c) => Ahead(q, b, c)
  BY <1>1, <1>2, <1>3
<1> QED BY <1>4 DEF q, w

\* No one gets ahead of a "/stop" that waits.
InTurn ==
  /\ \A t \in Task : Waits(lockQueue', t) => Waits(lockQueue, t) \/ phase'[t] # "new"
  /\ \A t \in Task : Ahead(lockQueue', t, Stopper) => Ahead(lockQueue, t, Stopper)
  /\ Waits(lockQueue, Stopper) /\ stopper' = "waiting" => Waits(lockQueue', Stopper)

LEMMA AcquireInTurn ==
  ASSUME Base, NEW t \in Task, Acquire(t), phase'[t] # "new"
  PROVE  InTurn
<1>1. lockQueue \in Seq(Waiter) /\ t \in Waiter /\ t # Stopper BY ActorsDiffer DEF Base, TypeOK, Waiter
<1>2. /\ \A b : Waits(Append(lockQueue, t), b) <=> Waits(lockQueue, b) \/ b = t
      /\ \A b, c : Ahead(Append(lockQueue, t), b, c) => Ahead(lockQueue, b, c) \/ c = t
  BY <1>1, AppendOrder
<1>3. lockQueue' = Append(lockQueue, t) BY DEF Acquire
<1> QED BY <1>1, <1>2, <1>3 DEF InTurn

LEMMA ReleaseInTurn ==
  ASSUME Base, NEW a \in Waiter, lockQueue # <<>>, lockQueue[1] = a, Release,
         a = Stopper => stopper' # "waiting"
  PROVE  InTurn
<1>1. lockQueue \in Seq(Waiter) BY DEF Base, TypeOK, Waiter
<1>2. /\ \A b : Waits(Tail(lockQueue), b) => Waits(lockQueue, b)
      /\ \A b : Waits(lockQueue, b) /\ b # lockQueue[1] => Waits(Tail(lockQueue), b)
      /\ \A b, c : Ahead(Tail(lockQueue), b, c) => Ahead(lockQueue, b, c)
  BY <1>1, TailOrder
<1>3. lockQueue' = Tail(lockQueue) BY DEF Release
<1> QED BY <1>2, <1>3 DEF InTurn

LEMMA WithoutInTurn ==
  ASSUME Base, NEW t \in Task, lockQueue' \in {Without(t), Append(Without(t), t)}, phase'[t] # "new"
  PROVE  InTurn
<1>1. lockQueue \in Seq(Waiter) /\ t \in Waiter /\ t # Stopper BY ActorsDiffer DEF Base, TypeOK, Waiter
<1>2. Without(t) \in Seq(Waiter) BY <1>1, WithoutIs
<1>3. /\ \A b : Waits(Without(t), b) => Waits(lockQueue, b)
      /\ \A b : Waits(lockQueue, b) /\ b # t => Waits(Without(t), b)
      /\ \A b, c : Ahead(Without(t), b, c) => Ahead(lockQueue, b, c)
  BY <1>1, WithoutOrder
<1>4. /\ \A b : Waits(Append(Without(t), t), b) <=> Waits(Without(t), b) \/ b = t
      /\ \A b, c : Ahead(Append(Without(t), t), b, c) => Ahead(Without(t), b, c) \/ c = t
  BY <1>1, <1>2, AppendOrder
<1>5. CASE lockQueue' = Without(t) BY <1>1, <1>3, <1>5 DEF InTurn
<1>6. CASE lockQueue' = Append(Without(t), t) BY <1>1, <1>3, <1>4, <1>6 DEF InTurn
<1> QED BY <1>5, <1>6

LEMMA HeadIsFirst ==
  ASSUME Base, NEW a, HasLock(a)
  PROVE  lockQueue # <<>> /\ lockQueue[1] = a
BY DEF Base, TypeOK, HasLock

\* Who waits for the lock has started; and who gets a session ahead of a
\* "/stop" of everything is a task that it cancels.
Queue ==
  /\ \A t \in Task : Waits(lockQueue, t) => phase[t] # "new"
  /\ \A t \in Task : Ahead(lockQueue, t, Stopper) /\ phase[t] = "getting" => t \in cancelReq \cup overlapped
  /\ stopper = "waiting" => Waits(lockQueue, Stopper)

\* The steps on the lock
LEMMA StepsInTurn ==
  ASSUME Base, ~StopAll, [Next]_vars
  PROVE  InTurn
<1>1. ASSUME NEW t \in Task, SessionInfo(t)
      PROVE  InTurn
  BY <1>1, AcquireInTurn DEF Base, TypeOK, InTurn, SessionInfo, stopVars, treeVars, mapVars,
     allVars, Acquire
<1>2. ASSUME NEW t \in Task, HandlerFails(t)
      PROVE  InTurn
  BY <1>2, AcquireInTurn DEF Base, TypeOK, InTurn, HandlerFails, Untouched, Leave, stopVars,
     treeVars, mapVars, allVars, Acquire
<1>3. ASSUME NEW t \in Task, t \in cancelReq, CancelInGenerator(t)
      PROVE  InTurn
  BY <1>3, AcquireInTurn DEF Base, TypeOK, InTurn, CancelInGenerator, Untouched, GeneratorEnds,
     Leave, stopVars, treeVars, mapVars, allVars, Unregistered, Acquire
<1>4. ASSUME NEW t \in Task, SpawnFails(t)
      PROVE  InTurn
  BY <1>4, AcquireInTurn DEF Base, TypeOK, InTurn, SpawnFails, Untouched, GeneratorEnds, Leave,
     stopVars, treeVars, mapVars, allVars, Unregistered, Acquire
<1>5. ASSUME NEW t \in Task, ProcessWaited(t)
      PROVE  InTurn
  BY <1>5, AcquireInTurn DEF Base, TypeOK, InTurn, ProcessWaited, Untouched, Alive,
     GeneratorEnds, Leave, stopVars, treeVars, mapVars, allVars, Unregistered, Acquire
<1>6. ASSUME NEW t \in Task, GeneratorCloses(t)
      PROVE  InTurn
  BY <1>6, AcquireInTurn DEF Base, TypeOK, InTurn, GeneratorCloses, Untouched, GeneratorEnds,
     Leave, stopVars, treeVars, mapVars, allVars, Unregistered, Acquire
<1>7. ASSUME NEW t \in Task, NEW r \in Tree, NEW p \in Id \cup {None}, Start(t, r, p)
      PROVE  InTurn
  BY <1>7, AcquireInTurn DEF Base, TypeOK, InTurn, Start, mapVars, allVars, Acquire, Tree
<1>8. ASSUME NEW t \in Task, GetOrCreateSession(t)
      PROVE  InTurn
  BY <1>8, ReleaseInTurn, HeadIsFirst, ActorsDiffer DEF Waiter, GetOrCreateSession, stopVars,
     treeVars, allVars, Lookup, Found
<1>9. ASSUME NEW t \in Task, RegisterRealSessionId(t)
      PROVE  InTurn
  BY <1>9, ReleaseInTurn, HeadIsFirst, ActorsDiffer DEF Waiter, RegisterRealSessionId, stopVars,
     treeVars, allVars, Register, mapVars
<1>10. ASSUME NEW t \in Task, RemoveSession(t)
      PROVE  InTurn
  BY <1>10, ReleaseInTurn, HeadIsFirst, ActorsDiffer DEF Waiter, InTurn, RemoveSession,
     stopVars, mapVars, allVars, AwaitStop, EndTask, ForgetAlias, Alive, BeginStop, Done
<1>11. ASSUME NEW t \in Task, SessionRemoved(t)
      PROVE  InTurn
  BY <1>11, ReleaseInTurn, ActorsDiffer DEF Base, Holder, Waiter, SessionRemoved, stopVars,
     allVars, Done, ForgetAlias, Alive, Unregistered
<1>12. ASSUME NEW t \in Task, t \in cancelReq, CancelInRemove(t)
      PROVE  InTurn
  BY <1>12, ReleaseInTurn, ActorsDiffer DEF Base, Holder, Waiter, CancelInRemove, mapVars,
     allVars, Done
<1>13. CASE StopAllBegins
  BY <1>13, ReleaseInTurn, HeadIsFirst DEF Base, Holder, Waiter, InTurn, StopAllBegins,
     handlerVars, stopVars, treeVars, StopAllGoesOn, mapVars, BeginStop, Alive
<1>14. CASE StopAllStopped
  BY <1>14, ReleaseInTurn, HeadIsFirst DEF Base, Holder, Waiter, InTurn, StopAllStopped,
     handlerVars, stopVars, treeVars, Alive, StopAllGoesOn, Unregistered, mapVars, BeginStop
<1>15. ASSUME NEW t \in Task, t \in cancelReq, CancelAtLock(t)
      PROVE  InTurn
  BY <1>15, WithoutInTurn DEF Base, TypeOK, CancelAtLock, mapVars, allVars, Done
<1>16. CASE UNCHANGED <<lockQueue>>
  BY <1>16 DEF InTurn
<1> QED
  <2>1. CASE LockSteps
    BY <2>1, <1>8, <1>9, <1>10, <1>13, <1>16 DEF LockSteps, handlerVars, treeVars, mapVars,
       allVars, stopVars, Alive
  <2>2. CASE Commands
    BY <2>2, <1>7, <1>16 DEF Commands, StopReply, handlerVars, treeVars, mapVars, lockVars,
       allVars, Cancel
  <2>3. CASE Handlers
    BY <2>3, <1>1, <1>2, <1>3, <1>11, <1>12, <1>15, <1>16 DEF Handlers, DeliverCancel,
       treeVars, mapVars, allVars, Untouched, stopVars, Alive, Unregistered
  <2>4. CASE Generators
    BY <2>4, <1>4, <1>5, <1>6, <1>16 DEF Generators, treeVars, mapVars, allVars, TakeCliLock,
       Untouched, CliLockFree, stopVars, Spawned, StdoutEnds, StderrEnds, StopReturns, Alive,
       Unregistered
  <2>5. CASE StopAllStopped
    BY <2>5, <1>14, <1>16 DEF handlerVars, treeVars, mapVars, stopVars, Alive, Unregistered
  <2>6. CASE Processes
    BY <2>6, <1>16 DEF Processes, handlerVars, treeVars, mapVars, allVars, Untouched, stopVars,
       Alive, Exits, KilledInShield, KilledByHolder
  <2>7. CASE UNCHANGED vars
    BY <2>7, <1>16 DEF handlerVars, treeVars, mapVars, lockVars, allVars, stopVars, vars
  <2> QED BY <2>1, <2>2, <2>3, <2>4, <2>5, <2>6, <2>7 DEF Next

\* Who still gets a session is as cancelled as before.
GoOn ==
  \A t \in Task :
    /\ phase'[t] = "new" => phase[t] = "new"
    /\ phase'[t] = "getting" => phase[t] \in {"new", "getting"}
    /\ phase'[t] = "getting" /\ t \in cancelReq \cup overlapped => t \in (cancelReq \cup overlapped)'

\* A task starts once, and is cancelled once.
LEMMA TasksGoOn ==
  ASSUME Base, [Next]_vars
  PROVE  GoOn
<1>1. ASSUME NEW t \in Task, GetOrCreateSession(t)
      PROVE  GoOn
  BY <1>1 DEF Base, TypeOK, GoOn, GetOrCreateSession, stopVars, treeVars, allVars, Release,
     Lookup, Found
<1>2. ASSUME NEW t \in Task, RegisterRealSessionId(t)
      PROVE  GoOn
  BY <1>2 DEF Base, TypeOK, GoOn, RegisterRealSessionId, stopVars, treeVars, allVars, Release,
     Register, mapVars
<1>3. ASSUME NEW t \in Task, RemoveSession(t)
      PROVE  GoOn
  BY <1>3 DEF Base, TypeOK, GoOn, RemoveSession, stopVars, mapVars, allVars, AwaitStop, EndTask,
     ForgetAlias, Alive, BeginStop, Release, Done
<1>4. ASSUME NEW t \in Task, SessionInfo(t)
      PROVE  GoOn
  BY <1>4 DEF Base, TypeOK, GoOn, SessionInfo, stopVars, treeVars, mapVars, allVars, Acquire
<1>5. ASSUME NEW t \in Task, SessionRemoved(t)
      PROVE  GoOn
  BY <1>5 DEF Base, TypeOK, GoOn, SessionRemoved, stopVars, allVars, Release, Done, ForgetAlias,
     Alive, Unregistered
<1>6. ASSUME NEW t \in Task, HandlerFails(t)
      PROVE  GoOn
  BY <1>6 DEF Base, TypeOK, GoOn, HandlerFails, Untouched, Leave, stopVars, treeVars, mapVars,
     allVars, Acquire
<1>7. ASSUME NEW t \in Task, t \in cancelReq, CancelInGenerator(t)
      PROVE  GoOn
  BY <1>7 DEF Base, TypeOK, GoOn, CancelInGenerator, Untouched, GeneratorEnds, Leave, stopVars,
     treeVars, mapVars, allVars, Unregistered, Acquire
<1>8. ASSUME NEW t \in Task, t \in cancelReq, CancelAtLock(t)
      PROVE  GoOn
  BY <1>8 DEF Base, TypeOK, GoOn, CancelAtLock, mapVars, allVars, Done
<1>9. ASSUME NEW t \in Task, t \in cancelReq, CancelInRemove(t)
      PROVE  GoOn
  BY <1>9 DEF Base, TypeOK, GoOn, CancelInRemove, mapVars, allVars, Release, Done
<1>10. ASSUME NEW t \in Task, SpawnFails(t)
      PROVE  GoOn
  BY <1>10 DEF Base, TypeOK, GoOn, SpawnFails, Untouched, GeneratorEnds, Leave, stopVars,
     treeVars, mapVars, allVars, Unregistered, Acquire
<1>11. ASSUME NEW t \in Task, ProcessWaited(t)
      PROVE  GoOn
  BY <1>11 DEF Base, TypeOK, GoOn, ProcessWaited, Untouched, Alive, GeneratorEnds, Leave,
     stopVars, treeVars, mapVars, allVars, Unregistered, Acquire
<1>12. ASSUME NEW t \in Task, GeneratorCloses(t)
      PROVE  GoOn
  BY <1>12 DEF Base, TypeOK, GoOn, GeneratorCloses, Untouched, GeneratorEnds, Leave, stopVars,
     treeVars, mapVars, allVars, Unregistered, Acquire
<1>13. ASSUME NEW t \in Task, NEW r \in Tree, NEW p \in Id \cup {None}, Start(t, r, p)
      PROVE  GoOn
  BY <1>13 DEF Base, TypeOK, GoOn, Start, mapVars, allVars, Acquire, Tree
<1>14. ASSUME NEW t \in Task, StopReply(t)
      PROVE  GoOn
  BY <1>14 DEF Base, TypeOK, GoOn, StopReply, handlerVars, treeVars, mapVars, lockVars, allVars,
     Cancel
<1>15. CASE StopAll
  BY <1>15 DEF Base, TypeOK, GoOn, StopAll, handlerVars, mapVars, Cancel, Acquire
<1>16. CASE UNCHANGED <<phase, cancelReq, overlapped>>
  BY <1>16 DEF GoOn
<1> QED
  <2>1. CASE LockSteps
    BY <2>1, <1>1, <1>2, <1>3, <1>16 DEF LockSteps, StopAllBegins, handlerVars, stopVars,
       treeVars, StopAllGoesOn, mapVars, Release, BeginStop, Alive, allVars
  <2>2. CASE Commands
    BY <2>2, <1>13, <1>14, <1>15, <1>16 DEF Commands, handlerVars, treeVars, mapVars, allVars,
       lockVars
  <2>3. CASE Handlers
    BY <2>3, <1>4, <1>5, <1>6, <1>7, <1>8, <1>9, <1>16 DEF Handlers, DeliverCancel, stopVars,
       treeVars, mapVars, Release, Alive, Untouched, allVars, Unregistered
  <2>4. CASE Generators
    BY <2>4, <1>10, <1>11, <1>12, <1>16 DEF Generators, stopVars, treeVars, mapVars, Alive,
       TakeCliLock, Untouched, CliLockFree, allVars, Spawned, StdoutEnds, StderrEnds,
       StopReturns, Unregistered
  <2>5. CASE StopAllStopped
    BY <2>5, <1>16 DEF handlerVars, stopVars, treeVars, StopAllGoesOn, mapVars, Release,
       BeginStop, Alive, Unregistered, StopAllStopped
  <2>6. CASE Processes
    BY <2>6, <1>16 DEF Processes, handlerVars, stopVars, treeVars, mapVars, Alive, Untouched,
       allVars, Exits, KilledInShield, KilledByHolder
  <2>7. CASE UNCHANGED vars
    BY <2>7, <1>16 DEF handlerVars, stopVars, treeVars, mapVars, allVars, vars, lockVars
  <2> QED BY <2>1, <2>2, <2>3, <2>4, <2>5, <2>6, <2>7 DEF Next

LEMMA StopAllQueue ==
  ASSUME Base, Queue, Current, StopAll
  PROVE  Queue'
<1>1. /\ \A b : Waits(lockQueue', b) <=> Waits(lockQueue, b) \/ b = Stopper
      /\ lockQueue \in Seq(Waiter)
  <2>1. lockQueue \in Seq(Waiter) /\ Stopper \in Waiter BY DEF Base, TypeOK, Waiter
  <2>2. \A b : Waits(Append(lockQueue, Stopper), b) <=> Waits(lockQueue, b) \/ b = Stopper
    BY <2>1, AppendOrder
  <2>3. lockQueue' = Append(lockQueue, Stopper) BY DEF StopAll, Acquire
  <2> QED BY <2>1, <2>2, <2>3
<1>2. UNCHANGED <<phase, tree, overlapped>> BY DEF StopAll, handlerVars
<1>3. ASSUME NEW t \in Task, phase[t] = "getting", t \notin overlapped PROVE t \in cancelReq'
  <2>1. ~Over(t) /\ Alone(t) BY <1>3 DEF Over, Alone
  <2>2. currentTask[tree[t]] = t /\ tree[t] \in Tree
    BY <1>3, <2>1 DEF Current, Base, TypeOK, Stages, Stage
  <2> QED BY <2>1, <2>2, ActorsDiffer DEF StopAll, Cancel
<1> QED BY <1>1, <1>2, <1>3, ActorsDiffer DEF Queue

\* The lock is handed on in order.
LEMMA QueueKept ==
  ASSUME Base, Queue, Current, [Next]_vars
  PROVE  Queue'
<1>1. CASE StopAll BY <1>1, StopAllQueue
<1>2. CASE ~StopAll
  <2>1. InTurn BY <1>2, StepsInTurn
  <2>2. GoOn BY TasksGoOn
  <2>3. stopper' = "waiting" => stopper = "waiting"
    <3>1. CASE LockSteps
      BY <3>1 DEF LockSteps, GetOrCreateSession, RegisterRealSessionId, RemoveSession,
         AwaitStop, StopAllBegins, StopAllGoesOn, allVars
    <3>2. CASE Commands
      BY <1>2, <3>2 DEF Commands, Start, StopReply, allVars
    <3>3. CASE Handlers
      BY <3>3 DEF Handlers, DeliverCancel, SessionInfo, SessionRemoved, HandlerFails,
         CancelInGenerator, CancelAtLock, CancelInRemove, Untouched, allVars
    <3>4. CASE Generators
      BY <3>4 DEF Generators, TakeCliLock, Spawned, SpawnFails, StdoutEnds, StderrEnds,
         ProcessWaited, GeneratorCloses, StopReturns, Untouched, allVars
    <3>5. CASE StopAllStopped
      BY <3>5 DEF StopAllStopped, StopAllGoesOn
    <3>6. CASE Processes
      BY <3>6 DEF Processes, Exits, KilledInShield, KilledByHolder, Untouched, allVars
    <3>7. CASE UNCHANGED vars
      BY <3>7 DEF vars, allVars
    <3> QED BY <3>1, <3>2, <3>3, <3>4, <3>5, <3>6, <3>7 DEF Next
  <2> QED BY <2>1, <2>2, <2>3, AheadWaits DEF InTurn, GoOn, Queue
<1> QED BY <1>1, <1>2

-----------------------------------------------------------------------------
(* "/stop" of everything, and what a cancelled stop leaves behind          *)

\* Nothing is started while a "/stop" is at work, beside what it cancels.
NoneSpawns ==
  \A t \in Task :
    stopper # "idle" /\ t \notin overlapped /\ gen[t] \in {"queued", "spawning"} => t \in cancelReq

\* Who gets a session while the "/stop" waits works beside another.
LEMMA GetDuringStop ==
  ASSUME Base, Queue, NEW t \in Task, GetOrCreateSession(t), stopper # "idle"
  PROVE  t \in overlapped
<1>1. /\ lockQueue # <<>> /\ lockQueue[1] = t /\ lockQueue \in Seq(Waiter) /\ t # Stopper
      /\ phase[t] = "getting" /\ t \notin cancelReq
  BY HeadIsFirst, ActorsDiffer DEF GetOrCreateSession, Base, TypeOK, Waiter
<1>2. stopper = "waiting" BY <1>1 DEF Base, Holder, TypeOK
<1>3. Ahead(lockQueue, t, Stopper) BY <1>1, <1>2, FirstIsAhead DEF Queue
<1> QED BY <1>1, <1>3 DEF Queue

LEMMA StopAllNoneSpawns ==
  ASSUME Base, Current, NoneSpawns, StopAll
  PROVE  NoneSpawns'
<1>1. UNCHANGED <<gen, overlapped>> BY DEF StopAll
<1>2. ASSUME NEW t \in Task, t \notin overlapped, gen[t] \in {"queued", "spawning"} PROVE t \in cancelReq'
  <2>1. phase[t] = "using" BY <1>2, InUse DEF Working
  <2>2. ~Over(t) /\ Alone(t) BY <1>2, <2>1 DEF Over, Alone
  <2>3. currentTask[tree[t]] = t /\ tree[t] \in Tree
    BY <2>1, <2>2 DEF Current, Base, TypeOK, Stages, Stage
  <2> QED BY <2>2, <2>3, ActorsDiffer DEF StopAll, Cancel
<1> QED BY <1>1, <1>2 DEF NoneSpawns

\* A "/stop" of everything has cancelled what is about to start.
LEMMA NoneSpawnsKept ==
  ASSUME Base, Queue, Current, NoneSpawns, [Next]_vars
  PROVE  NoneSpawns'
<1>1. ASSUME NEW t \in Task, GetOrCreateSession(t)
      PROVE  NoneSpawns'
  <2>1. stopper # "idle" => t \in overlapped BY <1>1, GetDuringStop
  <2>2. /\ UNCHANGED <<stopper, overlapped, cancelReq>>
        /\ gen' = [gen EXCEPT ![t] = "queued"]
    BY <1>1 DEF GetOrCreateSession, stopVars, treeVars, allVars
  <2> QED BY <2>1, <2>2 DEF NoneSpawns, Base, TypeOK
<1>2. ASSUME NEW t \in Task, HandlerFails(t)
      PROVE  NoneSpawns'
  BY <1>2 DEF Base, TypeOK, Stages, Stage, NoneSpawns, HandlerFails, Untouched, Leave, stopVars,
     treeVars, mapVars, allVars, Acquire
<1>3. ASSUME NEW t \in Task, t \in cancelReq, CancelInGenerator(t)
      PROVE  NoneSpawns'
  BY <1>3 DEF Base, TypeOK, Stages, Stage, NoneSpawns, CancelInGenerator, Untouched,
     GeneratorEnds, Leave, stopVars, treeVars, mapVars, allVars, Unregistered, Acquire
<1>4. ASSUME NEW t \in Task, t \in cancelReq, CancelAtLock(t)
      PROVE  NoneSpawns'
  BY <1>4 DEF Base, TypeOK, Stages, Stage, NoneSpawns, CancelAtLock, mapVars, allVars, Done
<1>5. ASSUME NEW t \in Task, TakeCliLock(t)
      PROVE  NoneSpawns'
  BY <1>5 DEF Base, TypeOK, Stages, Stage, NoneSpawns, TakeCliLock, Untouched, CliLockFree,
     stopVars, treeVars, mapVars, allVars
<1>6. ASSUME NEW t \in Task, Spawned(t)
      PROVE  NoneSpawns'
  BY <1>6 DEF Base, TypeOK, Stages, Stage, NoneSpawns, Spawned, Untouched, stopVars, treeVars,
     mapVars, allVars
<1>7. ASSUME NEW t \in Task, SpawnFails(t)
      PROVE  NoneSpawns'
  BY <1>7 DEF Base, TypeOK, Stages, Stage, NoneSpawns, SpawnFails, Untouched, GeneratorEnds,
     Leave, stopVars, treeVars, mapVars, allVars, Unregistered, Acquire
<1>8. ASSUME NEW t \in Task, StdoutEnds(t)
      PROVE  NoneSpawns'
  BY <1>8 DEF Base, TypeOK, Stages, Stage, NoneSpawns, StdoutEnds, Untouched, stopVars,
     treeVars, mapVars, allVars
<1>9. ASSUME NEW t \in Task, StderrEnds(t)
      PROVE  NoneSpawns'
  BY <1>9 DEF Base, TypeOK, Stages, Stage, NoneSpawns, StderrEnds, Untouched, stopVars,
     treeVars, mapVars, allVars
<1>10. ASSUME NEW t \in Task, ProcessWaited(t)
      PROVE  NoneSpawns'
  BY <1>10 DEF Base, TypeOK, Stages, Stage, NoneSpawns, ProcessWaited, Untouched, Alive,
     GeneratorEnds, Leave, stopVars, treeVars, mapVars, allVars, Unregistered, Acquire
<1>11. ASSUME NEW t \in Task, GeneratorCloses(t)
      PROVE  NoneSpawns'
  BY <1>11 DEF Base, TypeOK, Stages, Stage, NoneSpawns, GeneratorCloses, Untouched,
     GeneratorEnds, Leave, stopVars, treeVars, mapVars, allVars, Unregistered, Acquire
<1>12. ASSUME NEW t \in Task, StopReturns(t)
      PROVE  NoneSpawns'
  BY <1>12 DEF Base, TypeOK, Stages, Stage, NoneSpawns, StopReturns, Untouched, Alive,
     Unregistered, stopVars, treeVars, mapVars, allVars
<1>13. ASSUME NEW t \in Task, RemoveSession(t)
      PROVE  NoneSpawns'
  BY <1>13 DEF Base, TypeOK, Stages, Stage, NoneSpawns, RemoveSession, stopVars, mapVars,
     allVars, AwaitStop, EndTask, ForgetAlias, Alive, BeginStop, Release, Done
<1>14. ASSUME NEW t \in Task, SessionRemoved(t)
      PROVE  NoneSpawns'
  BY <1>14 DEF Base, TypeOK, Stages, Stage, NoneSpawns, SessionRemoved, stopVars, allVars,
     Release, Done, ForgetAlias, Alive, Unregistered
<1>15. ASSUME NEW t \in Task, t \in cancelReq, CancelInRemove(t)
      PROVE  NoneSpawns'
  BY <1>15 DEF Base, TypeOK, Stages, Stage, NoneSpawns, CancelInRemove, mapVars, allVars,
     Release, Done
<1>16. ASSUME NEW t \in Task, StopReply(t)
      PROVE  NoneSpawns'
  BY <1>16 DEF Base, TypeOK, Stages, Stage, NoneSpawns, StopReply, handlerVars, treeVars,
     mapVars, lockVars, allVars, Cancel
<1>17. CASE StopAllBegins
  BY <1>17 DEF Base, TypeOK, Stages, Stage, NoneSpawns, StopAllBegins, handlerVars, stopVars,
     treeVars, StopAllGoesOn, mapVars, Release, BeginStop, Alive
<1>18. CASE StopAllStopped
  BY <1>18 DEF Base, TypeOK, Stages, Stage, NoneSpawns, StopAllStopped, handlerVars, stopVars,
     treeVars, Alive, StopAllGoesOn, Unregistered, mapVars, Release, BeginStop
<1>19. ASSUME NEW t \in Task, NEW r \in Tree, NEW p \in Id \cup {None}, Start(t, r, p)
      PROVE  NoneSpawns'
  BY <1>19 DEF Base, TypeOK, Stages, Stage, NoneSpawns, Start, mapVars, allVars, Acquire, Tree
<1>20. CASE UNCHANGED <<gen, overlapped, cancelReq, stopper>>
  BY <1>20 DEF NoneSpawns
<1> QED
  <2>1. CASE LockSteps
    BY <2>1, <1>1, <1>13, <1>17, <1>20 DEF LockSteps, RegisterRealSessionId, stopVars,
       treeVars, allVars, Release, Register, mapVars, Alive, handlerVars
  <2>2. CASE Commands
    BY <2>2, <1>16, <1>19, <1>20, StopAllNoneSpawns DEF Commands, treeVars, allVars, mapVars,
       Acquire, handlerVars, lockVars
  <2>3. CASE Handlers
    BY <2>3, <1>2, <1>3, <1>4, <1>14, <1>15, <1>20 DEF Handlers, DeliverCancel, stopVars,
       treeVars, allVars, Release, mapVars, SessionInfo, Acquire, Untouched, Alive
  <2>4. CASE Generators
    BY <2>4, <1>5, <1>6, <1>7, <1>8, <1>9, <1>10, <1>11, <1>12, <1>20 DEF Generators, stopVars,
       treeVars, allVars, mapVars, Acquire, Untouched, Alive
  <2>5. CASE StopAllStopped
    BY <2>5, <1>18, <1>20 DEF stopVars, treeVars, Release, mapVars, Alive, handlerVars
  <2>6. CASE Processes
    BY <2>6, <1>20 DEF Processes, stopVars, treeVars, allVars, mapVars, Exits, Untouched,
       Alive, KilledInShield, KilledByHolder, handlerVars
  <2>7. CASE UNCHANGED vars
    BY <2>7, <1>20 DEF stopVars, treeVars, allVars, mapVars, handlerVars, vars, lockVars
  <2> QED BY <2>1, <2>2, <2>3, <2>4, <2>5, <2>6, <2>7 DEF Next

\* A stop() whose generator was cancelled once more goes on by itself.
Leftover(u) == u \in shielded /\ gen[u] # "stopping"
\* Its session is out of the maps, and nobody works alone in it.
OutOfMaps ==
  \A u \in Task : u \in shielded /\ (gen[u] # "stopping" \/ u \in cancelReq) /\ stopper = "idle" =>
    \A i \in Id : pending[i] # session[u] /\ sessions[i] # session[u]
Held == {"using", "registering", "leaving", "removing", "dropping"}
LeftAlone ==
  \A t, u \in Task :
    Leftover(u) /\ t # u /\ phase[t] \in Held /\ session[t] = session[u] => t \in overlapped

LEMMA GetOutOfMaps ==
  ASSUME Base, ByTree, OutOfMaps, NEW t \in Task, GetOrCreateSession(t)
  PROVE  OutOfMaps'
<1>1. session[t] = None /\ t \notin shielded
  BY DEF GetOrCreateSession, Base, Stages, Stage
<1>2. /\ \A u \in Task : u # t => gen'[u] = gen[u] /\ session'[u] = session[u]
      /\ UNCHANGED <<shielded, cancelReq, stopper, sessions>>
  BY DEF GetOrCreateSession, Base, TypeOK, allVars
<1>3. \A i \in Id : pending'[i] \in {pending[i], t} BY DEF GetOrCreateSession, Base, TypeOK
<1>4. \A u \in Task : u \in shielded => session[u] # t
  BY <1>1 DEF ByTree, SessionsOfTree, Base, Stages, Stage
<1> QED BY <1>1, <1>2, <1>3, <1>4 DEF OutOfMaps

\* The session of a stop() that goes on by itself stays out of the maps.
LEMMA OutOfMapsKept ==
  ASSUME Base, ByTree, OutOfMaps, [Next]_vars
  PROVE  OutOfMaps'
<1>1. ASSUME NEW t \in Task, RegisterRealSessionId(t)
      PROVE  OutOfMaps'
  BY <1>1 DEF Base, TypeOK, Stages, Stage, OutOfMaps, RegisterRealSessionId, stopVars, treeVars,
     allVars, Release, Register, mapVars
<1>2. ASSUME NEW t \in Task, RemoveSession(t)
      PROVE  OutOfMaps'
  BY <1>2 DEF Base, TypeOK, Stages, Stage, OutOfMaps, RemoveSession, stopVars, mapVars, allVars,
     AwaitStop, EndTask, ForgetAlias, Alive, BeginStop, Release, Done
<1>3. CASE StopAllBegins
  BY <1>3 DEF Base, TypeOK, Stages, Stage, OutOfMaps, StopAllBegins, handlerVars, stopVars,
     treeVars, StopAllGoesOn, mapVars, Release, BeginStop, Alive
<1>4. CASE StopAllStopped
  BY <1>4 DEF Base, TypeOK, Stages, Stage, OutOfMaps, StopAllStopped, handlerVars, stopVars,
     treeVars, Alive, StopAllGoesOn, Unregistered, mapVars, Release, BeginStop
<1>5. ASSUME NEW t \in Task, StopReply(t)
      PROVE  OutOfMaps'
  BY <1>5 DEF Base, TypeOK, Stages, Stage, OutOfMaps, StopReply, handlerVars, treeVars, mapVars,
     lockVars, allVars, Cancel
<1>6. CASE StopAll
  BY <1>6 DEF Base, TypeOK, Stages, Stage, OutOfMaps, StopAll, handlerVars, mapVars, Cancel,
     Acquire
<1>7. ASSUME NEW t \in Task, SessionRemoved(t)
      PROVE  OutOfMaps'
  BY <1>7 DEF Base, TypeOK, Stages, Stage, OutOfMaps, SessionRemoved, stopVars, allVars,
     Release, Done, ForgetAlias, Alive, Unregistered
<1>8. ASSUME NEW t \in Task, t \in cancelReq, CancelInRemove(t)
      PROVE  OutOfMaps'
  BY <1>8 DEF Base, TypeOK, Stages, Stage, OutOfMaps, CancelInRemove, mapVars, allVars, Release,
     Done
<1>9. ASSUME NEW t \in Task, HandlerFails(t)
      PROVE  OutOfMaps'
  BY <1>9 DEF Base, TypeOK, Stages, Stage, OutOfMaps, HandlerFails, Untouched, Leave, stopVars,
     treeVars, mapVars, allVars, Acquire
<1>10. ASSUME NEW t \in Task, t \in cancelReq, CancelInGenerator(t)
      PROVE  OutOfMaps'
  BY <1>10 DEF Base, TypeOK, Stages, Stage, OutOfMaps, CancelInGenerator, Untouched,
     GeneratorEnds, Leave, stopVars, treeVars, mapVars, allVars, Unregistered, Acquire
<1>11. ASSUME NEW t \in Task, t \in cancelReq, CancelAtLock(t)
      PROVE  OutOfMaps'
  BY <1>11 DEF Base, TypeOK, Stages, Stage, OutOfMaps, CancelAtLock, mapVars, allVars, Done
<1>12. ASSUME NEW t \in Task, TakeCliLock(t)
      PROVE  OutOfMaps'
  BY <1>12 DEF Base, TypeOK, Stages, Stage, OutOfMaps, TakeCliLock, Untouched, CliLockFree,
     stopVars, treeVars, mapVars, allVars
<1>13. ASSUME NEW t \in Task, Spawned(t)
      PROVE  OutOfMaps'
  BY <1>13 DEF Base, TypeOK, Stages, Stage, OutOfMaps, Spawned, Untouched, stopVars, treeVars,
     mapVars, allVars
<1>14. ASSUME NEW t \in Task, SpawnFails(t)
      PROVE  OutOfMaps'
  BY <1>14 DEF Base, TypeOK, Stages, Stage, OutOfMaps, SpawnFails, Untouched, GeneratorEnds,
     Leave, stopVars, treeVars, mapVars, allVars, Unregistered, Acquire
<1>15. ASSUME NEW t \in Task, StdoutEnds(t)
      PROVE  OutOfMaps'
  BY <1>15 DEF Base, TypeOK, Stages, Stage, OutOfMaps, StdoutEnds, Untouched, stopVars,
     treeVars, mapVars, allVars
<1>16. ASSUME NEW t \in Task, StderrEnds(t)
      PROVE  OutOfMaps'
  BY <1>16 DEF Base, TypeOK, Stages, Stage, OutOfMaps, StderrEnds, Untouched, stopVars,
     treeVars, mapVars, allVars
<1>17. ASSUME NEW t \in Task, ProcessWaited(t)
      PROVE  OutOfMaps'
  BY <1>17 DEF Base, TypeOK, Stages, Stage, OutOfMaps, ProcessWaited, Untouched, Alive,
     GeneratorEnds, Leave, stopVars, treeVars, mapVars, allVars, Unregistered, Acquire
<1>18. ASSUME NEW t \in Task, GeneratorCloses(t)
      PROVE  OutOfMaps'
  BY <1>18 DEF Base, TypeOK, Stages, Stage, OutOfMaps, GeneratorCloses, Untouched,
     GeneratorEnds, Leave, stopVars, treeVars, mapVars, allVars, Unregistered, Acquire
<1>19. ASSUME NEW t \in Task, StopReturns(t)
      PROVE  OutOfMaps'
  BY <1>19 DEF Base, TypeOK, Stages, Stage, OutOfMaps, StopReturns, Untouched, Alive,
     Unregistered, stopVars, treeVars, mapVars, allVars
<1>20. CASE UNCHANGED <<gen, session, shielded, cancelReq, stopper, pending, sessions>>
  BY <1>20 DEF OutOfMaps
<1> QED
  <2>1. CASE LockSteps
    BY <2>1, <1>1, <1>2, <1>3, <1>20, GetOutOfMaps DEF LockSteps, stopVars, treeVars, mapVars,
       allVars, Alive, handlerVars
  <2>2. CASE Commands
    BY <2>2, <1>5, <1>6, <1>20 DEF Commands, treeVars, mapVars, allVars, Acquire, handlerVars,
       Start, lockVars
  <2>3. CASE Handlers
    BY <2>3, <1>7, <1>8, <1>9, <1>10, <1>11, <1>20 DEF Handlers, DeliverCancel, SessionInfo,
       stopVars, treeVars, mapVars, allVars, Acquire, Untouched, Alive
  <2>4. CASE Generators
    BY <2>4, <1>12, <1>13, <1>14, <1>15, <1>16, <1>17, <1>18, <1>19, <1>20 DEF Generators,
       stopVars, treeVars, mapVars, allVars, Acquire, Untouched, Alive
  <2>5. CASE StopAllStopped
    BY <2>5, <1>4, <1>20 DEF stopVars, treeVars, mapVars, Alive, handlerVars
  <2>6. CASE Processes
    BY <2>6, <1>20 DEF Processes, stopVars, treeVars, mapVars, allVars, Exits, Untouched,
       Alive, KilledInShield, KilledByHolder, handlerVars
  <2>7. CASE UNCHANGED vars
    BY <2>7, <1>20 DEF stopVars, treeVars, mapVars, allVars, handlerVars, vars, lockVars
  <2> QED BY <2>1, <2>2, <2>3, <2>4, <2>5, <2>6, <2>7 DEF Next

LEMMA GetLeftAlone ==
  ASSUME Base, ByTree, Queue, OutOfMaps, LeftAlone, NEW t \in Task, GetOrCreateSession(t)
  PROVE  LeftAlone'
<1>1. session[t] = None /\ t \notin shielded
  BY DEF GetOrCreateSession, Base, Stages, Stage
<1>2. /\ \A u \in Task : u # t => gen'[u] = gen[u] /\ session'[u] = session[u] /\ phase'[u] = phase[u]
      /\ UNCHANGED <<shielded, overlapped>>
  BY DEF GetOrCreateSession, Base, TypeOK, stopVars
<1>3. session'[t] \in {t, Found(parent[t])} /\ (session'[t] # t => Found(parent[t]) # None)
  BY DEF GetOrCreateSession, Base, TypeOK
<1>4. ASSUME NEW u \in Task, Leftover(u), u # t, session'[t] = session[u] PROVE t \in overlapped
  <2>1. session[u] # None /\ session[u] # t /\ u \in shielded /\ gen[u] # "stopping"
    BY <1>1, <1>4 DEF ByTree, SessionsOfTree, Base, Stages, Stage, Leftover
  <2> DEFINE p == parent[t]
  <2>2. p # None /\ p \in Id /\ Lookup(p) \in Id /\ Found(p) = session[u]
    <3>1. Found(p) = session[u] /\ Found(p) # None BY <1>3, <1>4, <2>1
    <3>2. p # None /\ p \in Id BY <3>1 DEF Found, Base, TypeOK
    <3>3. Lookup(p) \in Id BY <3>2 DEF Lookup, Base, TypeOK
    <3> QED BY <3>1, <3>2, <3>3
  <2>3. session[u] \in {sessions[Lookup(p)], pending[Lookup(p)]} BY <2>2 DEF Found
  <2>4. stopper # "idle" BY <2>1, <2>2, <2>3 DEF OutOfMaps
  <2> QED BY <2>4, GetDuringStop
<1> QED BY <1>1, <1>2, <1>4 DEF LeftAlone, Leftover

\* Nobody works alone in the session of a stop() that goes on by itself.
LEMMA LeftAloneKept ==
  ASSUME Base, Beside, ByTree, Queue, OutOfMaps, LeftAlone, [Next]_vars
  PROVE  LeftAlone'
<1>1. ASSUME NEW t \in Task, RegisterRealSessionId(t)
      PROVE  LeftAlone'
  BY <1>1, ActorsDiffer DEF Base, TypeOK, Stages, Stage, LeftAlone, Leftover, Held, Working,
     RegisterRealSessionId, stopVars, treeVars, allVars, Release, Register, mapVars
<1>2. ASSUME NEW t \in Task, RemoveSession(t)
      PROVE  LeftAlone'
  BY <1>2, ActorsDiffer DEF Base, TypeOK, Stages, Stage, LeftAlone, Leftover, Held, Working,
     RemoveSession, stopVars, mapVars, allVars, AwaitStop, EndTask, ForgetAlias, Alive,
     BeginStop, Release, Done
<1>3. ASSUME NEW t \in Task, SessionInfo(t)
      PROVE  LeftAlone'
  BY <1>3, ActorsDiffer DEF Base, TypeOK, Stages, Stage, LeftAlone, Leftover, Held, Working,
     SessionInfo, stopVars, treeVars, mapVars, allVars, Acquire
<1>4. ASSUME NEW t \in Task, SessionRemoved(t)
      PROVE  LeftAlone'
  BY <1>4, ActorsDiffer DEF Base, TypeOK, Stages, Stage, LeftAlone, Leftover, Held, Working,
     SessionRemoved, stopVars, allVars, Release, Done, ForgetAlias, Alive, Unregistered
<1>5. ASSUME NEW t \in Task, t \in cancelReq, CancelInRemove(t)
      PROVE  LeftAlone'
  BY <1>5, ActorsDiffer DEF Base, TypeOK, Stages, Stage, LeftAlone, Leftover, Held, Working,
     CancelInRemove, mapVars, allVars, Release, Done
<1>6. ASSUME NEW t \in Task, HandlerFails(t)
      PROVE  LeftAlone'
  BY <1>6, ActorsDiffer DEF Base, TypeOK, Stages, Stage, LeftAlone, Leftover, Held, Working,
     HandlerFails, Untouched, Leave, stopVars, treeVars, mapVars, allVars, Acquire
<1>7. ASSUME NEW t \in Task, t \in cancelReq, CancelAtLock(t)
      PROVE  LeftAlone'
  BY <1>7, ActorsDiffer DEF Base, TypeOK, Stages, Stage, LeftAlone, Leftover, Held, Working,
     CancelAtLock, mapVars, allVars, Done
<1>8. ASSUME NEW t \in Task, TakeCliLock(t)
      PROVE  LeftAlone'
  BY <1>8, ActorsDiffer DEF Base, TypeOK, Stages, Stage, LeftAlone, Leftover, Held, Working,
     TakeCliLock, Untouched, CliLockFree, stopVars, treeVars, mapVars, allVars
<1>9. ASSUME NEW t \in Task, Spawned(t)
      PROVE  LeftAlone'
  BY <1>9, ActorsDiffer DEF Base, TypeOK, Stages, Stage, LeftAlone, Leftover, Held, Working,
     Spawned, Untouched, stopVars, treeVars, mapVars, allVars
<1>10. ASSUME NEW t \in Task, SpawnFails(t)
      PROVE  LeftAlone'
  BY <1>10, ActorsDiffer DEF Base, TypeOK, Stages, Stage, LeftAlone, Leftover, Held, Working,
     SpawnFails, Untouched, GeneratorEnds, Leave, stopVars, treeVars, mapVars, allVars,
     Unregistered, Acquire
<1>11. ASSUME NEW t \in Task, StdoutEnds(t)
      PROVE  LeftAlone'
  BY <1>11, ActorsDiffer DEF Base, TypeOK, Stages, Stage, LeftAlone, Leftover, Held, Working,
     StdoutEnds, Untouched, stopVars, treeVars, mapVars, allVars
<1>12. ASSUME NEW t \in Task, StderrEnds(t)
      PROVE  LeftAlone'
  BY <1>12, ActorsDiffer DEF Base, TypeOK, Stages, Stage, LeftAlone, Leftover, Held, Working,
     StderrEnds, Untouched, stopVars, treeVars, mapVars, allVars
<1>13. ASSUME NEW t \in Task, ProcessWaited(t)
      PROVE  LeftAlone'
  BY <1>13, ActorsDiffer DEF Base, TypeOK, Stages, Stage, LeftAlone, Leftover, Held, Working,
     ProcessWaited, Untouched, Alive, GeneratorEnds, Leave, stopVars, treeVars, mapVars,
     allVars, Unregistered, Acquire
<1>14. ASSUME NEW t \in Task, GeneratorCloses(t)
      PROVE  LeftAlone'
  BY <1>14, ActorsDiffer DEF Base, TypeOK, Stages, Stage, LeftAlone, Leftover, Held, Working,
     GeneratorCloses, Untouched, GeneratorEnds, Leave, stopVars, treeVars, mapVars, allVars,
     Unregistered, Acquire
<1>15. ASSUME NEW t \in Task, StopReturns(t)
      PROVE  LeftAlone'
  BY <1>15, ActorsDiffer DEF Base, TypeOK, Stages, Stage, LeftAlone, Leftover, Held, Working,
     StopReturns, Untouched, Alive, Unregistered, stopVars, treeVars, mapVars, allVars
<1>16. ASSUME NEW t \in Task, NEW r \in Tree, NEW p \in Id \cup {None}, Start(t, r, p)
      PROVE  LeftAlone'
  BY <1>16, ActorsDiffer DEF Base, TypeOK, Stages, Stage, LeftAlone, Leftover, Held, Working,
     Start, mapVars, allVars, Acquire, Tree
<1>17. ASSUME NEW t \in Task, t \in cancelReq, CancelInGenerator(t)
      PROVE  LeftAlone'
  BY <1>17, ActorsDiffer DEF Base, TypeOK, Stages, Stage, LeftAlone, Leftover, Held, Working,
     Beside, Over, ByTree, SessionsOfTree, CancelInGenerator, Untouched, GeneratorEnds, Leave,
     stopVars, treeVars, mapVars, allVars, Unregistered, Acquire
<1>18. CASE UNCHANGED <<phase, gen, session, shielded, overlapped>>
  BY <1>18 DEF LeftAlone, Leftover
<1> QED
  <2>1. CASE LockSteps
    BY <2>1, <1>1, <1>2, <1>18, GetLeftAlone DEF LockSteps, StopAllBegins, handlerVars,
       stopVars, treeVars, StopAllGoesOn, mapVars, Release, BeginStop, Alive, allVars
  <2>2. CASE Commands
    BY <2>2, <1>16, <1>18 DEF Commands, handlerVars, treeVars, mapVars, StopReply, lockVars,
       allVars, Cancel, StopAll, Acquire
  <2>3. CASE Handlers
    BY <2>3, <1>3, <1>4, <1>5, <1>6, <1>7, <1>17, <1>18 DEF Handlers, DeliverCancel, stopVars,
       treeVars, mapVars, Release, Alive, allVars, Acquire, Unregistered, Untouched
  <2>4. CASE Generators
    BY <2>4, <1>8, <1>9, <1>10, <1>11, <1>12, <1>13, <1>14, <1>15, <1>18 DEF Generators,
       stopVars, treeVars, mapVars, Alive, allVars, Acquire, Unregistered, Untouched
  <2>5. CASE StopAllStopped
    BY <2>5, <1>18 DEF handlerVars, stopVars, treeVars, StopAllGoesOn, mapVars, Release,
       BeginStop, Alive, StopAllStopped, Unregistered
  <2>6. CASE Processes
    BY <2>6, <1>18 DEF Processes, handlerVars, stopVars, treeVars, mapVars, Alive, allVars,
       Exits, Untouched, KilledInShield, KilledByHolder
  <2>7. CASE UNCHANGED vars
    BY <2>7, <1>18 DEF handlerVars, stopVars, treeVars, mapVars, lockVars, allVars, vars
  <2> QED BY <2>1, <2>2, <2>3, <2>4, <2>5, <2>6, <2>7 DEF Next

-----------------------------------------------------------------------------
(* The entries of the sessions in use                                      *)

Kept(t) == t \notin overlapped \cup cut
Holding == {"using", "registering", "leaving"}
MayRun(t) == Alive(t) \/ (gen[t] \in {"queued", "spawning"} /\ t \notin cancelReq)
Uses(t) == Kept(t) /\ phase[t] \in Holding /\ MayRun(t)

\* The session of a task is where remove_session will look for it.
HasEntry(t) ==
  IF temp[t] # None THEN pending[temp[t]] = session[t]
  ELSE \/ pending[captured[t]] = session[t]
       \/ pending[captured[t]] = None /\ sessions[captured[t]] = session[t]
EntryIsThere == \A t \in Task : Uses(t) => HasEntry(t)

\* A process lives only if it was started.
Lives == \A t \in Task : Alive(t)' => Alive(t) \/ Spawned(t)

LEMMA SpawnedLives ==
  ASSUME Base, NEW t \in Task, Spawned(t)
  PROVE  Lives
<1>1. \A u \in Task : Alive(u)' => Alive(u) \/ u = t BY DEF Spawned, Alive, Base, TypeOK
<1> QED BY <1>1 DEF Lives

LEMMA CancelledLives ==
  ASSUME Base, NEW t \in Task, CancelInGenerator(t)
  PROVE  Lives
<1>1. proc' = proc \/ proc' = [proc EXCEPT ![t] = IF @ = "running" THEN "signalled" ELSE @]
  BY DEF CancelInGenerator
<1>2. \A u \in Task : Alive(u)' => Alive(u) BY <1>1 DEF Alive, Base, TypeOK
<1> QED BY <1>2 DEF Lives

\* No step brings a process back.
LEMMA NoneRises ==
  ASSUME Base, [Next]_vars
  PROVE  Lives
<1>1. ASSUME NEW t \in Task, RemoveSession(t)
      PROVE  Lives
  BY <1>1, ActorsDiffer DEF Base, TypeOK, Lives, RemoveSession, stopVars, mapVars, allVars,
     AwaitStop, EndTask, ForgetAlias, Alive, BeginStop, Release, Done
<1>2. CASE StopAllBegins
  BY <1>2, ActorsDiffer DEF Base, TypeOK, Lives, StopAllBegins, handlerVars, stopVars, treeVars,
     StopAllGoesOn, mapVars, Release, BeginStop, Alive
<1>3. CASE StopAllStopped
  BY <1>3, ActorsDiffer DEF Base, TypeOK, Lives, StopAllStopped, handlerVars, stopVars,
     treeVars, Alive, StopAllGoesOn, Unregistered, mapVars, Release, BeginStop
<1>4. ASSUME NEW t \in Task, Exits(t)
      PROVE  Lives
  BY <1>4, ActorsDiffer DEF Base, TypeOK, Lives, Exits, Untouched, Alive, stopVars, treeVars,
     mapVars, allVars
<1>5. ASSUME NEW t \in Task, KilledInShield(t)
      PROVE  Lives
  BY <1>5, ActorsDiffer DEF Base, TypeOK, Lives, KilledInShield, Untouched, Alive, stopVars,
     treeVars, mapVars, allVars
<1>6. CASE KilledByHolder
  BY <1>6, ActorsDiffer DEF Base, TypeOK, Lives, KilledByHolder, handlerVars, stopVars,
     treeVars, mapVars, allVars, Alive
<1>7. CASE UNCHANGED <<proc>>
  BY <1>7 DEF Lives, Alive
<1> QED
  <2>1. CASE LockSteps
    BY <2>1, <1>1, <1>2, <1>7 DEF LockSteps, GetOrCreateSession, stopVars, treeVars, allVars,
       Release, Lookup, Found, RegisterRealSessionId, Register, mapVars, handlerVars, Done,
       ForgetAlias, Alive
  <2>2. CASE Commands
    BY <2>2, <1>7 DEF Commands, treeVars, allVars, mapVars, StopReply, handlerVars, lockVars,
       Cancel, StopAll, Acquire, Start
  <2>3. CASE Handlers
    BY <2>3, <1>7, CancelledLives DEF Handlers, DeliverCancel, stopVars, treeVars, allVars,
       Release, mapVars, Acquire, SessionInfo, SessionRemoved, Done, ForgetAlias, Alive,
       Unregistered, HandlerFails, Untouched, Leave, CancelAtLock, CancelInRemove,
       GeneratorEnds
  <2>4. CASE Generators
    BY <2>4, <1>7, SpawnedLives DEF Generators, stopVars, treeVars, allVars, mapVars, Acquire,
       Alive, Unregistered, Untouched, Leave, TakeCliLock, CliLockFree, SpawnFails,
       GeneratorEnds, StdoutEnds, StderrEnds, ProcessWaited, GeneratorCloses, StopReturns
  <2>5. CASE StopAllStopped
    BY <2>5, <1>3, <1>7 DEF stopVars, treeVars, Release, mapVars, handlerVars, Alive,
       Unregistered
  <2>6. CASE Processes
    BY <2>6, <1>4, <1>5, <1>6, <1>7 DEF Processes, stopVars, treeVars, allVars, mapVars,
       handlerVars, Alive, Untouched
  <2>7. CASE UNCHANGED vars
    BY <2>7, <1>7 DEF stopVars, treeVars, allVars, mapVars, handlerVars, lockVars, vars
  <2> QED BY <2>1, <2>2, <2>3, <2>4, <2>5, <2>6, <2>7 DEF Next

\* A session is in use from get_or_create_session on.
UsedBefore == \A t \in Task : Uses(t)' => Uses(t) \/ GetOrCreateSession(t)

LEMMA GetUsed ==
  ASSUME Base, NEW t \in Task, GetOrCreateSession(t)
  PROVE  UsedBefore
<1>1. \A u \in Task : u # t => phase'[u] = phase[u] /\ gen'[u] = gen[u]
  BY DEF GetOrCreateSession, Base, TypeOK
<1>2. UNCHANGED <<proc, cancelReq, overlapped, cut>> BY DEF GetOrCreateSession, stopVars
<1> QED BY <1>1, <1>2 DEF UsedBefore, Uses, Kept, MayRun, Alive

\* Nobody uses a session that it was not handed.
LEMMA UseIsHanded ==
  ASSUME Base, [Next]_vars
  PROVE  UsedBefore
<1>1. ASSUME NEW t \in Task, RegisterRealSessionId(t)
      PROVE  UsedBefore
  BY <1>1, ActorsDiffer DEF Base, TypeOK, Stages, Stage, UsedBefore, Uses, Kept, MayRun, Alive,
     Holding, RegisterRealSessionId, stopVars, treeVars, allVars, Release, Register, mapVars
<1>2. ASSUME NEW t \in Task, RemoveSession(t)
      PROVE  UsedBefore
  BY <1>2, ActorsDiffer DEF Base, TypeOK, Stages, Stage, UsedBefore, Uses, Kept, MayRun, Alive,
     Holding, RemoveSession, stopVars, mapVars, allVars, AwaitStop, EndTask, ForgetAlias,
     BeginStop, Release, Done
<1>3. CASE StopAllBegins
  BY <1>3, ActorsDiffer DEF Base, TypeOK, Stages, Stage, UsedBefore, Uses, Kept, MayRun, Alive,
     Holding, StopAllBegins, handlerVars, stopVars, treeVars, StopAllGoesOn, mapVars, Release,
     BeginStop
<1>4. ASSUME NEW t \in Task, StopReply(t)
      PROVE  UsedBefore
  BY <1>4, ActorsDiffer DEF Base, TypeOK, Stages, Stage, UsedBefore, Uses, Kept, MayRun, Alive,
     Holding, StopReply, handlerVars, treeVars, mapVars, lockVars, allVars, Cancel
<1>5. CASE StopAll
  BY <1>5, ActorsDiffer DEF Base, TypeOK, Stages, Stage, UsedBefore, Uses, Kept, MayRun, Alive,
     Holding, StopAll, handlerVars, mapVars, Cancel, Acquire
<1>6. ASSUME NEW t \in Task, SessionInfo(t)
      PROVE  UsedBefore
  BY <1>6, ActorsDiffer DEF Base, TypeOK, Stages, Stage, UsedBefore, Uses, Kept, MayRun, Alive,
     Holding, SessionInfo, stopVars, treeVars, mapVars, allVars, Acquire
<1>7. ASSUME NEW t \in Task, SessionRemoved(t)
      PROVE  UsedBefore
  BY <1>7, ActorsDiffer DEF Base, TypeOK, Stages, Stage, UsedBefore, Uses, Kept, MayRun, Alive,
     Holding, SessionRemoved, stopVars, allVars, Release, Done, ForgetAlias, Unregistered
<1>8. ASSUME NEW t \in Task, t \in cancelReq, CancelInRemove(t)
      PROVE  UsedBefore
  BY <1>8, ActorsDiffer DEF Base, TypeOK, Stages, Stage, UsedBefore, Uses, Kept, MayRun, Alive,
     Holding, CancelInRemove, mapVars, allVars, Release, Done
<1>9. ASSUME NEW t \in Task, HandlerFails(t)
      PROVE  UsedBefore
  BY <1>9, ActorsDiffer DEF Base, TypeOK, Stages, Stage, UsedBefore, Uses, Kept, MayRun, Alive,
     Holding, HandlerFails, Untouched, Leave, stopVars, treeVars, mapVars, allVars, Acquire
<1>10. ASSUME NEW t \in Task, t \in cancelReq, CancelInGenerator(t)
      PROVE  UsedBefore
  BY <1>10, ActorsDiffer DEF Base, TypeOK, Stages, Stage, UsedBefore, Uses, Kept, MayRun, Alive,
     Holding, CancelInGenerator, Untouched, GeneratorEnds, Leave, stopVars, treeVars, mapVars,
     allVars, Unregistered, Acquire
<1>11. ASSUME NEW t \in Task, t \in cancelReq, CancelAtLock(t)
      PROVE  UsedBefore
  BY <1>11, ActorsDiffer DEF Base, TypeOK, Stages, Stage, UsedBefore, Uses, Kept, MayRun, Alive,
     Holding, CancelAtLock, mapVars, allVars, Done
<1>12. ASSUME NEW t \in Task, TakeCliLock(t)
      PROVE  UsedBefore
  BY <1>12, ActorsDiffer DEF Base, TypeOK, Stages, Stage, UsedBefore, Uses, Kept, MayRun, Alive,
     Holding, TakeCliLock, Untouched, CliLockFree, stopVars, treeVars, mapVars, allVars
<1>13. ASSUME NEW t \in Task, Spawned(t)
      PROVE  UsedBefore
  BY <1>13, ActorsDiffer DEF Base, TypeOK, Stages, Stage, UsedBefore, Uses, Kept, MayRun, Alive,
     Holding, Spawned, Untouched, stopVars, treeVars, mapVars, allVars
<1>14. ASSUME NEW t \in Task, SpawnFails(t)
      PROVE  UsedBefore
  BY <1>14, ActorsDiffer DEF Base, TypeOK, Stages, Stage, UsedBefore, Uses, Kept, MayRun, Alive,
     Holding, SpawnFails, Untouched, GeneratorEnds, Leave, stopVars, treeVars, mapVars, allVars,
     Unregistered, Acquire
<1>15. ASSUME NEW t \in Task, StdoutEnds(t)
      PROVE  UsedBefore
  BY <1>15, ActorsDiffer DEF Base, TypeOK, Stages, Stage, UsedBefore, Uses, Kept, MayRun, Alive,
     Holding, StdoutEnds, Untouched, stopVars, treeVars, mapVars, allVars
<1>16. ASSUME NEW t \in Task, StderrEnds(t)
      PROVE  UsedBefore
  BY <1>16, ActorsDiffer DEF Base, TypeOK, Stages, Stage, UsedBefore, Uses, Kept, MayRun, Alive,
     Holding, StderrEnds, Untouched, stopVars, treeVars, mapVars, allVars
<1>17. ASSUME NEW t \in Task, ProcessWaited(t)
      PROVE  UsedBefore
  BY <1>17, ActorsDiffer DEF Base, TypeOK, Stages, Stage, UsedBefore, Uses, Kept, MayRun, Alive,
     Holding, ProcessWaited, Untouched, GeneratorEnds, Leave, stopVars, treeVars, mapVars,
     allVars, Unregistered, Acquire
<1>18. ASSUME NEW t \in Task, GeneratorCloses(t)
      PROVE  UsedBefore
  BY <1>18, ActorsDiffer DEF Base, TypeOK, Stages, Stage, UsedBefore, Uses, Kept, MayRun, Alive,
     Holding, GeneratorCloses, Untouched, GeneratorEnds, Leave, stopVars, treeVars, mapVars,
     allVars, Unregistered, Acquire
<1>19. ASSUME NEW t \in Task, StopReturns(t)
      PROVE  UsedBefore
  BY <1>19, ActorsDiffer DEF Base, TypeOK, Stages, Stage, UsedBefore, Uses, Kept, MayRun, Alive,
     Holding, StopReturns, Untouched, Unregistered, stopVars, treeVars, mapVars, allVars
<1>20. CASE StopAllStopped
  BY <1>20, ActorsDiffer DEF Base, TypeOK, Stages, Stage, UsedBefore, Uses, Kept, MayRun, Alive,
     Holding, StopAllStopped, handlerVars, stopVars, treeVars, StopAllGoesOn, Unregistered,
     mapVars, Release, BeginStop
<1>21. ASSUME NEW t \in Task, Exits(t)
      PROVE  UsedBefore
  BY <1>21, ActorsDiffer DEF Base, TypeOK, Stages, Stage, UsedBefore, Uses, Kept, MayRun, Alive,
     Holding, Exits, Untouched, stopVars, treeVars, mapVars, allVars
<1>22. ASSUME NEW t \in Task, KilledInShield(t)
      PROVE  UsedBefore
  BY <1>22, ActorsDiffer DEF Base, TypeOK, Stages, Stage, UsedBefore, Uses, Kept, MayRun, Alive,
     Holding, KilledInShield, Untouched, stopVars, treeVars, mapVars, allVars
<1>23. CASE KilledByHolder
  BY <1>23, ActorsDiffer DEF Base, TypeOK, Stages, Stage, UsedBefore, Uses, Kept, MayRun, Alive,
     Holding, KilledByHolder, handlerVars, stopVars, treeVars, mapVars, allVars
<1>24. ASSUME NEW t \in Task, NEW r \in Tree, NEW p \in Id \cup {None}, Start(t, r, p)
      PROVE  UsedBefore
  BY <1>24, ActorsDiffer DEF Base, TypeOK, Stages, Stage, UsedBefore, Uses, Kept, MayRun, Alive,
     Holding, Start, mapVars, allVars, Acquire, Tree
<1>25. CASE UNCHANGED <<phase, gen, cancelReq, overlapped, cut, proc>>
  BY <1>25 DEF UsedBefore, Uses, Kept, MayRun, Alive
<1> QED
  <2>1. CASE LockSteps
    BY <2>1, <1>1, <1>2, <1>3, <1>25, GetUsed DEF LockSteps, handlerVars, stopVars, treeVars,
       mapVars, allVars
  <2>2. CASE Commands
    BY <2>2, <1>4, <1>5, <1>24, <1>25 DEF Commands, handlerVars, treeVars, mapVars, lockVars,
       allVars
  <2>3. CASE Handlers
    BY <2>3, <1>6, <1>7, <1>8, <1>9, <1>10, <1>11, <1>25 DEF Handlers, DeliverCancel, stopVars,
       treeVars, mapVars, allVars, Untouched
  <2>4. CASE Generators
    BY <2>4, <1>12, <1>13, <1>14, <1>15, <1>16, <1>17, <1>18, <1>19, <1>25 DEF Generators,
       stopVars, treeVars, mapVars, allVars, Untouched
  <2>5. CASE StopAllStopped
    BY <2>5, <1>20, <1>25 DEF handlerVars, stopVars, treeVars, mapVars
  <2>6. CASE Processes
    BY <2>6, <1>21, <1>22, <1>23, <1>25 DEF Processes, handlerVars, stopVars, treeVars,
       mapVars, allVars, Untouched
  <2>7. CASE UNCHANGED vars
    BY <2>7, <1>25 DEF vars, handlerVars, stopVars, treeVars, mapVars, lockVars, allVars
  <2> QED BY <2>1, <2>2, <2>3, <2>4, <2>5, <2>6, <2>7 DEF Next

\* Another task's ids are of another tree.
LEMMA OtherIds ==
  ASSUME Base, Beside, ByTree, NEW t \in Task, NEW u \in Task, t # u, ~Over(t), Uses(u)
  PROVE  \A i : In(i, tree[t], tree) =>
           (temp[u] # None => temp[u] # i) /\ (captured[u] # None => captured[u] # i)
<1>1. ~Over(u) /\ u \notin overlapped BY DEF Uses, Kept, Holding, Over
<1>2. tree[t] # tree[u] BY <1>1 DEF Beside
<1> QED BY <1>2, OneTree DEF ByTree, IdsOfTree

LEMMA EntryStays ==
  ASSUME NEW u \in Task, HasEntry(u),
         temp'[u] = temp[u], captured'[u] = captured[u], session'[u] = session[u],
         temp[u] # None => pending'[temp[u]] = pending[temp[u]],
         temp[u] = None => /\ pending'[captured[u]] = pending[captured[u]]
                           /\ sessions'[captured[u]] = sessions[captured[u]]
  PROVE  HasEntry(u)'
BY DEF HasEntry

\* A session in use has an id.
LEMMA IdInUse ==
  ASSUME Base, NEW u \in Task, Uses(u)
  PROVE  /\ temp[u] # None => temp[u] \in Id /\ captured[u] = None
         /\ temp[u] = None => captured[u] \in Id
         /\ session[u] \in Task
<1>1. phase[u] \in Holding BY DEF Uses
<1>2. gen[u] # "none" BY <1>1 DEF Base, Stages, Stage, Holding, Working
<1> QED BY <1>2 DEF Base, TypeOK, Stages, Stage

LEMMA GetEntry ==
  ASSUME Base, Beside, ByTree, Fresh, EntryIsThere, NEW t \in Task, GetOrCreateSession(t)
  PROVE  EntryIsThere'
<1> DEFINE p == parent[t]
           id == IF p = None THEN Temp(t) ELSE p
<1>1. p \in Id \cup {None} /\ id \in Id BY IdsAreIds DEF Base, TypeOK
<1>2. captured[t] = None /\ temp[t] = None /\ ~Over(t)
  BY DEF Base, Stages, Stage, GetOrCreateSession, Over
<1>3. UNCHANGED sessions BY DEF GetOrCreateSession
<1>4. ASSUME NEW u \in Task, Uses(u)', u # t
      PROVE  /\ Uses(u) /\ HasEntry(u)
             /\ temp'[u] = temp[u] /\ captured'[u] = captured[u] /\ session'[u] = session[u]
  <2>1. UsedBefore BY GetUsed
  <2>2. HasLock(t) /\ (GetOrCreateSession(u) => HasLock(u)) BY DEF GetOrCreateSession
  <2>3. ~GetOrCreateSession(u) BY <1>4, <2>2 DEF HasLock
  <2>4. Uses(u) BY <1>4, <2>1, <2>3 DEF UsedBefore
  <2>5. temp'[u] = temp[u] /\ captured'[u] = captured[u] /\ session'[u] = session[u]
    BY <1>4 DEF GetOrCreateSession, Base, TypeOK
  <2> QED BY <2>4, <2>5 DEF EntryIsThere
<1>5. CASE /\ Found(p) # None
           /\ session' = [session EXCEPT ![t] = Found(p)]
           /\ captured' = [captured EXCEPT ![t] = Lookup(p)]
           /\ UNCHANGED <<temp, pending>>
  <2>1. ASSUME NEW u \in Task, Uses(u)', u # t PROVE HasEntry(u)'
    BY <1>3, <1>4, <1>5, <2>1, EntryStays
  <2>2. Lookup(p) \in Id /\ p # None BY <1>1, <1>5 DEF Found, Lookup, Base, TypeOK
  <2>3. /\ session'[t] = Found(p) /\ captured'[t] = Lookup(p) /\ temp'[t] = None
        /\ pending' = pending /\ sessions' = sessions
    BY <1>2, <1>3, <1>5 DEF Base, TypeOK
  <2>4. \/ Found(p) = pending[Lookup(p)]
        \/ Found(p) = sessions[Lookup(p)] /\ pending[Lookup(p)] = None
    BY <1>5, <2>2 DEF Found, Fresh, NotBoth
  <2>5. HasEntry(t)'
    <3> HIDE DEF p, id
    <3> QED BY <2>3, <2>4 DEF HasEntry
  <2> QED BY <2>1, <2>5 DEF EntryIsThere
<1>6. CASE /\ session' = [session EXCEPT ![t] = t]
           /\ pending' = [pending EXCEPT ![id] = t]
           /\ temp' = [temp EXCEPT ![t] = id]
           /\ UNCHANGED captured
  <2>1. In(id, tree[t], tree) BY OwnIds DEF ByTree, IdsOfTree
  <2> HIDE DEF p, id
  <2>2. \A i \in Id : pending'[i] = IF i = id THEN t ELSE pending[i] BY <1>1, <1>6 DEF Base, TypeOK
  <2>3. ASSUME NEW u \in Task, Uses(u)', u # t PROVE HasEntry(u)'
    <3>1. (temp[u] # None => temp[u] # id) /\ (captured[u] # None => captured[u] # id)
      BY <1>2, <1>4, <2>1, <2>3, OtherIds
    <3>2. (temp[u] # None => temp[u] \in Id) /\ (temp[u] = None => captured[u] \in Id)
      BY <1>4, <2>3, IdInUse
    <3> QED BY <1>3, <1>4, <2>2, <2>3, <3>1, <3>2, EntryStays, NoneIsNoId
  <2>4. HasEntry(t)'
    <3>1. temp'[t] = id /\ session'[t] = t /\ pending'[id] = t /\ id # None
      BY <1>1, <1>6, <2>2, NoneIsNoId DEF Base, TypeOK
    <3> QED BY <3>1 DEF HasEntry
  <2> QED BY <2>3, <2>4 DEF EntryIsThere
<1> QED BY <1>5, <1>6 DEF GetOrCreateSession

LEMMA RegisterEntry ==
  ASSUME Base, Beside, ByTree, Fresh, EntryIsThere, NEW t \in Task, RegisterRealSessionId(t)
  PROVE  EntryIsThere'
<1>1. phase[t] = "registering" /\ ~Over(t) BY DEF RegisterRealSessionId, Over
<1>2. /\ temp[t] \in Id /\ temp[t] # Real(t) /\ pending[Real(t)] = None /\ tempToReal[Real(t)] = None
  BY <1>1, TempIsFresh
<1>3. /\ \A u \in Task : /\ captured'[u] = IF u = t THEN Real(t) ELSE captured[u]
                         /\ temp'[u] = IF u = t THEN None ELSE temp[u]
      /\ session' = session
  BY DEF RegisterRealSessionId, Base, TypeOK
<1>4. In(temp[t], tree[t], tree) /\ In(Real(t), tree[t], tree)
  BY <1>2, OwnIds, NoneIsNoId DEF ByTree, IdsOfTree
<1>5. \A i \in Id : /\ i # temp[t] => pending'[i] = pending[i]
                    /\ i # Real(t) => sessions'[i] = sessions[i]
  BY DEF RegisterRealSessionId, Register, mapVars, Base, TypeOK
<1>6. ASSUME NEW u \in Task, Uses(u)' PROVE HasEntry(u)'
  <2>1. Uses(u) /\ HasEntry(u) /\ (u = t => phase[u] = "registering")
    <3>1. UsedBefore BY UseIsHanded DEF Next, LockSteps
    <3>2. ~GetOrCreateSession(u)
      <4>1. HasLock(t) /\ (GetOrCreateSession(u) => HasLock(u) /\ phase[u] = "getting")
        BY DEF RegisterRealSessionId, GetOrCreateSession
      <4> QED BY <1>1, <4>1 DEF HasLock
    <3> QED BY <1>1, <1>6, <3>1, <3>2 DEF UsedBefore, EntryIsThere
  <2>2. CASE u # t
    <3>1. /\ temp[u] # None => temp[u] # temp[t] /\ temp[u] # Real(t)
          /\ captured[u] # None => captured[u] # temp[t] /\ captured[u] # Real(t)
      BY <1>1, <1>4, <2>1, <2>2, OtherIds
    <3>2. (temp[u] # None => temp[u] \in Id) /\ (temp[u] = None => captured[u] \in Id)
      BY <2>1, IdInUse
    <3> QED BY <1>3, <1>5, <2>1, <2>2, <3>1, <3>2, EntryStays, NoneIsNoId
  <2>3. CASE u = t
    <3>1. pending[temp[t]] = session[t] /\ session[t] \in Task
      BY <1>2, <2>1, <2>3, NoneIsNoId, IdInUse DEF HasEntry
    <3>2. pending[temp[t]] # None BY <3>1, ActorsDiffer
    <3>3. sessions' = [sessions EXCEPT ![Real(t)] = pending[temp[t]]]
      BY <3>2 DEF RegisterRealSessionId, Register
    <3>4. sessions'[Real(t)] = session[t] BY <3>1, <3>3, IdsAreIds DEF Base, TypeOK
    <3>5. pending'[Real(t)] = None BY <1>2, <1>5, IdsAreIds
    <3> QED BY <1>3, <2>3, <3>4, <3>5 DEF HasEntry
  <2> QED BY <2>2, <2>3
<1> QED BY <1>6 DEF EntryIsThere

LEMMA RemovedIdIs ==
  ASSUME Base, ByTree, NEW t \in Task, phase[t] \in {"leaving", "removing", "dropping"}
  PROVE  /\ RemovedId(t) \in Id /\ In(RemovedId(t), tree[t], tree)
         /\ RemovedId(t) = IF temp[t] # None THEN temp[t] ELSE captured[t]
<1>1. Stage(t) BY DEF Base, Stages
<1>2. gen[t] # "none" BY <1>1 DEF Stage
<1>3. temp[t] = None <=> captured[t] # None BY <1>1, <1>2 DEF Stage
<1>4. temp[t] \in Id \cup {None} /\ captured[t] \in Id \cup {None} BY DEF Base, TypeOK
<1> QED BY <1>3, <1>4 DEF RemovedId, ByTree, IdsOfTree

LEMMA RemoveEntry ==
  ASSUME Base, Beside, ByTree, EntryIsThere, NEW t \in Task, RemoveSession(t)
  PROVE  EntryIsThere'
<1>1. phase[t] = "leaving" /\ ~Over(t) BY DEF RemoveSession, Over
<1>2. RemovedId(t) \in Id /\ In(RemovedId(t), tree[t], tree) BY <1>1, RemovedIdIs
<1>3. \A i \in Id : i # RemovedId(t) => pending'[i] = pending[i] /\ sessions'[i] = sessions[i]
  BY DEF RemoveSession, mapVars, Base, TypeOK
<1>4. UNCHANGED <<temp, captured, session>> BY DEF RemoveSession
<1>5. phase'[t] \notin Holding
  BY DEF RemoveSession, AwaitStop, EndTask, Done, Holding, Base, TypeOK
<1>6. ASSUME NEW u \in Task, Uses(u)' PROVE HasEntry(u)'
  <2>1. u # t BY <1>5, <1>6 DEF Uses
  <2>2. Uses(u) /\ HasEntry(u)
    <3>1. UsedBefore BY UseIsHanded DEF Next, LockSteps
    <3>2. HasLock(t) /\ (GetOrCreateSession(u) => HasLock(u)) BY DEF RemoveSession, GetOrCreateSession
    <3> QED BY <1>6, <2>1, <3>1, <3>2 DEF UsedBefore, EntryIsThere, HasLock
  <2>3. /\ temp[u] # None => temp[u] # RemovedId(t)
        /\ captured[u] # None => captured[u] # RemovedId(t)
    BY <1>1, <1>2, <2>1, <2>2, OtherIds
  <2>4. (temp[u] # None => temp[u] \in Id) /\ (temp[u] = None => captured[u] \in Id)
    BY <2>2, IdInUse
  <2> QED BY <1>3, <1>4, <2>2, <2>3, <2>4, EntryStays, NoneIsNoId
<1> QED BY <1>6 DEF EntryIsThere

-----------------------------------------------------------------------------
(* What a "/stop" of everything still has to stop                          *)

StillToStop == \A t \in Task : stopper = "stopping" /\ Uses(t) => session[t] \in toStop
\* The process that is waited for is the one of the session.
VictimOfStop ==
  stopper = "stopping" => process[victimOf] = victim \/ process[victimOf] \in overlapped

\* While a "/stop" is at work, the sessions in use run the processes of their tasks.
LEMMA UsersRun ==
  ASSUME Base, NoneSpawns, OwnsAlone, EntryIsThere, stopper # "idle", NEW t \in Task, Uses(t)
  PROVE  /\ Alive(t) /\ process[session[t]] = t
         /\ session[t] \in ({pending[i] : i \in Id} \cup {sessions[i] : i \in Id}) \ {None}
<1>1. t \notin overlapped /\ phase[t] \in Holding BY DEF Uses, Kept
<1>2. Alive(t) BY <1>1 DEF Uses, MayRun, NoneSpawns
<1>3. Alone(t) /\ proc[t] # "none" BY <1>1, <1>2 DEF Alone, Over, Holding, Alive
<1>4. process[session[t]] = t BY <1>3 DEF OwnsAlone
<1>5. HasEntry(t) /\ session[t] \in Task BY IdInUse DEF EntryIsThere
<1>6. \E i \in Id : session[t] \in {pending[i], sessions[i]} BY <1>5, IdInUse DEF HasEntry
<1> QED BY <1>2, <1>4, <1>5, <1>6, ActorsDiffer

\* stop_all goes past idle sessions only.
LEMMA GoesOnKeeps ==
  ASSUME Base, NEW S, StopAllGoesOn(S),
         \A t \in Task : Uses(t) => Alive(t) /\ process[session[t]] = t /\ session[t] \in S
  PROVE  \/ /\ UNCHANGED mapVars /\ stopper' = "stopping"
            /\ \A t \in Task : Uses(t) => session[t] \in toStop'
         \/ stopper' = "idle" /\ \A t \in Task : ~Uses(t)
<1>1. CASE /\ UNCHANGED mapVars /\ stopper' = "stopping"
           /\ \E passed \in SUBSET {s \in S : ~Alive(process[s])} : toStop' = S \ passed
  BY <1>1
<1>2. CASE stopper' = "idle" /\ S = {s \in S : ~Alive(process[s])}
  BY <1>2
<1> QED BY <1>1, <1>2 DEF StopAllGoesOn

LEMMA StopAllKeeps ==
  ASSUME Base, NoneSpawns, OwnsAlone, EntryIsThere, StillToStop, VictimOfStop,
         StopAllBegins \/ StopAllStopped
  PROVE  \/ /\ UNCHANGED mapVars /\ stopper' = "stopping"
            /\ \A t \in Task : Uses(t) => session[t] \in toStop'
         \/ stopper' = "idle" /\ \A t \in Task : ~Uses(t)
<1>1. \A t \in Task : Uses(t) =>
        /\ Alive(t) /\ process[session[t]] = t
        /\ session[t] \in ({pending[i] : i \in Id} \cup {sessions[i] : i \in Id}) \ {None}
  BY UsersRun DEF StopAllBegins, StopAllStopped
<1>2. CASE StopAllBegins
  <2> DEFINE S == ({pending[i] : i \in Id} \cup {sessions[i] : i \in Id}) \ {None}
  <2>1. StopAllGoesOn(S) BY <1>2 DEF StopAllBegins
  <2>2. \A t \in Task : Uses(t) => Alive(t) /\ process[session[t]] = t /\ session[t] \in S BY <1>1
  <2> HIDE DEF S
  <2> QED BY <2>1, <2>2, GoesOnKeeps
<1>3. CASE StopAllStopped
  <2> DEFINE S == toStop \ {victimOf}
  <2>1. StopAllGoesOn(S) /\ stopper = "stopping" /\ ~Alive(victim) BY <1>3 DEF StopAllStopped
  <2>2. ASSUME NEW t \in Task, Uses(t) PROVE Alive(t) /\ process[session[t]] = t /\ session[t] \in S
    <3>1. Alive(t) /\ process[session[t]] = t BY <1>1, <2>2
    <3>2. t \notin overlapped BY <2>2 DEF Uses, Kept
    <3>3. session[t] # victimOf BY <2>1, <3>1, <3>2 DEF VictimOfStop
    <3> QED BY <2>1, <2>2, <3>1, <3>3 DEF StillToStop
  <2> HIDE DEF S
  <2> QED BY <2>1, <2>2, GoesOnKeeps
<1> QED BY <1>2, <1>3

LEMMA NoGetBeside ==
  ASSUME Base, NEW t \in Task, GetOrCreateSession(t)
  PROVE  stopper # "stopping" /\ ~StopAllBegins /\ ~StopAllStopped
<1>1. HasLock(t) /\ t # Stopper BY ActorsDiffer DEF GetOrCreateSession
<1>2. stopper # "stopping" BY <1>1, HeadIsFirst DEF Base, Holder
<1> QED BY <1>1, <1>2 DEF StopAllBegins, StopAllStopped, HasLock

LEMMA StopAllEntry ==
  ASSUME Base, NoneSpawns, OwnsAlone, EntryIsThere, StillToStop, VictimOfStop,
         StopAllBegins \/ StopAllStopped
  PROVE  EntryIsThere'
<1>1. UsedBefore BY UseIsHanded DEF Next, LockSteps
<1>2. \A t \in Task : Uses(t)' => Uses(t) BY <1>1, NoGetBeside DEF UsedBefore
<1>3. UNCHANGED <<temp, captured, session>> BY DEF StopAllBegins, StopAllStopped, handlerVars
<1>4. UNCHANGED mapVars \/ \A t \in Task : ~Uses(t) BY StopAllKeeps
<1>5. CASE UNCHANGED mapVars BY <1>2, <1>3, <1>5 DEF mapVars, EntryIsThere, HasEntry
<1> QED BY <1>2, <1>4, <1>5 DEF EntryIsThere

\* Every session in use stays where remove_session will look for it.
LEMMA EntryKept ==
  ASSUME Base, Beside, ByTree, Fresh, NoneSpawns, OwnsAlone, StillToStop, VictimOfStop,
    EntryIsThere, [Next]_vars
  PROVE  EntryIsThere'
<1>1. CASE UNCHANGED <<temp, captured, session, pending, sessions>>
  BY <1>1, UseIsHanded, GetEntry DEF UsedBefore, EntryIsThere, HasEntry
<1> QED
  <2>1. CASE LockSteps
    BY <2>1, <1>1, GetEntry, RegisterEntry, RemoveEntry, StopAllEntry DEF LockSteps,
       handlerVars, treeVars, mapVars, allVars, stopVars, Release, Done, ForgetAlias, Alive
  <2>2. CASE Commands
    BY <2>2, <1>1 DEF Commands, StopReply, handlerVars, treeVars, mapVars, lockVars, allVars,
       Cancel, StopAll, Acquire, Start
  <2>3. CASE Handlers
    BY <2>3, <1>1 DEF Handlers, DeliverCancel, treeVars, mapVars, allVars, Acquire,
       SessionInfo, stopVars, SessionRemoved, Release, Done, ForgetAlias, Alive, Unregistered,
       HandlerFails, Untouched, Leave, CancelInGenerator, GeneratorEnds, CancelAtLock,
       CancelInRemove
  <2>4. CASE Generators
    BY <2>4, <1>1 DEF Generators, treeVars, mapVars, allVars, Acquire, stopVars, Alive,
       Unregistered, Untouched, Leave, GeneratorEnds, TakeCliLock, CliLockFree, Spawned,
       SpawnFails, StdoutEnds, StderrEnds, ProcessWaited, GeneratorCloses, StopReturns
  <2>5. CASE StopAllStopped
    BY <2>5, <1>1, StopAllEntry DEF handlerVars, treeVars, mapVars, stopVars, Release, Alive,
       Unregistered
  <2>6. CASE Processes
    BY <2>6, <1>1 DEF Processes, handlerVars, treeVars, mapVars, allVars, stopVars, Alive,
       Untouched, Exits, KilledInShield, KilledByHolder
  <2>7. CASE UNCHANGED vars
    BY <2>7, <1>1 DEF handlerVars, treeVars, mapVars, lockVars, allVars, stopVars, vars
  <2> QED BY <2>1, <2>2, <2>3, <2>4, <2>5, <2>6, <2>7 DEF Next

LEMMA StopAllStillStops ==
  ASSUME Base, NoneSpawns, OwnsAlone, EntryIsThere, StillToStop, VictimOfStop,
         StopAllBegins \/ StopAllStopped
  PROVE  StillToStop'
<1>1. UsedBefore BY UseIsHanded DEF Next, LockSteps
<1>2. \A t \in Task : Uses(t)' => Uses(t) BY <1>1, NoGetBeside DEF UsedBefore
<1>3. UNCHANGED session BY DEF StopAllBegins, StopAllStopped
<1> QED BY <1>2, <1>3, StopAllKeeps DEF StillToStop

LEMMA OthersStillStop ==
  ASSUME Base, StillToStop, [Next]_vars, stopper' = "stopping" => stopper = "stopping",
         UNCHANGED toStop, stopper = "stopping" => UNCHANGED session
  PROVE  StillToStop'
<1>1. UsedBefore BY UseIsHanded
<1> QED BY <1>1, NoGetBeside DEF UsedBefore, StillToStop

\* stop_all stops every session in use.
LEMMA StillToStopKept ==
  ASSUME Base, NoneSpawns, OwnsAlone, EntryIsThere, StillToStop, VictimOfStop, [Next]_vars
  PROVE  StillToStop'
<1>1. CASE StopAll
  BY <1>1, OthersStillStop DEF StopAll, handlerVars, mapVars, Cancel, Acquire
<1>2. ASSUME NEW t \in Task, GetOrCreateSession(t)
      PROVE  StillToStop'
  BY <1>2, OthersStillStop, NoGetBeside DEF GetOrCreateSession, stopVars, treeVars, allVars,
     Release, Lookup, Found
<1>3. CASE UNCHANGED <<stopper, toStop, session>>
  BY <1>3, OthersStillStop
<1> QED
  <2>1. CASE LockSteps
    BY <2>1, <1>2, <1>3, StopAllStillStops DEF LockSteps, RegisterRealSessionId, stopVars,
       treeVars, allVars, Release, Register, mapVars, RemoveSession, AwaitStop, EndTask,
       ForgetAlias, Alive, BeginStop, Done, handlerVars
  <2>2. CASE Commands
    BY <2>2, <1>1, <1>3 DEF Commands, treeVars, allVars, mapVars, StopReply, handlerVars,
       lockVars, Cancel, Acquire, Start
  <2>3. CASE Handlers
    BY <2>3, <1>3 DEF Handlers, DeliverCancel, stopVars, treeVars, allVars, Release, mapVars,
       ForgetAlias, Alive, Done, SessionInfo, Acquire, SessionRemoved, Unregistered,
       HandlerFails, Untouched, Leave, CancelInGenerator, GeneratorEnds, CancelAtLock,
       CancelInRemove
  <2>4. CASE Generators
    BY <2>4, <1>3 DEF Generators, stopVars, treeVars, allVars, mapVars, Alive, Acquire,
       Unregistered, Untouched, Leave, GeneratorEnds, TakeCliLock, CliLockFree, Spawned,
       SpawnFails, StdoutEnds, StderrEnds, ProcessWaited, GeneratorCloses, StopReturns
  <2>5. CASE StopAllStopped
    BY <2>5, <1>3, StopAllStillStops DEF stopVars, treeVars, Release, mapVars, Alive,
       BeginStop, handlerVars, Unregistered
  <2>6. CASE Processes
    BY <2>6, <1>3 DEF Processes, stopVars, treeVars, allVars, mapVars, Alive, handlerVars,
       Untouched, Exits, KilledInShield, KilledByHolder
  <2>7. CASE UNCHANGED vars
    BY <2>7, <1>3 DEF stopVars, treeVars, allVars, mapVars, handlerVars, lockVars, vars
  <2> QED BY <2>1, <2>2, <2>3, <2>4, <2>5, <2>6, <2>7 DEF Next

\* stop_all waits for the process of its session.
LEMMA VictimOfStopKept ==
  ASSUME Base, NoneSpawns, VictimOfStop, [Next]_vars
  PROVE  VictimOfStop'
<1>1. ASSUME NEW t \in Task, RemoveSession(t)
      PROVE  VictimOfStop'
  BY <1>1, HeadIsFirst, ActorsDiffer DEF Base, Holder, VictimOfStop, RemoveSession, stopVars,
     mapVars, allVars, AwaitStop, EndTask, ForgetAlias, Alive, BeginStop, Release, Done
<1>2. ASSUME NEW t \in Task, SessionRemoved(t)
      PROVE  VictimOfStop'
  BY <1>2, ActorsDiffer DEF Base, Holder, VictimOfStop, SessionRemoved, stopVars, allVars,
     Release, Done, ForgetAlias, Alive, Unregistered
<1>3. ASSUME NEW t \in Task, t \in cancelReq, CancelInRemove(t)
      PROVE  VictimOfStop'
  BY <1>3, ActorsDiffer DEF Base, Holder, VictimOfStop, CancelInRemove, mapVars, allVars,
     Release, Done
<1>4. CASE StopAllBegins
  BY <1>4 DEF VictimOfStop, StopAllBegins, handlerVars, stopVars, treeVars, StopAllGoesOn,
     mapVars, Release, BeginStop, Alive
<1>5. CASE StopAllStopped
  BY <1>5 DEF VictimOfStop, StopAllStopped, handlerVars, stopVars, treeVars, Alive,
     StopAllGoesOn, Unregistered, mapVars, Release, BeginStop
<1>6. CASE StopAll
  BY <1>6 DEF VictimOfStop, StopAll, handlerVars, mapVars, Cancel, Acquire
<1>7. CASE KilledByHolder
  BY <1>7 DEF VictimOfStop, KilledByHolder, handlerVars, stopVars, treeVars, mapVars, allVars,
     Alive
<1>8. ASSUME NEW t \in Task, NEW r \in Tree, NEW p \in Id \cup {None}, Start(t, r, p)
      PROVE  VictimOfStop'
  BY <1>8 DEF VictimOfStop, Start, mapVars, allVars, Acquire, Tree
<1>9. ASSUME NEW t \in Task, Spawned(t)
      PROVE  VictimOfStop'
  BY <1>9 DEF Base, TypeOK, NoneSpawns, VictimOfStop, Spawned, Untouched, stopVars, treeVars,
     mapVars, allVars
<1>10. CASE UNCHANGED <<stopper, process, victim, victimOf, overlapped>>
  BY <1>10 DEF VictimOfStop
<1> QED
  <2>1. CASE LockSteps
    BY <2>1, <1>1, <1>4, <1>10 DEF LockSteps, GetOrCreateSession, stopVars, treeVars, allVars,
       Release, Lookup, Found, RegisterRealSessionId, Register, mapVars, handlerVars, Done,
       Alive
  <2>2. CASE Commands
    BY <2>2, <1>6, <1>8, <1>10 DEF Commands, treeVars, allVars, mapVars, StopReply,
       handlerVars, lockVars, Cancel, Acquire
  <2>3. CASE Handlers
    BY <2>3, <1>2, <1>3, <1>10 DEF Handlers, DeliverCancel, stopVars, treeVars, allVars,
       Release, mapVars, SessionInfo, Acquire, HandlerFails, Untouched, Leave,
       CancelInGenerator, GeneratorEnds, Unregistered, CancelAtLock, Done, Alive
  <2>4. CASE Generators
    BY <2>4, <1>9, <1>10 DEF Generators, stopVars, treeVars, allVars, mapVars, Acquire,
       Untouched, Leave, GeneratorEnds, Unregistered, TakeCliLock, CliLockFree, SpawnFails,
       StdoutEnds, StderrEnds, ProcessWaited, Alive, GeneratorCloses, StopReturns
  <2>5. CASE StopAllStopped
    BY <2>5, <1>5, <1>10 DEF stopVars, treeVars, Release, mapVars, handlerVars, Unregistered,
       Alive
  <2>6. CASE Processes
    BY <2>6, <1>7, <1>10 DEF Processes, stopVars, treeVars, allVars, mapVars, handlerVars,
       Untouched, Alive, Exits, KilledInShield
  <2>7. CASE UNCHANGED vars
    BY <2>7, <1>10 DEF stopVars, treeVars, allVars, mapVars, handlerVars, lockVars, vars
  <2> QED BY <2>1, <2>2, <2>3, <2>4, <2>5, <2>6, <2>7 DEF Next

-----------------------------------------------------------------------------
(* What remove_session waits for                                           *)

Stopping == {"removing", "dropping"}
VictimOfRemove ==
  \A t \in Task : Kept(t) /\ phase[t] \in Stopping /\ Alive(t) => victim = t /\ victimOf = session[t]
VictimInTree == \A t \in Task : phase[t] \in Stopping => tree[victimOf] = tree[t]

\* Removing is one task at a time, and no other moves who is waited for.
LEMMA OneRemoves ==
  ASSUME Base, NEW t \in Task, phase[t] \in Stopping
  PROVE  /\ \A u \in Task : phase[u] \in Stopping \/ HasLock(u) => u = t
         /\ ~HasLock(Stopper) /\ stopper # "stopping"
<1>1. lockQueue # <<>> /\ lockQueue[1] = t BY DEF Base, Holder, Stopping
<1>2. \A u \in Task : HasLock(u) => u = t BY <1>1, HeadIsFirst
<1>3. \A u \in Task : phase[u] \in Stopping => u = t BY <1>1 DEF Base, Holder, Stopping
<1> QED BY <1>1, <1>2, <1>3, HeadIsFirst, ActorsDiffer DEF Base, Holder

\* The session that remove_session takes out is the one in use.
LEMMA RemovesItsOwn ==
  ASSUME Base, ByTree, EntryIsThere, NEW t \in Task, RemoveSession(t), NEW s, NEW id, id = RemovedId(t),
         s = IF pending[id] # None THEN pending[id] ELSE sessions[id]
  PROVE  /\ Uses(t) => s = session[t]
         /\ s # None => s \in Task /\ tree[s] = tree[t]
<1>1. phase[t] = "leaving" BY DEF RemoveSession
<1>2. id \in Id /\ In(id, tree[t], tree) /\ id = IF temp[t] # None THEN temp[t] ELSE captured[t]
  BY <1>1, RemovedIdIs
<1>3. s # None => s \in Task /\ tree[s] = tree[t]
  <2>1. s # None => s \in Task /\ In(id, tree[s], tree)
    BY <1>2 DEF Base, TypeOK, ByTree, EntriesOfTree
  <2> QED BY <1>2, <2>1, OneTree
<1>4. ASSUME Uses(t) PROVE s = session[t]
  <2>1. HasEntry(t) /\ session[t] # None BY <1>4, IdInUse, ActorsDiffer DEF EntryIsThere
  <2> QED BY <1>2, <2>1 DEF HasEntry
<1> QED BY <1>3, <1>4

\* One way or the other, remove_session is about the session of the id.
LEMMA RemoveIs ==
  ASSUME Base, NEW t \in Task, RemoveSession(t)
  PROVE  LET id == RemovedId(t)
             s == IF pending[id] # None THEN pending[id] ELSE sessions[id]
         IN  \/ s # None /\ \E where \in Stopping : AwaitStop(t, s, where)
             \/ (s = None \/ ~Alive(process[s])) /\ EndTask(t)
BY DEF RemoveSession, Stopping

LEMMA RemoveVictim ==
  ASSUME Base, ByTree, OwnsAlone, EntryIsThere, VictimOfRemove, VictimInTree,
         NEW t \in Task, RemoveSession(t)
  PROVE  VictimOfRemove' /\ VictimInTree'
<1> DEFINE id == RemovedId(t)
           s == IF pending[id] # None THEN pending[id] ELSE sessions[id]
<1>1. /\ Uses(t) => s = session[t]
      /\ s # None => s \in Task /\ tree[s] = tree[t]
  BY RemovesItsOwn
<1>2. phase[t] = "leaving" /\ HasLock(t) BY DEF RemoveSession
<1>3. \A u \in Task : phase[u] \notin Stopping BY <1>2, OneRemoves DEF Stopping
<1>4. UNCHANGED <<tree, session, overlapped, cut, process>> BY DEF RemoveSession, stopVars
<1>5. \/ s # None /\ \E where \in Stopping : AwaitStop(t, s, where)
      \/ EndTask(t)
  BY RemoveIs
<1> HIDE DEF s, id
<1>6. CASE EndTask(t)
  <2>1. \A u \in Task : phase'[u] \notin Stopping
    BY <1>3, <1>6 DEF EndTask, Done, Stopping, Base, TypeOK
  <2> QED BY <2>1 DEF VictimOfRemove, VictimInTree
<1>7. ASSUME s # None, NEW where \in Stopping, AwaitStop(t, s, where)
      PROVE  VictimOfRemove' /\ VictimInTree'
  <2>1. /\ \A u \in Task : phase'[u] \in Stopping => u = t
        /\ victim' = process[s] /\ victimOf' = s
    BY <1>3, <1>7 DEF AwaitStop, BeginStop, Base, TypeOK
  <2>2. VictimInTree' BY <1>1, <1>4, <1>7, <2>1 DEF VictimInTree
  <2>3. ASSUME Kept(t)', Alive(t)' PROVE victim' = t /\ victimOf' = session'[t]
    <3>1. Lives BY NoneRises DEF Next, LockSteps
    <3>2. gen[t] # "spawning" BY <1>2 DEF Base, Stages, Stage
    <3>3. Alive(t) BY <2>3, <3>1, <3>2 DEF Lives, Spawned
    <3>4. Uses(t) BY <1>2, <1>4, <2>3, <3>3 DEF Uses, Kept, MayRun, Holding
    <3>5. Alone(t) /\ proc[t] # "none" BY <1>2, <3>3, <3>4 DEF Uses, Kept, Alone, Over, Alive
    <3> QED BY <1>1, <1>4, <2>1, <3>4, <3>5 DEF OwnsAlone
  <2> QED BY <2>1, <2>2, <2>3 DEF VictimOfRemove
<1> QED BY <1>5, <1>6, <1>7

\* While one removes a session, its process is waited for or is gone.
LEMMA KilledVictim ==
  ASSUME Base, OwnsAlone, VictimOfRemove, VictimInTree, KilledByHolder
  PROVE  VictimOfRemove' /\ VictimInTree'
<1>1. /\ UNCHANGED <<phase, session, overlapped, cut, tree, victimOf, process>>
      /\ proc' = [proc EXCEPT ![process[victimOf]] = "exited"]
  BY DEF KilledByHolder, handlerVars, stopVars
<1>2. ASSUME NEW t \in Task, Kept(t), phase[t] \in Stopping, Alive(t)' PROVE FALSE
  <2>1. Alive(t) BY <1>1, <1>2 DEF Alive, Base, TypeOK
  <2>2. Alone(t) /\ proc[t] # "none" BY <1>2, <2>1 DEF Kept, Alone, Over, Stopping, Alive
  <2>3. process[victimOf] = t BY <1>2, <2>1, <2>2 DEF VictimOfRemove, OwnsAlone
  <2> QED BY <1>1, <1>2, <2>3 DEF Alive, Base, TypeOK
<1> QED BY <1>1, <1>2 DEF VictimOfRemove, VictimInTree, Kept

\* Other steps leave alone whom a task waits for, if it still does.
StillWaits ==
  \A t \in Task : phase'[t] \in Stopping => /\ phase[t] \in Stopping
                                            /\ UNCHANGED <<victim, victimOf>> /\ session'[t] = session[t]

\* Who waits still waits for the same.
LEMMA WaitStays ==
  ASSUME Base, ~KilledByHolder, \A t \in Task : ~RemoveSession(t), [Next]_vars
  PROVE  StillWaits
<1>1. ASSUME NEW t \in Task, GetOrCreateSession(t)
      PROVE  StillWaits
  BY <1>1 DEF Base, TypeOK, StillWaits, Stopping, GetOrCreateSession, stopVars, treeVars,
     allVars, Release, Lookup, Found
<1>2. ASSUME NEW t \in Task, RegisterRealSessionId(t)
      PROVE  StillWaits
  BY <1>2 DEF Base, TypeOK, StillWaits, Stopping, RegisterRealSessionId, stopVars, treeVars,
     allVars, Release, Register, mapVars
<1>3. ASSUME NEW t \in Task, SessionInfo(t)
      PROVE  StillWaits
  BY <1>3 DEF Base, TypeOK, StillWaits, Stopping, SessionInfo, stopVars, treeVars, mapVars,
     allVars, Acquire
<1>4. ASSUME NEW t \in Task, HandlerFails(t)
      PROVE  StillWaits
  BY <1>4 DEF Base, TypeOK, StillWaits, Stopping, HandlerFails, Untouched, Leave, stopVars,
     treeVars, mapVars, allVars, Acquire
<1>5. ASSUME NEW t \in Task, t \in cancelReq, CancelInGenerator(t)
      PROVE  StillWaits
  BY <1>5 DEF Base, TypeOK, StillWaits, Stopping, CancelInGenerator, Untouched, GeneratorEnds,
     Leave, stopVars, treeVars, mapVars, allVars, Unregistered, Acquire
<1>6. ASSUME NEW t \in Task, t \in cancelReq, CancelAtLock(t)
      PROVE  StillWaits
  BY <1>6 DEF Base, TypeOK, StillWaits, Stopping, CancelAtLock, mapVars, allVars, Done
<1>7. ASSUME NEW t \in Task, SpawnFails(t)
      PROVE  StillWaits
  BY <1>7 DEF Base, TypeOK, StillWaits, Stopping, SpawnFails, Untouched, GeneratorEnds, Leave,
     stopVars, treeVars, mapVars, allVars, Unregistered, Acquire
<1>8. ASSUME NEW t \in Task, ProcessWaited(t)
      PROVE  StillWaits
  BY <1>8 DEF Base, TypeOK, StillWaits, Stopping, ProcessWaited, Untouched, Alive,
     GeneratorEnds, Leave, stopVars, treeVars, mapVars, allVars, Unregistered, Acquire
<1>9. ASSUME NEW t \in Task, GeneratorCloses(t)
      PROVE  StillWaits
  BY <1>9 DEF Base, TypeOK, StillWaits, Stopping, GeneratorCloses, Untouched, GeneratorEnds,
     Leave, stopVars, treeVars, mapVars, allVars, Unregistered, Acquire
<1>10. ASSUME NEW t \in Task, NEW r \in Tree, NEW p \in Id \cup {None}, Start(t, r, p)
      PROVE  StillWaits
  BY <1>10 DEF Base, TypeOK, StillWaits, Stopping, Start, mapVars, allVars, Acquire, Tree
<1>11. ASSUME NEW t \in Task, SessionRemoved(t)
      PROVE  StillWaits
  BY <1>11, OneRemoves DEF Base, TypeOK, StillWaits, Stopping, SessionRemoved, stopVars,
     allVars, Release, Done, ForgetAlias, Alive, Unregistered
<1>12. ASSUME NEW t \in Task, t \in cancelReq, CancelInRemove(t)
      PROVE  StillWaits
  BY <1>12, OneRemoves DEF Base, TypeOK, StillWaits, Stopping, CancelInRemove, mapVars, allVars,
     Release, Done
<1>13. CASE StopAllBegins
  BY <1>13, OneRemoves DEF StillWaits, StopAllBegins, handlerVars, stopVars, treeVars,
     StopAllGoesOn, mapVars, Release, BeginStop, Alive
<1>14. CASE StopAllStopped
  BY <1>14, OneRemoves DEF StillWaits, StopAllStopped, handlerVars, stopVars, treeVars, Alive,
     StopAllGoesOn, Unregistered, mapVars, Release, BeginStop
<1>15. CASE UNCHANGED <<phase, session, victim, victimOf>>
  BY <1>15 DEF StillWaits
<1> QED
  <2>1. CASE LockSteps
    BY <2>1, <1>1, <1>2, <1>13, <1>15 DEF LockSteps, handlerVars, treeVars, mapVars, allVars,
       stopVars, Alive
  <2>2. CASE Commands
    BY <2>2, <1>10, <1>15 DEF Commands, StopReply, handlerVars, treeVars, mapVars, lockVars,
       allVars, Cancel, StopAll, Acquire
  <2>3. CASE Handlers
    BY <2>3, <1>3, <1>4, <1>5, <1>6, <1>11, <1>12, <1>15 DEF Handlers, DeliverCancel, treeVars,
       mapVars, allVars, Acquire, Untouched, stopVars, Alive, Unregistered
  <2>4. CASE Generators
    BY <2>4, <1>7, <1>8, <1>9, <1>15 DEF Generators, treeVars, mapVars, allVars, Acquire,
       TakeCliLock, Untouched, CliLockFree, stopVars, Spawned, StdoutEnds, StderrEnds,
       StopReturns, Alive, Unregistered
  <2>5. CASE StopAllStopped
    BY <2>5, <1>14, <1>15 DEF handlerVars, treeVars, mapVars, stopVars, Alive, Unregistered
  <2>6. CASE Processes
    BY <2>6, <1>15 DEF Processes, handlerVars, treeVars, mapVars, allVars, Untouched, stopVars,
       Alive, Exits, KilledInShield
  <2>7. CASE UNCHANGED vars
    BY <2>7, <1>15 DEF handlerVars, treeVars, mapVars, lockVars, allVars, stopVars, vars
  <2> QED BY <2>1, <2>2, <2>3, <2>4, <2>5, <2>6, <2>7 DEF Next

\* Disturbed once is disturbed for good.
DisturbedStays == overlapped \subseteq overlapped' /\ cut \subseteq cut'

\* Nobody is taken back among the undisturbed.
LEMMA DisturbedOnly ==
  ASSUME Base, [Next]_vars
  PROVE  DisturbedStays
<1>1. ASSUME NEW t \in Task, NEW r \in Tree, NEW p \in Id \cup {None}, Start(t, r, p)
      PROVE  DisturbedStays
  BY <1>1 DEF DisturbedStays, Start, mapVars, allVars, Acquire, Tree
<1>2. ASSUME NEW t \in Task, t \in cancelReq, CancelAtLock(t)
      PROVE  DisturbedStays
  BY <1>2 DEF DisturbedStays, CancelAtLock, mapVars, allVars, Done
<1>3. ASSUME NEW t \in Task, t \in cancelReq, CancelInRemove(t)
      PROVE  DisturbedStays
  BY <1>3 DEF DisturbedStays, CancelInRemove, mapVars, allVars, Release, Done
<1>4. CASE UNCHANGED <<overlapped, cut>>
  BY <1>4 DEF DisturbedStays
<1> QED
  <2>1. CASE LockSteps
    BY <2>1, <1>4 DEF LockSteps, GetOrCreateSession, stopVars, treeVars, allVars, Release,
       Lookup, Found, RegisterRealSessionId, Register, mapVars, RemoveSession, AwaitStop,
       EndTask, ForgetAlias, Alive, BeginStop, Done, StopAllBegins, handlerVars, StopAllGoesOn
  <2>2. CASE Commands
    BY <2>2, <1>1, <1>4 DEF Commands, treeVars, allVars, mapVars, handlerVars, StopReply,
       lockVars, Cancel, StopAll, Acquire
  <2>3. CASE Handlers
    BY <2>3, <1>2, <1>3, <1>4 DEF Handlers, DeliverCancel, stopVars, treeVars, allVars,
       Release, mapVars, ForgetAlias, Alive, Done, Acquire, SessionInfo, SessionRemoved,
       Unregistered, HandlerFails, Untouched, Leave, CancelInGenerator, GeneratorEnds
  <2>4. CASE Generators
    BY <2>4, <1>4 DEF Generators, stopVars, treeVars, allVars, mapVars, Alive, Acquire,
       Unregistered, Untouched, Leave, GeneratorEnds, TakeCliLock, CliLockFree, Spawned,
       SpawnFails, StdoutEnds, StderrEnds, ProcessWaited, GeneratorCloses, StopReturns
  <2>5. CASE StopAllStopped
    BY <2>5, <1>4 DEF stopVars, treeVars, Release, mapVars, Alive, BeginStop, handlerVars,
       StopAllGoesOn, Unregistered, StopAllStopped
  <2>6. CASE Processes
    BY <2>6, <1>4 DEF Processes, stopVars, treeVars, allVars, mapVars, Alive, handlerVars,
       Untouched, Exits, KilledInShield, KilledByHolder
  <2>7. CASE UNCHANGED vars
    BY <2>7, <1>4 DEF stopVars, treeVars, allVars, mapVars, handlerVars, lockVars, vars
  <2> QED BY <2>1, <2>2, <2>3, <2>4, <2>5, <2>6, <2>7 DEF Next

LEMMA NeverUndisturbed ==
  ASSUME Base, [Next]_vars, NEW t \in Task
  PROVE  Kept(t)' => Kept(t)
BY DisturbedOnly DEF Kept, DisturbedStays

\* A tree is given once.
LEMMA TreesStay ==
  ASSUME Base, [Next]_vars
  PROVE  \A t \in Task : tree[t] # None => tree'[t] = tree[t]
<1>1. CASE Along BY <1>1 DEF Along
<1>2. ASSUME NEW t \in Task, NEW r \in Tree, NEW p \in Id \cup {None}, Start(t, r, p)
      PROVE  \A u \in Task : tree[u] # None => tree'[u] = tree[u]
  BY <1>2 DEF Base, TypeOK, Stages, Stage, Start
<1> QED BY <1>1, <1>2, OnlyStartsBegin

\* remove_session waits for the process of the session it removes.
LEMMA VictimOfRemoveKept ==
  ASSUME Base, ByTree, OwnsAlone, EntryIsThere, VictimOfRemove, VictimInTree, [Next]_vars
  PROVE  VictimOfRemove' /\ VictimInTree'
<1>1. ASSUME NEW t \in Task, RemoveSession(t) PROVE VictimOfRemove' /\ VictimInTree'
  BY <1>1, RemoveVictim
<1>2. CASE KilledByHolder BY <1>2, KilledVictim
<1>3. CASE StillWaits
  <2>1. Lives BY NoneRises
  <2>2. ASSUME NEW t \in Task, phase[t] \in Stopping PROVE Alive(t)' => Alive(t)
    <3>1. gen[t] # "spawning" BY <2>2 DEF Base, Stages, Stage, Stopping
    <3> QED BY <2>1, <3>1 DEF Lives, Spawned
  <2>3. ASSUME NEW t \in Task PROVE Kept(t)' => Kept(t) BY NeverUndisturbed
  <2>4. VictimOfRemove' BY <1>3, <2>2, <2>3 DEF VictimOfRemove, StillWaits
  <2>5. VictimInTree'
    <3>1. ASSUME NEW t \in Task, phase'[t] \in Stopping PROVE tree'[victimOf'] = tree'[t]
      <4>1. phase[t] \in Stopping /\ victimOf' = victimOf BY <1>3, <3>1 DEF StillWaits
      <4>2. tree[victimOf] = tree[t] /\ tree[t] # None /\ victimOf \in Task
        BY <4>1 DEF VictimInTree, Base, Stages, Stage, Holder, Stopping
      <4>3. \A u \in Task : tree[u] # None => tree'[u] = tree[u] BY TreesStay
      <4> QED BY <4>1, <4>2, <4>3
    <3> QED BY <3>1 DEF VictimInTree
  <2> QED BY <2>4, <2>5
<1> QED BY <1>1, <1>2, <1>3, WaitStays

-----------------------------------------------------------------------------
(* The processes that live                                                 *)

\* A process that lives has its handler with it.
InHand == \A t \in Task : Kept(t) /\ Alive(t) => phase[t] \in Held
\* Before the finally clause, it is registered.
AtWork(t) == t \notin overlapped /\ Alive(t) /\ phase[t] \in {"using", "registering"}
Registered == \A t \in Task : AtWork(t) => t \in pids

LEMMA RemoveInHand ==
  ASSUME Base, ByTree, OwnsAlone, EntryIsThere, InHand, NEW t \in Task, RemoveSession(t)
  PROVE  InHand'
<1> DEFINE id == RemovedId(t)
           s == IF pending[id] # None THEN pending[id] ELSE sessions[id]
<1>1. Uses(t) => s = session[t] BY RemovesItsOwn
<1>2. \/ s # None /\ \E where \in Stopping : AwaitStop(t, s, where)
      \/ (s = None \/ ~Alive(process[s])) /\ EndTask(t)
  BY RemoveIs
<1>3. phase[t] = "leaving" /\ gen[t] # "spawning"
  BY DEF RemoveSession, Base, Stages, Stage
<1>4. Lives BY NoneRises DEF Next, LockSteps
<1>5. UNCHANGED <<overlapped, cut>> BY DEF RemoveSession, stopVars
<1>6. \A u \in Task : u # t => phase'[u] = phase[u] /\ ~Spawned(u)
  BY DEF RemoveSession, AwaitStop, EndTask, Done, Base, TypeOK, Spawned
<1> HIDE DEF s, id
<1>7. ASSUME Kept(t), Alive(t)' PROVE phase'[t] \in Held
  <2>1. Alive(t) BY <1>3, <1>4, <1>7 DEF Lives, Spawned
  <2>2. Uses(t) BY <1>3, <1>7, <2>1 DEF Uses, Holding, MayRun
  <2>3. Alone(t) /\ proc[t] # "none" BY <1>3, <1>7, <2>1 DEF Kept, Alone, Over, Alive
  <2>4. process[s] = t /\ s # None BY <1>1, <2>2, <2>3, IdInUse, ActorsDiffer DEF OwnsAlone
  <2>5. \E where \in Stopping : AwaitStop(t, s, where) BY <1>2, <2>1, <2>4
  <2> QED BY <2>5 DEF AwaitStop, Stopping, Held, Base, TypeOK
<1>8. ASSUME NEW u \in Task, u # t, Kept(u), Alive(u)' PROVE phase'[u] \in Held
  BY <1>4, <1>6, <1>8 DEF Lives, InHand
<1> QED BY <1>5, <1>7, <1>8 DEF InHand, Kept

LEMMA RemovedInHand ==
  ASSUME Base, VictimOfRemove, InHand, NEW t \in Task, SessionRemoved(t)
  PROVE  InHand'
<1>1. /\ phase[t] \in Stopping /\ ~Alive(victim) /\ phase' = [phase EXCEPT ![t] = "done"]
      /\ UNCHANGED <<proc, overlapped, cut>>
  BY DEF SessionRemoved, Done, Stopping, stopVars
<1>2. ~(Kept(t) /\ Alive(t)) BY <1>1 DEF VictimOfRemove
<1> QED BY <1>1, <1>2 DEF InHand, Kept, Alive, Base, TypeOK

\* Other handlers end their tasks before the process is started, or are cut.
HeldStays == \A t \in Task : phase[t] \in Held => phase'[t] \in Held \/ t \in cut'

\* remove_session is where a handler ends.
LEMMA OthersHold ==
  ASSUME Base, \A t \in Task : ~RemoveSession(t) /\ ~SessionRemoved(t), [Next]_vars
  PROVE  HeldStays
<1>1. ASSUME NEW t \in Task, GetOrCreateSession(t)
      PROVE  HeldStays
  BY <1>1 DEF Base, TypeOK, HeldStays, Held, GetOrCreateSession, stopVars, treeVars, allVars,
     Release, Lookup, Found
<1>2. ASSUME NEW t \in Task, RegisterRealSessionId(t)
      PROVE  HeldStays
  BY <1>2 DEF Base, TypeOK, HeldStays, Held, RegisterRealSessionId, stopVars, treeVars, allVars,
     Release, Register, mapVars
<1>3. ASSUME NEW t \in Task, SessionInfo(t)
      PROVE  HeldStays
  BY <1>3 DEF Base, TypeOK, HeldStays, Held, SessionInfo, stopVars, treeVars, mapVars, allVars,
     Acquire
<1>4. ASSUME NEW t \in Task, HandlerFails(t)
      PROVE  HeldStays
  BY <1>4 DEF Base, TypeOK, HeldStays, Held, HandlerFails, Untouched, Leave, stopVars, treeVars,
     mapVars, allVars, Acquire
<1>5. ASSUME NEW t \in Task, t \in cancelReq, CancelInGenerator(t)
      PROVE  HeldStays
  BY <1>5 DEF Base, TypeOK, HeldStays, Held, CancelInGenerator, Untouched, GeneratorEnds, Leave,
     stopVars, treeVars, mapVars, allVars, Unregistered, Acquire
<1>6. ASSUME NEW t \in Task, t \in cancelReq, CancelAtLock(t)
      PROVE  HeldStays
  BY <1>6 DEF Base, TypeOK, HeldStays, Held, CancelAtLock, mapVars, allVars, Done
<1>7. ASSUME NEW t \in Task, t \in cancelReq, CancelInRemove(t)
      PROVE  HeldStays
  BY <1>7 DEF Base, TypeOK, HeldStays, Held, CancelInRemove, mapVars, allVars, Release, Done
<1>8. ASSUME NEW t \in Task, SpawnFails(t)
      PROVE  HeldStays
  BY <1>8 DEF Base, TypeOK, HeldStays, Held, SpawnFails, Untouched, GeneratorEnds, Leave,
     stopVars, treeVars, mapVars, allVars, Unregistered, Acquire
<1>9. ASSUME NEW t \in Task, ProcessWaited(t)
      PROVE  HeldStays
  BY <1>9 DEF Base, TypeOK, HeldStays, Held, ProcessWaited, Untouched, Alive, GeneratorEnds,
     Leave, stopVars, treeVars, mapVars, allVars, Unregistered, Acquire
<1>10. ASSUME NEW t \in Task, GeneratorCloses(t)
      PROVE  HeldStays
  BY <1>10 DEF Base, TypeOK, HeldStays, Held, GeneratorCloses, Untouched, GeneratorEnds, Leave,
     stopVars, treeVars, mapVars, allVars, Unregistered, Acquire
<1>11. ASSUME NEW t \in Task, NEW r \in Tree, NEW p \in Id \cup {None}, Start(t, r, p)
      PROVE  HeldStays
  BY <1>11 DEF Base, TypeOK, HeldStays, Held, Start, mapVars, allVars, Acquire, Tree
<1>12. CASE UNCHANGED <<phase>>
  BY <1>12 DEF HeldStays
<1> QED
  <2>1. CASE LockSteps
    BY <2>1, <1>1, <1>2, <1>12 DEF LockSteps, StopAllBegins, handlerVars, stopVars, treeVars,
       StopAllGoesOn, mapVars, Release, BeginStop, Alive, allVars
  <2>2. CASE Commands
    BY <2>2, <1>11, <1>12 DEF Commands, handlerVars, treeVars, mapVars, StopReply, lockVars,
       allVars, Cancel, StopAll, Acquire
  <2>3. CASE Handlers
    BY <2>3, <1>3, <1>4, <1>5, <1>6, <1>7, <1>12 DEF Handlers, DeliverCancel, stopVars,
       treeVars, mapVars, Release, Alive, allVars, Acquire, Untouched, Unregistered
  <2>4. CASE Generators
    BY <2>4, <1>8, <1>9, <1>10, <1>12 DEF Generators, stopVars, treeVars, mapVars, Alive,
       allVars, Acquire, TakeCliLock, Untouched, CliLockFree, Spawned, StdoutEnds, StderrEnds,
       StopReturns, Unregistered
  <2>5. CASE StopAllStopped
    BY <2>5, <1>12 DEF handlerVars, stopVars, treeVars, StopAllGoesOn, mapVars, Release,
       BeginStop, Alive, Unregistered, StopAllStopped
  <2>6. CASE Processes
    BY <2>6, <1>12 DEF Processes, handlerVars, stopVars, treeVars, mapVars, Alive, allVars,
       Untouched, Exits, KilledInShield, KilledByHolder
  <2>7. CASE UNCHANGED vars
    BY <2>7, <1>12 DEF handlerVars, stopVars, treeVars, mapVars, lockVars, allVars, vars
  <2> QED BY <2>1, <2>2, <2>3, <2>4, <2>5, <2>6, <2>7 DEF Next

\* A process that lives keeps its handler.
LEMMA InHandKept ==
  ASSUME Base, ByTree, OwnsAlone, EntryIsThere, VictimOfRemove, InHand, [Next]_vars
  PROVE  InHand'
<1>1. ASSUME NEW t \in Task, RemoveSession(t) PROVE InHand' BY <1>1, RemoveInHand
<1>2. ASSUME NEW t \in Task, SessionRemoved(t) PROVE InHand' BY <1>2, RemovedInHand
<1>3. CASE HeldStays
  <2>1. ASSUME NEW t \in Task, Kept(t)', Alive(t)' PROVE phase'[t] \in Held
    <3>1. Kept(t) /\ t \notin cut' BY <2>1, NeverUndisturbed DEF Kept
    <3>2. CASE Alive(t) BY <1>3, <2>1, <3>1, <3>2 DEF HeldStays, InHand
    <3>3. CASE Spawned(t)
      <4>1. phase[t] = "using" BY <3>3, InUse DEF Spawned, Working
      <4> QED BY <1>3, <3>1, <4>1 DEF HeldStays, Held
    <3> QED BY <2>1, <3>2, <3>3, NoneRises DEF Lives
  <2> QED BY <2>1 DEF InHand
<1> QED BY <1>1, <1>2, <1>3, OthersHold

\* A process at work is the one of its session, and the only one at work there.
LEMMA AtWorkRuns ==
  ASSUME Base, Owns, NEW t \in Task, AtWork(t)
  PROVE  gen[t] \in InGenerator \ {"spawning"} /\ process[session[t]] = t /\ session[t] \in Task
<1>1. Stage(t) /\ phase[t] \in {"using", "registering"} /\ proc[t] # "none"
  BY DEF AtWork, Alive, Base, Stages
<1>2. gen[t] \in Working /\ gen[t] \notin {"queued", "spawning"} BY <1>1 DEF Stage, Working
<1>3. gen[t] \in InGenerator \ {"spawning"} /\ session[t] # None
  BY <1>1, <1>2 DEF InGenerator, Working, Stage
<1> QED BY <1>3 DEF Owns, Base, TypeOK

\* No handler goes back to its loop.
Returned ==
  \A t \in Task : phase'[t] \in {"using", "registering"} => phase[t] \in {"using", "registering", "getting"}

\* From the finally clause a handler goes on to its end.
LEMMA NoneReturns ==
  ASSUME Base, [Next]_vars
  PROVE  Returned
<1>1. ASSUME NEW t \in Task, GetOrCreateSession(t)
      PROVE  Returned
  BY <1>1 DEF Base, TypeOK, Returned, GetOrCreateSession, stopVars, treeVars, allVars, Release,
     Lookup, Found
<1>2. ASSUME NEW t \in Task, RegisterRealSessionId(t)
      PROVE  Returned
  BY <1>2 DEF Base, TypeOK, Returned, RegisterRealSessionId, stopVars, treeVars, allVars,
     Release, Register, mapVars
<1>3. ASSUME NEW t \in Task, RemoveSession(t)
      PROVE  Returned
  BY <1>3 DEF Base, TypeOK, Returned, RemoveSession, stopVars, mapVars, allVars, AwaitStop,
     EndTask, ForgetAlias, Alive, BeginStop, Release, Done
<1>4. ASSUME NEW t \in Task, SessionRemoved(t)
      PROVE  Returned
  BY <1>4 DEF Base, TypeOK, Returned, SessionRemoved, stopVars, allVars, Release, Done,
     ForgetAlias, Alive, Unregistered
<1>5. ASSUME NEW t \in Task, SessionInfo(t)
      PROVE  Returned
  BY <1>5 DEF Base, TypeOK, Returned, SessionInfo, stopVars, treeVars, mapVars, allVars, Acquire
<1>6. ASSUME NEW t \in Task, HandlerFails(t)
      PROVE  Returned
  BY <1>6 DEF Base, TypeOK, Returned, HandlerFails, Untouched, Leave, stopVars, treeVars,
     mapVars, allVars, Acquire
<1>7. ASSUME NEW t \in Task, t \in cancelReq, CancelInGenerator(t)
      PROVE  Returned
  BY <1>7 DEF Base, TypeOK, Returned, CancelInGenerator, Untouched, GeneratorEnds, Leave,
     stopVars, treeVars, mapVars, allVars, Unregistered, Acquire
<1>8. ASSUME NEW t \in Task, t \in cancelReq, CancelAtLock(t)
      PROVE  Returned
  BY <1>8 DEF Base, TypeOK, Returned, CancelAtLock, mapVars, allVars, Done
<1>9. ASSUME NEW t \in Task, t \in cancelReq, CancelInRemove(t)
      PROVE  Returned
  BY <1>9 DEF Base, TypeOK, Returned, CancelInRemove, mapVars, allVars, Release, Done
<1>10. ASSUME NEW t \in Task, SpawnFails(t)
      PROVE  Returned
  BY <1>10 DEF Base, TypeOK, Returned, SpawnFails, Untouched, GeneratorEnds, Leave, stopVars,
     treeVars, mapVars, allVars, Unregistered, Acquire
<1>11. ASSUME NEW t \in Task, ProcessWaited(t)
      PROVE  Returned
  BY <1>11 DEF Base, TypeOK, Returned, ProcessWaited, Untouched, Alive, GeneratorEnds, Leave,
     stopVars, treeVars, mapVars, allVars, Unregistered, Acquire
<1>12. ASSUME NEW t \in Task, GeneratorCloses(t)
      PROVE  Returned
  BY <1>12 DEF Base, TypeOK, Returned, GeneratorCloses, Untouched, GeneratorEnds, Leave,
     stopVars, treeVars, mapVars, allVars, Unregistered, Acquire
<1>13. ASSUME NEW t \in Task, NEW r \in Tree, NEW p \in Id \cup {None}, Start(t, r, p)
      PROVE  Returned
  BY <1>13 DEF Base, TypeOK, Returned, Start, mapVars, allVars, Acquire, Tree
<1>14. CASE UNCHANGED <<phase>>
  BY <1>14 DEF Returned
<1> QED
  <2>1. CASE LockSteps
    BY <2>1, <1>1, <1>2, <1>3, <1>14 DEF LockSteps, StopAllBegins, handlerVars, stopVars,
       treeVars, StopAllGoesOn, mapVars, Release, BeginStop, Alive, allVars
  <2>2. CASE Commands
    BY <2>2, <1>13, <1>14 DEF Commands, handlerVars, treeVars, mapVars, StopReply, lockVars,
       allVars, Cancel, StopAll, Acquire
  <2>3. CASE Handlers
    BY <2>3, <1>4, <1>5, <1>6, <1>7, <1>8, <1>9, <1>14 DEF Handlers, DeliverCancel, stopVars,
       treeVars, mapVars, Release, Alive, allVars, Acquire, Untouched, Unregistered
  <2>4. CASE Generators
    BY <2>4, <1>10, <1>11, <1>12, <1>14 DEF Generators, stopVars, treeVars, mapVars, Alive,
       allVars, Acquire, TakeCliLock, Untouched, CliLockFree, Spawned, StdoutEnds, StderrEnds,
       StopReturns, Unregistered
  <2>5. CASE StopAllStopped
    BY <2>5, <1>14 DEF handlerVars, stopVars, treeVars, StopAllGoesOn, mapVars, Release,
       BeginStop, Alive, Unregistered, StopAllStopped
  <2>6. CASE Processes
    BY <2>6, <1>14 DEF Processes, handlerVars, stopVars, treeVars, mapVars, Alive, allVars,
       Untouched, Exits, KilledInShield, KilledByHolder
  <2>7. CASE UNCHANGED vars
    BY <2>7, <1>14 DEF handlerVars, stopVars, treeVars, mapVars, lockVars, allVars, vars
  <2> QED BY <2>1, <2>2, <2>3, <2>4, <2>5, <2>6, <2>7 DEF Next

\* What is at work was at work, or is started by this step.
WorkedBefore == \A t \in Task : AtWork(t)' => AtWork(t) \/ Spawned(t)
LEMMA WorkIsStarted ==
  ASSUME Base, [Next]_vars
  PROVE  WorkedBefore
<1>1. ASSUME NEW t \in Task, AtWork(t)', ~Spawned(t) PROVE AtWork(t)
  <2>1. Alive(t) BY <1>1, NoneRises DEF AtWork, Lives
  <2>2. t \notin overlapped BY <1>1, DisturbedOnly DEF AtWork, DisturbedStays
  <2>3. gen[t] # "none" BY <2>1 DEF Alive, Base, Stages, Stage
  <2>4. phase[t] \notin {"new", "getting"} BY <2>3 DEF Base, Stages, Stage
  <2>5. phase[t] \in {"using", "registering"}
    BY <1>1, <2>4, NoneReturns DEF AtWork, Returned
  <2> QED BY <2>1, <2>2, <2>5 DEF AtWork
<1> QED BY <1>1 DEF WorkedBefore

\* A step that takes no process at work off the registry
PidsStay == \A t \in Task : AtWork(t) /\ AtWork(t)' /\ t \in pids => t \in pids'

\* The generator that ends takes its own process off.
LEMMA EndsOwnPid ==
  ASSUME Base, Exclusive, Owns, NEW u \in Task, GeneratorEnds(u),
         phase'[u] \notin {"using", "registering"}
  PROVE  PidsStay
<1>1. ASSUME NEW t \in Task, AtWork(t), AtWork(t)', t \in pids PROVE t \in pids'
  <2>1. t # u BY <1>1 DEF AtWork
  <2>2. gen[t] \in InGenerator /\ process[session[t]] = t BY <1>1, AtWorkRuns
  <2>3. CASE gen[u] \notin InGenerator BY <1>1, <2>3 DEF GeneratorEnds
  <2>4. CASE gen[u] \in InGenerator
    <3>1. session[t] # session[u] BY <2>1, <2>2, <2>4 DEF Exclusive
    <3>2. session[u] \in Task BY <2>4 DEF InGenerator, Base, TypeOK, Stages, Stage
    <3>3. process[session[u]] # t BY <3>1, <3>2, ActorsDiffer DEF Base, Runs
    <3> QED BY <1>1, <2>4, <3>3 DEF GeneratorEnds, Unregistered
  <2> QED BY <2>3, <2>4
<1> QED BY <1>1 DEF PidsStay

LEMMA GeneratorPids ==
  ASSUME Base, Exclusive, Owns, NEW u \in Task,
         \/ SpawnFails(u) \/ ProcessWaited(u) \/ GeneratorCloses(u)
         \/ CancelInGenerator(u) /\ u \in cancelReq
  PROVE  PidsStay
<1>1. CASE GeneratorEnds(u) /\ Leave(u)
  <2>1. phase'[u] = "leaving" BY <1>1 DEF Leave, Base, TypeOK
  <2> QED BY <1>1, <2>1, EndsOwnPid
<1>2. CASE GeneratorEnds(u) /\ phase[u] # "using" /\ gen[u] = "closing" /\ UNCHANGED phase
  <2>1. phase'[u] \notin {"using", "registering"} BY <1>2 DEF Base, Stages, Stage
  <2> QED BY <1>2, <2>1, EndsOwnPid
<1>3. CASE UNCHANGED pids BY <1>3 DEF PidsStay
<1> QED BY <1>1, <1>2, <1>3 DEF SpawnFails, ProcessWaited, GeneratorCloses, CancelInGenerator

\* The shielded stop() takes off a process that ended, or one beside another.
LEMMA StopReturnsPids ==
  ASSUME Base, Exclusive, Owns, LeftAlone, NEW u \in Task, StopReturns(u)
  PROVE  PidsStay
<1>1. u \in shielded /\ ~Alive(u) /\ pids' = pids \ {process[session[u]]}
  BY DEF StopReturns, Unregistered
<1>2. ASSUME NEW t \in Task, AtWork(t), t \in pids PROVE t \in pids'
  <2>1. t # u /\ t \notin overlapped /\ phase[t] \in Held BY <1>1, <1>2 DEF AtWork, Held
  <2>2. gen[t] \in InGenerator BY <1>2, AtWorkRuns
  <2>3. session[u] \in Task BY <1>1 DEF Base, TypeOK, Stages, Stage
  <2>4. session[t] # session[u]
    <3>1. CASE gen[u] = "stopping" BY <2>1, <2>2, <3>1 DEF Exclusive, InGenerator
    <3>2. CASE gen[u] # "stopping" BY <1>1, <2>1, <3>2 DEF LeftAlone, Leftover
    <3> QED BY <3>1, <3>2
  <2>5. process[session[u]] # t BY <2>3, <2>4, ActorsDiffer DEF Base, Runs
  <2> QED BY <1>1, <1>2, <2>5
<1> QED BY <1>2 DEF PidsStay

\* remove_session takes off the process of its own tree.
LEMMA RemovedPids ==
  ASSUME Base, Beside, ByTree, Owns, VictimInTree, NEW u \in Task, SessionRemoved(u)
  PROVE  PidsStay
<1>1. phase[u] \in Stopping /\ pids' = pids \ {process[victimOf]}
  BY DEF SessionRemoved, Unregistered, Stopping
<1>2. victimOf \in Task /\ tree[victimOf] = tree[u] BY <1>1 DEF VictimInTree, Base, Holder, Stopping
<1>3. ASSUME NEW t \in Task, AtWork(t), t \in pids PROVE t \in pids'
  <2>1. t # u /\ t \notin overlapped /\ ~Over(t) /\ ~Over(u)
    BY <1>1, <1>3 DEF AtWork, Stopping, Over
  <2>2. tree[t] # tree[u] BY <2>1 DEF Beside
  <2>3. session[t] # None => tree[session[t]] = tree[t] BY DEF ByTree, SessionsOfTree
  <2>4. process[victimOf] # t BY <1>2, <2>2, <2>3, ActorsDiffer DEF Base, Runs
  <2> QED BY <1>1, <1>3, <2>4
<1> QED BY <1>3 DEF PidsStay

LEMMA StopAllPids ==
  ASSUME Base, VictimOfStop, StopAllStopped
  PROVE  PidsStay
<1>1. stopper = "stopping" /\ ~Alive(victim) /\ pids' = pids \ {process[victimOf]}
  BY DEF StopAllStopped, Unregistered
<1>2. ASSUME NEW t \in Task, AtWork(t), t \in pids PROVE t \in pids'
  <2>1. process[victimOf] # t BY <1>1, <1>2 DEF VictimOfStop, AtWork
  <2> QED BY <1>1, <1>2, <2>1
<1> QED BY <1>2 DEF PidsStay

\* Only the registry's own steps take a process off.
LEMMA PidsKept ==
  ASSUME Base, Exclusive, Owns, LeftAlone, Beside, ByTree, VictimInTree, VictimOfStop,
    [Next]_vars
  PROVE  PidsStay
<1>1. ASSUME NEW t \in Task, Spawned(t)
      PROVE  PidsStay
  BY <1>1 DEF PidsStay, Spawned, Untouched, stopVars, treeVars, mapVars, allVars
<1>2. CASE UNCHANGED <<pids>>
  BY <1>2 DEF PidsStay
<1> QED
  <2>1. CASE LockSteps
    BY <2>1, <1>2 DEF LockSteps, GetOrCreateSession, stopVars, treeVars, allVars, Release,
       Lookup, Found, RegisterRealSessionId, Register, mapVars, RemoveSession, AwaitStop,
       EndTask, ForgetAlias, Alive, BeginStop, Done, StopAllBegins, handlerVars, StopAllGoesOn
  <2>2. CASE Commands
    BY <2>2, <1>2 DEF Commands, treeVars, allVars, mapVars, handlerVars, StopReply, lockVars,
       Cancel, StopAll, Acquire, Start
  <2>3. CASE Handlers
    BY <2>3, <1>2, GeneratorPids, RemovedPids DEF Handlers, DeliverCancel, stopVars, treeVars,
       allVars, Release, mapVars, ForgetAlias, Alive, Done, Acquire, SessionInfo, HandlerFails,
       Untouched, Leave, CancelAtLock, CancelInRemove
  <2>4. CASE Generators
    BY <2>4, <1>1, <1>2, GeneratorPids, StopReturnsPids DEF Generators, stopVars, treeVars,
       allVars, mapVars, Alive, Acquire, Untouched, Leave, TakeCliLock, CliLockFree,
       StdoutEnds, StderrEnds
  <2>5. CASE StopAllStopped
    BY <2>5, <1>2, StopAllPids DEF stopVars, treeVars, Release, mapVars, Alive, BeginStop,
       handlerVars, StopAllGoesOn
  <2>6. CASE Processes
    BY <2>6, <1>2 DEF Processes, stopVars, treeVars, allVars, mapVars, Alive, handlerVars,
       Untouched, Exits, KilledInShield, KilledByHolder
  <2>7. CASE UNCHANGED vars
    BY <2>7, <1>2 DEF stopVars, treeVars, allVars, mapVars, handlerVars, lockVars, vars
  <2> QED BY <2>1, <2>2, <2>3, <2>4, <2>5, <2>6, <2>7 DEF Next

\* A process at work is registered.
LEMMA RegisteredKept ==
  ASSUME Base, Exclusive, Owns, LeftAlone, Beside, ByTree, VictimInTree, VictimOfStop,
         Registered, [Next]_vars
  PROVE  Registered'
<1>1. ASSUME NEW t \in Task, AtWork(t)' PROVE t \in pids'
  <2>1. CASE AtWork(t) BY <1>1, <2>1, PidsKept DEF PidsStay, Registered
  <2>2. CASE Spawned(t) BY <2>2 DEF Spawned
  <2> QED BY <1>1, <2>1, <2>2, WorkIsStarted DEF WorkedBefore
<1> QED BY <1>1 DEF Registered

-----------------------------------------------------------------------------
TrackInv ==
  /\ Base /\ Exclusive /\ Owns
  /\ Beside /\ Current /\ ByTree /\ OwnsAlone /\ Fresh
  /\ Queue /\ NoneSpawns /\ OutOfMaps /\ LeftAlone
  /\ EntryIsThere /\ StillToStop /\ VictimOfStop /\ VictimOfRemove /\ VictimInTree
  /\ InHand /\ Registered

LEMMA TrackInit == Init => TrackInv
<1> SUFFICES ASSUME Init PROVE TrackInv OBVIOUS
<1>1. TypeOK
  <2>1. lockQueue \in Seq(Task \cup {Stopper}) /\ stopAlls \in 0..MaxStopAlls BY StopAllsIsNat DEF Init
  <2>2. /\ tree \in [Task -> Tree \cup {None}] /\ parent \in [Task -> Id \cup {None}]
        /\ session \in [Task -> Task \cup {None}] /\ temp \in [Task -> Id \cup {None}]
        /\ captured \in [Task -> Id \cup {None}] /\ process \in [Task -> Task \cup {None}]
        /\ isProcessing \in [Tree -> BOOLEAN] /\ currentTask \in [Tree -> Task \cup {None}]
    BY DEF Init
  <2>3. /\ pending \in [Id -> Task \cup {None}] /\ sessions \in [Id -> Task \cup {None}]
        /\ tempToReal \in [Id -> Id \cup {None}] /\ realToTemp \in [Id -> Id \cup {None}]
    BY DEF Init
  <2> QED BY <2>1, <2>2, <2>3 DEF Init, TypeOK
<1>2. \A t \in Task : /\ phase[t] = "new" /\ gen[t] = "none" /\ session[t] = None /\ temp[t] = None
                      /\ captured[t] = None /\ proc[t] = "none" /\ process[t] = None /\ tree[t] = None
                      /\ parent[t] = None /\ t \notin shielded /\ t \notin cancelReq
  BY DEF Init
<1>3. \A i \in Id : pending[i] = None /\ sessions[i] = None /\ tempToReal[i] = None
  BY DEF Init
<1>4. lockQueue = <<>> /\ stopper = "idle" /\ victim = None /\ asked = {} /\ cancelReq = {} BY DEF Init
<1>5. Holder /\ Stages /\ Runs
  BY <1>2, <1>4 DEF Holder, Stages, Stage, Runs
<1>6. Base BY <1>1, <1>5, MapInit DEF Base
<1>7. Exclusive /\ Owns BY <1>2 DEF Exclusive, Owns, InGenerator
<1>8. Beside /\ Current /\ OwnsAlone BY <1>2 DEF Beside, Current, OwnsAlone, Alone, Over
<1>9. ByTree
  BY <1>2, <1>3 DEF ByTree, SessionsOfTree, EntriesOfTree, IdsOfTree, AliasOfTree
<1>10. Fresh
  <2>1. NotBoth /\ Replaced /\ Unannounced BY <1>3, IdsAreIds DEF NotBoth, Replaced, Unannounced
  <2>2. ForksAnnounced /\ OwnTemp BY <1>2, IdsAreIds, NoneIsNoId DEF ForksAnnounced, OwnTemp
  <2> QED BY <2>1, <2>2 DEF Fresh
<1>11. Queue BY <1>4 DEF Queue, Waits, Ahead
<1>12. NoneSpawns /\ OutOfMaps /\ LeftAlone
  BY <1>2, <1>4 DEF NoneSpawns, OutOfMaps, LeftAlone, Leftover
<1>13. \A t \in Task : ~Alive(t) BY <1>2 DEF Alive
<1>14. EntryIsThere /\ StillToStop /\ VictimOfStop
  BY <1>2, <1>4 DEF EntryIsThere, Uses, Holding, StillToStop, VictimOfStop
<1>15. VictimOfRemove /\ VictimInTree /\ InHand /\ Registered
  BY <1>2, <1>13 DEF VictimOfRemove, VictimInTree, Stopping, InHand, Registered, AtWork
<1> QED BY <1>6, <1>7, <1>8, <1>9, <1>10, <1>11, <1>12, <1>14, <1>15 DEF TrackInv

LEMMA TrackStep == TrackInv /\ [Next]_vars => TrackInv'
<1> SUFFICES ASSUME TrackInv, [Next]_vars PROVE TrackInv' OBVIOUS
<1>1. Base'
  <2>1. Base BY DEF TrackInv
  <2>2. MapInv' BY <2>1, MapStep DEF Base
  <2>3. TypeOK' /\ Holder' /\ Stages' /\ Runs' BY <2>1, TypesKept, HolderKept, StagesKept, RunsKept
  <2> QED BY <2>2, <2>3 DEF Base
<1>2. Exclusive' /\ Owns' BY ExclusiveKept, OwnsKept DEF TrackInv
<1>3. Beside' /\ Current' BY BesideKept, CurrentKept DEF TrackInv
<1>4. ByTree' /\ Fresh' BY ByTreeKept, FreshKept DEF TrackInv
<1>5. OwnsAlone' BY OwnsAloneKept DEF TrackInv, ByTree
<1>6. Queue' /\ NoneSpawns' BY QueueKept, NoneSpawnsKept DEF TrackInv
<1>7. OutOfMaps' /\ LeftAlone' BY OutOfMapsKept, LeftAloneKept DEF TrackInv
<1>8. EntryIsThere' BY EntryKept DEF TrackInv
<1>9. StillToStop' /\ VictimOfStop' BY StillToStopKept, VictimOfStopKept DEF TrackInv
<1>10. VictimOfRemove' /\ VictimInTree' BY VictimOfRemoveKept DEF TrackInv
<1>11. InHand' /\ Registered' BY InHandKept, RegisteredKept DEF TrackInv
<1> QED BY <1>1, <1>2, <1>3, <1>4, <1>5, <1>6, <1>7, <1>8, <1>9, <1>10, <1>11 DEF TrackInv

\* A process that runs is in the registry, or its task is at work or is still to
\* remove its session, whatever prompts and "/stop" commands come at once, unless
\* its tree was freed under it or its removal was cut short. (start_task,
\* remove_session, stop_all)
THEOREM RunningStaysTracked == Spec => []RunningIsTracked
<1>1. TrackInv => RunningIsTracked
  <2> SUFFICES ASSUME TrackInv, NEW t \in Task, Alive(t), t \notin overlapped \cup cut
               PROVE  t \in pids \/ phase[t] \in {"leaving", "removing", "dropping"}
    BY DEF RunningIsTracked
  <2>1. phase[t] \in Held BY DEF TrackInv, InHand, Kept
  <2>2. CASE phase[t] \in {"using", "registering"} BY <2>2 DEF TrackInv, Registered, AtWork
  <2> QED BY <2>1, <2>2 DEF Held
<1> QED BY <1>1, TrackInit, TrackStep, PTL DEF Spec

\* Every variable keeps its type, whatever interleaves.
THEOREM SessionTypes == Spec => []TypeOK
BY TrackInit, TrackStep, PTL DEF Spec, TrackInv, Base
=============================================================================

----------------------------- MODULE CliSessions -----------------------------
(***************************************************************************)
(* CLISessionManager and CLISession (cli/manager.py, cli/session.py), as   *)
(* the task of a prompt uses them (_process_node_impl in                   *)
(* messaging/handler.py), with the stops that reach it: "/stop" as a reply *)
(* cancels the task, "/stop" on its own cancels every tree's task and then *)
(* stops every session.                                                    *)
(*                                                                         *)
(* A task forks the CLI session its parent prompt left behind.  Each CLI   *)
(* process announces a session id of its own; the sessions objects are     *)
(* named after the task that created them and the processes after the task *)
(* that runs them.  The queue of a tree is reduced to when it lets the     *)
(* next task start (TreeQueue has the rest).                               *)
(***************************************************************************)
EXTENDS Naturals, Sequences, FiniteSets, SequencesExt

CONSTANTS
  Task,         \* the prompts' tasks
  Old,          \* an earlier prompt, whose session can be forked
  Stopper,      \* stop_all_tasks, as a user of the manager's lock
  None,
  MaxStopAlls   \* bound: "/stop" commands on their own, one at a time

ASSUME ActorsDiffer ==
  /\ Old \notin Task
  /\ Stopper \notin Task \cup {Old}
  /\ None \notin Task \cup {Old, Stopper}
ASSUME StopAllsIsNat == MaxStopAlls \in Nat

Tree == Task \cup {Old}      \* a tree is named after its root
Real(u) == <<"real", u>>     \* the id a CLI process announces
Temp(t) == <<"pending", t>>  \* pending_<uuid>
Id == {Real(u) : u \in Tree} \cup {Temp(t) : t \in Task}

\* A session id is a string, None is none.
ASSUME NoneIsNoId == None \notin Id

VARIABLES
  tree,          \* the tree of each task
  parent,        \* parent_session_id
  phase,         \* where the handler of each task is
  gen,           \* where its start_task generator is
  session,       \* the CLISession it was handed
  temp,          \* temp_session_id
  captured,      \* captured_session_id
  cancelReq,     \* tasks with a CancelledError on its way
  asked,         \* tasks that were cancelled
  overlapped,    \* tasks that were at work beside another of their tree
  cut,           \* tasks whose remove_session was cancelled
  isProcessing,  \* of each tree
  currentTask,   \* of each tree
  proc,          \* the CLI processes
  process,       \* CLISession.process
  pids,          \* process_registry._pids
  shielded,      \* processes with a shielded stop() at work
  pending,       \* _pending_sessions
  sessions,      \* _sessions
  tempToReal,
  realToTemp,
  lockQueue,     \* the manager's lock: its holder, then the waiters in order
  granted,       \* the lock was free, and its new holder goes on to its first
                 \* await before anyone else takes a step
  victim,        \* the process the holder's stop() waits for
  victimOf,      \* and the session it stops
  stopper,       \* where stop_all is
  toStop,        \* sessions stop_all still has to stop
  stopAlls       \* how much of the bound is used

handlerVars == <<tree, parent, phase, temp, captured>>
stopVars == <<asked, overlapped, cut>>
treeVars == <<isProcessing, currentTask>>
mapVars == <<pending, sessions, tempToReal, realToTemp>>
lockVars == <<lockQueue, granted, victim, victimOf>>
allVars == <<stopper, toStop, stopAlls>>
vars == <<handlerVars, gen, session, cancelReq, stopVars, treeVars, proc, process,
          pids, shielded, mapVars, lockVars, allVars>>

TypeOK ==
  /\ tree \in [Task -> Tree \cup {None}]
  /\ parent \in [Task -> Id \cup {None}]
  /\ phase \in [Task -> {"new", "getting", "using", "registering", "leaving",
                         "removing", "dropping", "done"}]
  /\ gen \in [Task -> {"none", "queued", "spawning", "reading", "draining",
                       "waiting", "stopping", "closing", "over"}]
  /\ session \in [Task -> Task \cup {None}]
  /\ temp \in [Task -> Id \cup {None}]
  /\ captured \in [Task -> Id \cup {None}]
  /\ cancelReq \in SUBSET Task
  /\ asked \in SUBSET Task
  /\ overlapped \in SUBSET Task
  /\ cut \in SUBSET asked
  /\ isProcessing \in [Tree -> BOOLEAN]
  /\ currentTask \in [Tree -> Task \cup {None}]
  /\ proc \in [Task -> {"none", "running", "signalled", "exited"}]
  /\ process \in [Task -> Task \cup {None}]
  /\ pids \in SUBSET Task
  /\ shielded \in SUBSET Task
  /\ pending \in [Id -> Task \cup {None}]
  /\ sessions \in [Id -> Task \cup {None}]
  /\ tempToReal \in [Id -> Id \cup {None}]
  /\ realToTemp \in [Id -> Id \cup {None}]
  /\ lockQueue \in Seq(Task \cup {Stopper})
  /\ granted \in BOOLEAN
  /\ victim \in Task \cup {None}
  /\ victimOf \in Task \cup {None}
  /\ stopper \in {"idle", "waiting", "stopping"}
  /\ toStop \in SUBSET Task
  /\ stopAlls \in 0..MaxStopAlls

Init ==
  /\ tree = [t \in Task |-> None]
  /\ parent = [t \in Task |-> None]
  /\ phase = [t \in Task |-> "new"]
  /\ gen = [t \in Task |-> "none"]
  /\ session = [t \in Task |-> None]
  /\ temp = [t \in Task |-> None]
  /\ captured = [t \in Task |-> None]
  /\ cancelReq = {}
  /\ asked = {}
  /\ overlapped = {}
  /\ cut = {}
  /\ isProcessing = [r \in Tree |-> FALSE]
  /\ currentTask = [r \in Tree |-> None]
  /\ proc = [t \in Task |-> "none"]
  /\ process = [t \in Task |-> None]
  /\ pids = {}
  /\ shielded = {}
  /\ pending = [i \in Id |-> None]
  /\ sessions = [i \in Id |-> None]
  /\ tempToReal = [i \in Id |-> None]
  /\ realToTemp = [i \in Id |-> None]
  /\ lockQueue = <<>>
  /\ granted = FALSE
  /\ victim = None
  /\ victimOf = None
  /\ stopper = "idle"
  /\ toStop = {}
  /\ stopAlls = 0

-----------------------------------------------------------------------------
(* Locks and processes *)

\* The task is in the body of `async with self._cli_lock`
InGenerator == {"spawning", "reading", "draining", "waiting", "stopping", "closing"}
CliLockFree(s) == \A u \in Task : session[u] = s => gen[u] \notin InGenerator

HasLock(a) == lockQueue # <<>> /\ Head(lockQueue) = a

\* acquire() does not suspend when the lock is free
Acquire(a) ==
  /\ lockQueue' = Append(lockQueue, a)
  /\ granted' = (lockQueue = <<>>)

Release ==
  /\ lockQueue' = Tail(lockQueue)
  /\ granted' = FALSE

\* A waiter is cancelled
Without(t) == RemoveFirst(lockQueue, t)

\* process.returncode is None
Alive(p) == p # None /\ proc[p] \in {"running", "signalled"}

\* unregister_pid(self.process.pid): whatever process the session has by now
Unregistered(s) == pids \ {process[s]}

\* stop() for the holder of the manager's lock: terminate, then wait
BeginStop(s) ==
  /\ proc' = [proc EXCEPT ![process[s]] = "signalled"]
  /\ victim' = process[s]
  /\ victimOf' = s

-----------------------------------------------------------------------------
(* The tree lets a task start; "/stop" *)

Over(t) == phase[t] \in {"new", "done"}
Reading == {"getting", "using", "registering"}  \* before the finally clause

\* Session ids a reply can fork: session_id of a node (handle_session_info_event)
Known == {Real(Old)} \cup {captured[u] : u \in {v \in Task : captured[v] = Real(v)}}

\* The task of a new conversation, or of a reply in tree r to a prompt that left
\* session id p, or left none.  Its first await is the manager's lock.
Start(t, r, p) ==
  /\ ~granted
  /\ phase[t] = "new"
  /\ \/ p = None /\ r \in {t, Old} \cup {tree[u] : u \in Task}
     \/ p \in Known /\ \E u \in Tree : p = Real(u) /\ r = IF u = Old THEN Old ELSE tree[u]
  /\ ~isProcessing[r]
  /\ isProcessing' = [isProcessing EXCEPT ![r] = TRUE]
  /\ currentTask' = [currentTask EXCEPT ![r] = t]
  /\ tree' = [tree EXCEPT ![t] = r]
  /\ parent' = [parent EXCEPT ![t] = p]
  /\ phase' = [phase EXCEPT ![t] = "getting"]
  /\ Acquire(t)
  /\ LET others == {u \in Task : tree[u] = r /\ ~Over(u)}
     IN  overlapped' = overlapped \cup IF others = {} THEN {} ELSE others \cup {t}
  /\ UNCHANGED <<temp, captured, gen, session, cancelReq, asked, cut, proc, process,
                 pids, shielded, mapVars, victim, victimOf, allVars>>

\* Task.cancel() for every task of S that is not done
Cancel(S) ==
  LET live == {t \in S : ~Over(t)}
  IN  /\ cancelReq' = cancelReq \cup live
      /\ asked' = asked \cup live

\* "/stop" as a reply to a prompt that is being processed, once for each
StopReply(t) ==
  /\ ~granted
  /\ tree[t] # None
  /\ isProcessing[tree[t]]
  /\ currentTask[tree[t]] = t
  /\ phase[t] \in Reading
  /\ t \notin asked
  /\ Cancel({t})
  /\ UNCHANGED <<handlerVars, gen, session, overlapped, cut, treeVars, proc, process, pids, shielded,
                 mapVars, lockVars, allVars>>

\* "/stop" on its own: cancel_all, then stop_all up to its lock
StopAll ==
  /\ ~granted
  /\ stopAlls < MaxStopAlls
  /\ stopper = "idle"
  /\ stopper' = "waiting"
  /\ stopAlls' = stopAlls + 1
  /\ Cancel({currentTask[r] : r \in Tree} \ {None})
  /\ isProcessing' = [r \in Tree |-> FALSE]
  /\ Acquire(Stopper)
  /\ UNCHANGED <<handlerVars, gen, session, overlapped, cut, currentTask, proc, process, pids,
                 shielded, mapVars, victim, victimOf, toStop>>

\* The end of the handler is the end of the task: the tree is marked free.
Done(t) ==
  /\ phase' = [phase EXCEPT ![t] = "done"]
  /\ cancelReq' = cancelReq \ {t}
  /\ isProcessing' = [isProcessing EXCEPT ![tree[t]] = FALSE]

-----------------------------------------------------------------------------
(* CLISessionManager *)

\* get_or_create_session
Lookup(p) == IF tempToReal[p] # None THEN tempToReal[p] ELSE p

Found(p) == IF p = None THEN None
            ELSE IF sessions[Lookup(p)] # None THEN sessions[Lookup(p)]
            ELSE pending[Lookup(p)]

GetOrCreateSession(t) ==
  /\ phase[t] = "getting"
  /\ HasLock(t)
  /\ t \notin cancelReq
  /\ LET p == parent[t]
         id == IF p = None THEN Temp(t) ELSE p
     IN  \/ /\ Found(p) # None
            /\ session' = [session EXCEPT ![t] = Found(p)]
            /\ captured' = [captured EXCEPT ![t] = Lookup(p)]
            /\ UNCHANGED <<temp, pending>>
         \/ /\ Found(p) = None
            /\ session' = [session EXCEPT ![t] = t]
            /\ pending' = [pending EXCEPT ![id] = t]
            /\ temp' = [temp EXCEPT ![t] = id]
            /\ UNCHANGED captured
  /\ phase' = [phase EXCEPT ![t] = "using"]
  /\ gen' = [gen EXCEPT ![t] = "queued"]
  /\ Release
  /\ UNCHANGED <<tree, parent, cancelReq, stopVars, treeVars, proc, process, pids, shielded,
                 sessions, tempToReal, realToTemp, victim, victimOf, allVars>>

\* A slip in register_real_session_id: the session stays in the pending map
RegisterKeepsPending(i, r) ==
  IF pending[i] # None
  THEN /\ sessions' = [sessions EXCEPT ![r] = pending[i]]
       /\ tempToReal' = [tempToReal EXCEPT ![i] = r]
       /\ realToTemp' = [realToTemp EXCEPT ![r] = i]
       /\ UNCHANGED pending
  ELSE UNCHANGED mapVars

\* register_real_session_id
Register(i, r) ==
  IF pending[i] # None
  THEN /\ pending' = [pending EXCEPT ![i] = None]
       /\ sessions' = [sessions EXCEPT ![r] = pending[i]]
       /\ tempToReal' = [tempToReal EXCEPT ![i] = r]
       /\ realToTemp' = [realToTemp EXCEPT ![r] = i]
  ELSE UNCHANGED mapVars

\* A session_info event, up to the lock and after it
SessionInfo(t) ==
  /\ ~granted
  /\ phase[t] = "using"
  /\ gen[t] = "reading"
  /\ temp[t] # None
  /\ t \notin cancelReq
  /\ phase' = [phase EXCEPT ![t] = "registering"]
  /\ Acquire(t)
  /\ UNCHANGED <<tree, parent, temp, captured, gen, session, cancelReq, stopVars, treeVars,
                 proc, process, pids, shielded, mapVars, victim, victimOf, allVars>>

RegisterRealSessionId(t) ==
  /\ phase[t] = "registering"
  /\ HasLock(t)
  /\ t \notin cancelReq
  /\ Register(temp[t], Real(t))
  /\ captured' = [captured EXCEPT ![t] = Real(t)]
  /\ temp' = [temp EXCEPT ![t] = None]
  /\ phase' = [phase EXCEPT ![t] = "using"]
  /\ Release
  /\ UNCHANGED <<tree, parent, gen, session, cancelReq, stopVars, treeVars, proc, process,
                 pids, shielded, victim, victimOf, allVars>>

\* remove_session, in the finally clause of the handler: the session is out of
\* the maps before stop() is awaited, its aliases go after that.
RemovedId(t) == IF captured[t] # None THEN captured[t] ELSE temp[t]

ForgetAlias(r) ==
  /\ realToTemp' = [realToTemp EXCEPT ![r] = None]
  /\ tempToReal' = IF realToTemp[r] = None THEN tempToReal
                   ELSE [tempToReal EXCEPT ![realToTemp[r]] = None]

AwaitStop(t, s, where) ==
  /\ Alive(process[s])
  /\ BeginStop(s)
  /\ phase' = [phase EXCEPT ![t] = where]
  /\ granted' = FALSE
  /\ UNCHANGED <<cancelReq, isProcessing, lockQueue>>

\* A slip in remove_session: a return that does not release the lock
EndTaskKeepsLock(t) ==
  /\ Done(t)
  /\ UNCHANGED <<proc, lockQueue, granted, victim, victimOf>>

EndTask(t) ==
  /\ Done(t)
  /\ Release
  /\ UNCHANGED <<proc, victim, victimOf>>

RemoveSession(t) ==
  /\ phase[t] = "leaving"
  /\ HasLock(t)
  /\ t \notin cancelReq
  /\ LET id == RemovedId(t)
         p == pending[id]
         s == sessions[id]
     IN  \/ /\ p # None
            /\ pending' = [pending EXCEPT ![id] = None]
            /\ UNCHANGED <<sessions, tempToReal, realToTemp>>
            /\ \/ AwaitStop(t, p, "dropping")
               \/ ~Alive(process[p]) /\ EndTask(t)
         \/ /\ p = None
            /\ s # None
            /\ sessions' = [sessions EXCEPT ![id] = None]
            /\ UNCHANGED pending
            /\ \/ AwaitStop(t, s, "removing") /\ UNCHANGED <<tempToReal, realToTemp>>
               \/ ~Alive(process[s]) /\ ForgetAlias(id) /\ EndTask(t)
         \/ /\ p = None
            /\ s = None
            /\ EndTask(t)
            /\ UNCHANGED mapVars
  /\ UNCHANGED <<tree, parent, temp, captured, gen, session, stopVars, currentTask,
                 process, pids, shielded, allVars>>

\* and when the process it waited for is gone
SessionRemoved(t) ==
  /\ ~granted
  /\ phase[t] \in {"removing", "dropping"}
  /\ ~Alive(victim)
  /\ t \notin cancelReq
  /\ pids' = Unregistered(victimOf)
  /\ IF phase[t] = "removing" THEN ForgetAlias(RemovedId(t))
                              ELSE UNCHANGED <<tempToReal, realToTemp>>
  /\ Done(t)
  /\ Release
  /\ victim' = None
  /\ victimOf' = None
  /\ UNCHANGED <<tree, parent, temp, captured, gen, session, stopVars, currentTask, proc,
                 process, shielded, pending, sessions, allVars>>

\* stop_all from one await to the next: of the sessions S that are left, it goes
\* past some that have no process, and waits for one that has, or is through.
StopAllGoesOn(S) ==
  LET idle == {s \in S : ~Alive(process[s])}
  IN  \/ /\ \E s \in S \ idle : BeginStop(s)
         /\ \E passed \in SUBSET idle : toStop' = S \ passed
         /\ stopper' = "stopping"
         /\ granted' = FALSE
         /\ UNCHANGED <<mapVars, lockQueue>>
      \/ /\ S = idle
         /\ toStop' = {}
         /\ pending' = [i \in Id |-> None]
         /\ sessions' = [i \in Id |-> None]
         /\ tempToReal' = [i \in Id |-> None]
         /\ realToTemp' = [i \in Id |-> None]
         /\ victim' = None
         /\ victimOf' = None
         /\ stopper' = "idle"
         /\ Release
         /\ UNCHANGED proc

StopAllBegins ==
  /\ stopper = "waiting"
  /\ HasLock(Stopper)
  /\ StopAllGoesOn(({pending[i] : i \in Id} \cup {sessions[i] : i \in Id}) \ {None})
  /\ UNCHANGED <<handlerVars, gen, session, cancelReq, stopVars, treeVars, process, pids,
                 shielded, stopAlls>>

StopAllStopped ==
  /\ ~granted
  /\ stopper = "stopping"
  /\ ~Alive(victim)
  /\ pids' = Unregistered(victimOf)
  /\ StopAllGoesOn(toStop \ {victimOf})
  /\ UNCHANGED <<handlerVars, gen, session, cancelReq, stopVars, treeVars, process,
                 shielded, stopAlls>>

-----------------------------------------------------------------------------
(* CLISession.start_task *)

\* The generator of t is over; its outer finally clause ran if it held the lock.
GeneratorEnds(t) ==
  /\ gen' = [gen EXCEPT ![t] = "over"]
  /\ pids' = IF gen[t] \in InGenerator THEN Unregistered(session[t]) ELSE pids

\* The handler is in its finally clause, at the manager's lock.
Leave(t) ==
  /\ phase' = [phase EXCEPT ![t] = "leaving"]
  /\ Acquire(t)

Untouched == <<tree, parent, temp, captured, session, stopVars, treeVars, mapVars, victim,
               victimOf, allVars>>

TakeCliLock(t) ==
  /\ ~granted
  /\ phase[t] = "using"
  /\ gen[t] = "queued"
  /\ t \notin cancelReq
  /\ CliLockFree(session[t])
  /\ gen' = [gen EXCEPT ![t] = "spawning"]
  /\ UNCHANGED <<Untouched, phase, lockQueue, granted, cancelReq, proc, process, pids, shielded>>

\* A slip in start_task: register_pid is not called
SpawnedUnregistered(t) ==
  /\ ~granted
  /\ gen[t] = "spawning"
  /\ t \notin cancelReq
  /\ proc' = [proc EXCEPT ![t] = "running"]
  /\ process' = [process EXCEPT ![session[t]] = t]
  /\ gen' = [gen EXCEPT ![t] = "reading"]
  /\ UNCHANGED <<Untouched, phase, lockQueue, granted, cancelReq, pids, shielded>>

Spawned(t) ==
  /\ ~granted
  /\ gen[t] = "spawning"
  /\ t \notin cancelReq
  /\ proc' = [proc EXCEPT ![t] = "running"]
  /\ process' = [process EXCEPT ![session[t]] = t]
  /\ pids' = pids \cup {t}
  /\ gen' = [gen EXCEPT ![t] = "reading"]
  /\ UNCHANGED <<Untouched, phase, lockQueue, granted, cancelReq, shielded>>

SpawnFails(t) ==
  /\ ~granted
  /\ gen[t] = "spawning"
  /\ t \notin cancelReq
  /\ GeneratorEnds(t)
  /\ Leave(t)
  /\ UNCHANGED <<Untouched, cancelReq, proc, process, shielded>>

\* The end of stdout, then of stderr; both may come before the exit
StdoutEnds(t) ==
  /\ ~granted
  /\ phase[t] = "using"
  /\ gen[t] = "reading"
  /\ t \notin cancelReq
  /\ gen' = [gen EXCEPT ![t] = "draining"]
  /\ UNCHANGED <<Untouched, phase, lockQueue, granted, cancelReq, proc, process, pids, shielded>>

StderrEnds(t) ==
  /\ ~granted
  /\ gen[t] = "draining"
  /\ t \notin cancelReq
  /\ gen' = [gen EXCEPT ![t] = "waiting"]
  /\ UNCHANGED <<Untouched, phase, lockQueue, granted, cancelReq, proc, process, pids, shielded>>

\* process.wait() returns, the exit event is handled, the loop is over
ProcessWaited(t) ==
  /\ ~granted
  /\ gen[t] = "waiting"
  /\ t \notin cancelReq
  /\ ~Alive(process[session[t]])
  /\ GeneratorEnds(t)
  /\ Leave(t)
  /\ UNCHANGED <<Untouched, cancelReq, proc, process, shielded>>

\* An event cannot be handled: the handler leaves the loop, and the generator
\* it abandons is closed by a task of its own, which awaits stderr.
HandlerFails(t) ==
  /\ ~granted
  /\ phase[t] = "using"
  /\ gen[t] = "reading"
  /\ t \notin cancelReq
  /\ gen' = [gen EXCEPT ![t] = "closing"]
  /\ Leave(t)
  /\ UNCHANGED <<Untouched, cancelReq, proc, process, pids, shielded>>

\* stderr ends in the inner finally clause: the generator raises, or is closed
GeneratorCloses(t) ==
  /\ ~granted
  /\ gen[t] = "closing"
  /\ phase[t] = "using" => t \notin cancelReq
  /\ GeneratorEnds(t)
  /\ IF phase[t] = "using" THEN Leave(t) ELSE UNCHANGED <<phase, lockQueue, granted>>
  /\ UNCHANGED <<Untouched, cancelReq, proc, process, shielded>>

\* The shielded stop() of a cancelled generator is done
StopReturns(t) ==
  /\ ~granted
  /\ t \in shielded
  /\ ~Alive(t)
  /\ gen[t] = "stopping" => t \notin cancelReq
  /\ shielded' = shielded \ {t}
  /\ pids' = Unregistered(session[t])
  /\ gen' = [gen EXCEPT ![t] = IF @ = "stopping" THEN "closing" ELSE @]
  /\ UNCHANGED <<Untouched, phase, lockQueue, granted, cancelReq, proc, process>>

-----------------------------------------------------------------------------
(* CancelledError arrives where the task is suspended *)

\* A slip in start_task: no except clause for CancelledError
CancelWithoutStop(t) ==
  /\ phase[t] = "using"
  /\ cancelReq' = cancelReq \ {t}
  /\ \/ /\ gen[t] = "reading"
        /\ gen' = [gen EXCEPT ![t] = "closing"]
        /\ UNCHANGED <<phase, lockQueue, granted, pids>>
     \/ /\ gen[t] \in {"queued", "spawning", "draining", "waiting", "closing"}
        /\ GeneratorEnds(t)
        /\ Leave(t)
  /\ UNCHANGED <<Untouched, process, shielded, proc>>

CancelInGenerator(t) ==
  /\ phase[t] = "using"
  /\ cancelReq' = cancelReq \ {t}
  /\ \/ /\ gen[t] = "reading"        \* await asyncio.shield(self.stop())
        /\ gen' = [gen EXCEPT ![t] = "stopping"]
        /\ shielded' = shielded \cup {t}
        /\ proc' = [proc EXCEPT ![t] = IF @ = "running" THEN "signalled" ELSE @]
        /\ UNCHANGED <<phase, lockQueue, granted, pids>>
     \/ /\ gen[t] = "stopping"       \* the inner finally clause is next
        /\ gen' = [gen EXCEPT ![t] = "closing"]
        /\ UNCHANGED <<phase, lockQueue, granted, pids, shielded, proc>>
     \/ /\ gen[t] \in {"queued", "spawning", "draining", "waiting", "closing"}
        /\ GeneratorEnds(t)
        /\ Leave(t)
        /\ UNCHANGED <<shielded, proc>>
  /\ UNCHANGED <<Untouched, process>>

CancelAtLock(t) ==
  /\ \/ /\ phase[t] = "getting"
        /\ Done(t)
        /\ lockQueue' = Without(t)
        /\ UNCHANGED <<granted, gen, cut>>
     \/ /\ phase[t] = "registering"   \* the handler abandons its generator
        /\ phase' = [phase EXCEPT ![t] = "leaving"]
        /\ lockQueue' = Append(Without(t), t)
        /\ granted' = (Without(t) = <<>>)
        /\ gen' = [gen EXCEPT ![t] = "closing"]
        /\ cancelReq' = cancelReq \ {t}
        /\ UNCHANGED <<isProcessing, cut>>
     \/ /\ phase[t] = "leaving"
        /\ Done(t)
        /\ cut' = cut \cup {t}
        /\ lockQueue' = Without(t)
        /\ UNCHANGED <<granted, gen>>
  /\ UNCHANGED <<tree, parent, temp, captured, session, asked, overlapped, currentTask, mapVars,
                 victim, victimOf, allVars, proc, process, pids, shielded>>

\* remove_session is cancelled while its stop() waits: what follows is skipped
CancelInRemove(t) ==
  /\ phase[t] \in {"removing", "dropping"}
  /\ Done(t)
  /\ cut' = cut \cup {t}
  /\ Release
  /\ victim' = None
  /\ victimOf' = None
  /\ UNCHANGED <<tree, parent, temp, captured, gen, session, asked, overlapped, currentTask, proc,
                 process, pids, shielded, mapVars, allVars>>

DeliverCancel(t) ==
  /\ ~granted
  /\ t \in cancelReq
  /\ CancelInGenerator(t) \/ CancelAtLock(t) \/ CancelInRemove(t)

-----------------------------------------------------------------------------
(* The CLI processes and the 5-second timeout of stop() *)

Exits(p) ==
  /\ ~granted
  /\ Alive(p)
  /\ proc' = [proc EXCEPT ![p] = "exited"]
  /\ UNCHANGED <<Untouched, gen, phase, lockQueue, granted, cancelReq, process, pids, shielded>>

\* stop() kills the process the session has by now, and waits for that one
KilledInShield(p) ==
  /\ ~granted
  /\ p \in shielded
  /\ Alive(p)
  /\ proc' = [proc EXCEPT ![process[session[p]]] = "exited"]
  /\ UNCHANGED <<Untouched, gen, phase, lockQueue, granted, cancelReq, process, pids, shielded>>

KilledByHolder ==
  /\ ~granted
  /\ Alive(victim)
  /\ proc' = [proc EXCEPT ![process[victimOf]] = "exited"]
  /\ victim' = process[victimOf]
  /\ UNCHANGED <<handlerVars, gen, session, cancelReq, stopVars, treeVars, process, pids,
                 shielded, mapVars, lockQueue, granted, victimOf, allVars>>

-----------------------------------------------------------------------------
Commands == \/ \E t \in Task : \/ \E r \in Tree, p \in Id \cup {None} : Start(t, r, p)
                              \/ StopReply(t)
            \/ StopAll

\* What the holder of the lock does first
LockSteps ==
  \/ \E t \in Task : GetOrCreateSession(t) \/ RegisterRealSessionId(t) \/ RemoveSession(t)
  \/ StopAllBegins

Handlers ==
  \E t \in Task : SessionInfo(t) \/ SessionRemoved(t) \/ HandlerFails(t) \/ DeliverCancel(t)

Generators ==
  \E t \in Task : \/ TakeCliLock(t) \/ Spawned(t) \/ SpawnFails(t) \/ StdoutEnds(t)
                  \/ StderrEnds(t) \/ ProcessWaited(t) \/ GeneratorCloses(t) \/ StopReturns(t)

Processes == (\E p \in Task : Exits(p) \/ KilledInShield(p)) \/ KilledByHolder

Next == LockSteps \/ Commands \/ Handlers \/ Generators \/ StopAllStopped \/ Processes

Spec == Init /\ [][Next]_vars

(***************************************************************************)
(* The event loop steps what is ready, create_subprocess_exec returns or   *)
(* raises, a killed process exits, and the pipes of one that has exited    *)
(* end.  A CLI that was not killed need never exit or close its pipes.     *)
(***************************************************************************)
Fairness ==
  /\ \A t \in Task :
       /\ WF_vars(GetOrCreateSession(t) \/ RegisterRealSessionId(t) \/ RemoveSession(t))
       /\ WF_vars(SessionRemoved(t))
       /\ WF_vars(DeliverCancel(t))
       /\ WF_vars(TakeCliLock(t))
       /\ WF_vars(Spawned(t) \/ SpawnFails(t))
       /\ WF_vars(~Alive(t) /\ (StdoutEnds(t) \/ StderrEnds(t) \/ GeneratorCloses(t)))
       /\ WF_vars(ProcessWaited(t))
       /\ WF_vars(StopReturns(t))
       /\ WF_vars(KilledInShield(t))
  /\ WF_vars(KilledByHolder)
  /\ WF_vars(StopAllBegins \/ StopAllStopped)

FairSpec == Spec /\ Fairness

-----------------------------------------------------------------------------
(* Properties *)

\* A session object is in the maps at most once, whatever get, register and
\* remove calls interleave. (CLISessionManager)
OneEntryPerSession ==
  \A s \in Task :
    Cardinality({i \in Id : pending[i] = s}) + Cardinality({i \in Id : sessions[i] = s}) <= 1

\* A running process is in the pid registry, for the exit handler to kill, or
\* its task is at work or is still to remove the session.
RunningIsTracked ==
  \A t \in Task : Alive(t) /\ t \notin overlapped \cup cut =>
    t \in pids \/ phase[t] \in {"leaving", "removing", "dropping"}

\* "/stop" on a task that still reads its CLI ends the task and its process
\* in the end, also when the CLI would never exit by itself, unless its tree was
\* freed under it or a second "/stop" arrives while remove_session waits.
StopKillsProcess ==
  \A t \in Task :
    t \in cancelReq /\ phase[t] \in Reading
      ~> \/ phase[t] = "done" /\ ~Alive(t)
         \/ t \in overlapped \cup cut

\* Once its CLI process has exited, a task ends: no one waits for ever on the
\* two locks. (manager _lock, _cli_lock)
EndsAfterProcess == \A t \in Task : proc[t] = "exited" ~> phase[t] = "done"

\* A cancelled task does not leave its CLI process behind.
\* (start_task: "Cancelling the handler task should not leave a Claude CLI
\* subprocess running in the background")
CancelLeavesNoProcess ==
  \A t \in Task : t \in cancelReq /\ phase[t] \in Reading ~> phase[t] = "done" /\ ~Alive(t)
=============================================================================

---------------------------- MODULE SessionStore ----------------------------
(***************************************************************************)
(* The persistent session store (messaging/session.py): one JSON file, a   *)
(* dirty flag and a debounced save.  The event-loop thread mutates the     *)
(* store and, in clear_all and flush_pending_save, writes the file itself; *)
(* every threading.Timer that has gone off runs _save_from_timer in a      *)
(* thread of its own.  The lock covers the snapshot and never the write.   *)
(*                                                                         *)
(* The data are abstracted to one version per key of the store: a tree, a  *)
(* chat's message log.  A version is the number of the mutation that wrote *)
(* it; 0 means absent.                                                     *)
(***************************************************************************)
EXTENDS Naturals, FiniteSets

CONSTANTS
  Key,           \* trees and message logs
  Timer,         \* bound: the timer objects that can exist at a time
  None,
  MaxMutations,  \* bound: mutations of the store
  MaxFailures,   \* bound: writes of the file that fail
  MaxCrashes     \* bound: crashes of the process

ASSUME NoneIsNoTimer == None \notin Timer
ASSUME NoneIsNoContent == None \notin [Key -> Nat]
ASSUME BoundsAreNats ==
  MaxMutations \in Nat /\ MaxFailures \in Nat /\ MaxCrashes \in Nat

VARIABLES
  mem,        \* _trees, _node_to_tree and _message_log
  disk,       \* the file
  dirty,      \* _dirty
  saveTimer,  \* _save_timer
  timer,      \* each timer object and the thread it becomes
  snap,       \* the snapshot a timer thread is writing
  loop,       \* the snapshot the loop thread is writing, or None
  mutations, failures, crashes,  \* how much of the bounds is used
  failed,     \* a write failed and nothing was scheduled since
  overlapped  \* history: the last snapshot was taken during another's write

vars == <<mem, disk, dirty, saveTimer, timer, snap, loop,
          mutations, failures, crashes, failed, overlapped>>

Content == [Key -> 0..MaxMutations]
Empty == [k \in Key |-> 0]

TypeOK ==
  /\ mem \in Content
  /\ disk \in Content
  /\ dirty \in BOOLEAN
  /\ saveTimer \in Timer \cup {None}
  /\ timer \in [Timer -> {"idle", "armed", "fired", "writing"}]
  /\ snap \in [Timer -> Content]
  /\ loop \in Content \cup {None}
  /\ mutations \in 0..MaxMutations
  /\ failures \in 0..MaxFailures
  /\ crashes \in 0..MaxCrashes
  /\ failed \in BOOLEAN
  /\ overlapped \in BOOLEAN

Init ==
  /\ mem = Empty
  /\ disk = Empty
  /\ dirty = FALSE
  /\ saveTimer = None
  /\ timer = [t \in Timer |-> "idle"]
  /\ snap = [t \in Timer |-> Empty]
  /\ loop = None
  /\ mutations = 0
  /\ failures = 0
  /\ crashes = 0
  /\ failed = FALSE
  /\ overlapped = FALSE

-----------------------------------------------------------------------------
\* Timer.cancel() stops a timer that has not gone off; the callback of one
\* that has runs on.
Cancelled == [t \in Timer |-> IF t = saveTimer /\ timer[t] = "armed" THEN "idle" ELSE timer[t]]

\* A slip in _schedule_save: the early exit after cancelling the old timer
ScheduleCancelsOnly ==
  /\ dirty' = TRUE
  /\ failed' = FALSE
  /\ \/ /\ saveTimer # None
        /\ timer' = Cancelled
        /\ saveTimer' = None
     \/ /\ saveTimer = None
        /\ \E t \in Timer : /\ timer[t] = "idle"
                            /\ timer' = [timer EXCEPT ![t] = "armed"]
                            /\ saveTimer' = t

\* _schedule_save
ScheduleSave ==
  /\ dirty' = TRUE
  /\ failed' = FALSE
  /\ \E t \in Timer : /\ Cancelled[t] = "idle"
                      /\ timer' = [Cancelled EXCEPT ![t] = "armed"]
                      /\ saveTimer' = t

\* save_tree, register_node, record_message_id, remove_node_mappings: the
\* method changes one key and schedules a save.
Save(k) ==
  /\ loop = None
  /\ mutations < MaxMutations
  /\ mutations' = mutations + 1
  /\ mem' = [mem EXCEPT ![k] = mutations + 1]
  /\ ScheduleSave
  /\ UNCHANGED <<disk, snap, loop, failures, crashes, overlapped>>

\* remove_tree
Remove(k) ==
  /\ loop = None
  /\ mem[k] # 0
  /\ mem' = [mem EXCEPT ![k] = 0]
  /\ ScheduleSave
  /\ UNCHANGED <<disk, snap, loop, mutations, failures, crashes, overlapped>>

\* A snapshot does not wait for the writes of those before it. (history)
SnapshotTaken == overlapped' = (loop # None \/ \E t \in Timer : timer[t] = "writing")

\* _flush_save with the given content of the store; the loop thread then
\* leaves the lock and writes, and runs nothing else until it has.
Flush(content) ==
  /\ loop = None
  /\ SnapshotTaken
  /\ mem' = content
  /\ timer' = Cancelled
  /\ saveTimer' = None
  /\ dirty' = FALSE
  /\ loop' = content
  /\ UNCHANGED <<disk, snap, mutations, failures, crashes, failed>>

ClearAll == Flush(Empty)

\* A slip in flush_pending_save: the pending timer is cancelled and the write
\* is left to it
FlushOnlyCancels ==
  /\ loop = None
  /\ timer' = Cancelled
  /\ saveTimer' = None
  /\ UNCHANGED <<mem, disk, dirty, snap, loop, mutations, failures, crashes, failed, overlapped>>

FlushPendingSave == Flush(mem)

LoopWrites ==
  /\ loop # None
  /\ disk' = loop
  /\ loop' = None
  /\ UNCHANGED <<mem, dirty, saveTimer, timer, snap, mutations, failures, crashes, failed,
                  overlapped>>

LoopWriteFails ==
  /\ loop # None
  /\ failures < MaxFailures
  /\ failures' = failures + 1
  /\ loop' = None
  /\ dirty' = TRUE
  /\ failed' = TRUE
  /\ UNCHANGED <<mem, disk, saveTimer, timer, snap, mutations, crashes, overlapped>>

-----------------------------------------------------------------------------
(* _save_from_timer, in the timer's thread *)

TimerFires(t) ==
  /\ timer[t] = "armed"
  /\ timer' = [timer EXCEPT ![t] = "fired"]
  /\ UNCHANGED <<mem, disk, dirty, saveTimer, snap, loop, mutations, failures, crashes, failed,
                  overlapped>>

\* A slip in the callback: the flag is cleared after the write, not with the
\* snapshot, so that a change made during the write is taken for saved.
TimerWritesThenCleans(t) ==
  /\ timer[t] = "writing"
  /\ disk' = snap[t]
  /\ timer' = [timer EXCEPT ![t] = "idle"]
  /\ dirty' = FALSE
  /\ UNCHANGED <<mem, saveTimer, snap, loop, mutations, failures, crashes, failed, overlapped>>

\* The first locked part: nothing to do, or a snapshot
TimerSnapshots(t) ==
  /\ timer[t] = "fired"
  /\ saveTimer' = None
  /\ IF dirty
     THEN /\ SnapshotTaken
          /\ snap' = [snap EXCEPT ![t] = mem]
          /\ dirty' = FALSE
          /\ timer' = [timer EXCEPT ![t] = "writing"]
     ELSE /\ timer' = [timer EXCEPT ![t] = "idle"]
          /\ UNCHANGED <<snap, dirty, overlapped>>
  /\ UNCHANGED <<mem, disk, loop, mutations, failures, crashes, failed>>

\* _write_data succeeds: os.replace installs the whole snapshot
TimerWrites(t) ==
  /\ timer[t] = "writing"
  /\ disk' = snap[t]
  /\ timer' = [timer EXCEPT ![t] = "idle"]
  /\ snap' = [snap EXCEPT ![t] = Empty]
  /\ UNCHANGED <<mem, dirty, saveTimer, loop, mutations, failures, crashes, failed, overlapped>>

\* It raises: the old file is still there, the flag is set, and no timer is.
TimerWriteFails(t) ==
  /\ timer[t] = "writing"
  /\ failures < MaxFailures
  /\ failures' = failures + 1
  /\ timer' = [timer EXCEPT ![t] = "idle"]
  /\ snap' = [snap EXCEPT ![t] = Empty]
  /\ dirty' = TRUE
  /\ failed' = TRUE
  /\ UNCHANGED <<mem, disk, saveTimer, loop, mutations, crashes, overlapped>>

-----------------------------------------------------------------------------
\* _load: the store holds what the file held
Loaded ==
  /\ mem' = disk
  /\ timer' = [t \in Timer |-> "idle"]
  /\ saveTimer' = None
  /\ dirty' = FALSE
  /\ UNCHANGED mutations

\* cleanup_stale_nodes marks the lost prompts as failed, in the trees `stale`,
\* and sync_from_tree_data saves them
StaleMarked(stale) ==
  /\ mutations < MaxMutations
  /\ mutations' = mutations + 1
  /\ mem' = [k \in Key |-> IF k \in stale THEN mutations + 1 ELSE disk[k]]
  /\ \E t \in Timer : /\ timer' = [u \in Timer |-> IF u = t THEN "armed" ELSE "idle"]
                      /\ saveTimer' = t
  /\ dirty' = TRUE

\* The process dies and is started again: _load, and _restore_tree_state
Restart(stale) ==
  /\ crashes < MaxCrashes
  /\ crashes' = crashes + 1
  /\ stale \subseteq {k \in Key : disk[k] # 0}
  /\ snap' = [t \in Timer |-> Empty]
  /\ loop' = None
  /\ failed' = FALSE
  /\ overlapped' = FALSE
  /\ IF stale = {} THEN Loaded ELSE StaleMarked(stale)
  /\ UNCHANGED <<disk, failures>>

Next ==
  \/ \E k \in Key : Save(k) \/ Remove(k)
  \/ ClearAll
  \/ FlushPendingSave
  \/ LoopWrites
  \/ LoopWriteFails
  \/ \E t \in Timer : \/ TimerFires(t)
                      \/ TimerSnapshots(t)
                      \/ TimerWrites(t)
                      \/ TimerWriteFails(t)
  \/ \E stale \in SUBSET Key : Restart(stale)

Spec == Init /\ [][Next]_vars

\* Threads are scheduled, timers go off, and a write ends.
Fairness ==
  /\ WF_vars(LoopWrites)
  /\ \A t \in Timer : /\ WF_vars(TimerFires(t))
                      /\ WF_vars(TimerSnapshots(t))
                      /\ WF_vars(TimerWrites(t))

FairSpec == Spec /\ Fairness

-----------------------------------------------------------------------------
(* Properties *)

\* A change that no snapshot has taken has a thread coming for it, whatever
\* the order of cancelled, firing and waiting timers, unless the last write
\* failed. (_schedule_save, _save_from_timer)
DirtyHasSaver ==
  dirty /\ ~failed => \E t \in Timer : timer[t] \in {"armed", "fired"}

Quiet ==
  /\ ~dirty
  /\ loop = None
  /\ \A t \in Timer : timer[t] \in {"idle", "armed", "fired"}

\* When nothing is marked as unsaved and no write is going on, the file holds
\* the store: after any mixture of debounced saves, flushes, failed writes and
\* restarts in which the last snapshot was not taken while another thread was
\* still writing an older one. Nothing in the code prevents that: the older
\* write may then end last, and the store is dirty no more; but the next
\* snapshot taken alone mends it. (_save_from_timer, _flush_save, _write_data)
QuietMeansSaved == Quiet /\ ~overlapped => disk = mem

\* The store is written in the end, unless a write has failed and nothing was
\* saved since, or the last snapshot was taken during another's write.
\* (the debounced save)
EventuallySaved == disk # mem ~> disk = mem \/ failed \/ overlapped
=============================================================================

-------------------------- MODULE AppRuntimeProofs --------------------------
(***************************************************************************)
(* The session store (SessionStore) and the application around it          *)
(* (AppRuntime), for any number of keys, timers, changes, providers and    *)
(* prompts.  An unsaved change has a thread coming for it, and a store at  *)
(* rest is on disk unless its last snapshot was taken during another       *)
(* thread's write.  The registry is empty after its cleanup and stays so,  *)
(* and what was flushed is on disk when the process exits, unless a timer  *)
(* was writing when it was flushed.                                        *)
(***************************************************************************)
EXTENDS AppRuntime, TLAPS

-----------------------------------------------------------------------------
(* The session store                                                       *)

TimerStates == {"idle", "armed", "fired", "writing"}

StoreTypes ==
  /\ mem \in [Key -> Nat]
  /\ disk \in [Key -> Nat]
  /\ dirty \in BOOLEAN
  /\ timer \in [Timer -> TimerStates]
  /\ snap \in [Timer -> [Key -> Nat]]
  /\ loop \in [Key -> Nat] \cup {None}
  /\ mutations \in Nat
  /\ failed \in BOOLEAN
  /\ overlapped \in BOOLEAN

Writing(t) == timer[t] = "writing"

\* When the last snapshot was taken alone, one thread writes at a time, and
\* what it writes is the store unless that has changed since; if nobody
\* writes, the file is.
OneWriter ==
  /\ loop # None => \A t \in Timer : ~Writing(t)
  /\ \A t, u \in Timer : Writing(t) /\ Writing(u) => t = u
WriterIsCurrent ==
  ~dirty => /\ loop # None => loop = mem
            /\ \A t \in Timer : Writing(t) => snap[t] = mem
FileIsCurrent ==
  ~dirty /\ loop = None /\ (\A t \in Timer : ~Writing(t)) => disk = mem

IInv ==
  /\ StoreTypes
  /\ ~overlapped => OneWriter /\ WriterIsCurrent /\ FileIsCurrent

-----------------------------------------------------------------------------
\* Cancelling a timer leaves every writer and every fired timer as it is.
LEMMA CancelledKeeps ==
  ASSUME StoreTypes
  PROVE  /\ Cancelled \in [Timer -> TimerStates]
         /\ \A t \in Timer : (Cancelled[t] = "writing") <=> Writing(t)
BY DEF StoreTypes, Cancelled, TimerStates, Writing

\* Scheduling arms a timer and makes no writer.
LEMMA Scheduling ==
  ASSUME StoreTypes, ScheduleSave
  PROVE  /\ timer' \in [Timer -> TimerStates]
         /\ \E t \in Timer : timer'[t] = "armed"
         /\ \A t \in Timer : Writing(t)' <=> Writing(t)
         /\ dirty' = TRUE
         /\ failed' = FALSE
<1>1. PICK t \in Timer : Cancelled[t] = "idle" /\ timer' = [Cancelled EXCEPT ![t] = "armed"]
  BY DEF ScheduleSave
<1>2. timer' \in [Timer -> TimerStates] /\ timer'[t] = "armed"
  BY <1>1, CancelledKeeps DEF TimerStates
<1>3. \A u \in Timer : Writing(u)' <=> Writing(u)
  BY <1>1, CancelledKeeps DEF Writing
<1> QED BY <1>2, <1>3 DEF ScheduleSave

LEMMA InitiallyInv == Init => IInv /\ DirtyHasSaver
<1> SUFFICES ASSUME Init PROVE IInv /\ DirtyHasSaver OBVIOUS
<1>1. Empty \in [Key -> Nat] BY DEF Empty
<1> QED
  BY <1>1 DEF Init, IInv, StoreTypes, OneWriter, WriterIsCurrent, FileIsCurrent, Writing,
              TimerStates, DirtyHasSaver

-----------------------------------------------------------------------------
\* The types.
LEMMA TypesStep == StoreTypes /\ [Next]_vars => StoreTypes'
<1> SUFFICES ASSUME StoreTypes, [Next]_vars PROVE StoreTypes' OBVIOUS
<1> USE BoundsAreNats DEF StoreTypes, TimerStates
<1>1. ASSUME NEW k \in Key, Save(k) \/ Remove(k) PROVE StoreTypes'
  <2>1. ScheduleSave BY <1>1 DEF Save, Remove
  <2>2. timer' \in [Timer -> TimerStates] /\ dirty' = TRUE /\ failed' = FALSE
    BY <2>1, Scheduling
  <2>3. mem' \in [Key -> Nat] /\ mutations' \in Nat BY <1>1 DEF Save, Remove
  <2>4. UNCHANGED <<disk, snap, loop, overlapped>> BY <1>1 DEF Save, Remove
  <2> QED BY <2>2, <2>3, <2>4
<1>2. ASSUME NEW content \in [Key -> Nat], Flush(content) PROVE StoreTypes'
  BY <1>2, CancelledKeeps DEF Flush, SnapshotTaken
<1>3. Empty \in [Key -> Nat] BY DEF Empty
<1>4. CASE ClearAll BY <1>2, <1>3, <1>4 DEF ClearAll
<1>5. CASE FlushPendingSave BY <1>2, <1>5 DEF FlushPendingSave
<1>6. CASE LoopWrites \/ LoopWriteFails BY <1>6 DEF LoopWrites, LoopWriteFails
<1>7. ASSUME NEW t \in Timer, TimerFires(t) \/ TimerSnapshots(t) PROVE StoreTypes'
  BY <1>7 DEF TimerFires, TimerSnapshots, SnapshotTaken
<1>8. ASSUME NEW t \in Timer, TimerWrites(t) \/ TimerWriteFails(t) PROVE StoreTypes'
  BY <1>3, <1>8 DEF TimerWrites, TimerWriteFails
<1>9. ASSUME NEW stale \in SUBSET Key, Restart(stale) PROVE StoreTypes'
  <2>1. CASE stale = {} BY <1>3, <1>9, <2>1 DEF Restart, Loaded
  <2>2. CASE stale # {}
    <3>1. StaleMarked(stale) BY <1>9, <2>2 DEF Restart
    <3>2. mem' \in [Key -> Nat] /\ mutations' \in Nat BY <3>1 DEF StaleMarked
    <3>3. PICK t \in Timer : timer' = [u \in Timer |-> IF u = t THEN "armed" ELSE "idle"]
      BY <3>1 DEF StaleMarked
    <3>4. timer' \in [Timer -> TimerStates] BY <3>3
    <3>5. dirty' \in BOOLEAN /\ failed' \in BOOLEAN /\ overlapped' \in BOOLEAN
      BY <1>9, <3>1 DEF Restart, StaleMarked
    <3>6. disk' \in [Key -> Nat] /\ loop' \in [Key -> Nat] \cup {None} BY <1>9 DEF Restart
    <3>7. snap' \in [Timer -> [Key -> Nat]] BY <1>3, <1>9 DEF Restart
    <3> QED BY <3>2, <3>4, <3>5, <3>6, <3>7
  <2> QED BY <2>1, <2>2
<1>10. CASE UNCHANGED vars BY <1>10 DEF vars
<1> QED BY <1>1, <1>4, <1>5, <1>6, <1>7, <1>8, <1>9, <1>10 DEF Next

\* A change either gets a timer of its own or is already some thread's to
\* take; a thread that ends without a snapshot had nothing to take.
LEMMA SaverStep == StoreTypes /\ DirtyHasSaver /\ [Next]_vars => DirtyHasSaver'
<1> SUFFICES ASSUME StoreTypes, DirtyHasSaver, [Next]_vars PROVE DirtyHasSaver' OBVIOUS
<1>1. ASSUME NEW k \in Key, Save(k) \/ Remove(k) PROVE DirtyHasSaver'
  BY <1>1, Scheduling DEF Save, Remove, DirtyHasSaver
<1>2. CASE ClearAll \/ FlushPendingSave
  BY <1>2 DEF ClearAll, FlushPendingSave, Flush, DirtyHasSaver
<1>3. CASE LoopWrites \/ LoopWriteFails
  BY <1>3 DEF LoopWrites, LoopWriteFails, DirtyHasSaver
<1>4. ASSUME NEW t \in Timer, TimerFires(t) PROVE DirtyHasSaver'
  BY <1>4 DEF TimerFires, DirtyHasSaver, StoreTypes
<1>5. ASSUME NEW t \in Timer, TimerSnapshots(t) PROVE DirtyHasSaver'
  BY <1>5 DEF TimerSnapshots, DirtyHasSaver, StoreTypes
<1>6. ASSUME NEW t \in Timer, TimerWrites(t) \/ TimerWriteFails(t) PROVE DirtyHasSaver'
  BY <1>6 DEF TimerWrites, TimerWriteFails, DirtyHasSaver, StoreTypes
<1>7. ASSUME NEW stale \in SUBSET Key, Restart(stale) PROVE DirtyHasSaver'
  <2>1. CASE stale = {} BY <1>7, <2>1 DEF Restart, Loaded, DirtyHasSaver
  <2>2. CASE stale # {} BY <1>7, <2>2 DEF Restart, StaleMarked, DirtyHasSaver
  <2> QED BY <2>1, <2>2
<1>8. CASE UNCHANGED vars BY <1>8 DEF vars, DirtyHasSaver
<1> QED BY <1>1, <1>2, <1>3, <1>4, <1>5, <1>6, <1>7, <1>8 DEF Next

\* Each write ends what one snapshot began, if that was taken alone; a
\* snapshot taken alone makes good what the last one left behind.
LEMMA WriterStep ==
  ASSUME IInv, [Next]_vars
  PROVE  IInv'
<1>0. StoreTypes' BY TypesStep DEF IInv
<1> SUFFICES ASSUME ~overlapped' PROVE IInv' BY <1>0 DEF IInv
<1> USE DEF IInv, StoreTypes, OneWriter, WriterIsCurrent, FileIsCurrent
<1>1. ASSUME NEW k \in Key, Save(k) \/ Remove(k) PROVE IInv'
  BY <1>0, <1>1, Scheduling DEF Save, Remove, Writing
<1>2. ASSUME NEW content \in [Key -> Nat], Flush(content) PROVE IInv'
  <2>1. \A t \in Timer : ~Writing(t)' BY <1>2, CancelledKeeps DEF Flush, SnapshotTaken, Writing
  <2>2. loop' = mem' /\ loop' # None BY <1>2, NoneIsNoContent DEF Flush
  <2> QED BY <1>0, <2>1, <2>2
<1>3. Empty \in [Key -> Nat] BY DEF Empty
<1>4. CASE ClearAll BY <1>2, <1>3, <1>4 DEF ClearAll
<1>5. CASE FlushPendingSave BY <1>2, <1>5 DEF FlushPendingSave
<1>6. CASE LoopWrites BY <1>0, <1>6 DEF LoopWrites, Writing
<1>7. CASE LoopWriteFails BY <1>0, <1>7 DEF LoopWriteFails, Writing
<1>8. ASSUME NEW t \in Timer, TimerFires(t) PROVE IInv'
  <2>1. \A u \in Timer : Writing(u)' <=> Writing(u) BY <1>8 DEF TimerFires, Writing
  <2> QED BY <1>0, <1>8, <2>1 DEF TimerFires
<1>9. ASSUME NEW t \in Timer, TimerSnapshots(t) PROVE IInv'
  <2>1. CASE dirty
    <3>1. \A u \in Timer : Writing(u)' <=> u = t
      BY <1>9, <2>1 DEF TimerSnapshots, SnapshotTaken, Writing
    <3>2. loop' = None /\ snap'[t] = mem' BY <1>9, <2>1 DEF TimerSnapshots, SnapshotTaken
    <3> QED BY <1>0, <3>1, <3>2
  <2>2. CASE ~dirty
    <3>1. \A u \in Timer : Writing(u)' <=> Writing(u)
      BY <1>9, <2>2 DEF TimerSnapshots, Writing
    <3> QED BY <1>0, <1>9, <2>2, <3>1 DEF TimerSnapshots
  <2> QED BY <2>1, <2>2
<1>10. ASSUME NEW t \in Timer, TimerWrites(t) PROVE IInv'
  <2>1. Writing(t) /\ loop' = None BY <1>10 DEF TimerWrites, Writing
  <2>2. \A u \in Timer : ~Writing(u)' BY <1>10, <2>1 DEF TimerWrites, Writing
  <2>3. ~dirty' => disk' = mem' BY <1>10, <2>1 DEF TimerWrites
  <2> QED BY <1>0, <2>1, <2>2, <2>3
<1>11. ASSUME NEW t \in Timer, TimerWriteFails(t) PROVE IInv'
  BY <1>0, <1>11 DEF TimerWriteFails, Writing
<1>12. ASSUME NEW stale \in SUBSET Key, Restart(stale) PROVE IInv'
  <2>1. loop' = None BY <1>12 DEF Restart
  <2>2. CASE stale = {} BY <1>0, <1>12, <2>1, <2>2 DEF Restart, Loaded, Writing
  <2>3. CASE stale # {} BY <1>0, <1>12, <2>1, <2>3 DEF Restart, StaleMarked, Writing
  <2> QED BY <2>2, <2>3
<1>13. CASE UNCHANGED vars BY <1>0, <1>13 DEF vars, Writing
<1> QED BY <1>1, <1>4, <1>5, <1>6, <1>7, <1>8, <1>9, <1>10, <1>11, <1>12, <1>13 DEF Next

-----------------------------------------------------------------------------
\* However saves, cancelled timers and failed writes are mixed, a change that
\* is not saved has a timer that will take it, unless the last write failed
\* (_schedule_save, _save_from_timer).
THEOREM ChangesHaveASaver == Spec => []DirtyHasSaver
<1>1. Init => StoreTypes /\ DirtyHasSaver BY InitiallyInv DEF IInv
<1>2. StoreTypes /\ DirtyHasSaver /\ [Next]_vars => (StoreTypes /\ DirtyHasSaver)'
  BY TypesStep, SaverStep
<1> QED BY <1>1, <1>2, PTL DEF Spec

\* A store that is not dirty and not being written is on disk, unless its last
\* snapshot was taken while another thread was writing (_save_from_timer,
\* _flush_save).
THEOREM RestingStoreIsOnDisk == Spec => []QuietMeansSaved
<1>1. Init => IInv BY InitiallyInv
<1>2. IInv /\ [Next]_vars => IInv' BY WriterStep
<1>3. IInv => QuietMeansSaved BY DEF IInv, FileIsCurrent, QuietMeansSaved, Quiet, Writing
<1> QED BY <1>1, <1>2, <1>3, PTL DEF Spec

-----------------------------------------------------------------------------
(* The registry                                                            *)

Cleaned == {"limiter", "down", "failed", "exited"}
UnderRefresh == {"connecting", "serving", "chat", "cli"}

ProviderStates == {"absent", "open", "closed", "failed", "dropped"}

RefreshIsOver == phase \notin UnderRefresh => refresh \notin {"created", "asking"}

\* Whatever is open when cleanup begins is still ahead of it or was closed;
\* only the end of the cleanup drops a provider.
CleanupIsAhead ==
  /\ Cleaning => Open \subseteq left
  /\ phase \notin Cleaned => \A p \in Provider : provider[p] # "dropped"

RegistryInv ==
  /\ provider \in [Provider -> ProviderStates]
  /\ RefreshIsOver
  /\ CleanupIsAhead
  /\ CleanupIsComplete

\* The cleanup ends, because nothing is left or because time ran out.
LEMMA CleanupEndsStep ==
  ASSUME RegistryInv, Cleaning, CleanupEnds
  PROVE  RegistryInv'
<1> USE DEF RegistryInv
<1>1. phase' \in {"limiter", "failed"} /\ phase' = After(phase)
  BY DEF CleanupEnds, Cleaning, After
<1>2. provider' \in [Provider -> ProviderStates]
  BY DEF CleanupEnds, ProviderStates
<1>3. \A p \in Provider : provider'[p] = IF provider[p] = "open" THEN "dropped" ELSE provider[p]
  BY DEF CleanupEnds
<1>4. refresh' \notin {"created", "asking"}
  BY DEF CleanupEnds, RefreshIsOver, UnderRefresh, Cleaning
<1>5. \A p \in Provider : provider[p] # "dropped"
  BY DEF CleanupIsAhead, Cleaned, Cleaning
<1>6. left = {} => \A p \in Provider : provider[p] # "open"
  BY DEF CleanupIsAhead, Open
<1>7. left' = left /\ lists' = {} BY DEF CleanupEnds
<1>8. CleanupIsComplete' BY <1>3, <1>4, <1>5, <1>6, <1>7 DEF CleanupIsComplete
<1>9. CleanupIsAhead' BY <1>1 DEF CleanupIsAhead, Cleaned, Cleaning
<1>10. RefreshIsOver' BY <1>4 DEF RefreshIsOver
<1> QED BY <1>2, <1>8, <1>9, <1>10

\* A step of shutdown that is no cleanup is followed by the next.
LEMMA GoOnStep ==
  ASSUME RegistryInv, NEW next \in {"chat", "cli", "registry", "down"},
         phase = "limiter" <=> next = "down", phase \in UnderRefresh \cup {"limiter"},
         GoOn(next), UNCHANGED <<provider, lists>>
  PROVE  RegistryInv'
<1> USE DEF RegistryInv
<1>1. refresh' \in {"created", "asking"} => next # "registry" /\ refresh' = refresh
  BY DEF GoOn, CancelRefresh
<1>2. RefreshIsOver' BY <1>1 DEF RefreshIsOver, GoOn, UnderRefresh
<1>3. phase' = "registry" => left' = Open' BY DEF GoOn, Open
<1>4. CleanupIsAhead'
  BY <1>3 DEF CleanupIsAhead, GoOn, Cleaning, Cleaned, UnderRefresh
<1>5. CleanupIsComplete'
  BY <1>2 DEF CleanupIsComplete, GoOn, RefreshIsOver, UnderRefresh
<1> QED BY <1>2, <1>4, <1>5

\* Providers are created, at startup, for a request or by a refresh that is
\* under way.
LEMMA CreatedStep ==
  ASSUME RegistryInv, NEW ps \in SUBSET Provider, provider' = Got(ps),
         phase \notin Cleaned, ~Cleaning, phase' \notin Cleaned, ~Cleaning', RefreshIsOver'
  PROVE  RegistryInv'
<1>1. provider' \in [Provider -> ProviderStates] BY DEF RegistryInv, Got, ProviderStates
<1>2. \A p \in Provider : provider'[p] # "dropped" BY DEF RegistryInv, CleanupIsAhead, Got
<1> QED BY <1>1, <1>2 DEF RegistryInv, CleanupIsAhead, CleanupIsComplete, Cleaned

LEMMA RegistryStep == RegistryInv /\ [RuntimeNext]_allVars => RegistryInv'
<1> SUFFICES ASSUME RegistryInv, [RuntimeNext]_allVars PROVE RegistryInv' OBVIOUS
<1> DEFINE Shown == <<phase, provider, lists, refresh, left>>
<1>1. ASSUME UNCHANGED Shown PROVE RegistryInv'
  BY <1>1 DEF RegistryInv, RefreshIsOver, CleanupIsAhead, CleanupIsComplete, Cleaning, Open
<1>2. CASE ValidationStarts
  <2>1. PICK ps \in SUBSET Configured : provider' = Got(ps) BY <1>2 DEF ValidationStarts, Created
  <2>2. RefreshIsOver'
    BY <1>2 DEF ValidationStarts, RegistryInv, RefreshIsOver, UnderRefresh
  <2> QED BY <1>2, <2>1, <2>2, CreatedStep, ConfiguredAreProviders
          DEF ValidationStarts, Cleaned, Cleaning
<1>3. CASE ValidationEnds
  <2>1. provider' = provider BY <1>3 DEF ValidationEnds
  <2>2. phase = "validating" /\ phase' \in {"connecting", "failing"} BY <1>3 DEF ValidationEnds
  <2>3. phase' = "failing" => left' = Open /\ refresh' = refresh BY <1>3 DEF ValidationEnds
  <2> QED BY <2>1, <2>2, <2>3
          DEF RegistryInv, RefreshIsOver, CleanupIsAhead, CleanupIsComplete, Cleaning, Open,
              UnderRefresh, Cleaned
<1>4. CASE RefreshStarts
  <2>1. phase \in UnderRefresh BY <1>4 DEF RefreshStarts, RegistryInv, RefreshIsOver
  <2>2. PICK ps \in SUBSET (Provider \ lists) : provider' = Got(ps) BY <1>4 DEF RefreshStarts, Created
  <2> QED BY <1>4, <2>1, <2>2, CreatedStep
          DEF RefreshStarts, Cleaned, Cleaning, UnderRefresh, RefreshIsOver
<1>5. CASE RefreshEnds
  <2>1. phase \in UnderRefresh BY <1>5 DEF RefreshEnds, RegistryInv, RefreshIsOver
  <2> QED BY <1>5, <2>1
          DEF RefreshEnds, RegistryInv, RefreshIsOver, CleanupIsAhead, CleanupIsComplete, Cleaning,
              Open, UnderRefresh, Cleaned
<1>6. CASE Connect
  BY <1>6 DEF Connect, RegistryInv, RefreshIsOver, CleanupIsAhead, CleanupIsComplete, Cleaning, Open,
              UnderRefresh, Cleaned
<1>7. ASSUME NEW p \in Provider, HttpRequest(p) PROVE RegistryInv'
  BY <1>7, CreatedStep DEF HttpRequest, Cleaned, Cleaning, UnderRefresh, RefreshIsOver
<1>8. ASSUME NEW p \in Prompt, PromptStarts(p) \/ CliExits(p) \/ PromptEnds(p) PROVE RegistryInv'
  BY <1>1, <1>8 DEF PromptStarts, CliExits, PromptEnds
<1>9. CASE ShutdownBegins
  <2>1. PICK next \in {"chat", "registry"} : GoOn(next) BY <1>9 DEF ShutdownBegins
  <2> QED BY <1>9, <2>1, GoOnStep DEF ShutdownBegins, UnderRefresh
<1>10. CASE ChatStops BY <1>10, GoOnStep DEF ChatStops, UnderRefresh
<1>11. CASE CliStops BY <1>11, GoOnStep DEF CliStops, UnderRefresh
<1>12. CASE CleanupGoesOn
  <2>1. PICK p \in left, s \in {"closed", "failed"} : Close(p, s) BY <1>12 DEF CleanupGoesOn
  <2>2. Cleaning /\ UNCHANGED <<phase, lists, refresh>> BY <1>12 DEF CleanupGoesOn
  <2>3. provider' \in [Provider -> ProviderStates]
    BY <2>1 DEF RegistryInv, Close, ProviderStates
  <2>4. \A q \in Provider : (provider'[q] = provider[q] /\ q # p) \/ provider'[q] = s
    BY <2>1 DEF RegistryInv, Close
  <2>5. Open' \subseteq left' BY <2>1, <2>2, <2>4 DEF RegistryInv, CleanupIsAhead, Open, Close
  <2>6. \A q \in Provider : provider'[q] # "dropped"
    BY <2>2, <2>4 DEF RegistryInv, CleanupIsAhead, Cleaning, Cleaned
  <2> QED BY <2>2, <2>3, <2>5, <2>6
          DEF RegistryInv, RefreshIsOver, CleanupIsAhead, CleanupIsComplete, Cleaning
<1>13. CASE left = {} /\ CleanupEnds BY <1>13, CleanupEndsStep DEF CleanupEnds
<1>14. CASE LimiterStops BY <1>14, GoOnStep DEF LimiterStops
<1>15. ASSUME NEW step \in Steps, TimesOut(step) PROVE RegistryInv'
  <2>1. CASE Cleaning BY <1>15, <2>1, CleanupEndsStep DEF TimesOut
  <2>2. CASE ~Cleaning
    <3>1. phase \in {"chat", "cli", "limiter"} /\ GoOn(After(phase)) /\ UNCHANGED <<provider, lists>>
      BY <1>15, <2>2 DEF TimesOut, Steps, Cleaning
    <3>2. /\ After(phase) \in {"cli", "registry", "down"}
          /\ phase = "limiter" <=> After(phase) = "down"
      BY <3>1 DEF After
    <3> QED BY <3>1, <3>2, GoOnStep DEF UnderRefresh
  <2> QED BY <2>1, <2>2
<1>16. CASE Exit
  BY <1>16 DEF Exit, RegistryInv, RefreshIsOver, CleanupIsAhead, CleanupIsComplete, Cleaning, Open,
               UnderRefresh, Cleaned
<1>17. CASE StoreStep BY <1>1, <1>17 DEF StoreStep, runtimeVars
<1>18. CASE UNCHANGED allVars BY <1>1, <1>18 DEF allVars, runtimeVars
<1> QED BY <1>2, <1>3, <1>4, <1>5, <1>6, <1>7, <1>8, <1>9, <1>10, <1>11, <1>12, <1>13, <1>14, <1>15,
           <1>16, <1>17, <1>18
        DEF RuntimeNext

\* After its cleanup the registry holds no model list, no refresh can fill it
\* again, and, unless time ran out, every provider ever created was cleaned up
\* (runtime.py shutdown, registry.py cleanup).
THEOREM CleanupLeavesNothing == RuntimeSpec => []CleanupIsComplete
<1>1. RuntimeInit => RegistryInv
  BY DEF RuntimeInit, RegistryInv, RefreshIsOver, CleanupIsAhead, CleanupIsComplete, Cleaning,
         Cleaned, ProviderStates
<1>2. RegistryInv => CleanupIsComplete BY DEF RegistryInv
<1> QED BY <1>1, <1>2, RegistryStep, PTL DEF RuntimeSpec
-----------------------------------------------------------------------------
(* The flush                                                               *)

AtLeastFlushed(content) == \A k \in Key : content[k] >= flushed[k]

\* Versions only grow, so that nothing older than the flush is written after
\* it: neither by the loop, nor, if none was writing then, by a timer's thread,
\* nor left on disk.
FlushInv ==
  /\ \A k \in Key : mem[k] <= mutations
  /\ AtLeastFlushed(mem)
  /\ loop # None => AtLeastFlushed(loop)
  /\ alone => \A t \in Timer : Writing(t) => AtLeastFlushed(snap[t])
  /\ alone /\ loop = None /\ failures = 0 => AtLeastFlushed(disk)
  /\ phase = "exited" => loop = None

FlushTypes == StoreTypes /\ flushed \in [Key -> Nat] /\ failures \in Nat

\* The steps of the runtime as the store sees them.
StoreMoves ==
  \/ \E p \in Prompt : Save(p)
  \/ LoopWrites
  \/ LoopWriteFails
  \/ \E t \in Timer : TimerFires(t) \/ TimerSnapshots(t) \/ TimerWrites(t) \/ TimerWriteFails(t)
  \/ UNCHANGED storeVars

\* The runtime uses the store through the store's own operations, flushes it
\* as it begins to shut down, and leaves it alone once the process is gone.
LEMMA StoreUse ==
  ASSUME [RuntimeNext]_allVars
  PROVE  \/ /\ StoreMoves /\ UNCHANGED <<flushed, alone>>
            /\ phase' = "exited" => phase = "exited"
         \/ /\ FlushPendingSave /\ flushed' = mem /\ phase' = "chat"
            /\ alone' = \A t \in Timer : ~Writing(t)
         \/ Exit
<1> USE DEF StoreMoves
<1>1. CASE ValidationStarts \/ ValidationEnds \/ RefreshStarts \/ RefreshEnds \/ Connect
  BY <1>1 DEF ValidationStarts, ValidationEnds, RefreshStarts, RefreshEnds, Connect
<1>2. ASSUME NEW p \in Provider, HttpRequest(p)
      PROVE UNCHANGED <<storeVars, phase, flushed, alone>>
  BY <1>2 DEF HttpRequest
<1>3. ASSUME NEW p \in Prompt, PromptStarts(p) \/ PromptEnds(p)
      PROVE Save(p) /\ UNCHANGED <<phase, flushed, alone>>
  BY <1>3 DEF PromptStarts, PromptEnds
<1>4. ASSUME NEW p \in Prompt, CliExits(p) PROVE UNCHANGED <<storeVars, phase, flushed, alone>>
  BY <1>4 DEF CliExits
<1>5. CASE ShutdownBegins BY <1>5 DEF ShutdownBegins, GoOn, Writing
<1>6. CASE ChatStops \/ CliStops \/ CleanupGoesOn \/ LimiterStops
  BY <1>6 DEF ChatStops, CliStops, CleanupGoesOn, LimiterStops, GoOn
<1>7. CASE left = {} /\ CleanupEnds
  BY <1>7 DEF CleanupEnds, Cleaning, After
<1>8. ASSUME NEW step \in Steps, TimesOut(step)
      PROVE UNCHANGED <<storeVars, flushed, alone>> /\ phase' # "exited"
  <2>1. phase = step /\ After(phase) # "exited" BY <1>8 DEF TimesOut, Steps, After
  <2> QED BY <1>8, <2>1 DEF TimesOut, CleanupEnds, GoOn
<1>9. CASE StoreStep BY <1>9 DEF StoreStep, runtimeVars
<1>10. CASE UNCHANGED allVars BY <1>10 DEF allVars, runtimeVars
<1> QED BY <1>1, <1>2, <1>3, <1>4, <1>5, <1>6, <1>7, <1>8, <1>9, <1>10 DEF RuntimeNext

\* Of these, only a write that fails counts as a failure.
LEMMA MovesAndFailures ==
  ASSUME StoreMoves PROVE failures' \in {failures, failures + 1}
<1>1. ASSUME NEW p \in Prompt, Save(p) PROVE failures' = failures BY <1>1 DEF Save
<1>2. CASE LoopWrites \/ LoopWriteFails BY <1>2 DEF LoopWrites, LoopWriteFails
<1>3. ASSUME NEW t \in Timer, TimerFires(t) \/ TimerSnapshots(t)
      PROVE failures' = failures
  BY <1>3 DEF TimerFires, TimerSnapshots
<1>4. ASSUME NEW t \in Timer, TimerWrites(t) \/ TimerWriteFails(t)
      PROVE failures' \in {failures, failures + 1}
  BY <1>4 DEF TimerWrites, TimerWriteFails
<1>5. CASE UNCHANGED storeVars BY <1>5 DEF storeVars, vars
<1> QED BY <1>1, <1>2, <1>3, <1>4, <1>5 DEF StoreMoves

LEMMA FlushTypesStep == FlushTypes /\ [RuntimeNext]_allVars => FlushTypes'
<1> SUFFICES ASSUME FlushTypes, [RuntimeNext]_allVars PROVE FlushTypes' OBVIOUS
<1>1. CASE StoreMoves /\ UNCHANGED flushed
  <2>1. [Next]_vars BY <1>1, PromptsAreKeys DEF StoreMoves, Next, storeVars
  <2>2. StoreTypes' BY <2>1, TypesStep DEF FlushTypes
  <2>3. failures' \in {failures, failures + 1}
    BY <1>1, MovesAndFailures
  <2> QED BY <1>1, <2>2, <2>3 DEF FlushTypes
<1>2. CASE FlushPendingSave /\ flushed' = mem
  <2>1. StoreTypes' BY <1>2, TypesStep DEF FlushTypes, Next
  <2> QED BY <1>2, <2>1 DEF FlushTypes, FlushPendingSave, Flush, StoreTypes
<1>3. CASE Exit
  <2>1. timer' \in [Timer -> TimerStates] BY <1>3 DEF Exit, TimerStates
  <2> QED BY <1>3, <2>1 DEF Exit, FlushTypes, StoreTypes
<1> QED BY <1>1, <1>2, <1>3, StoreUse

LEMMA FlushStep ==
  ASSUME FlushTypes, FlushInv, [RuntimeNext]_allVars
  PROVE  FlushInv'
<1> USE DEF FlushTypes, StoreTypes, FlushInv, AtLeastFlushed
<1>0. FlushTypes' BY FlushTypesStep
<1>1. CASE /\ FlushPendingSave /\ flushed' = mem /\ phase' = "chat"
           /\ alone' = \A t \in Timer : ~Writing(t)
  <2>1. /\ alone' => \A t \in Timer : ~Writing(t)'
        /\ loop' = mem /\ mem' = mem /\ mutations' = mutations
    BY <1>1, CancelledKeeps DEF FlushPendingSave, Flush, Writing
  <2>2. loop' # None BY <2>1, NoneIsNoContent
  <2> QED BY <1>0, <1>1, <2>1, <2>2
<1>2. CASE Exit BY <1>2 DEF Exit, Writing
<1>3. ASSUME UNCHANGED <<flushed, alone>>, phase' = "exited" => phase = "exited", StoreMoves
      PROVE FlushInv'
  <2>1. ASSUME NEW p \in Prompt, Save(p) PROVE FlushInv'
    <3>1. \A t \in Timer : Writing(t)' <=> Writing(t) BY <2>1, Scheduling DEF Save
    <3>2. /\ \A k \in Key : mem'[k] = mem[k] \/ mem'[k] = mutations + 1
          /\ mutations' = mutations + 1
      BY <2>1 DEF Save
    <3>3. \A k \in Key : mem[k] \in Nat /\ flushed[k] \in Nat /\ flushed[k] <= mem[k] /\ mem[k] <= mutations
      OBVIOUS
    <3>4. \A k \in Key : mem'[k] <= mutations' /\ mem'[k] >= flushed'[k] BY <1>3, <3>2, <3>3
    <3>5. UNCHANGED <<disk, snap, loop, failures>> BY <2>1 DEF Save
    <3> QED BY <1>3, <3>1, <3>4, <3>5
  <2>2. CASE LoopWrites BY <1>3, <2>2 DEF LoopWrites, Writing
  <2>3. CASE LoopWriteFails BY <1>3, <2>3 DEF LoopWriteFails, Writing
  <2>4. ASSUME NEW t \in Timer, TimerFires(t) PROVE FlushInv'
    <3>1. \A u \in Timer : Writing(u)' <=> Writing(u) BY <2>4 DEF TimerFires, Writing
    <3> QED BY <1>3, <2>4, <3>1 DEF TimerFires
  <2>5. ASSUME NEW t \in Timer, TimerSnapshots(t) PROVE FlushInv'
    <3>1. \A u \in Timer : Writing(u)' => (Writing(u) /\ snap'[u] = snap[u]) \/ snap'[u] = mem
      BY <2>5 DEF TimerSnapshots, Writing
    <3> QED BY <1>3, <2>5, <3>1 DEF TimerSnapshots
  <2>6. ASSUME NEW t \in Timer, TimerWrites(t) \/ TimerWriteFails(t) PROVE FlushInv'
    <3>1. \A u \in Timer : Writing(u)' => Writing(u) /\ snap'[u] = snap[u]
      BY <2>6 DEF TimerWrites, TimerWriteFails, Writing
    <3>2. disk' = disk \/ (Writing(t) /\ disk' = snap[t])
      BY <2>6 DEF TimerWrites, TimerWriteFails, Writing
    <3>3. /\ UNCHANGED <<mem, loop, mutations>>
          /\ failures' \in {failures, failures + 1}
      BY <2>6 DEF TimerWrites, TimerWriteFails
    <3> QED BY <1>3, <3>1, <3>2, <3>3
  <2>7. CASE UNCHANGED storeVars BY <1>3, <2>7 DEF storeVars, vars, Writing
  <2> QED BY <1>3, <2>1, <2>2, <2>3, <2>4, <2>5, <2>6, <2>7 DEF StoreMoves
<1> QED BY <1>1, <1>2, <1>3, StoreUse

\* What the store held when shutdown flushed it, or something newer, is on
\* disk when the process exits, unless a write failed or a timer's thread was
\* already writing when the flush took its snapshot: no timer that comes later
\* can bring an older version back (session.py flush_pending_save, runtime.py
\* shutdown).
THEOREM FlushSurvivesExit == RuntimeSpec => []FlushIsKept
<1>1. RuntimeInit => FlushTypes /\ FlushInv
  <2> SUFFICES ASSUME RuntimeInit PROVE FlushTypes /\ FlushInv OBVIOUS
  <2>1. StoreTypes BY InitiallyInv DEF RuntimeInit, IInv
  <2>2. Empty \in [Key -> Nat] /\ \A k \in Key : Empty[k] = 0 BY DEF Empty
  <2> QED BY <2>1, <2>2
          DEF RuntimeInit, Init, FlushTypes, FlushInv, AtLeastFlushed, Writing
<1>2. FlushTypes /\ FlushInv /\ [RuntimeNext]_allVars => (FlushTypes /\ FlushInv)'
  BY FlushTypesStep, FlushStep
<1>3. FlushInv => FlushIsKept BY DEF FlushInv, FlushIsKept, FlushLosesNothing, AtLeastFlushed
<1> QED BY <1>1, <1>2, <1>3, PTL DEF RuntimeSpec
=============================================================================

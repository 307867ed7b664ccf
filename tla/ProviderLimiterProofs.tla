------------------------ MODULE ProviderLimiterProofs ------------------------
(***************************************************************************)
(* Slots of the provider limiter (ProviderLimiter) are accounted for, for  *)
(* any number of streams, instances of the limiter and slots, and requests *)
(* stay within the window, for every rate and window.  The first needs     *)
(* nothing of time, only who holds a slot of which limiter; the second     *)
(* nothing of the streams, only that Send takes a slot of the window.      *)
(***************************************************************************)
EXTENDS ProviderLimiter, SlidingWindowProofs

\* Streams that hold a slot of limiter l
Holders(l) == {s \in Streams : pc[s] \in Holding /\ lim[s] = l}

Places == {"idle", "slot", "done"} \cup Holding

SlotTypes ==
  /\ pc \in [Streams -> Places]
  /\ lim \in [Streams -> Limiters]
  /\ current \in Limiters
  /\ free \in [Limiters -> Int]

IInv == SlotTypes /\ SlotsAccounted

\* Holders are finitely many, so their number is one.
LEMMA HoldersAreFinite ==
  ASSUME NEW l PROVE IsFiniteSet(Holders(l)) /\ Cardinality(Holders(l)) \in Nat
<1>1. Holders(l) \subseteq Streams BY DEF Holders
<1>2. IsFiniteSet(Holders(l)) BY <1>1, StreamsAreFinite, FS_Subset
<1> QED BY <1>2, FS_CardinalityType

\* A limiter counts what it gives and takes: its holders stay the same, or one
\* stream comes to them or leaves.
LEMMA SlotStep ==
  ASSUME SlotsAccounted, SlotTypes, SlotTypes', NEW l \in Limiters,
         \/ Holders(l)' = Holders(l) /\ free'[l] = free[l]
         \/ \E s \in Streams \ Holders(l) :
              Holders(l)' = Holders(l) \cup {s} /\ free'[l] = free[l] - 1
         \/ \E s \in Holders(l) :
              Holders(l)' = Holders(l) \ {s} /\ free'[l] = free[l] + 1
  PROVE  free'[l] + Cardinality(Holders(l)') = MaxConcurrency
<1>1. free[l] + Cardinality(Holders(l)) = MaxConcurrency BY DEF SlotsAccounted, Holders
<1>2. free[l] \in Int BY DEF SlotTypes
<1>3. IsFiniteSet(Holders(l)) /\ Cardinality(Holders(l)) \in Nat BY HoldersAreFinite
<1>4. CASE Holders(l)' = Holders(l) /\ free'[l] = free[l]
  BY <1>1, <1>4
<1>5. ASSUME NEW s \in Streams \ Holders(l),
             Holders(l)' = Holders(l) \cup {s}, free'[l] = free[l] - 1
      PROVE  free'[l] + Cardinality(Holders(l)') = MaxConcurrency
  <2>1. Cardinality(Holders(l) \cup {s}) = Cardinality(Holders(l)) + 1
    BY <1>3, <1>5, FS_AddElement
  <2> QED BY <1>1, <1>2, <1>3, <1>5, <2>1, SomeConcurrency
<1>6. ASSUME NEW s \in Holders(l),
             Holders(l)' = Holders(l) \ {s}, free'[l] = free[l] + 1
      PROVE  free'[l] + Cardinality(Holders(l)') = MaxConcurrency
  <2>1. Cardinality(Holders(l) \ {s}) = Cardinality(Holders(l)) - 1
    BY <1>3, <1>6, FS_RemoveElement
  <2> QED BY <1>1, <1>2, <1>3, <1>6, <2>1, SomeConcurrency
<1> QED BY <1>4, <1>5, <1>6

\* A stream that keeps or gets no slot changes no account.
LEMMA Moves ==
  ASSUME IInv, NEW s \in Streams, NEW where \in Places, Goto(s, where),
         pc[s] \in Holding <=> where \in Holding, UNCHANGED <<lim, current, free>>
  PROVE  IInv'
<1>1. SlotTypes' BY DEF IInv, SlotTypes, Goto
<1>2. \A l \in Limiters : Holders(l)' = Holders(l)
  BY DEF IInv, SlotTypes, Goto, Holders
<1>3. \A l \in Limiters : free'[l] + Cardinality(Holders(l)') = MaxConcurrency
  BY <1>1, <1>2, SlotStep DEF IInv
<1> QED BY <1>1, <1>3 DEF IInv, SlotsAccounted, Holders

\* A stream that held a slot and is done has given it back.
LEMMA Gives ==
  ASSUME IInv, NEW s \in Streams, pc[s] \in Holding, Goto(s, "done"), Release(s),
         UNCHANGED <<lim, current>>
  PROVE  IInv'
<1>1. SlotTypes' BY DEF IInv, SlotTypes, Goto, Release, Places
<1>2. ASSUME NEW l \in Limiters
      PROVE  \/ Holders(l)' = Holders(l) /\ free'[l] = free[l]
             \/ \E t \in Holders(l) : Holders(l)' = Holders(l) \ {t} /\ free'[l] = free[l] + 1
  <2>1. CASE l = lim[s]
    <3>1. s \in Holders(l) BY <2>1 DEF Holders
    <3>2. Holders(l)' = Holders(l) \ {s}
      BY <2>1 DEF IInv, SlotTypes, Goto, Holders, Holding
    <3>3. free'[l] = free[l] + 1 BY <2>1 DEF IInv, SlotTypes, Release
    <3> QED BY <3>1, <3>2, <3>3
  <2>2. CASE l # lim[s]
    <3>1. Holders(l)' = Holders(l)
      BY <2>2 DEF IInv, SlotTypes, Goto, Holders
    <3>2. free'[l] = free[l] BY <2>2 DEF IInv, SlotTypes, Release
    <3> QED BY <3>1, <3>2
  <2> QED BY <2>1, <2>2
<1>3. \A l \in Limiters : free'[l] + Cardinality(Holders(l)') = MaxConcurrency
  BY <1>1, <1>2, SlotStep DEF IInv
<1> QED BY <1>1, <1>3 DEF IInv, SlotsAccounted, Holders

\* A stream that takes a slot was not a holder.
LEMMA Takes ==
  ASSUME IInv, NEW s \in Streams, TakeSlot(s)
  PROVE  IInv'
<1>1. SlotTypes' BY DEF IInv, SlotTypes, TakeSlot, Goto, Places, Holding
<1>2. ASSUME NEW l \in Limiters
      PROVE  \/ Holders(l)' = Holders(l) /\ free'[l] = free[l]
             \/ \E t \in Streams \ Holders(l) :
                  Holders(l)' = Holders(l) \cup {t} /\ free'[l] = free[l] - 1
  <2>1. CASE l = lim[s]
    <3>1. s \in Streams \ Holders(l) BY DEF Holders, Holding, TakeSlot
    <3>2. Holders(l)' = Holders(l) \cup {s}
      BY <2>1 DEF IInv, SlotTypes, TakeSlot, Goto, Holders, Holding
    <3>3. free'[l] = free[l] - 1 BY <2>1 DEF IInv, SlotTypes, TakeSlot
    <3> QED BY <3>1, <3>2, <3>3
  <2>2. CASE l # lim[s]
    <3>1. Holders(l)' = Holders(l)
      BY <2>2 DEF IInv, SlotTypes, TakeSlot, Goto, Holders
    <3>2. free'[l] = free[l] BY <2>2 DEF IInv, SlotTypes, TakeSlot
    <3> QED BY <3>1, <3>2
  <2> QED BY <2>1, <2>2
<1>3. \A l \in Limiters : free'[l] + Cardinality(Holders(l)') = MaxConcurrency
  BY <1>1, <1>2, SlotStep DEF IInv
<1> QED BY <1>1, <1>3 DEF IInv, SlotsAccounted, Holders

\* A new request is no holder yet, whichever limiter it is given.
LEMMA Asks ==
  ASSUME IInv, NEW s \in Streams, Request(s)
  PROVE  IInv'
<1>1. SlotTypes' BY DEF IInv, SlotTypes, Request, Goto, Places
<1>2. \A l \in Limiters : Holders(l)' = Holders(l)
  BY DEF IInv, SlotTypes, Request, Goto, Holders, Holding
<1>3. \A l \in Limiters : free'[l] = free[l] BY DEF Request
<1>4. \A l \in Limiters : free'[l] + Cardinality(Holders(l)') = MaxConcurrency
  BY <1>1, <1>2, <1>3, SlotStep DEF IInv
<1> QED BY <1>1, <1>4 DEF IInv, SlotsAccounted, Holders

LEMMA InitiallyInv == Init => IInv
<1> SUFFICES ASSUME Init PROVE IInv OBVIOUS
<1>1. SlotTypes BY FirstLimiter, SomeConcurrency DEF Init, SlotTypes, Places
<1>2. ASSUME NEW l \in Limiters PROVE free[l] + Cardinality(Holders(l)) = MaxConcurrency
  <2>1. Holders(l) = {} BY DEF Init, Holders, Holding
  <2>2. Cardinality(Holders(l)) = 0 BY <2>1, FS_EmptySet
  <2> QED BY <2>2, SomeConcurrency DEF Init
<1> QED BY <1>1, <1>2 DEF IInv, SlotsAccounted, Holders

LEMMA StepKeepsInv == IInv /\ [Next]_vars => IInv'
<1> SUFFICES ASSUME IInv, [Next]_vars PROVE IInv' OBVIOUS
<1>1. CASE Reconfigure
  BY <1>1 DEF Reconfigure, IInv, SlotTypes, SlotsAccounted, Holding
<1>2. CASE Tick
  BY <1>2 DEF Tick, IInv, SlotTypes, SlotsAccounted, Holding
<1>3. CASE UNCHANGED vars
  BY <1>3 DEF vars, IInv, SlotTypes, SlotsAccounted, Holding
<1>4. ASSUME NEW s \in Streams, Request(s) PROVE IInv' BY <1>4, Asks
<1>5. ASSUME NEW s \in Streams, TakeSlot(s) PROVE IInv' BY <1>5, Takes
<1>6. ASSUME NEW s \in Streams, CheckBlock(s) PROVE IInv'
  <2> DEFINE where == IF blocked[lim[s]] > 0 THEN "blocked" ELSE "window"
  <2>1. where \in Places /\ where \in Holding /\ pc[s] \in Holding
    BY <1>6 DEF CheckBlock, Places, Holding
  <2>2. Goto(s, where) /\ UNCHANGED <<lim, current, free>> BY <1>6 DEF CheckBlock
  <2> HIDE DEF where
  <2> QED BY <2>1, <2>2, Moves
<1>7. ASSUME NEW s \in Streams, BlockOver(s) PROVE IInv'
  BY <1>7, Moves DEF BlockOver, Places, Holding
<1>8. ASSUME NEW s \in Streams, Send(s) PROVE IInv'
  BY <1>8, Moves DEF Send, Places, Holding
<1>9. ASSUME NEW s \in Streams, Answered(s) PROVE IInv'
  BY <1>9, Moves DEF Answered, Places, Holding
<1>10. ASSUME NEW s \in Streams, RateLimited(s) PROVE IInv'
  BY <1>10, Moves DEF RateLimited, Places, Holding
<1>11. ASSUME NEW s \in Streams, Retry(s) PROVE IInv'
  BY <1>11, Moves DEF Retry, Places, Holding
<1>12. ASSUME NEW s \in Streams, Exhausted(s) PROVE IInv'
  BY <1>12, Gives DEF Exhausted, Holding
<1>13. ASSUME NEW s \in Streams, Errs(s) PROVE IInv'
  BY <1>13, Gives DEF Errs, Holding
<1>14. ASSUME NEW s \in Streams, Ends(s) PROVE IInv'
  BY <1>14, Gives DEF Ends, Holding
<1>15. ASSUME NEW s \in Streams, Cancel(s) PROVE IInv'
  <2>1. CASE pc[s] \in Holding
    BY <1>15, <2>1, Gives DEF Cancel
  <2>2. CASE pc[s] = "slot"
    BY <1>15, <2>2, Moves DEF Cancel, Places, Holding
  <2> QED BY <1>15, <2>1, <2>2 DEF Cancel
<1>16. ASSUME NEW s \in Streams, Downgraded(s) PROVE IInv'
  BY <1>16, Moves DEF Downgraded, Places, Holding
<1> QED BY <1>1, <1>2, <1>3, <1>4, <1>5, <1>6, <1>7, <1>8, <1>9, <1>10, <1>11, <1>12,
           <1>13, <1>14, <1>15, <1>16 DEF Next

\* However streams end and whenever the configuration changes, the free slots
\* of a limiter and the streams that hold one make up its max_concurrency
\* (concurrency_slot).
THEOREM NoSlotIsLost == Spec => []SlotsAccounted
<1>1. IInv => SlotsAccounted BY DEF IInv
<1> QED BY InitiallyInv, StepKeepsInv, <1>1, PTL DEF Spec

-----------------------------------------------------------------------------
(* The window *)

WindowInv ==
  /\ times \in [Limiters -> Log]
  /\ sends \in [Limiters -> Log]
  /\ \A l \in Limiters : InWindow(times[l], sends[l])

LEMMA WindowInit == Init => WindowInv
<1> SUFFICES ASSUME Init PROVE WindowInv OBVIOUS
<1>1. <<>> \in Log /\ Len(<<>>) = 0 BY DEF Log
<1>2. InWindow(<<>>, <<>>)
  <2>1. Covers(<<>>, <<>>, 0) BY <1>1 DEF Covers
  <2> QED BY <1>1, <2>1, RateIsPositive DEF InWindow
<1> QED BY <1>1, <1>2 DEF Init, WindowInv

LEMMA WindowStep == WindowInv /\ [Next]_vars => WindowInv'
<1> SUFFICES ASSUME WindowInv, [Next]_vars PROVE WindowInv' OBVIOUS
<1>1. CASE UNCHANGED <<times, sends>>
  BY <1>1 DEF WindowInv
<1>2. ASSUME NEW s \in Streams, Send(s)
      PROVE  WindowInv'
  <2>1. \A l \in Limiters :
          /\ times'[l] = IF l = lim[s] THEN Acquired(times[l]) ELSE times[l]
          /\ sends'[l] = IF l = lim[s] THEN Append(sends[l], 0) ELSE sends[l]
    BY <1>2 DEF Send, WindowInv
  <2>2. \A l \in Limiters : InWindow(times'[l], sends'[l])
    BY <1>2, <2>1, AcquireStep DEF Send, WindowInv
  <2>3. /\ times' = [l \in Limiters |-> times'[l]]
        /\ sends' = [l \in Limiters |-> sends'[l]]
    BY <1>2 DEF Send, WindowInv
  <2> QED BY <2>2, <2>3 DEF WindowInv, InWindow
<1>3. CASE Tick
  <2>1. /\ times' = [l \in Limiters |-> Older(times[l])]
        /\ sends' = [l \in Limiters |-> Recent(sends[l])]
    BY <1>3 DEF Tick
  <2>2. \A l \in Limiters : InWindow(Older(times[l]), Recent(sends[l]))
    BY AgeStep DEF WindowInv
  <2> QED BY <2>1, <2>2 DEF WindowInv, InWindow
<1>4. CASE UNCHANGED vars
  BY <1>1, <1>4 DEF vars
<1>5. CASE Reconfigure
  BY <1>1, <1>5 DEF Reconfigure
<1>6. ASSUME NEW s \in Streams,
             \/ Request(s) \/ TakeSlot(s) \/ CheckBlock(s) \/ BlockOver(s) \/ Answered(s)
             \/ RateLimited(s) \/ Retry(s) \/ Exhausted(s) \/ Downgraded(s) \/ Errs(s)
             \/ Ends(s) \/ Cancel(s)
      PROVE  UNCHANGED <<times, sends>>
  BY <1>6 DEF Request, TakeSlot, CheckBlock, BlockOver, Answered, RateLimited, Retry,
              Exhausted, Downgraded, Errs, Ends, Cancel
<1> QED BY <1>1, <1>2, <1>3, <1>4, <1>5, <1>6 DEF Next

\* Requests stay within the rate over every interval of the window's length,
\* retries included and however many streams there are
\* (_acquire_proactive_slot, execute_with_retry).
THEOREM RateIsKept == Spec => []SendsWithinRate
<1>1. WindowInv => SendsWithinRate BY DEF WindowInv, InWindow, SendsWithinRate
<1> QED BY WindowInit, WindowStep, <1>1, PTL DEF Spec
=============================================================================

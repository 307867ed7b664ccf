-------------------------- MODULE SlidingWindowProofs --------------------------
(***************************************************************************)
(* What StrictSlidingWindowLimiter's deque keeps of the sends that went    *)
(* through it, for every rate and window: all that are younger than the    *)
(* window, in order, behind others that are older.  So a free slot is room *)
(* for a send.                                                             *)
(***************************************************************************)
EXTENDS SlidingWindow, FiniteSetTheorems, TLAPS

Log == Seq(Age)

\* The log of sends is ordered, oldest first, and the deque holds it behind d
\* timestamps that have left the window.
Covers(times, log, d) ==
  /\ Len(times) = Len(log) + d
  /\ \A i \in 1..d : times[i] = Window
  /\ \A i \in 1..Len(log) : log[i] = times[i + d] /\ log[i] < Window
  /\ \A i, j \in 1..Len(log) : i < j => log[j] <= log[i]

InWindow(times, log) ==
  /\ times \in Log
  /\ log \in Log
  /\ \E d \in Nat : Covers(times, log, d)
  /\ Len(log) <= Rate

-----------------------------------------------------------------------------
\* A set of places that holds all the places before each of its own is an
\* initial stretch.
LEMMA InitialStretch ==
  ASSUME NEW n \in Nat, NEW S \in SUBSET (1..n),
         \A i \in S : \A j \in 1..i : j \in S
  PROVE  Cardinality(S) \in 0..n /\ S = 1..Cardinality(S)
<1> DEFINE c == Cardinality(S)
<1>1. \A k \in Nat : IsFiniteSet(1..k) /\ Cardinality(1..k) = k
  <2> SUFFICES ASSUME NEW k \in Nat PROVE IsFiniteSet(1..k) /\ Cardinality(1..k) = k
    OBVIOUS
  <2> QED BY FS_Interval
<1>2. IsFiniteSet(S) /\ c \in Nat /\ c <= n
  <2>1. IsFiniteSet(1..n) /\ Cardinality(1..n) = n
    BY <1>1
  <2>2. IsFiniteSet(S) /\ Cardinality(S) <= Cardinality(1..n)
    BY <2>1, FS_Subset
  <2> QED BY <2>1, <2>2, FS_CardinalityType
<1> HIDE DEF c
<1>3. ASSUME NEW i \in S PROVE i <= c
  <2>1. i \in Nat /\ 1..i \subseteq S
    OBVIOUS
  <2>2. Cardinality(1..i) <= c
    BY <1>2, <2>1, FS_Subset DEF c
  <2> QED BY <1>1, <2>1, <2>2
<1>4. ASSUME NEW j \in 1..c PROVE j \in S
  <2> SUFFICES ASSUME j \notin S PROVE FALSE
    OBVIOUS
  <2>1. j - 1 \in Nat /\ j \in Nat
    BY <1>2
  <2>2. ASSUME NEW i \in S PROVE i \in 1..(j - 1)
    <3>1. i \in Nat /\ i >= 1 /\ (j <= i => j \in 1..i)
      BY <1>2
    <3> QED BY <2>1, <3>1
  <2>3. Cardinality(S) <= Cardinality(1..(j - 1))
    BY <1>1, <2>1, <2>2, FS_Subset
  <2> QED BY <1>1, <1>2, <2>1, <2>3 DEF c
<1>5. \A i \in S : i \in 1..c
  BY <1>2, <1>3
<1>6. S = 1..c
  BY <1>4, <1>5
<1>7. c \in 0..n
  BY <1>2
<1> QED BY <1>6, <1>7 DEF c

\* What acquire prunes is what the log no longer has.
LEMMA PrunedIsLog ==
  ASSUME NEW times \in Log, NEW log \in Log, NEW d \in Nat, Covers(times, log, d)
  PROVE  Pruned(times) = log
<1> USE WindowIsPositive
<1>1. Len(times) \in Nat /\ Len(log) \in Nat /\ Len(times) = Len(log) + d
  BY DEF Covers, Log
<1>2. \A i \in 1..Len(times) : i > d => i - d \in 1..Len(log) /\ times[i] = log[i - d]
  BY <1>1 DEF Covers
<1>3. \A i \in 1..Len(times) : times[i] >= Window <=> i <= d
  <2> SUFFICES ASSUME NEW i \in 1..Len(times) PROVE times[i] >= Window <=> i <= d
    OBVIOUS
  <2>1. times[i] \in Nat
    BY DEF Log, Age
  <2>2. CASE i <= d
    BY <1>1, <2>1, <2>2 DEF Covers
  <2>3. CASE i > d
    BY <1>1, <1>2, <2>1, <2>3 DEF Covers
  <2> QED BY <1>1, <2>2, <2>3
<1>4. {i \in DOMAIN times : times[i] >= Window} = 1..d
  BY <1>1, <1>3 DEF Log
<1>5. Expired(times) = d
  <2>1. Cardinality(1..d) = d
    BY FS_Interval
  <2> QED BY <1>4, <2>1 DEF Expired
<1>6. Pruned(times) = SubSeq(times, d + 1, Len(times))
  BY <1>5 DEF Pruned
<1>7. SubSeq(times, d + 1, Len(times)) = log
  <2>1. Len(SubSeq(times, d + 1, Len(times))) = Len(log)
    BY <1>1 DEF Log
  <2>2. \A i \in 1..Len(log) : SubSeq(times, d + 1, Len(times))[i] = times[i + d]
    BY <1>1 DEF Log
  <2>3. SubSeq(times, d + 1, Len(times)) \in Seq(Age)
    BY <1>1 DEF Log
  <2> QED BY <2>1, <2>2, <2>3 DEF Covers, Log
<1> QED BY <1>6, <1>7

\* A send that gets a slot finds fewer than Rate in the window. (acquire)
LEMMA AcquireStep ==
  ASSUME NEW times, NEW log, InWindow(times, log), SlotFree(times)
  PROVE  InWindow(Acquired(times), Append(log, 0))
<1> USE WindowIsPositive, RateIsPositive
<1>1. Pruned(times) = log
  BY PrunedIsLog DEF InWindow
<1>2. Acquired(times) = Append(log, 0) /\ Len(log) < Rate
  BY <1>1 DEF Acquired, SlotFree
<1>3. log \in Seq(Age) /\ Len(log) \in Nat /\ 0 \in Age
  BY DEF InWindow, Log, Age
<1> DEFINE new == Append(log, 0)
<1>4. /\ new \in Seq(Age)
      /\ Len(new) = Len(log) + 1
      /\ \A i \in 1..Len(log) : new[i] = log[i]
      /\ new[Len(log) + 1] = 0
  BY <1>3
<1>5. \A i \in 1..Len(log) : log[i] \in Nat /\ log[i] < Window
  BY <1>3 DEF InWindow, Covers, Age
<1> HIDE DEF new
<1>6. \A i, j \in 1..Len(log) : i < j => log[j] <= log[i]
  BY DEF InWindow, Covers
<1>7. Covers(new, new, 0)
  <2>1. \A i \in 1..Len(new) : new[i] \in Nat /\ new[i] < Window
    BY <1>3, <1>4, <1>5
  <2>2. ASSUME NEW i \in 1..Len(new), NEW j \in 1..Len(new), i < j
        PROVE  new[j] <= new[i]
    <3>1. i \in 1..Len(log) /\ new[i] = log[i] /\ log[i] \in Nat
      BY <1>3, <1>4, <1>5, <2>2
    <3>2. CASE j = Len(log) + 1
      BY <1>4, <3>1, <3>2
    <3>3. CASE j # Len(log) + 1
      <4>1. j \in 1..Len(log)
        BY <1>3, <1>4, <3>3
      <4> QED BY <1>4, <1>6, <2>2, <3>1, <4>1
    <3> QED BY <3>2, <3>3
  <2> QED BY <1>3, <1>4, <2>1, <2>2 DEF Covers
<1>8. Len(new) <= Rate
  BY <1>2, <1>3, <1>4
<1> QED BY <1>2, <1>4, <1>7, <1>8 DEF InWindow, Log, new

\* Time only takes sends out of the window. (the monotonic clock)
LEMMA AgeStep ==
  ASSUME NEW times, NEW log, InWindow(times, log)
  PROVE  InWindow(Older(times), Recent(log))
<1> USE WindowIsPositive
<1> DEFINE old == Older(log)
           gone == {i \in DOMAIN old : old[i] = Window}
           e == Cardinality(gone)
<1>1. PICK d \in Nat : Covers(times, log, d)
  BY DEF InWindow
<1>2. /\ times \in Seq(Age) /\ log \in Seq(Age)
      /\ Len(times) \in Nat /\ Len(log) \in Nat /\ Len(times) = Len(log) + d
  <2>1. times \in Seq(Age) /\ log \in Seq(Age)
    BY DEF InWindow, Log
  <2>2. Len(times) = Len(log) + d
    BY <1>1 DEF Covers
  <2> QED BY <2>1, <2>2
<1>3. /\ old \in Seq(Age) /\ Len(old) = Len(log) /\ DOMAIN old = 1..Len(log)
      /\ \A i \in 1..Len(log) : old[i] = log[i] + 1 /\ log[i] \in Nat
  <2>1. old = [i \in 1..Len(log) |-> IF log[i] < Window THEN log[i] + 1 ELSE Window]
    BY <1>2 DEF Older
  <2>2. \A i \in 1..Len(log) : log[i] < Window /\ log[i] \in Age
    BY <1>1, <1>2 DEF Covers
  <2>3. \A i \in 1..Len(log) : log[i] + 1 \in Age /\ log[i] \in Nat
    BY <2>2 DEF Age
  <2>4. old = [i \in 1..Len(log) |-> log[i] + 1]
    BY <2>1, <2>2
  <2> HIDE DEF old
  <2>5. old \in [1..Len(log) -> Age]
    BY <2>3, <2>4
  <2> QED BY <1>2, <2>3, <2>4, <2>5
<1> HIDE DEF old
<1>4. e \in 0..Len(log) /\ gone = 1..e
  <2>1. gone \in SUBSET (1..Len(log))
    BY <1>3
  <2>2. ASSUME NEW i \in gone, NEW j \in 1..i
        PROVE  j \in gone
    <3>1. i \in 1..Len(log) /\ j \in 1..Len(log) /\ log[i] + 1 = Window
      BY <1>2, <1>3
    <3>2. log[i] <= log[j] /\ log[j] < Window /\ log[j] \in Nat /\ log[i] \in Nat
      <4>1. j < i => log[i] <= log[j]
        BY <1>1, <3>1 DEF Covers
      <4>2. log[j] < Window
        BY <1>1, <3>1 DEF Covers
      <4>3. log[i] \in Nat /\ log[j] \in Nat
        BY <1>3, <3>1
      <4> QED BY <1>2, <3>1, <4>1, <4>2, <4>3
    <3>3. old[j] = Window
      BY <1>3, <3>1, <3>2
    <3> QED BY <1>3, <3>1, <3>3
  <2> HIDE DEF gone
  <2> QED BY <1>2, <2>1, <2>2, InitialStretch
<1> DEFINE new == SubSeq(old, 1 + e, Len(log))
<1>5. Recent(log) = new
  BY <1>3 DEF Recent, old
<1>6. /\ new \in Seq(Age)
      /\ Len(new) = Len(log) - e /\ Len(new) \in Nat
      /\ \A i \in 1..Len(new) : i + e \in 1..Len(log) /\ new[i] = old[i + e]
  <2> HIDE DEF e
  <2>1. e \in Nat /\ e <= Len(log)
    BY <1>2, <1>4
  <2>2. old \in Seq(Age) /\ Len(old) = Len(log) /\ Len(log) \in Nat
    BY <1>2, <1>3
  <2>3. new \in Seq(Age) /\ Len(new) = Len(log) - e
    BY <2>1, <2>2
  <2>4. \A i \in 1..Len(new) : i + e \in 1..Len(log) /\ new[i] = old[i + e]
    BY <2>1, <2>2, <2>3
  <2> QED BY <2>1, <2>2, <2>3, <2>4
<1>7. \A i \in 1..Len(log) : i > e => old[i] < Window
  <2> SUFFICES ASSUME NEW i \in 1..Len(log), i > e PROVE old[i] < Window
    OBVIOUS
  <2>1. old[i] # Window
    <3>1. i \notin gone
      <4> HIDE DEF gone, e
      <4> QED BY <1>4
    <3> QED BY <1>3, <3>1
  <2>2. old[i] \in Nat /\ old[i] <= Window
    BY <1>3 DEF Age
  <2> QED BY <2>1, <2>2
<1> DEFINE aged == Older(times)
<1>8. /\ aged \in Seq(Age) /\ Len(aged) = Len(times)
      /\ \A i \in 1..Len(times) : aged[i] = IF times[i] < Window THEN times[i] + 1 ELSE Window
  <2>1. aged = [i \in 1..Len(times) |-> IF times[i] < Window THEN times[i] + 1 ELSE Window]
    BY <1>2 DEF Older
  <2>2. \A i \in 1..Len(times) : times[i] \in Age
    BY <1>2
  <2>3. \A i \in 1..Len(times) : (IF times[i] < Window THEN times[i] + 1 ELSE Window) \in Age
    BY <2>2 DEF Age
  <2> HIDE DEF aged
  <2>4. aged \in [1..Len(times) -> Age]
    BY <2>1, <2>3
  <2> QED BY <1>2, <2>1, <2>4
<1> HIDE DEF new, aged, e, gone
<1>9. Covers(aged, new, d + e)
  <2>1. e \in Nat /\ e <= Len(log)
    BY <1>2, <1>4
  <2>2. Len(aged) = Len(new) + (d + e)
    BY <1>2, <1>6, <1>8, <2>1
  <2>3. \A i \in 1..Len(log) : i + d \in 1..Len(times) /\ aged[i + d] = old[i]
    <3> SUFFICES ASSUME NEW i \in 1..Len(log)
                 PROVE  i + d \in 1..Len(times) /\ aged[i + d] = old[i]
      OBVIOUS
    <3>1. i + d \in 1..Len(times) /\ times[i + d] = log[i] /\ log[i] < Window
      BY <1>1, <1>2 DEF Covers
    <3> QED BY <1>3, <1>8, <3>1
  <2>4. ASSUME NEW i \in 1..(d + e) PROVE aged[i] = Window
    <3>1. CASE i <= d
      <4>1. i \in 1..d /\ i \in 1..Len(times) /\ times[i] = Window
        BY <1>1, <1>2, <3>1 DEF Covers
      <4> QED BY <1>8, <4>1
    <3>2. CASE i > d
      <4>1. i - d \in 1..e /\ i - d \in 1..Len(log) /\ (i - d) + d = i
        BY <1>2, <2>1, <3>2
      <4>2. old[i - d] = Window
        BY <1>4, <4>1 DEF gone
      <4> QED BY <2>3, <4>1, <4>2
    <3> QED BY <2>1, <3>1, <3>2
  <2>5. ASSUME NEW i \in 1..Len(new)
        PROVE  new[i] = aged[i + (d + e)] /\ new[i] < Window
    <3>1. i + e \in 1..Len(log) /\ i + e > e /\ (i + e) + d = i + (d + e)
      BY <1>2, <1>6, <2>1
    <3>2. new[i] = old[i + e]
      BY <1>6
    <3>3. aged[(i + e) + d] = old[i + e]
      BY <2>3, <3>1
    <3>4. old[i + e] < Window
      BY <1>7, <3>1
    <3> QED BY <3>1, <3>2, <3>3, <3>4
  <2>6. ASSUME NEW i \in 1..Len(new), NEW j \in 1..Len(new), i < j
        PROVE  new[j] <= new[i]
    <3>1. i + e \in 1..Len(log) /\ j + e \in 1..Len(log) /\ i + e < j + e
      BY <1>6, <2>1, <2>6
    <3>2. log[j + e] <= log[i + e]
      BY <1>1, <3>1 DEF Covers
    <3>3. new[i] = log[i + e] + 1 /\ new[j] = log[j + e] + 1
      BY <1>3, <1>6, <3>1
    <3>4. log[i + e] \in Nat /\ log[j + e] \in Nat
      BY <1>3, <3>1
    <3> QED BY <3>2, <3>3, <3>4
  <2> QED BY <2>2, <2>4, <2>5, <2>6 DEF Covers
<1>10. Len(new) <= Rate
  <2>1. Len(log) <= Rate
    BY DEF InWindow
  <2>2. e \in Nat
    BY <1>4
  <2> QED BY <1>2, <1>6, <2>1, <2>2, RateIsPositive
<1>11. d + e \in Nat
  BY <1>4
<1> QED BY <1>5, <1>6, <1>8, <1>9, <1>10, <1>11 DEF InWindow, Log, aged
=============================================================================

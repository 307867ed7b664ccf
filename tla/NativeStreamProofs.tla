-------------------------- MODULE NativeStreamProofs --------------------------
(***************************************************************************)
(* What a client may rely on when a native stream is passed on to it       *)
(* (NativeStream), for any upstream indices and any number of events: as   *)
(* long as every event answers to some block no event breaks the contract, *)
(* and a message that breaks off is ended.                                 *)
(*                                                                         *)
(* A step yields any number of events, so the reader and the tracker are   *)
(* folds; what a fold goes through is found by induction over its length,  *)
(* which for want of a theorem the provers can instantiate is had from a   *)
(* least counterexample.                                                   *)
(***************************************************************************)
EXTENDS NativeStream, FiniteSetTheorems, SequenceTheorems, WellFoundedInduction, TLAPS

-----------------------------------------------------------------------------
(* Folds *)

\* A set that has 0 and is closed under successor has every natural.
LEMMA NatInductionOnSet ==
  ASSUME NEW S, 0 \in S, \A n \in Nat : n \in S => n + 1 \in S
  PROVE  Nat \subseteq S
<1> SUFFICES ASSUME NEW m \in Nat, m \notin S PROVE FALSE OBVIOUS
<1> DEFINE T == Nat \ S
           less == {ss \in Nat \X Nat : ss[1] < ss[2]}
<1>1. T \subseteq Nat /\ T # {} OBVIOUS
<1>2. IsWellFoundedOn(less, Nat) BY NatLessThanWellFounded DEF OpToRel
<1> HIDE DEF less
<1>3. PICK n \in T : \A k \in T : ~(<<k, n>> \in less) BY <1>1, <1>2, WFMin
<1> USE DEF less
<1>4. n # 0 /\ n \in Nat OBVIOUS
<1>5. n - 1 \in Nat /\ n - 1 < n BY <1>4
<1>6. n - 1 \in S BY <1>3, <1>5
<1>7. (n - 1) + 1 = n BY <1>4
<1> QED BY <1>3, <1>5, <1>6, <1>7

IsStep(F, R, E) == F \in [R \X E -> R]

\* A fold over a sequence goes over the sets of its places, the last one first.
Iterates(h, F, r, evs, n) ==
  h = [s \in SUBSET (1..n) |-> IF s = {} THEN r ELSE F[<<h[s \ {Max(s)}], evs[Max(s)]>>]]

\* The greatest of some places is one of them.
LEMMA MaxOfPlaces ==
  ASSUME NEW n \in Nat, NEW s \in SUBSET (1..n), s # {}
  PROVE  /\ Max(s) \in s
         /\ \A k \in s : k <= Max(s)
<1>1. IsFiniteSet(1..n) BY FS_Interval
<1> DEFINE bounds == {k \in Nat : \A j \in s : j <= k}
           less == {ss \in Nat \X Nat : ss[1] < ss[2]}
<1>2. n \in bounds OBVIOUS
<1>3. IsWellFoundedOn(less, Nat) BY NatLessThanWellFounded DEF OpToRel
<1> HIDE DEF less
<1>4. PICK m \in bounds : \A k \in bounds : ~(<<k, m>> \in less) BY <1>2, <1>3, WFMin
<1> USE DEF less
<1>5. m \in s
  <2> SUFFICES ASSUME m \notin s PROVE FALSE OBVIOUS
  <2>0. m \in Nat /\ \A j \in s : j <= m /\ j # m /\ j \in 1..n OBVIOUS
  <2>1. PICK j \in s : j \in 1..n OBVIOUS
  <2>2. m # 0 /\ m - 1 \in Nat BY <2>0, <2>1
  <2>3. \A k \in s : k <= m - 1 BY <2>0
  <2>4. m - 1 \in bounds BY <2>2, <2>3
  <2>5. m - 1 < m BY <2>0
  <2>6. <<m - 1, m>> \in less BY <2>0, <2>2, <2>5
  <2> QED BY <1>4, <2>4, <2>6
<1>6. \E x \in s : \A y \in s : x >= y BY <1>4, <1>5
<1> QED BY <1>6 DEF Max

\* MapThenFoldSet over the places of a sequence is a function that takes the
\* last place off at each step.
LEMMA FoldExists ==
  ASSUME NEW R, NEW E, NEW F, IsStep(F, R, E), NEW r \in R, NEW evs \in Seq(E)
  PROVE  \E h \in [SUBSET (1..Len(evs)) -> R] : Iterates(h, F, r, evs, Len(evs))
<1> USE DEF IsStep
<1> DEFINE P(n) == n <= Len(evs) => \E h \in [SUBSET (1..n) -> R] : Iterates(h, F, r, evs, n)
           S == {n \in Nat : P(n)}
<1>1. P(0)
  <2> DEFINE h == [s \in SUBSET (1..0) |-> r]
  <2>1. h \in [SUBSET (1..0) -> R] OBVIOUS
  <2>2. \A s \in SUBSET (1..0) : s = {} OBVIOUS
  <2>3. Iterates(h, F, r, evs, 0) BY <2>2 DEF Iterates
  <2> QED BY <2>1, <2>3
<1>2. ASSUME NEW n \in Nat, P(n) PROVE P(n + 1)
  <2> SUFFICES ASSUME n + 1 <= Len(evs)
               PROVE  \E h \in [SUBSET (1..(n + 1)) -> R] : Iterates(h, F, r, evs, n + 1)
    OBVIOUS
  <2>0. n <= Len(evs) OBVIOUS
  <2>1. PICK g \in [SUBSET (1..n) -> R] : Iterates(g, F, r, evs, n) BY <1>2, <2>0
  <2> DEFINE h == [s \in SUBSET (1..(n + 1)) |->
                     IF n + 1 \in s THEN F[<<g[s \ {n + 1}], evs[n + 1]>>] ELSE g[s]]
  <2>2. \A s \in SUBSET (1..(n + 1)) : s \ {n + 1} \in SUBSET (1..n)
    <3> TAKE s \in SUBSET (1..(n + 1))
    <3>1. \A k \in s \ {n + 1} : k \in 1..n OBVIOUS
    <3> QED BY <3>1
  <2>3. \A s \in SUBSET (1..(n + 1)) : n + 1 \notin s => s \in SUBSET (1..n) BY <2>2
  <2>4. evs[n + 1] \in E OBVIOUS
  <2>5. \A x \in R : F[<<x, evs[n + 1]>>] \in R BY <2>4
  <2>6. h \in [SUBSET (1..(n + 1)) -> R] BY <2>2, <2>3, <2>5
  <2>7. ASSUME NEW s \in SUBSET (1..(n + 1))
        PROVE  h[s] = IF s = {} THEN r ELSE F[<<h[s \ {Max(s)}], evs[Max(s)]>>]
    <3>1. CASE n + 1 \in s
      <4>0. n + 1 \in Nat /\ s # {} BY <3>1
      <4>1. Max(s) \in s /\ \A k \in s : k <= Max(s) BY <4>0, MaxOfPlaces
      <4>2. Max(s) = n + 1
        <5>1. Max(s) \in 1..(n + 1) /\ n + 1 <= Max(s) BY <3>1, <4>1
        <5> QED BY <5>1
      <4>3. s \ {n + 1} \in SUBSET (1..(n + 1)) /\ n + 1 \notin s \ {n + 1} OBVIOUS
      <4>4. h[s \ {n + 1}] = g[s \ {n + 1}] BY <4>3
      <4> QED BY <3>1, <4>2, <4>4
    <3>2. CASE n + 1 \notin s
      <4>1. s \in SUBSET (1..n) BY <2>3, <3>2
      <4>2. h[s] = g[s] BY <3>2
      <4>3. g[s] = IF s = {} THEN r ELSE F[<<g[s \ {Max(s)}], evs[Max(s)]>>]
        BY <2>1, <4>1 DEF Iterates
      <4>4. h[s \ {Max(s)}] = g[s \ {Max(s)}] BY <3>2, <4>1
      <4> QED BY <4>2, <4>3, <4>4
    <3> QED BY <3>1, <3>2
  <2>8. Iterates(h, F, r, evs, n + 1)
    <3> HIDE DEF h
    <3>1. h = [s \in SUBSET (1..(n + 1)) |-> h[s]] BY <2>6
    <3> QED BY <2>7, <3>1 DEF Iterates
  <2> HIDE DEF h
  <2> QED BY <2>6, <2>8
<1>3. \A n \in Nat : P(n)
  <2> HIDE DEF P
  <2>1. 0 \in S /\ \A n \in Nat : n \in S => n + 1 \in S BY <1>1, <1>2
  <2>2. Nat \subseteq S
    <3> HIDE DEF S
    <3> QED BY <2>1, NatInductionOnSet
  <2> QED BY <2>2
<1>4. Len(evs) \in Nat /\ Len(evs) <= Len(evs) OBVIOUS
<1>5. P(Len(evs))
  <2> HIDE DEF P
  <2> QED BY <1>3, <1>4
<1> QED BY <1>4, <1>5

\* The values a fold goes through
Steps(f, F, r, evs) ==
  f[0] = r /\ \A k \in 1..Len(evs) : f[k] = F[<<f[k - 1], evs[k]>>]
StepsIn(R, f, F, r, evs) == f \in [0..Len(evs) -> R] /\ Steps(f, F, r, evs)

\* What it does place by place
LEMMA IteratesInSteps ==
  ASSUME NEW R, NEW E, NEW F, IsStep(F, R, E), NEW r \in R, NEW evs \in Seq(E),
         NEW h, Iterates(h, F, r, evs, Len(evs))
  PROVE  \E f : StepsIn(R, f, F, r, evs) /\ h[1..Len(evs)] = f[Len(evs)]
<1> USE DEF IsStep
<1> DEFINE N == Len(evs)
           f == [n \in 0..N |-> h[1..n]]
<1>0. N \in Nat OBVIOUS
<1> HIDE DEF N
<1>a. \A s \in SUBSET (1..N) : h[s] = IF s = {} THEN r ELSE F[<<h[s \ {Max(s)}], evs[Max(s)]>>]
  <2>1. h = [s \in SUBSET (1..N) |-> IF s = {} THEN r ELSE F[<<h[s \ {Max(s)}], evs[Max(s)]>>]]
    BY DEF Iterates, N
  <2> QED BY <2>1
<1>1. f[0] = r
  <2>1. {} \in SUBSET (1..N) /\ 1..0 = {} OBVIOUS
  <2>2. h[1..0] = r BY <1>a, <2>1
  <2>3. 0 \in 0..N BY <1>0
  <2> QED BY <2>2, <2>3
<1>2. ASSUME NEW k \in 1..N PROVE f[k] = F[<<f[k - 1], evs[k]>>]
  <2>0. k \in Nat /\ 1 <= k /\ k <= N /\ k - 1 \in 0..N /\ k \in 0..N BY <1>0
  <2>1. 1..k \in SUBSET (1..N)
    <3>1. \A j \in 1..k : j \in 1..N BY <1>0
    <3> QED BY <3>1
  <2>2. k \in 1..k /\ 1..k # {}
    <3>1. k \in 1..k BY <1>0, <2>0
    <3> QED BY <3>1
  <2>3. Max(1..k) \in 1..k /\ \A j \in 1..k : j <= Max(1..k)
    <3>1. 1..k \in SUBSET (1..k) OBVIOUS
    <3> QED BY <2>0, <2>2, <3>1, MaxOfPlaces
  <2>4. Max(1..k) = k
    <3>1. k <= Max(1..k) /\ Max(1..k) \in 1..k BY <2>2, <2>3
    <3> QED BY <2>0, <3>1
  <2>5. (1..k) \ {k} = 1..(k - 1) BY <2>0
  <2>6. h[1..k] = F[<<h[1..(k - 1)], evs[k]>>] BY <1>a, <2>1, <2>2, <2>4, <2>5
  <2>7. f[k] = h[1..k] /\ f[k - 1] = h[1..(k - 1)] BY <2>0
  <2> QED BY <2>6, <2>7
<1>3. f \in [0..N -> R]
  <2> DEFINE P(n) == n <= N => f[n] \in R
             S == {n \in Nat : P(n)}
  <2> HIDE DEF f
  <2>1. P(0) BY <1>1
  <2>2. ASSUME NEW n \in Nat, P(n) PROVE P(n + 1)
    <3> SUFFICES ASSUME n + 1 <= N PROVE f[n + 1] \in R OBVIOUS
    <3>1. n + 1 \in 1..N /\ (n + 1) - 1 = n /\ f[n] \in R BY <1>0, <2>2
    <3>2. evs[n + 1] \in E BY <3>1 DEF N
    <3>3. f[n + 1] = F[<<f[n], evs[n + 1]>>] BY <1>2, <3>1
    <3> QED BY <3>1, <3>2, <3>3
  <2>3. Nat \subseteq S
    <3>1. 0 \in S /\ \A n \in Nat : n \in S => n + 1 \in S
      <4> HIDE DEF P
      <4> QED BY <2>1, <2>2
    <3> HIDE DEF S
    <3> QED BY <3>1, NatInductionOnSet
  <2>4. \A n \in 0..N : f[n] \in R BY <1>0, <2>3
  <2>5. f = [n \in 0..N |-> f[n]] BY DEF f
  <2> QED BY <2>4, <2>5
<1>4. h[1..N] = f[N] BY <1>0
<1> HIDE DEF f
<1>5. StepsIn(R, f, F, r, evs) BY <1>1, <1>2, <1>3 DEF StepsIn, Steps, N
<1> QED BY <1>4, <1>5 DEF N

\* Folds over sequences that agree up to a place agree at it.
LEMMA StepsAgree ==
  ASSUME NEW f, NEW g, NEW F, NEW r, NEW n \in Nat,
         NEW s, NEW t, n <= Len(s), n <= Len(t), Len(s) \in Nat, Len(t) \in Nat,
         Steps(f, F, r, s), Steps(g, F, r, t), \A k \in 1..n : s[k] = t[k]
  PROVE  f[n] = g[n]
<1> DEFINE P(k) == k <= n => f[k] = g[k]
           S == {k \in Nat : P(k)}
<1>1. P(0) BY DEF Steps
<1>2. ASSUME NEW k \in Nat, P(k) PROVE P(k + 1)
  <2> SUFFICES ASSUME k + 1 <= n PROVE f[k + 1] = g[k + 1] OBVIOUS
  <2>1. k + 1 \in 1..n /\ k + 1 \in 1..Len(s) /\ k + 1 \in 1..Len(t) /\ (k + 1) - 1 = k OBVIOUS
  <2>2. f[k] = g[k] BY <1>2
  <2>3. f[k + 1] = F[<<f[k], s[k + 1]>>] /\ g[k + 1] = F[<<g[k], t[k + 1]>>] BY <2>1 DEF Steps
  <2> QED BY <2>1, <2>2, <2>3
<1>3. Nat \subseteq S
  <2>1. 0 \in S /\ \A k \in Nat : k \in S => k + 1 \in S
    <3> HIDE DEF P
    <3> QED BY <1>1, <1>2
  <2> HIDE DEF S
  <2> QED BY <2>1, NatInductionOnSet
<1> QED BY <1>3
\* A function that goes on by F as long as it has arrived in R never leaves R.
LEMMA IteratesWithin ==
  ASSUME NEW R, NEW E, NEW F, IsStep(F, R, E), NEW r \in R, NEW evs \in Seq(E), NEW h,
         h = [s \in SUBSET (1..Len(evs)) |-> h[s]],
         h[{}] = r,
         \A s \in SUBSET (1..Len(evs)) :
           s # {} /\ h[s \ {Max(s)}] \in R => h[s] = F[<<h[s \ {Max(s)}], evs[Max(s)]>>]
  PROVE  Iterates(h, F, r, evs, Len(evs))
<1> USE DEF IsStep
<1> DEFINE N == Len(evs)
           P(n) == n <= N => \A s \in SUBSET (1..n) : h[s] \in R
           S == {n \in Nat : P(n)}
<1>0. N \in Nat OBVIOUS
<1> HIDE DEF N
<1>1. P(0)
  <2>1. \A s \in SUBSET (1..0) : s = {} OBVIOUS
  <2> QED BY <2>1
<1>2. ASSUME NEW n \in Nat, P(n) PROVE P(n + 1)
  <2> SUFFICES ASSUME n + 1 <= N, NEW s \in SUBSET (1..(n + 1)), s # {} PROVE h[s] \in R
    OBVIOUS
  <2>1. n + 1 \in Nat /\ n <= N BY <1>0
  <2>2. Max(s) \in s /\ \A k \in s : k <= Max(s) BY <2>1, MaxOfPlaces
  <2>3. s \in SUBSET (1..N)
    <3>1. \A k \in 1..(n + 1) : k \in 1..N BY <1>0
    <3> QED BY <3>1
  <2>4. s \ {Max(s)} \in SUBSET (1..n)
    <3>1. \A k \in s \ {Max(s)} : k \in 1..(n + 1) /\ k <= Max(s) /\ k # Max(s) /\ Max(s) \in 1..(n + 1)
      BY <2>2
    <3>2. \A k \in s \ {Max(s)} : k \in 1..n BY <3>1
    <3> QED BY <3>2
  <2>5. h[s \ {Max(s)}] \in R BY <1>2, <2>1, <2>4
  <2>6. evs[Max(s)] \in E BY <2>2, <2>3 DEF N
  <2>7. h[s] = F[<<h[s \ {Max(s)}], evs[Max(s)]>>] BY <2>3, <2>5 DEF N
  <2> QED BY <2>5, <2>6, <2>7
<1>3. Nat \subseteq S
  <2>1. 0 \in S /\ \A n \in Nat : n \in S => n + 1 \in S
    <3> HIDE DEF P
    <3> QED BY <1>1, <1>2
  <2> HIDE DEF S
  <2> QED BY <2>1, NatInductionOnSet
<1>4. P(N)
  <2>1. \A n \in Nat : P(n)
    <3> HIDE DEF P
    <3> QED BY <1>3
  <2> HIDE DEF P
  <2> QED BY <1>0, <2>1
<1>5. \A s \in SUBSET (1..N) : h[s] \in R
  <2>1. N <= N BY <1>0
  <2> QED BY <1>4, <2>1
<1>6. \A s \in SUBSET (1..N) :
        h[s] = IF s = {} THEN r ELSE F[<<h[s \ {Max(s)}], evs[Max(s)]>>]
  <2> TAKE s \in SUBSET (1..N)
  <2>1. s \ {Max(s)} \in SUBSET (1..N) OBVIOUS
  <2> QED BY <1>5, <2>1 DEF N
<1> QED BY <1>6 DEF Iterates, N

-----------------------------------------------------------------------------
(* The reader *)

BlockKinds == Kinds \cup NoDeltaKinds
Types ==
  {"content_block_start", "content_block_delta", "content_block_stop",
   "message_start", "message_delta", "message_stop", "error"}
Readers ==
  [open : SUBSET (Int \X BlockKinds), seen : SUBSET Int, last : Types \cup {""},
   began : BOOLEAN, wrong : BOOLEAN]
Events ==
  [type : {"content_block_start", "content_block_delta"}, index : Int, kind : BlockKinds]
    \cup [type : {"content_block_stop"}, index : Int]
    \cup [type : {"message_start", "message_delta", "message_stop", "error"}]

\* A reader that observes an event is a reader.
LEMMA ObserveTyped == \A r \in Readers, ev \in Events : Observe(r, ev) \in Readers
<1> SUFFICES ASSUME NEW r \in Readers, NEW ev \in Events PROVE Observe(r, ev) \in Readers
  OBVIOUS
<1> DEFINE open == CASE ev.type = "content_block_start" -> r.open \cup {<<ev.index, ev.kind>>}
                     [] ev.type = "content_block_stop"  -> {b \in r.open : b[1] # ev.index}
                     [] OTHER -> r.open
           seen == IF ev.type = "content_block_start" THEN r.seen \cup {ev.index} ELSE r.seen
           began == r.began \/ ev.type = "message_start"
           wrong == r.wrong \/ ~Obeys(r, ev)
<1>1. open \in SUBSET (Int \X BlockKinds)
  <2>1. r.open \in SUBSET (Int \X BlockKinds) BY DEF Readers
  <2>2. ev.type = "content_block_start" => <<ev.index, ev.kind>> \in Int \X BlockKinds BY DEF Events
  <2> QED BY <2>1, <2>2
<1>2. seen \in SUBSET Int BY DEF Readers, Events
<1>3. began \in BOOLEAN /\ wrong \in BOOLEAN BY DEF Readers
<1>4. ev.type \in Types
  BY DEF Events, Types
<1>5. Observe(r, ev) = [r EXCEPT !.open = open, !.seen = seen, !.last = ev.type, !.began = began,
                                 !.wrong = wrong]
  BY DEF Observe, Readers
<1> HIDE DEF open, seen, began, wrong
<1> QED BY <1>1, <1>2, <1>3, <1>4, <1>5 DEF Readers

\* What FoldLeft(Observe, ...) computes is the last of the readers on the way.
LEMMA ObservedSteps ==
  ASSUME NEW r \in Readers, NEW evs \in Seq(Events)
  PROVE  \E f : /\ StepsIn(Readers, f, [re \in Readers \X Events |-> Observe(re[1], re[2])], r, evs)
              /\ FoldLeft(Observe, r, evs) = f[Len(evs)]
<1> DEFINE F == [re \in Readers \X Events |-> Observe(re[1], re[2])]
           Goes(h) == h = [s \in SUBSET DOMAIN evs |->
                             IF s = {} THEN r ELSE LET x == Max(s) IN Observe(h[s \ {x}], evs[x])]
           g == CHOOSE h : Goes(h)
           N == Len(evs)
<1>1. IsStep(F, Readers, Events) BY ObserveTyped DEF IsStep
<1>2. \A x \in Readers, ev \in Events : F[<<x, ev>>] = Observe(x, ev) OBVIOUS
<1>3. N \in Nat /\ DOMAIN evs = 1..N /\ \A k \in 1..N : evs[k] \in Events OBVIOUS
<1>4. FoldLeft(Observe, r, evs) = g[DOMAIN evs] BY DEF FoldLeft, MapThenFoldSet
<1> HIDE DEF F, N
<1>5. \A s \in SUBSET (1..N) : s # {} => Max(s) \in 1..N BY <1>3, MaxOfPlaces
<1>6. \E h : Goes(h)
  <2>1. PICK h \in [SUBSET (1..N) -> Readers] : Iterates(h, F, r, evs, N)
    BY <1>1, FoldExists DEF N
  <2>2. \A s \in SUBSET (1..N) : s # {} =>
          F[<<h[s \ {Max(s)}], evs[Max(s)]>>] = Observe(h[s \ {Max(s)}], evs[Max(s)])
    BY <1>2, <1>3, <1>5
  <2>3. h = [s \in SUBSET (1..N) |-> IF s = {} THEN r ELSE Observe(h[s \ {Max(s)}], evs[Max(s)])]
    BY <2>1, <2>2 DEF Iterates
  <2> QED BY <1>3, <2>3
<1>7. Goes(g)
  <2> HIDE DEF Goes
  <2> QED BY <1>6
<1> HIDE DEF g
<1>8. \A s \in SUBSET (1..N) :
        g[s] = IF s = {} THEN r ELSE Observe(g[s \ {Max(s)}], evs[Max(s)])
  BY <1>3, <1>7
<1>9. g = [s \in SUBSET (1..N) |-> g[s]] BY <1>3, <1>7
<1>10. Iterates(g, F, r, evs, Len(evs))
  <2>1. g[{}] = r BY <1>8
  <2>2. \A s \in SUBSET (1..N) :
          s # {} /\ g[s \ {Max(s)}] \in Readers => g[s] = F[<<g[s \ {Max(s)}], evs[Max(s)]>>]
    BY <1>2, <1>3, <1>5, <1>8
  <2> QED BY <1>1, <1>9, <2>1, <2>2, IteratesWithin DEF N
<1>11. \E f : StepsIn(Readers, f, F, r, evs) /\ g[1..Len(evs)] = f[Len(evs)]
  BY <1>1, <1>10, IteratesInSteps
<1> QED BY <1>3, <1>4, <1>11 DEF F, N

-----------------------------------------------------------------------------
(* The tracker *)

Trackers == [stack : Seq(Int), max : Int]

\* The places of a concatenation
LEMMA Concatenated ==
  ASSUME NEW S, NEW a \in Seq(S), NEW b \in Seq(S), NEW x \in 1..(Len(a) + Len(b))
  PROVE  (a \o b)[x] = IF x <= Len(a) THEN a[x] ELSE b[x - Len(a)]
OBVIOUS

\* What is left when a place is taken out
LEMMA RemovedAt ==
  ASSUME NEW s \in Seq(Int), NEW k \in DOMAIN s
  PROVE  /\ RemoveAt(s, k) \in Seq(Int)
         /\ Len(RemoveAt(s, k)) = Len(s) - 1
         /\ \A j \in 1..(Len(s) - 1) : RemoveAt(s, k)[j] = IF j < k THEN s[j] ELSE s[j + 1]
<1>1. k \in 1..Len(s) /\ Len(s) \in Nat OBVIOUS
<1> DEFINE a == SubSeq(s, 1, k - 1)
           b == SubSeq(s, k + 1, Len(s))
<1>2. a \in Seq(Int) /\ Len(a) = k - 1 /\ \A j \in 1..(k - 1) : a[j] = s[j] BY <1>1
<1>3. b \in Seq(Int) /\ Len(b) = Len(s) - k /\ \A j \in 1..(Len(s) - k) : b[j] = s[j + k] BY <1>1
<1> HIDE DEF a, b
<1>6. \A x \in 1..(Len(a) + Len(b)) : (a \o b)[x] = IF x <= Len(a) THEN a[x] ELSE b[x - Len(a)]
  BY <1>2, <1>3, Concatenated
<1>4. a \o b \in Seq(Int) /\ Len(a \o b) = Len(s) - 1 BY <1>1, <1>2, <1>3
<1>7. Len(a) = k - 1 /\ Len(b) = Len(s) - k /\ k \in Nat /\ k >= 1 /\ k <= Len(s) BY <1>1, <1>2, <1>3
<1>5. ASSUME NEW j \in 1..(Len(s) - 1) PROVE (a \o b)[j] = IF j < k THEN s[j] ELSE s[j + 1]
  <2>0. j \in Nat /\ j >= 1 /\ j <= Len(s) - 1 BY <1>1
  <2>1. CASE j < k
    <3>1. j \in 1..(k - 1) /\ j \in 1..Len(a) BY <1>1, <1>2, <2>1
    <3>2. (a \o b)[j] = a[j] BY <1>2, <1>3, <3>1
    <3> QED BY <1>2, <2>1, <3>1, <3>2
  <2>2. CASE ~(j < k)
    <3>1. j \in 1..(Len(a) + Len(b)) /\ ~(j <= Len(a)) /\ j - Len(a) = j - k + 1
      <4>1. Len(a) + Len(b) = Len(s) - 1 BY <1>1, <1>7
      <4>2. j - Len(a) = j - k + 1 /\ ~(j <= Len(a)) BY <1>7, <2>0, <2>2
      <4> QED BY <1>1, <4>1, <4>2
    <3>2. (a \o b)[j] = b[j - k + 1] BY <1>6, <3>1
    <3>3. j - k + 1 \in 1..(Len(s) - k) /\ j - k + 1 + k = j + 1
      <4>1. j - k + 1 \in Int /\ j - k + 1 >= 1 /\ j - k + 1 <= Len(s) - k BY <1>1, <1>7, <2>0, <2>2
      <4>2. j - k + 1 + k = j + 1 BY <1>7, <2>0
      <4> QED BY <1>1, <1>7, <4>1, <4>2
    <3>4. b[j - k + 1] = s[j + 1]
      <4> DEFINE x == j - k + 1
      <4>1. x \in 1..(Len(s) - k) /\ x + k = j + 1 BY <3>3
      <4> HIDE DEF x
      <4>2. b[x] = s[j + 1] BY <1>3, <4>1
      <4> QED BY <4>2 DEF x
    <3> QED BY <2>2, <3>2, <3>4
  <2> QED BY <2>1, <2>2
<1> QED BY <1>4, <1>5 DEF RemoveAt, a, b

\* _observe of a content_block_stop takes one entry of that index off the stack.
LEMMA WithoutIs ==
  ASSUME NEW s \in Seq(Int), NEW i \in Int,
         \A j, k \in DOMAIN s : s[j] = s[k] => j = k
  PROVE  /\ Without(s, i) \in Seq(Int)
         /\ ToSet(Without(s, i)) = ToSet(s) \ {i}
         /\ \A j, k \in DOMAIN Without(s, i) : Without(s, i)[j] = Without(s, i)[k] => j = k
<1>1. CASE i \notin ToSet(s)
  <2>1. ~(s # <<>> /\ Last(s) = i) BY <1>1 DEF ToSet, Last
  <2>2. ~\E k \in 1..Len(s) : s[k] = i BY <1>1 DEF ToSet
  <2>3. Without(s, i) = s BY <2>1, <2>2 DEF Without, RemoveFirst
  <2> QED BY <1>1, <2>3
<1>2. CASE i \in ToSet(s)
  <2>1. PICK k \in DOMAIN s : s[k] = i BY <1>2 DEF ToSet
  <2>2. Len(s) \in Nat /\ k \in 1..Len(s) /\ DOMAIN s = 1..Len(s) OBVIOUS
  <2>3. \E w \in Seq(Int) : /\ Without(s, i) = w
                            /\ Len(w) = Len(s) - 1
                            /\ \A j \in 1..(Len(s) - 1) : w[j] = IF j < k THEN s[j] ELSE s[j + 1]
    <3>1. CASE Last(s) = i
      <4>1. k = Len(s) BY <2>1, <2>2, <3>1 DEF Last
      <4>2. Without(s, i) = Front(s) BY <2>2, <3>1 DEF Without
      <4>3. /\ Front(s) \in Seq(Int) /\ Len(Front(s)) = Len(s) - 1
            /\ \A j \in 1..(Len(s) - 1) : Front(s)[j] = s[j]
        BY <2>2 DEF Front
      <4>4. \A j \in 1..(Len(s) - 1) : Front(s)[j] = IF j < k THEN s[j] ELSE s[j + 1]
        BY <2>2, <4>1, <4>3
      <4> QED BY <4>2, <4>3, <4>4
    <3>2. CASE Last(s) # i
      <4>1. Without(s, i) = RemoveAt(s, SelectInSeq(s, LAMBDA v : v = i))
        BY <2>1, <2>2, <3>2 DEF Without, RemoveFirst
      <4>2. SelectInSeq(s, LAMBDA v : v = i) = k
        <5> DEFINE I == {j \in 1..Len(s) : s[j] = i}
        <5>1. I = {k} BY <2>1, <2>2
        <5>2. SelectInSeq(s, LAMBDA v : v = i) = IF I # {} THEN Min(I) ELSE 0 BY DEF SelectInSeq
        <5>3. Min({k}) = k BY <2>2 DEF Min
        <5> HIDE DEF I
        <5> QED BY <5>1, <5>2, <5>3
      <4>3. /\ RemoveAt(s, k) \in Seq(Int) /\ Len(RemoveAt(s, k)) = Len(s) - 1
            /\ \A j \in 1..(Len(s) - 1) : RemoveAt(s, k)[j] = IF j < k THEN s[j] ELSE s[j + 1]
        BY <2>2, RemovedAt
      <4>4. Without(s, i) = RemoveAt(s, k) BY <4>1, <4>2
      <4> QED BY <4>3, <4>4
    <3> QED BY <3>1, <3>2
  <2>4. PICK w \in Seq(Int) : /\ Without(s, i) = w
                              /\ Len(w) = Len(s) - 1
                              /\ \A j \in 1..(Len(s) - 1) : w[j] = IF j < k THEN s[j] ELSE s[j + 1]
    BY <2>3
  <2>5. DOMAIN w = 1..(Len(s) - 1) BY <2>4
  <2>6. \A j \in 1..(Len(s) - 1) : j \in 1..Len(s) /\ j + 1 \in 1..Len(s) BY <2>2
  <2>7. \A j, l \in DOMAIN w : w[j] = w[l] => j = l
    <3> SUFFICES ASSUME NEW j \in DOMAIN w, NEW l \in DOMAIN w, w[j] = w[l] PROVE j = l OBVIOUS
    <3> DEFINE at(x) == IF x < k THEN x ELSE x + 1
    <3>1. w[j] = s[at(j)] /\ w[l] = s[at(l)] BY <2>4, <2>5
    <3>2. at(j) \in DOMAIN s /\ at(l) \in DOMAIN s BY <2>2, <2>5, <2>6
    <3>3. at(j) = at(l)
      <4> HIDE DEF at
      <4> QED BY <3>1, <3>2
    <3>4. j \in Int /\ l \in Int /\ k \in Int BY <2>2, <2>5
    <3> QED BY <3>3, <3>4
  <2>8. ToSet(w) \subseteq ToSet(s) \ {i}
    <3> SUFFICES ASSUME NEW j \in DOMAIN w PROVE w[j] \in ToSet(s) \ {i} BY DEF ToSet
    <3> DEFINE l == IF j < k THEN j ELSE j + 1
    <3>0. j \in Int /\ k \in Int /\ j \in 1..(Len(s) - 1) BY <2>2, <2>5
    <3>1. l # k BY <3>0
    <3>a. j \in DOMAIN s /\ j + 1 \in DOMAIN s BY <2>2, <2>6, <3>0
    <3>2. w[j] = s[l] /\ l \in DOMAIN s BY <2>4, <3>0, <3>a
    <3> HIDE DEF l
    <3> QED BY <2>1, <3>1, <3>2 DEF ToSet
  <2>9. ToSet(s) \ {i} \subseteq ToSet(w)
    <3> SUFFICES ASSUME NEW l \in DOMAIN s, l # k PROVE s[l] \in ToSet(w) BY <2>1 DEF ToSet
    <3>1. CASE l < k
      <4>a. l \in Int /\ l >= 1 /\ k \in Int /\ k <= Len(s) BY <2>2
      <4>b. l \in 1..(Len(s) - 1) BY <2>2, <3>1, <4>a
      <4>1. l \in DOMAIN w /\ w[l] = s[l] BY <2>4, <2>5, <3>1, <4>b
      <4> QED BY <4>1 DEF ToSet
    <3>2. CASE l > k
      <4>a. l \in Int /\ l <= Len(s) /\ k \in Int /\ k >= 1 BY <2>2
      <4>b. l - 1 \in 1..(Len(s) - 1) /\ ~(l - 1 < k) /\ (l - 1) + 1 = l BY <2>2, <3>2, <4>a
      <4>1. l - 1 \in DOMAIN w BY <2>5, <4>b
      <4>2. w[l - 1] = s[l] BY <2>4, <4>b
      <4> QED BY <4>1, <4>2 DEF ToSet
    <3>3. l < k \/ l > k BY <2>2
    <3> QED BY <3>1, <3>2, <3>3
  <2> QED BY <2>4, <2>7, <2>8, <2>9
<1> QED BY <1>1, <1>2

\* The least of some places is one of them.
LEMMA MinOfPlaces ==
  ASSUME NEW S \in SUBSET Nat, S # {}
  PROVE  Min(S) \in S
<1> DEFINE less == {ss \in Nat \X Nat : ss[1] < ss[2]}
<1>1. IsWellFoundedOn(less, Nat) BY NatLessThanWellFounded DEF OpToRel
<1> HIDE DEF less
<1>2. PICK m \in S : \A k \in S : ~(<<k, m>> \in less) BY <1>1, WFMin
<1>3. \A k \in S : k \in Nat /\ m \in Nat /\ ~(k < m) BY <1>2 DEF less
<1>4. \A k \in S : m <= k BY <1>3
<1> QED BY <1>4 DEF Min

\* A tracker that is fed an event is a tracker.
LEMMA TrackTyped == \A t \in Trackers, ev \in Events : Track(t, ev) \in Trackers
<1> SUFFICES ASSUME NEW t \in Trackers, NEW ev \in Events PROVE Track(t, ev) \in Trackers
  OBVIOUS
<1>1. t.stack \in Seq(Int) /\ t.max \in Int BY DEF Trackers
<1>2. CASE ev.type = "content_block_start"
  <2>1. ev.index \in Int BY <1>2 DEF Events
  <2>2. Append(t.stack, ev.index) \in Seq(Int) BY <1>1, <2>1
  <2> QED BY <1>1, <1>2, <2>1, <2>2 DEF Track, Trackers
<1>3. CASE ev.type = "content_block_stop"
  <2> DEFINE i == ev.index
             w == Without(t.stack, i)
  <2>1. w \in Seq(Int)
    <3>1. CASE t.stack # <<>> /\ Last(t.stack) = i
      <4>1. w = SubSeq(t.stack, 1, Len(t.stack) - 1) BY <3>1 DEF Without, Front
      <4> QED BY <1>1, <3>1, <4>1
    <3>2. CASE ~(t.stack # <<>> /\ Last(t.stack) = i) /\ \E k \in 1..Len(t.stack) : t.stack[k] = i
      <4> DEFINE I == {k \in 1..Len(t.stack) : t.stack[k] = i}
      <4>1. w = RemoveAt(t.stack, SelectInSeq(t.stack, LAMBDA v : v = i))
        BY <3>2 DEF Without, RemoveFirst
      <4>2. SelectInSeq(t.stack, LAMBDA v : v = i) = IF I # {} THEN Min(I) ELSE 0 BY DEF SelectInSeq
      <4>3. I # {} /\ I \in SUBSET Nat /\ I \in SUBSET DOMAIN t.stack BY <1>1, <3>2
      <4> HIDE DEF I
      <4>4. Min(I) \in DOMAIN t.stack BY <4>3, MinOfPlaces
      <4> QED BY <1>1, <4>1, <4>2, <4>3, <4>4, RemovedAt
    <3>3. CASE ~(t.stack # <<>> /\ Last(t.stack) = i) /\ ~\E k \in 1..Len(t.stack) : t.stack[k] = i
      <4>1. w = t.stack BY <3>3 DEF Without, RemoveFirst
      <4> QED BY <1>1, <4>1
    <3> QED BY <3>1, <3>2, <3>3
  <2>2. Track(t, ev) = [t EXCEPT !.stack = w] BY <1>3 DEF Track
  <2> HIDE DEF w
  <2> QED BY <2>1, <2>2 DEF Trackers
<1>4. CASE ev.type # "content_block_start" /\ ev.type # "content_block_stop"
  BY <1>4 DEF Track
<1> QED BY <1>2, <1>3, <1>4

\* What FoldLeft(Track, ...) computes is the last of the trackers on the way.
LEMMA TrackedSteps ==
  ASSUME NEW t \in Trackers, NEW evs \in Seq(Events)
  PROVE  \E f : /\ StepsIn(Trackers, f, [te \in Trackers \X Events |-> Track(te[1], te[2])], t, evs)
              /\ FoldLeft(Track, t, evs) = f[Len(evs)]
<1> DEFINE F == [te \in Trackers \X Events |-> Track(te[1], te[2])]
           Goes(h) == h = [s \in SUBSET DOMAIN evs |->
                             IF s = {} THEN t ELSE LET x == Max(s) IN Track(h[s \ {x}], evs[x])]
           g == CHOOSE h : Goes(h)
           N == Len(evs)
<1>1. IsStep(F, Trackers, Events) BY TrackTyped DEF IsStep
<1>2. \A x \in Trackers, ev \in Events : F[<<x, ev>>] = Track(x, ev) OBVIOUS
<1>3. N \in Nat /\ DOMAIN evs = 1..N /\ \A k \in 1..N : evs[k] \in Events OBVIOUS
<1>4. FoldLeft(Track, t, evs) = g[DOMAIN evs] BY DEF FoldLeft, MapThenFoldSet
<1> HIDE DEF F, N
<1>5. \A s \in SUBSET (1..N) : s # {} => Max(s) \in 1..N BY <1>3, MaxOfPlaces
<1>6. \E h : Goes(h)
  <2>1. PICK h \in [SUBSET (1..N) -> Trackers] : Iterates(h, F, t, evs, N)
    BY <1>1, FoldExists DEF N
  <2>2. \A s \in SUBSET (1..N) : s # {} =>
          F[<<h[s \ {Max(s)}], evs[Max(s)]>>] = Track(h[s \ {Max(s)}], evs[Max(s)])
    BY <1>2, <1>3, <1>5
  <2>3. h = [s \in SUBSET (1..N) |-> IF s = {} THEN t ELSE Track(h[s \ {Max(s)}], evs[Max(s)])]
    BY <2>1, <2>2 DEF Iterates
  <2> QED BY <1>3, <2>3
<1>7. Goes(g)
  <2> HIDE DEF Goes
  <2> QED BY <1>6
<1> HIDE DEF g
<1>8. \A s \in SUBSET (1..N) :
        g[s] = IF s = {} THEN t ELSE Track(g[s \ {Max(s)}], evs[Max(s)])
  BY <1>3, <1>7
<1>9. g = [s \in SUBSET (1..N) |-> g[s]] BY <1>3, <1>7
<1>10. Iterates(g, F, t, evs, Len(evs))
  <2>1. g[{}] = t BY <1>8
  <2>2. \A s \in SUBSET (1..N) :
          s # {} /\ g[s \ {Max(s)}] \in Trackers => g[s] = F[<<g[s \ {Max(s)}], evs[Max(s)]>>]
    BY <1>2, <1>3, <1>5, <1>8
  <2> QED BY <1>1, <1>9, <2>1, <2>2, IteratesWithin DEF N
<1>11. \E f : StepsIn(Trackers, f, F, t, evs) /\ g[1..Len(evs)] = f[Len(evs)]
  BY <1>1, <1>10, IteratesInSteps
<1> QED BY <1>3, <1>4, <1>11 DEF F, N

-----------------------------------------------------------------------------
(* The reader and the tracker, fed with the same events                    *)

Observed(r, evs) == FoldLeft(Observe, r, evs)
Tracked(t, evs) == FoldLeft(Track, t, evs)

\* What the tracker knows: the blocks the reader has open, and an index above
\* all it has seen.
Agree(r, t) ==
  ~r.wrong =>
    /\ ToSet(t.stack) = OpenIndices(r)
    /\ \A j, k \in DOMAIN t.stack : t.stack[j] = t.stack[k] => j = k
    /\ OpenIndices(r) \subseteq r.seen
    /\ \A i \in r.seen : i <= t.max

\* The steps of both folds side by side
ObserveStep(f, r, evs) ==
  /\ f \in [0..Len(evs) -> Readers] /\ f[0] = r
  /\ \A k \in 1..Len(evs) : f[k] = Observe(f[k - 1], evs[k])
TrackStep(g, t, evs) ==
  /\ g \in [0..Len(evs) -> Trackers] /\ g[0] = t
  /\ \A k \in 1..Len(evs) : g[k] = Track(g[k - 1], evs[k])

\* A fold of Observe is the end of a walk over the events.
LEMMA Observing ==
  ASSUME NEW r \in Readers, NEW evs \in Seq(Events)
  PROVE  \E f : ObserveStep(f, r, evs) /\ Observed(r, evs) = f[Len(evs)]
<1> DEFINE F == [re \in Readers \X Events |-> Observe(re[1], re[2])]
<1>1. PICK f : StepsIn(Readers, f, F, r, evs) /\ FoldLeft(Observe, r, evs) = f[Len(evs)]
  BY ObservedSteps
<1>2. \A x \in Readers, ev \in Events : F[<<x, ev>>] = Observe(x, ev) OBVIOUS
<1> HIDE DEF F
<1>3. f \in [0..Len(evs) -> Readers] /\ f[0] = r
      /\ \A k \in 1..Len(evs) : f[k] = F[<<f[k - 1], evs[k]>>]
  BY <1>1 DEF StepsIn, Steps
<1>4. \A k \in 1..Len(evs) : k - 1 \in 0..Len(evs) /\ evs[k] \in Events OBVIOUS
<1>5. \A k \in 1..Len(evs) : f[k] = Observe(f[k - 1], evs[k]) BY <1>2, <1>3, <1>4
<1> QED BY <1>1, <1>3, <1>5 DEF ObserveStep, Observed

\* A fold of Track is the end of a walk over the events.
LEMMA Tracking ==
  ASSUME NEW t \in Trackers, NEW evs \in Seq(Events)
  PROVE  \E g : TrackStep(g, t, evs) /\ Tracked(t, evs) = g[Len(evs)]
<1> DEFINE F == [te \in Trackers \X Events |-> Track(te[1], te[2])]
<1>1. PICK g : StepsIn(Trackers, g, F, t, evs) /\ FoldLeft(Track, t, evs) = g[Len(evs)]
  BY TrackedSteps
<1>2. \A x \in Trackers, ev \in Events : F[<<x, ev>>] = Track(x, ev) OBVIOUS
<1> HIDE DEF F
<1>3. g \in [0..Len(evs) -> Trackers] /\ g[0] = t
      /\ \A k \in 1..Len(evs) : g[k] = F[<<g[k - 1], evs[k]>>]
  BY <1>1 DEF StepsIn, Steps
<1>4. \A k \in 1..Len(evs) : k - 1 \in 0..Len(evs) /\ evs[k] \in Events OBVIOUS
<1>5. \A k \in 1..Len(evs) : g[k] = Track(g[k - 1], evs[k]) BY <1>2, <1>3, <1>4
<1> QED BY <1>1, <1>3, <1>5 DEF TrackStep, Tracked

\* What each kind of event does to the reader, field by field
LEMMA OpenIs ==
  ASSUME NEW r \in Readers, NEW ev \in Events
  PROVE  LET u == Observe(r, ev) IN
         /\ u \in Readers
         /\ u.last = ev.type
         /\ u.began = (r.began \/ ev.type = "message_start")
         /\ u.wrong = (r.wrong \/ ~Obeys(r, ev))
         /\ ev.type = "content_block_start" =>
              /\ u.open = r.open \cup {<<ev.index, ev.kind>>}
              /\ u.seen = r.seen \cup {ev.index}
              /\ OpenIndices(u) = OpenIndices(r) \cup {ev.index}
         /\ ev.type = "content_block_stop" =>
              /\ u.open = {b \in r.open : b[1] # ev.index}
              /\ u.seen = r.seen
              /\ OpenIndices(u) = OpenIndices(r) \ {ev.index}
         /\ ev.type \notin {"content_block_start", "content_block_stop"} =>
              /\ u.open = r.open
              /\ u.seen = r.seen
              /\ OpenIndices(u) = OpenIndices(r)
<1> DEFINE u == Observe(r, ev)
<1>1. u \in Readers BY ObserveTyped
<1>2. /\ u.last = ev.type
      /\ u.began = (r.began \/ ev.type = "message_start")
      /\ u.wrong = (r.wrong \/ ~Obeys(r, ev))
  BY DEF Observe, Readers
<1>3. ASSUME ev.type = "content_block_start"
      PROVE  /\ u.open = r.open \cup {<<ev.index, ev.kind>>}
             /\ u.seen = r.seen \cup {ev.index}
  BY <1>3 DEF Observe, Readers
<1>4. ASSUME ev.type = "content_block_stop"
      PROVE  /\ u.open = {b \in r.open : b[1] # ev.index}
             /\ u.seen = r.seen
  BY <1>4 DEF Observe, Readers
<1>5. ASSUME ev.type \notin {"content_block_start", "content_block_stop"}
      PROVE  u.open = r.open /\ u.seen = r.seen
  BY <1>5 DEF Observe, Readers
<1> HIDE DEF u
<1>6. ev.type = "content_block_start" => OpenIndices(u) = OpenIndices(r) \cup {ev.index}
  <2> SUFFICES ASSUME ev.type = "content_block_start"
               PROVE  OpenIndices(u) = OpenIndices(r) \cup {ev.index}
    OBVIOUS
  <2> DEFINE new == <<ev.index, ev.kind>>
  <2>1. u.open = r.open \cup {new} /\ new[1] = ev.index BY <1>3
  <2> HIDE DEF new
  <2>2. \A b \in u.open : b[1] \in OpenIndices(r) \cup {ev.index} BY <2>1 DEF OpenIndices
  <2>3. \A b \in r.open : b[1] \in OpenIndices(u) BY <2>1 DEF OpenIndices
  <2>4. ev.index \in OpenIndices(u) BY <2>1 DEF OpenIndices
  <2>5. OpenIndices(u) \subseteq OpenIndices(r) \cup {ev.index} BY <2>2 DEF OpenIndices
  <2>6. OpenIndices(r) \subseteq OpenIndices(u) BY <2>3 DEF OpenIndices
  <2> QED BY <2>4, <2>5, <2>6
<1>7. ev.type = "content_block_stop" => OpenIndices(u) = OpenIndices(r) \ {ev.index}
  BY <1>4 DEF OpenIndices
<1>8. ev.type \notin {"content_block_start", "content_block_stop"} => OpenIndices(u) = OpenIndices(r)
  BY <1>5 DEF OpenIndices
<1> QED BY <1>1, <1>2, <1>3, <1>4, <1>5, <1>6, <1>7, <1>8 DEF u

\* Fed with one event, the reader and the tracker go on agreeing.
LEMMA AgreeStep ==
  ASSUME NEW r \in Readers, NEW t \in Trackers, NEW ev \in Events, Agree(r, t)
  PROVE  Agree(Observe(r, ev), Track(t, ev))
<1> DEFINE u == Observe(r, ev)
           v == Track(t, ev)
<1>1. CASE u.wrong BY <1>1 DEF Agree
<1>2. CASE ~u.wrong
  <2>1. ~r.wrong /\ Obeys(r, ev)
    <3>1. u.wrong = (r.wrong \/ ~Obeys(r, ev)) BY OpenIs
    <3> QED BY <1>2, <3>1
  <2>2. /\ ToSet(t.stack) = OpenIndices(r)
        /\ \A j, k \in DOMAIN t.stack : t.stack[j] = t.stack[k] => j = k
        /\ OpenIndices(r) \subseteq r.seen
        /\ \A i \in r.seen : i <= t.max
    BY <2>1 DEF Agree
  <2>3. t.stack \in Seq(Int) /\ t.max \in Int /\ r.seen \in SUBSET Int BY DEF Trackers, Readers
  <2>4. CASE ev.type = "content_block_start"
    <3>1. ev.index \in Int BY <2>4 DEF Events
    <3>2. u.seen = r.seen \cup {ev.index} /\ OpenIndices(u) = OpenIndices(r) \cup {ev.index}
      BY <2>4, OpenIs
    <3>3. ev.index \notin OpenIndices(r) BY <2>1, <2>4 DEF Obeys
    <3> DEFINE w == Append(t.stack, ev.index)
               max == IF ev.index > t.max THEN ev.index ELSE t.max
    <3>4. v = [stack |-> w, max |-> max] BY <2>4 DEF Track
    <3>5. /\ DOMAIN w = 1..(Len(t.stack) + 1) /\ DOMAIN t.stack = 1..Len(t.stack)
          /\ \A k \in 1..Len(t.stack) : w[k] = t.stack[k]
          /\ w[Len(t.stack) + 1] = ev.index
          /\ Len(t.stack) \in Nat
      BY <2>3, <3>1
    <3>6. max \in Int /\ ev.index <= max /\ t.max <= max BY <2>3, <3>1
    <3> HIDE DEF w, max
    <3>7. \A k \in DOMAIN w : k \in DOMAIN t.stack \/ k = Len(t.stack) + 1 BY <3>5
    <3>8. ToSet(w) = ToSet(t.stack) \cup {ev.index}
      <4>1. \A k \in DOMAIN w : w[k] \in ToSet(t.stack) \cup {ev.index} BY <3>5, <3>7 DEF ToSet
      <4>2. \A k \in DOMAIN t.stack : k \in DOMAIN w /\ w[k] = t.stack[k] BY <3>5
      <4>3. Len(t.stack) + 1 \in DOMAIN w BY <3>5
      <4> QED BY <3>5, <4>1, <4>2, <4>3 DEF ToSet
    <3>9. \A k \in DOMAIN t.stack : t.stack[k] # ev.index BY <2>2, <3>3 DEF ToSet
    <3>10. \A j, k \in DOMAIN w : w[j] = w[k] => j = k BY <2>2, <3>5, <3>7, <3>9
    <3>11. \A i \in u.seen : i <= max BY <2>2, <2>3, <3>1, <3>2, <3>6
    <3> QED BY <2>2, <3>2, <3>4, <3>8, <3>10, <3>11 DEF Agree
  <2>5. CASE ev.type = "content_block_stop"
    <3>1. ev.index \in Int BY <2>5 DEF Events
    <3>2. u.seen = r.seen /\ OpenIndices(u) = OpenIndices(r) \ {ev.index} BY <2>5, OpenIs
    <3> DEFINE w == Without(t.stack, ev.index)
    <3>3. v.stack = w /\ v.max = t.max BY <2>5 DEF Track, Trackers
    <3>4. /\ ToSet(w) = ToSet(t.stack) \ {ev.index}
          /\ \A j, k \in DOMAIN w : w[j] = w[k] => j = k
      BY <2>2, <2>3, <3>1, WithoutIs
    <3> HIDE DEF w
    <3> QED BY <2>2, <3>2, <3>3, <3>4 DEF Agree
  <2>6. CASE ev.type \notin {"content_block_start", "content_block_stop"}
    <3>1. u.seen = r.seen /\ OpenIndices(u) = OpenIndices(r) BY <2>6, OpenIs
    <3>2. v = t BY <2>6 DEF Track
    <3> QED BY <2>2, <3>1, <3>2 DEF Agree
  <2> QED BY <2>4, <2>5, <2>6
<1>3. u.wrong \in BOOLEAN
  <2>1. u \in Readers BY OpenIs
  <2> QED BY <2>1 DEF Readers
<1> QED BY <1>1, <1>2, <1>3

\* Fed with any events, they do too.
LEMMA StillAgree ==
  ASSUME NEW r \in Readers, NEW t \in Trackers, NEW evs \in Seq(Events), Agree(r, t)
  PROVE  /\ Observed(r, evs) \in Readers
         /\ Tracked(t, evs) \in Trackers
         /\ Agree(Observed(r, evs), Tracked(t, evs))
<1>1. PICK f : ObserveStep(f, r, evs) /\ Observed(r, evs) = f[Len(evs)] BY Observing
<1>2. PICK g : TrackStep(g, t, evs) /\ Tracked(t, evs) = g[Len(evs)] BY Tracking
<1> DEFINE N == Len(evs)
           P(n) == n <= N => Agree(f[n], g[n])
           S == {n \in Nat : P(n)}
<1>3. N \in Nat /\ \A n \in 1..N : evs[n] \in Events OBVIOUS
<1>4. /\ \A n \in 0..N : f[n] \in Readers /\ g[n] \in Trackers
      /\ \A n \in 1..N : f[n] = Observe(f[n - 1], evs[n]) /\ g[n] = Track(g[n - 1], evs[n])
      /\ f[0] = r /\ g[0] = t
  BY <1>1, <1>2 DEF ObserveStep, TrackStep
<1> HIDE DEF N
<1>5. P(0) BY <1>4
<1>6. ASSUME NEW n \in Nat, P(n) PROVE P(n + 1)
  <2> SUFFICES ASSUME n + 1 <= N PROVE Agree(f[n + 1], g[n + 1]) OBVIOUS
  <2>1. n + 1 \in 1..N /\ n \in 0..N /\ (n + 1) - 1 = n /\ n <= N BY <1>3
  <2>2. Agree(f[n], g[n]) BY <1>6, <2>1
  <2>3. f[n] \in Readers /\ g[n] \in Trackers /\ evs[n + 1] \in Events BY <1>3, <1>4, <2>1
  <2>4. f[n + 1] = Observe(f[n], evs[n + 1]) /\ g[n + 1] = Track(g[n], evs[n + 1]) BY <1>4, <2>1
  <2> QED BY <2>2, <2>3, <2>4, AgreeStep
<1>7. Nat \subseteq S
  <2>1. 0 \in S /\ \A n \in Nat : n \in S => n + 1 \in S
    <3> HIDE DEF P
    <3> QED BY <1>5, <1>6
  <2> HIDE DEF S
  <2> QED BY <2>1, NatInductionOnSet
<1>8. Agree(f[N], g[N]) BY <1>3, <1>7
<1> QED BY <1>1, <1>2, <1>3, <1>4, <1>8 DEF N

-----------------------------------------------------------------------------
(* What sequences of events do to the reader *)

\* Folds over no, one more, one and two events
LEMMA ObservedNothing ==
  ASSUME NEW r \in Readers PROVE Observed(r, <<>>) = r
<1>1. <<>> \in Seq(Events) /\ Len(<<>>) = 0 OBVIOUS
<1>2. PICK f : ObserveStep(f, r, <<>>) /\ Observed(r, <<>>) = f[Len(<<>>)] BY <1>1, Observing
<1> QED BY <1>1, <1>2 DEF ObserveStep

LEMMA ObservedAppend ==
  ASSUME NEW r \in Readers, NEW evs \in Seq(Events), NEW ev \in Events
  PROVE  /\ Append(evs, ev) \in Seq(Events)
         /\ Observed(r, evs) \in Readers
         /\ Observed(r, Append(evs, ev)) = Observe(Observed(r, evs), ev)
<1> DEFINE F == [re \in Readers \X Events |-> Observe(re[1], re[2])]
           more == Append(evs, ev)
           N == Len(evs)
<1>1. /\ more \in Seq(Events) /\ Len(more) = N + 1 /\ N \in Nat
      /\ more[N + 1] = ev /\ \A k \in 1..N : more[k] = evs[k]
  OBVIOUS
<1> HIDE DEF more
<1>2. PICK f : StepsIn(Readers, f, F, r, evs) /\ FoldLeft(Observe, r, evs) = f[N] BY ObservedSteps
<1>3. PICK g : StepsIn(Readers, g, F, r, more) /\ FoldLeft(Observe, r, more) = g[Len(more)]
  BY <1>1, ObservedSteps
<1>4. \A x \in Readers : F[<<x, ev>>] = Observe(x, ev) OBVIOUS
<1> HIDE DEF F, N
<1>5. Steps(f, F, r, evs) /\ Steps(g, F, r, more) BY <1>2, <1>3 DEF StepsIn
<1>6. f[N] = g[N]
  <2>1. N <= Len(evs) /\ N <= Len(more) /\ Len(evs) \in Nat /\ Len(more) \in Nat
    BY <1>1 DEF N
  <2>2. \A k \in 1..N : evs[k] = more[k] BY <1>1
  <2> QED BY <1>1, <1>5, <2>1, <2>2, StepsAgree
<1>7. f[N] \in Readers BY <1>1, <1>2 DEF StepsIn, N
<1>8. g[N + 1] = F[<<g[N], more[N + 1]>>]
  <2>1. N + 1 \in 1..Len(more) /\ (N + 1) - 1 = N BY <1>1
  <2> QED BY <1>5, <2>1 DEF Steps
<1>9. g[N + 1] = Observe(f[N], ev) BY <1>1, <1>4, <1>6, <1>7, <1>8
<1> QED BY <1>1, <1>2, <1>3, <1>7, <1>9 DEF Observed, more

LEMMA ObservedOne ==
  ASSUME NEW r \in Readers, NEW a \in Events
  PROVE  Observed(r, <<a>>) = Observe(r, a)
<1> DEFINE s == <<a>>
<1>1. s \in Seq(Events) /\ Len(s) = 1 /\ s[1] = a OBVIOUS
<1> HIDE DEF s
<1>2. PICK f : ObserveStep(f, r, s) /\ Observed(r, s) = f[Len(s)] BY <1>1, Observing
<1>3. f[0] = r /\ f[1] = Observe(f[1 - 1], s[1]) BY <1>1, <1>2 DEF ObserveStep
<1>4. 1 - 1 = 0 OBVIOUS
<1> QED BY <1>1, <1>2, <1>3, <1>4 DEF s

LEMMA ObservedTwo ==
  ASSUME NEW r \in Readers, NEW a \in Events, NEW b \in Events
  PROVE  Observed(r, <<a, b>>) = Observe(Observe(r, a), b)
<1> DEFINE s == <<a, b>>
<1>1. s \in Seq(Events) /\ Len(s) = 2 /\ s[1] = a /\ s[2] = b OBVIOUS
<1> HIDE DEF s
<1>2. PICK f : ObserveStep(f, r, s) /\ Observed(r, s) = f[Len(s)] BY <1>1, Observing
<1>3. f[0] = r /\ f[1] = Observe(f[1 - 1], s[1]) /\ f[2] = Observe(f[2 - 1], s[2])
  BY <1>1, <1>2 DEF ObserveStep
<1>4. 1 - 1 = 0 /\ 2 - 1 = 1 OBVIOUS
<1>5. f[1] = Observe(r, a) BY <1>1, <1>3, <1>4
<1>6. f[2] = Observe(f[1], b) BY <1>1, <1>3, <1>4
<1> QED BY <1>1, <1>2, <1>5, <1>6 DEF s

\* What is observed after some events goes on where they ended.
LEMMA ObservedConcat ==
  ASSUME NEW r \in Readers, NEW s \in Seq(Events), NEW t \in Seq(Events)
  PROVE  /\ Observed(r, s) \in Readers
         /\ Observed(r, s \o t) = Observed(Observed(r, s), t)
<1> DEFINE N == Len(s)
           M == Len(t)
           u == s \o t
           q == Observed(r, s)
<1>1. /\ u \in Seq(Events) /\ Len(u) = N + M
      /\ \A k \in 1..(N + M) : u[k] = IF k <= N THEN s[k] ELSE t[k - N]
  BY ConcatProperties
<1>2. N \in Nat /\ M \in Nat OBVIOUS
<1>3. PICK f : ObserveStep(f, r, s) /\ q = f[N] BY Observing
<1>4. q \in Readers BY <1>2, <1>3 DEF ObserveStep
<1> HIDE DEF u, q
<1>5. PICK g : ObserveStep(g, q, t) /\ Observed(q, t) = g[M] BY <1>4, Observing
<1>6. PICK h : ObserveStep(h, r, u) /\ Observed(r, u) = h[Len(u)] BY <1>1, Observing
<1> DEFINE both == [k \in 0..(N + M) |-> IF k <= N THEN f[k] ELSE g[k - N]]
           P(k) == k <= N + M => h[k] = both[k]
           S == {k \in Nat : P(k)}
<1>a. f[0] = r /\ \A k \in 1..N : f[k] = Observe(f[k - 1], s[k]) BY <1>3 DEF ObserveStep
<1>b. g[0] = q /\ \A k \in 1..M : g[k] = Observe(g[k - 1], t[k]) BY <1>5 DEF ObserveStep
<1>c. h[0] = r /\ \A k \in 1..(N + M) : h[k] = Observe(h[k - 1], u[k])
  BY <1>1, <1>6 DEF ObserveStep
<1> HIDE DEF N, M
<1>d. /\ \A x \in 0..(N + M) : x <= N => both[x] = f[x]
      /\ \A x \in 0..(N + M) : \A y : ~(x <= N) /\ y = x - N => both[x] = g[y]
  OBVIOUS
<1>e. \A x \in 1..(N + M) : \A y : ~(x <= N) /\ y = x - N => u[x] = t[y] BY <1>1
<1> HIDE DEF both
<1>7. P(0)
  <2>1. 0 \in 0..(N + M) /\ 0 <= N BY <1>2
  <2> QED BY <1>a, <1>c, <1>d, <2>1
<1>8. ASSUME NEW k \in Nat, P(k) PROVE P(k + 1)
  <2> SUFFICES ASSUME k + 1 <= N + M PROVE h[k + 1] = both[k + 1] OBVIOUS
  <2>1. k + 1 \in 1..(N + M) /\ (k + 1) - 1 = k /\ k \in 0..(N + M) /\ k + 1 \in 0..(N + M)
    BY <1>2
  <2>2. h[k] = both[k] BY <1>2, <1>8, <2>1
  <2>3. h[k + 1] = Observe(h[k], u[k + 1]) BY <1>c, <2>1
  <2>4. CASE k + 1 <= N
    <3>1. k <= N /\ k + 1 \in 1..N BY <1>2, <2>1, <2>4
    <3>2. both[k] = f[k] /\ both[k + 1] = f[k + 1] BY <1>d, <2>1, <2>4, <3>1
    <3>3. u[k + 1] = s[k + 1] BY <1>1, <2>1, <2>4
    <3> QED BY <1>a, <2>1, <2>2, <2>3, <3>1, <3>2, <3>3
  <2>5. CASE ~(k + 1 <= N)
    <3>1. k - N \in Nat /\ k + 1 - N \in 1..M /\ (k + 1 - N) - 1 = k - N BY <1>2, <2>1, <2>5
    <3> DEFINE x == k + 1
               y == k + 1 - N
    <3>6. x \in 0..(N + M) /\ x \in 1..(N + M) /\ ~(x <= N) /\ y = x - N BY <1>2, <2>1, <2>5
    <3> HIDE DEF x, y
    <3>7. both[x] = g[y] /\ u[x] = t[y] BY <1>d, <1>e, <3>6
    <3>2. both[k + 1] = g[k + 1 - N] BY <3>7 DEF x, y
    <3>3. both[k] = g[k - N]
      <4>1. CASE k = N
        <5>1. k - N = 0 /\ k <= N BY <1>2, <4>1
        <5> QED BY <1>3, <1>b, <1>d, <2>1, <4>1, <5>1
      <4>2. CASE k # N
        <5>1. ~(k <= N) BY <1>2, <2>5, <4>2
        <5> QED BY <1>d, <2>1, <5>1
      <4> QED BY <4>1, <4>2
    <3>4. u[k + 1] = t[k + 1 - N] BY <3>7 DEF x, y
    <3>5. g[k + 1 - N] = Observe(g[k - N], t[k + 1 - N]) BY <1>b, <3>1
    <3> QED BY <2>2, <2>3, <3>2, <3>3, <3>4, <3>5
  <2> QED BY <2>4, <2>5
<1>9. Nat \subseteq S
  <2>1. 0 \in S /\ \A k \in Nat : k \in S => k + 1 \in S
    <3> HIDE DEF P
    <3> QED BY <1>7, <1>8
  <2> HIDE DEF S
  <2> QED BY <2>1, NatInductionOnSet
<1>10. N + M \in Nat /\ h[N + M] = both[N + M]
  <2>1. N + M \in Nat BY <1>2
  <2> QED BY <1>9, <2>1
<1>11. both[N + M] = g[M]
  <2>1. CASE M = 0
    <3>1. N + M \in 0..(N + M) /\ N + M <= N /\ N + M = N BY <1>2, <2>1
    <3> QED BY <1>3, <1>b, <1>d, <2>1, <3>1
  <2>2. CASE M # 0
    <3> DEFINE x == N + M
    <3>1. x \in 0..(N + M) /\ ~(x <= N) /\ M = x - N BY <1>2, <2>2
    <3> HIDE DEF x
    <3>2. both[x] = g[M] BY <1>d, <3>1
    <3> QED BY <3>2 DEF x
  <2> QED BY <2>1, <2>2
<1> QED BY <1>1, <1>4, <1>5, <1>6, <1>10, <1>11 DEF u, q

\* Stops of distinct blocks that are open
LEMMA StopsObserved ==
  ASSUME NEW r \in Readers, NEW evs \in Seq(Events), ~r.wrong,
         \A k \in 1..Len(evs) :
           evs[k].type = "content_block_stop" /\ evs[k].index \in OpenIndices(r),
         \A j, k \in 1..Len(evs) : evs[j].index = evs[k].index => j = k
  PROVE  /\ Observed(r, evs) \in Readers
         /\ ~Observed(r, evs).wrong
         /\ Observed(r, evs).seen = r.seen
         /\ Observed(r, evs).began = r.began
         /\ Observed(r, evs).open = {b \in r.open : \A k \in 1..Len(evs) : evs[k].index # b[1]}
<1>1. PICK f : ObserveStep(f, r, evs) /\ Observed(r, evs) = f[Len(evs)] BY Observing
<1> DEFINE N == Len(evs)
           Right(u, n) == /\ ~u.wrong
                          /\ u.seen = r.seen
                          /\ u.began = r.began
                          /\ u.open = {b \in r.open : \A k \in 1..n : evs[k].index # b[1]}
           P(n) == n <= N => Right(f[n], n)
           S == {n \in Nat : P(n)}
<1>2. N \in Nat /\ \A n \in 1..N : evs[n] \in Events OBVIOUS
<1>3. /\ \A n \in 0..N : f[n] \in Readers
      /\ \A n \in 1..N : f[n] = Observe(f[n - 1], evs[n])
      /\ f[0] = r
  BY <1>1 DEF ObserveStep
<1> HIDE DEF N
<1>4. P(0)
  <2>1. \A b : \A k \in 1..0 : evs[k].index # b[1] OBVIOUS
  <2> QED BY <1>3, <2>1
<1>5. ASSUME NEW n \in Nat, P(n) PROVE P(n + 1)
  <2> SUFFICES ASSUME n + 1 <= N PROVE Right(f[n + 1], n + 1) OBVIOUS
  <2>1. n + 1 \in 1..N /\ n \in 0..N /\ (n + 1) - 1 = n /\ n <= N BY <1>2
  <2>2. Right(f[n], n) BY <1>5, <2>1
  <2> DEFINE q == f[n]
             u == f[n + 1]
             ev == evs[n + 1]
  <2>3. q \in Readers /\ ev \in Events /\ u = Observe(q, ev) BY <1>2, <1>3, <2>1
  <2>4. ev.type = "content_block_stop" /\ ev.index \in OpenIndices(r) BY <2>1 DEF N
  <2>5. \A k \in 1..n : evs[k].index # ev.index
    <3>1. \A k \in 1..n : k \in 1..N /\ k # n + 1 BY <1>2, <2>1
    <3> QED BY <2>1, <3>1 DEF N
  <2>6. Right(q, n) BY <2>2
  <2> HIDE DEF q, u, ev
  <2>7. ev.index \in OpenIndices(q)
    <3>1. PICK b \in r.open : b[1] = ev.index BY <2>4 DEF OpenIndices
    <3>2. b \in q.open BY <2>5, <2>6, <3>1
    <3> QED BY <3>1, <3>2 DEF OpenIndices
  <2>8. /\ u.wrong = (q.wrong \/ ~Obeys(q, ev)) /\ u.began = (q.began \/ ev.type = "message_start")
        /\ u.open = {b \in q.open : b[1] # ev.index} /\ u.seen = q.seen
    BY <2>3, <2>4, OpenIs
  <2>9. ~u.wrong BY <2>4, <2>6, <2>7, <2>8 DEF Obeys
  <2>10. u.began = r.began
    <3>1. q.began \in BOOLEAN BY <2>3 DEF Readers
    <3> QED BY <2>4, <2>6, <2>8, <3>1
  <2>11. u.open = {b \in r.open : \A k \in 1..(n + 1) : evs[k].index # b[1]}
    <3>1. \A k \in 1..(n + 1) : k \in 1..n \/ k = n + 1 OBVIOUS
    <3>2. n + 1 \in 1..(n + 1) /\ \A k \in 1..n : k \in 1..(n + 1) OBVIOUS
    <3>3. \A b \in r.open : (\A k \in 1..(n + 1) : evs[k].index # b[1])
                              <=> (\A k \in 1..n : evs[k].index # b[1]) /\ ev.index # b[1]
      BY <3>1, <3>2 DEF ev
    <3> QED BY <2>6, <2>8, <3>3
  <2> QED BY <2>6, <2>8, <2>9, <2>10, <2>11 DEF u
<1>6. Nat \subseteq S
  <2>1. 0 \in S /\ \A n \in Nat : n \in S => n + 1 \in S
    <3> HIDE DEF P
    <3> QED BY <1>4, <1>5
  <2> HIDE DEF S
  <2> QED BY <2>1, NatInductionOnSet
<1>7. P(N)
  <2> HIDE DEF P
  <2> QED BY <1>2, <1>6
<1>8. Right(f[N], N) BY <1>2, <1>7
<1>9. f[N] \in Readers BY <1>2, <1>3
<1> QED BY <1>1, <1>8, <1>9 DEF N

\* SetToSeq of a finite set lists each member once.
LEMMA SetAsSequence ==
  ASSUME NEW S, IsFiniteSet(S)
  PROVE  /\ SetToSeq(S) \in Seq(S)
         /\ \A j, k \in 1..Len(SetToSeq(S)) : SetToSeq(S)[j] = SetToSeq(S)[k] => j = k
         /\ \A x \in S : \E k \in 1..Len(SetToSeq(S)) : SetToSeq(S)[k] = x
<1> DEFINE n == Cardinality(S)
           f == SetToSeq(S)
<1>1. n \in Nat /\ ExistsBijection(1..n, S) BY FS_CardinalityType
<1>2. \E g \in [1..n -> S] : IsInjective(g)
  <2>1. PICK g : g \in Bijection(1..n, S) BY <1>1 DEF ExistsBijection
  <2>2. g \in [1..n -> S] /\ \A a, b \in 1..n : g[a] = g[b] => a = b
    BY <2>1 DEF Bijection, Injection, IsInjective
  <2> QED BY <2>2 DEF IsInjective
<1>3. f \in [1..n -> S] /\ IsInjective(f) BY <1>2 DEF SetToSeq
<1> HIDE DEF f
<1>4. f \in Seq(S) /\ Len(f) = n BY <1>1, <1>3
<1>5. \A j, k \in 1..n : f[j] = f[k] => j = k BY <1>3 DEF IsInjective
<1>6. f \in Injection(1..n, S) BY <1>3 DEF Injection
<1>7. f \in Surjection(1..n, S)
  <2>1. Cardinality(1..n) = n BY <1>1, FS_Interval
  <2> QED BY <1>6, <2>1, FS_Injection
<1>8. \A x \in S : \E k \in 1..n : f[k] = x BY <1>7 DEF Surjection
<1> QED BY <1>4, <1>5, <1>8 DEF f

\* The stops of a finite set of blocks
LEMMA StopsOf ==
  ASSUME NEW D \in SUBSET Nat, NEW m \in Nat, \A d \in D : d <= m
  PROVE  LET evs == SetToSeq({Stop(d) : d \in D}) IN
         /\ evs \in Seq(Events)
         /\ \A k \in 1..Len(evs) : evs[k].type = "content_block_stop" /\ evs[k].index \in D
         /\ \A j, k \in 1..Len(evs) : evs[j].index = evs[k].index => j = k
         /\ \A d \in D : \E k \in 1..Len(evs) : evs[k].index = d
<1> DEFINE S == {Stop(d) : d \in D}
           evs == SetToSeq(S)
           f == [d \in D |-> Stop(d)]
<1>1. IsFiniteSet(D) BY FS_BoundedSetOfNaturals
<1>2. f \in Surjection(D, S) BY DEF Surjection
<1>3. IsFiniteSet(S) BY <1>1, <1>2, FS_Surjection
<1>4. \A e \in S : e \in Events /\ e.type = "content_block_stop" /\ e.index \in D /\ e = Stop(e.index)
  <2> SUFFICES ASSUME NEW d \in D
               PROVE  /\ Stop(d) \in Events /\ Stop(d).type = "content_block_stop"
                      /\ Stop(d).index = d
    OBVIOUS
  <2> QED BY DEF Stop, Events
<1>5. \A d \in D : Stop(d) \in S /\ Stop(d).index = d BY DEF Stop
<1> HIDE DEF S, f
<1>6. /\ evs \in Seq(S)
      /\ \A j, k \in 1..Len(evs) : evs[j] = evs[k] => j = k
      /\ \A x \in S : \E k \in 1..Len(evs) : evs[k] = x
  BY <1>3, SetAsSequence
<1> HIDE DEF evs
<1>7. \A k \in 1..Len(evs) : evs[k] \in S BY <1>6
<1>8. evs \in Seq(Events) BY <1>4, <1>6, SeqMonotonic
<1>9. \A k \in 1..Len(evs) : evs[k].type = "content_block_stop" /\ evs[k].index \in D BY <1>4, <1>7
<1>10. \A j, k \in 1..Len(evs) : evs[j].index = evs[k].index => j = k
  <2> SUFFICES ASSUME NEW j \in 1..Len(evs), NEW k \in 1..Len(evs), evs[j].index = evs[k].index
               PROVE  j = k
    OBVIOUS
  <2>1. evs[j] = Stop(evs[j].index) /\ evs[k] = Stop(evs[k].index) BY <1>4, <1>7
  <2> QED BY <1>6, <2>1
<1>11. \A d \in D : \E k \in 1..Len(evs) : evs[k].index = d BY <1>5, <1>6
<1> QED BY <1>8, <1>9, <1>10, <1>11 DEF evs, S

\* The stops of the blocks on the tracker's stack, the last one first
LEMMA StopsOfStack ==
  ASSUME NEW s \in Seq(Int), \A j, k \in DOMAIN s : s[j] = s[k] => j = k
  PROVE  LET evs == [k \in DOMAIN s |-> Stop(Reverse(s)[k])] IN
         /\ evs \in Seq(Events)
         /\ \A k \in 1..Len(evs) : evs[k].type = "content_block_stop" /\ evs[k].index \in ToSet(s)
         /\ \A j, k \in 1..Len(evs) : evs[j].index = evs[k].index => j = k
         /\ \A i \in ToSet(s) : \E k \in 1..Len(evs) : evs[k].index = i
<1> DEFINE N == Len(s)
           evs == [k \in DOMAIN s |-> Stop(Reverse(s)[k])]
<1>1. N \in Nat /\ DOMAIN s = 1..N /\ \A k \in 1..N : s[k] \in Int OBVIOUS
<1>2. \A k \in 1..N : (N - k) + 1 \in 1..N /\ (N - ((N - k) + 1)) + 1 = k BY <1>1
<1>3. \A k \in 1..N : Reverse(s)[k] = s[(N - k) + 1] BY DEF Reverse
<1>4. \A i \in Int : Stop(i) \in Events /\ Stop(i).type = "content_block_stop" /\ Stop(i).index = i
  BY DEF Stop, Events
<1> HIDE DEF N
<1>5. evs = [k \in 1..N |-> evs[k]] BY <1>1
<1>6. \A k \in 1..N : evs[k] = Stop(s[(N - k) + 1]) BY <1>1, <1>3
<1> HIDE DEF evs
<1>7. \A k \in 1..N : evs[k] \in Events BY <1>1, <1>2, <1>4, <1>6
<1>8. evs \in [1..N -> Events] BY <1>5, <1>7
<1>9. evs \in Seq(Events) /\ Len(evs) = N BY <1>1, <1>8
<1>10. \A k \in 1..N : evs[k].type = "content_block_stop" /\ evs[k].index = s[(N - k) + 1]
  BY <1>1, <1>2, <1>4, <1>6
<1>11. \A j, k \in 1..N : evs[j].index = evs[k].index => j = k
  <2> SUFFICES ASSUME NEW j \in 1..N, NEW k \in 1..N, evs[j].index = evs[k].index PROVE j = k
    OBVIOUS
  <2>1. s[(N - j) + 1] = s[(N - k) + 1] BY <1>10
  <2>2. (N - j) + 1 = (N - k) + 1
    <3>1. (N - j) + 1 \in DOMAIN s /\ (N - k) + 1 \in DOMAIN s BY <1>1, <1>2
    <3> QED BY <2>1, <3>1
  <2>3. j \in Int /\ k \in Int OBVIOUS
  <2> QED BY <1>1, <2>2, <2>3
<1>12. \A k \in 1..N : s[(N - k) + 1] \in ToSet(s) BY <1>1, <1>2 DEF ToSet
<1>13. \A i \in ToSet(s) : \E k \in 1..N : evs[k].index = i
  <2> TAKE i \in ToSet(s)
  <2>3. PICK l \in 1..N : s[l] = i BY <1>1 DEF ToSet
  <2> DEFINE k == (N - l) + 1
  <2>1. k \in 1..N /\ (N - k) + 1 = l BY <1>2
  <2> HIDE DEF k
  <2>2. evs[k].index = s[l] BY <1>10, <2>1
  <2> QED BY <2>1, <2>2, <2>3
<1>14. \A k \in 1..N : evs[k].index \in ToSet(s) BY <1>10, <1>12
<1> QED BY <1>9, <1>10, <1>11, <1>13, <1>14 DEF evs

-----------------------------------------------------------------------------
(* The policy and its segments *)

Segment == [down : Nat, kind : Kinds, open : BOOLEAN]
Filings == UNION {[D -> Segment] : D \in SUBSET Indices}
Policies ==
  [next : Nat, segs : Filings, dropped : SUBSET Indices,
   suppressed : SUBSET Indices, stopped : BOOLEAN]
Upstreams ==
  [kind : UNION {[D -> Kinds] : D \in SUBSET Indices}, open : SUBSET Indices,
   again : BOOLEAN, stray : BOOLEAN]

OpenSegs(p) == {j \in DOMAIN p.segs : p.segs[j].open}

\* Segments are renumbered apart.
PolicyOk(p) ==
  /\ \A j \in DOMAIN p.segs : p.segs[j].down < p.next
  /\ \A j, k \in DOMAIN p.segs : p.segs[j].down = p.segs[k].down => j = k

\* If no index was started again, what is open is open upstream, and a stop is
\* swallowed of closed segments only.
Tidy(p, up) ==
  /\ p.suppressed \cup OpenSegs(p) \subseteq up.open
  /\ p.suppressed \cap OpenSegs(p) = {}
  /\ p.dropped \cap (p.suppressed \cup OpenSegs(p)) = {}

\* What the policy knows of the provider's blocks
UpstreamOk(on, p, up) ==
  /\ DOMAIN p.segs \subseteq DOMAIN up.kind
  /\ \A j \in DOMAIN p.segs \ p.dropped : p.segs[j].kind = up.kind[j]
  /\ p.dropped \subseteq DOMAIN up.kind
  /\ on => p.dropped = {} /\ DOMAIN p.segs = DOMAIN up.kind
  /\ up.again \/ Tidy(p, up)

\* What the reader has been told of the policy's segments.  A block whose index
\* was started again is left open, and no segment is filed for it any more.
ReaderOk(p, r, left) ==
  /\ r.open = {<<p.segs[j].down, p.segs[j].kind>> : j \in OpenSegs(p)} \cup left
  /\ \A b \in left : b[1] < p.next /\ \A j \in DOMAIN p.segs : p.segs[j].down # b[1]
  /\ \A i \in r.seen : i < p.next
  /\ ~r.wrong

Told(p, r, up) == \E left \in SUBSET r.open : ReaderOk(p, r, left) /\ (up.again \/ left = {})

\* A segment that is filed is a segment.
LEMMA SegsTyped ==
  ASSUME NEW p \in Policies
  PROVE  /\ DOMAIN p.segs \in SUBSET Indices
         /\ \A j \in DOMAIN p.segs : p.segs[j] \in Segment
         /\ p.segs = [j \in DOMAIN p.segs |-> p.segs[j]]
         /\ p.next \in Nat
<1>1. PICK D \in SUBSET Indices : p.segs \in [D -> Segment] BY DEF Policies, Filings
<1>2. p.next \in Nat BY DEF Policies
<1> QED BY <1>1, <1>2

\* _allocate_new_segment, field by field
LEMMA AllocatedIs ==
  ASSUME NEW p \in Policies, NEW i \in Indices, NEW kind \in Kinds
  PROVE  LET q == Allocated(p, i, kind) IN
         /\ q \in Policies
         /\ q.next = p.next + 1
         /\ DOMAIN q.segs = DOMAIN p.segs \cup {i}
         /\ q.segs[i] = [down |-> p.next, kind |-> kind, open |-> TRUE]
         /\ \A j \in DOMAIN p.segs : j # i => q.segs[j] = p.segs[j]
         /\ q.dropped = p.dropped /\ q.suppressed = p.suppressed
<1> DEFINE segs == [j \in DOMAIN p.segs \cup {i} |->
                      IF j = i THEN [down |-> p.next, kind |-> kind, open |-> TRUE] ELSE p.segs[j]]
           q == Allocated(p, i, kind)
<1>1. /\ DOMAIN p.segs \in SUBSET Indices /\ p.next \in Nat
      /\ \A j \in DOMAIN p.segs : p.segs[j] \in Segment
  BY SegsTyped
<1>2. [down |-> p.next, kind |-> kind, open |-> TRUE] \in Segment BY <1>1 DEF Segment
<1>3. /\ DOMAIN segs = DOMAIN p.segs \cup {i}
      /\ segs[i] = [down |-> p.next, kind |-> kind, open |-> TRUE]
      /\ \A j \in DOMAIN p.segs : j # i => segs[j] = p.segs[j]
  OBVIOUS
<1>4. segs \in [DOMAIN p.segs \cup {i} -> Segment] BY <1>1, <1>2
<1>5. q = [p EXCEPT !.next = p.next + 1, !.segs = segs] BY DEF Allocated, Policies
<1> HIDE DEF segs, q
<1>6. segs \in Filings BY <1>1, <1>4 DEF Filings
<1>7. q.next = p.next + 1 /\ q.segs = segs /\ q.dropped = p.dropped /\ q.suppressed = p.suppressed
  BY <1>5 DEF Policies
<1>8. q \in Policies
  <2>1. p.next + 1 \in Nat BY <1>1
  <2> QED BY <1>5, <1>6, <2>1 DEF Policies
<1> QED BY <1>3, <1>7, <1>8 DEF q

\* _synthetic_close_other_open_blocks, field by field
LEMMA ClosedIs ==
  ASSUME NEW p \in Policies, NEW js \in SUBSET DOMAIN p.segs
  PROVE  LET q == Closed(p, js) IN
         /\ q \in Policies
         /\ q.next = p.next
         /\ DOMAIN q.segs = DOMAIN p.segs
         /\ \A j \in DOMAIN p.segs :
              /\ q.segs[j].down = p.segs[j].down /\ q.segs[j].kind = p.segs[j].kind
              /\ q.segs[j].open = (p.segs[j].open /\ j \notin js)
         /\ q.dropped = p.dropped /\ q.suppressed = p.suppressed \cup js
<1> DEFINE segs == [j \in DOMAIN p.segs |->
                      IF j \in js THEN [p.segs[j] EXCEPT !.open = FALSE] ELSE p.segs[j]]
           q == Closed(p, js)
<1>1. /\ DOMAIN p.segs \in SUBSET Indices
      /\ \A j \in DOMAIN p.segs : p.segs[j] \in Segment
  BY SegsTyped
<1>2. ASSUME NEW j \in DOMAIN p.segs
      PROVE  /\ segs[j] \in Segment
             /\ segs[j].down = p.segs[j].down /\ segs[j].kind = p.segs[j].kind
             /\ segs[j].open = (p.segs[j].open /\ j \notin js)
  <2> DEFINE g == p.segs[j]
  <2>1. g \in Segment BY <1>1
  <2>2. segs[j] = IF j \in js THEN [g EXCEPT !.open = FALSE] ELSE g OBVIOUS
  <2> HIDE DEF g, segs
  <2>3. CASE j \in js
    <3>1. segs[j] \in Segment /\ segs[j].open = FALSE /\ segs[j].down = g.down /\ segs[j].kind = g.kind
      BY <2>1, <2>2, <2>3 DEF Segment
    <3> QED BY <2>3, <3>1 DEF g
  <2>4. CASE j \notin js
    <3>1. g.open \in BOOLEAN BY <2>1 DEF Segment
    <3> QED BY <2>1, <2>2, <2>4, <3>1 DEF g
  <2> QED BY <2>3, <2>4
<1>3. q = [p EXCEPT !.segs = segs, !.suppressed = p.suppressed \cup js] BY DEF Closed, Policies
<1>4. DOMAIN segs = DOMAIN p.segs /\ segs = [j \in DOMAIN p.segs |-> segs[j]] OBVIOUS
<1> HIDE DEF segs, q
<1>5. segs \in [DOMAIN p.segs -> Segment] BY <1>2, <1>4
<1>6. segs \in Filings BY <1>1, <1>5 DEF Filings
<1>7. q.next = p.next /\ q.segs = segs /\ q.dropped = p.dropped /\ q.suppressed = p.suppressed \cup js
  BY <1>3 DEF Policies
<1>8. p.suppressed \cup js \in SUBSET Indices BY <1>1 DEF Policies
<1>9. q \in Policies BY <1>3, <1>6, <1>8 DEF Policies
<1> QED BY <1>2, <1>4, <1>7, <1>9 DEF q

\* The indices of the open segments are open, and no others have been given out.
LEMMA OpenIndicesAre ==
  ASSUME NEW p \in Policies, NEW r \in Readers, PolicyOk(p), NEW left, ReaderOk(p, r, left)
  PROVE  /\ \A j \in OpenSegs(p) : p.segs[j].down \in OpenIndices(r)
         /\ \A d \in OpenIndices(r) : d < p.next
<1> DEFINE b(j) == <<p.segs[j].down, p.segs[j].kind>>
<1>1. r.open = {b(j) : j \in OpenSegs(p)} \cup left BY DEF ReaderOk
<1>2. \A j : b(j)[1] = p.segs[j].down OBVIOUS
<1> HIDE DEF b
<1>3. \A j \in OpenSegs(p) : b(j) \in r.open BY <1>1
<1>4. \A j \in OpenSegs(p) : p.segs[j].down \in OpenIndices(r) BY <1>2, <1>3 DEF OpenIndices
<1>5. \A j \in OpenSegs(p) : b(j)[1] < p.next BY <1>2 DEF PolicyOk, OpenSegs
<1>6. \A c \in left : c[1] < p.next BY DEF ReaderOk
<1>7. \A c \in r.open : c[1] < p.next BY <1>1, <1>5, <1>6
<1>8. \A d \in OpenIndices(r) : d < p.next BY <1>7 DEF OpenIndices
<1> QED BY <1>4, <1>8

\* The open block of an index that is started again
Orphan(p, i) == {<<p.segs[j].down, p.segs[j].kind>> : j \in OpenSegs(p) \cap {i}}

\* A new segment, and its start
LEMMA Starting ==
  ASSUME NEW p \in Policies, NEW r \in Readers, PolicyOk(p), NEW left, ReaderOk(p, r, left),
         NEW i \in Indices, NEW kind \in Kinds
  PROVE  /\ Start(p.next, kind) \in Events
         /\ PolicyOk(Allocated(p, i, kind))
         /\ ReaderOk(Allocated(p, i, kind), Observe(r, Start(p.next, kind)), left \cup Orphan(p, i))
         /\ OpenSegs(Allocated(p, i, kind)) = OpenSegs(p) \cup {i}
<1> DEFINE q == Allocated(p, i, kind)
           ev == Start(p.next, kind)
           u == Observe(r, ev)
<1>1. /\ q \in Policies
      /\ q.next = p.next + 1
      /\ DOMAIN q.segs = DOMAIN p.segs \cup {i}
      /\ q.segs[i] = [down |-> p.next, kind |-> kind, open |-> TRUE]
      /\ \A j \in DOMAIN p.segs : j # i => q.segs[j] = p.segs[j]
      /\ q.suppressed = p.suppressed
  BY AllocatedIs
<1>2. /\ p.next \in Nat /\ \A j \in DOMAIN p.segs : p.segs[j].down \in Nat
  BY SegsTyped DEF Segment
<1>3. ev \in Events /\ ev.type = "content_block_start" /\ ev.index = p.next /\ ev.kind = kind
  BY <1>2 DEF Start, Events, BlockKinds
<1> HIDE DEF q, ev, u
<1>4. q.segs[i].down = p.next /\ q.segs[i].kind = kind /\ q.segs[i].open = TRUE BY <1>1
<1>5. OpenSegs(q) = OpenSegs(p) \cup {i} BY <1>1, <1>4 DEF OpenSegs
<1>6. PolicyOk(q)
  <2>1. \A j \in DOMAIN q.segs : j = i \/ (j \in DOMAIN p.segs /\ j # i /\ q.segs[j] = p.segs[j]) BY <1>1
  <2>2. \A j \in DOMAIN q.segs : q.segs[j].down < q.next BY <1>1, <1>2, <1>4, <2>1 DEF PolicyOk
  <2>3. \A j, k \in DOMAIN q.segs : q.segs[j].down = q.segs[k].down => j = k
    BY <1>2, <1>4, <2>1 DEF PolicyOk
  <2> QED BY <2>2, <2>3 DEF PolicyOk
<1>7. \A d \in OpenIndices(r) : d < p.next BY OpenIndicesAre
<1>8. p.next \notin OpenIndices(r) \cup r.seen
  <2>1. p.next \notin OpenIndices(r) BY <1>2, <1>7
  <2>2. p.next \notin r.seen BY <1>2 DEF ReaderOk
  <2> QED BY <2>1, <2>2
<1>9. /\ u.open = r.open \cup {<<p.next, kind>>} /\ u.seen = r.seen \cup {p.next}
      /\ u.wrong = (r.wrong \/ ~Obeys(r, ev))
  BY <1>3, OpenIs DEF u
<1>10. Obeys(r, ev) BY <1>3, <1>8 DEF Obeys
<1>11. ReaderOk(q, u, left \cup Orphan(p, i))
  <2> DEFINE b(j) == <<p.segs[j].down, p.segs[j].kind>>
             c(j) == <<q.segs[j].down, q.segs[j].kind>>
             more == {b(j) : j \in OpenSegs(p) \cap {i}}
  <2>0. more = Orphan(p, i) BY DEF Orphan
  <2>1. u.open = {c(j) : j \in OpenSegs(q)} \cup (left \cup more)
    <3>1. \A j \in OpenSegs(p) : j # i => c(j) = b(j) BY <1>1 DEF OpenSegs
    <3>2. c(i) = <<p.next, kind>> BY <1>4
    <3>3. r.open = {b(j) : j \in OpenSegs(p)} \cup left BY DEF ReaderOk
    <3> HIDE DEF b, c
    <3>4. u.open = ({b(j) : j \in OpenSegs(p)} \cup left) \cup {c(i)} BY <1>9, <3>2, <3>3
    <3>5. {b(j) : j \in OpenSegs(p)} \cup {c(i)} = {c(j) : j \in OpenSegs(q)} \cup more
      BY <1>5, <3>1
    <3> QED BY <3>4, <3>5
  <2>2. \A k \in u.seen : k < q.next
    <3>1. r.seen \in SUBSET Int BY DEF Readers
    <3> QED BY <1>1, <1>2, <1>9, <3>1 DEF ReaderOk
  <2>3. ~u.wrong BY <1>9, <1>10 DEF ReaderOk
  <2>4. \A x \in left : x[1] < q.next /\ \A j \in DOMAIN q.segs : q.segs[j].down # x[1]
    <3> TAKE x \in left
    <3>1. x[1] < p.next /\ \A j \in DOMAIN p.segs : p.segs[j].down # x[1] BY DEF ReaderOk
    <3>2. x[1] \in Int
      <4>1. x \in r.open /\ r.open \in SUBSET (Int \X BlockKinds) BY DEF ReaderOk, Readers
      <4> QED BY <4>1
    <3>3. x[1] < q.next /\ x[1] # p.next BY <1>1, <1>2, <3>1, <3>2
    <3>4. \A j \in DOMAIN q.segs : j = i \/ (j \in DOMAIN p.segs /\ q.segs[j] = p.segs[j]) BY <1>1
    <3> QED BY <1>4, <3>1, <3>3, <3>4
  <2>5. \A x \in more : x[1] < q.next /\ \A j \in DOMAIN q.segs : q.segs[j].down # x[1]
    <3> TAKE x \in more
    <3>1. i \in OpenSegs(p) /\ i \in DOMAIN p.segs /\ x[1] = p.segs[i].down BY DEF OpenSegs
    <3>2. x[1] < p.next /\ x[1] \in Nat BY <1>2, <3>1 DEF PolicyOk
    <3>3. x[1] < q.next /\ x[1] # p.next BY <1>1, <1>2, <3>2
    <3>4. \A j \in DOMAIN q.segs : j = i \/ (j \in DOMAIN p.segs /\ j # i /\ q.segs[j] = p.segs[j])
      BY <1>1
    <3>5. \A j \in DOMAIN p.segs : p.segs[j].down = p.segs[i].down => j = i BY <3>1 DEF PolicyOk
    <3> QED BY <1>4, <3>1, <3>3, <3>4, <3>5
  <2> HIDE DEF more
  <2> QED BY <2>0, <2>1, <2>2, <2>3, <2>4, <2>5 DEF ReaderOk
<1> QED BY <1>3, <1>5, <1>6, <1>11 DEF q, ev, u

\* Segments that are closed, and their stops
LEMMA Closing ==
  ASSUME NEW p \in Policies, NEW r \in Readers, PolicyOk(p), NEW left, ReaderOk(p, r, left),
         NEW js \in SUBSET OpenSegs(p)
  PROVE  LET evs == SetToSeq({Stop(p.segs[j].down) : j \in js}) IN
         /\ evs \in Seq(Events)
         /\ PolicyOk(Closed(p, js))
         /\ ReaderOk(Closed(p, js), Observed(r, evs), left)
         /\ OpenSegs(Closed(p, js)) = OpenSegs(p) \ js
         /\ Observed(r, evs).began = r.began
<1> DEFINE D == {p.segs[j].down : j \in js}
           evs == SetToSeq({Stop(p.segs[j].down) : j \in js})
           q == Closed(p, js)
           u == Observed(r, evs)
<1>1. /\ p.next \in Nat
      /\ \A j \in DOMAIN p.segs : p.segs[j].down \in Nat /\ p.segs[j].open \in BOOLEAN
  BY SegsTyped DEF Segment
<1>2. js \subseteq DOMAIN p.segs BY DEF OpenSegs
<1>3. /\ q \in Policies
      /\ q.next = p.next
      /\ DOMAIN q.segs = DOMAIN p.segs
      /\ \A j \in DOMAIN p.segs :
           /\ q.segs[j].down = p.segs[j].down /\ q.segs[j].kind = p.segs[j].kind
           /\ q.segs[j].open = (p.segs[j].open /\ j \notin js)
      /\ q.suppressed = p.suppressed \cup js
  BY <1>2, ClosedIs
<1>4. {Stop(p.segs[j].down) : j \in js} = {Stop(d) : d \in D} OBVIOUS
<1>5. D \in SUBSET Nat /\ \A d \in D : d <= p.next BY <1>1, <1>2 DEF PolicyOk
<1> HIDE DEF q
<1>6. OpenSegs(q) = OpenSegs(p) \ js BY <1>3 DEF OpenSegs
<1>7. PolicyOk(q)
  <2>2. \A j \in DOMAIN q.segs : q.segs[j].down < q.next BY <1>3 DEF PolicyOk
  <2>3. \A j, k \in DOMAIN q.segs : q.segs[j].down = q.segs[k].down => j = k
    BY <1>3 DEF PolicyOk
  <2> QED BY <2>2, <2>3 DEF PolicyOk
<1>8. \A j \in OpenSegs(p) : p.segs[j].down \in OpenIndices(r) BY OpenIndicesAre
<1>9. D \subseteq OpenIndices(r) BY <1>8
<1>10. /\ evs \in Seq(Events)
       /\ \A k \in 1..Len(evs) : evs[k].type = "content_block_stop" /\ evs[k].index \in D
       /\ \A j, k \in 1..Len(evs) : evs[j].index = evs[k].index => j = k
       /\ \A d \in D : \E k \in 1..Len(evs) : evs[k].index = d
  <2> HIDE DEF D
  <2> DEFINE two == SetToSeq({Stop(d) : d \in D})
  <2>1. evs = two BY <1>4
  <2>2. /\ two \in Seq(Events)
        /\ \A k \in 1..Len(two) : two[k].type = "content_block_stop" /\ two[k].index \in D
        /\ \A j, k \in 1..Len(two) : two[j].index = two[k].index => j = k
        /\ \A d \in D : \E k \in 1..Len(two) : two[k].index = d
    BY <1>1, <1>5, StopsOf
  <2> HIDE DEF two, evs
  <2> QED BY <2>1, <2>2
<1> HIDE DEF evs, D
<1>11. ~r.wrong BY DEF ReaderOk
<1>12. /\ u \in Readers
       /\ ~u.wrong
       /\ u.seen = r.seen
       /\ u.began = r.began
       /\ u.open = {b \in r.open : \A k \in 1..Len(evs) : evs[k].index # b[1]}
  <2>1. \A k \in 1..Len(evs) : evs[k].type = "content_block_stop" /\ evs[k].index \in OpenIndices(r)
    BY <1>9, <1>10
  <2> QED BY <1>10, <1>11, <2>1, StopsObserved
<1> HIDE DEF u
<1>13. u.open = {<<q.segs[j].down, q.segs[j].kind>> : j \in OpenSegs(q)} \cup left
  <2> DEFINE b(j) == <<p.segs[j].down, p.segs[j].kind>>
             c(j) == <<q.segs[j].down, q.segs[j].kind>>
  <2>1. \A j \in OpenSegs(p) : c(j) = b(j) /\ b(j)[1] = p.segs[j].down BY <1>3 DEF OpenSegs
  <2>2. r.open = {b(j) : j \in OpenSegs(p)} \cup left BY DEF ReaderOk
  <2>3. u.open = {x \in r.open : x[1] \notin D} BY <1>10, <1>12
  <2>4. \A j \in OpenSegs(p) : p.segs[j].down \in D <=> j \in js
    BY DEF PolicyOk, OpenSegs, D
  <2>7. \A x \in left : x[1] \notin D BY <1>2 DEF ReaderOk, D
  <2> HIDE DEF b, c
  <2>5. u.open = {b(j) : j \in OpenSegs(p) \ js} \cup left
    <3>1. \A j \in OpenSegs(p) : b(j)[1] \in D <=> j \in js BY <2>1, <2>4
    <3> QED BY <2>2, <2>3, <2>7, <3>1
  <2>6. u.open = {c(j) : j \in OpenSegs(q)} \cup left BY <1>6, <2>1, <2>5
  <2> QED BY <2>6 DEF c
<1>14. ReaderOk(q, u, left)
  <2>1. \A x \in left : x[1] < q.next /\ \A j \in DOMAIN q.segs : q.segs[j].down # x[1]
    BY <1>3 DEF ReaderOk
  <2> QED BY <1>3, <1>12, <1>13, <2>1 DEF ReaderOk
<1> QED BY <1>6, <1>7, <1>10, <1>12, <1>14 DEF q, u, evs

\* A delta of an open segment
LEMMA Filling ==
  ASSUME NEW p \in Policies, NEW r \in Readers, PolicyOk(p), NEW left, ReaderOk(p, r, left),
         NEW i \in OpenSegs(p)
  PROVE  /\ Delta(p.segs[i].down, p.segs[i].kind) \in Events
         /\ ReaderOk(p, Observe(r, Delta(p.segs[i].down, p.segs[i].kind)), left)
<1> DEFINE d == p.segs[i].down
           k == p.segs[i].kind
           ev == Delta(d, k)
           u == Observe(r, ev)
           b(j) == <<p.segs[j].down, p.segs[j].kind>>
<1>1. i \in DOMAIN p.segs BY DEF OpenSegs
<1>2. d \in Nat /\ k \in Kinds BY <1>1, SegsTyped DEF Segment
<1>3. \A j : b(j)[1] = p.segs[j].down /\ b(j)[2] = p.segs[j].kind OBVIOUS
<1>4. r.open = {b(j) : j \in OpenSegs(p)} \cup left BY DEF ReaderOk
<1>0. \A c \in left : c[1] # d BY <1>1 DEF ReaderOk
<1>5. \A j \in OpenSegs(p) : p.segs[j].down = d => j = i BY <1>1 DEF PolicyOk, OpenSegs
<1> HIDE DEF b
<1>6. {c \in r.open : c[1] = d} = {b(i)}
  <2>1. b(i) \in r.open /\ b(i)[1] = d BY <1>3, <1>4
  <2>2. \A c \in r.open : c[1] = d => c = b(i) BY <1>0, <1>3, <1>4, <1>5
  <2> QED BY <2>1, <2>2
<1>7. KindsAt(r, d) = {k}
  <2>1. KindsAt(r, d) = {c[2] : c \in {b(i)}} BY <1>6 DEF KindsAt
  <2> QED BY <1>3, <2>1
<1>8. k \notin NoDeltaKinds BY <1>2 DEF Kinds, NoDeltaKinds
<1>9. ev \in Events /\ ev.type = "content_block_delta" /\ ev.index = d /\ ev.kind = k
  BY <1>2 DEF Delta, Events, BlockKinds
<1> HIDE DEF ev
<1>10. Obeys(r, ev) BY <1>7, <1>8, <1>9 DEF Obeys
<1>11. u.open = r.open /\ u.seen = r.seen /\ u.wrong = (r.wrong \/ ~Obeys(r, ev))
  BY <1>9, OpenIs
<1>12. ReaderOk(p, u, left) BY <1>10, <1>11 DEF ReaderOk
<1> QED BY <1>9, <1>12 DEF ev

\* Events about the message as a whole
LEMMA Telling ==
  ASSUME NEW r \in Readers, NEW type \in {"message_start", "message_delta", "message_stop", "error"}
  PROVE  LET u == Observe(r, Message(type)) IN
         /\ Message(type) \in Events
         /\ u \in Readers
         /\ u.open = r.open /\ u.seen = r.seen /\ u.wrong = r.wrong /\ u.last = type
         /\ u.began = (r.began \/ type = "message_start")
         /\ \A p, left : ReaderOk(p, r, left) => ReaderOk(p, u, left)
<1> DEFINE ev == Message(type)
           u == Observe(r, ev)
<1>1. ev \in Events /\ ev.type = type BY DEF Message, Events
<1>2. Obeys(r, ev) BY <1>1 DEF Obeys
<1> HIDE DEF ev
<1>3. r.wrong \in BOOLEAN BY DEF Readers
<1>4. ev.type \notin {"content_block_start", "content_block_stop"} BY <1>1
<1>5. /\ u \in Readers
      /\ u.open = r.open /\ u.seen = r.seen /\ u.wrong = r.wrong /\ u.last = type
      /\ u.began = (r.began \/ type = "message_start")
  BY <1>1, <1>2, <1>3, <1>4, OpenIs
<1> HIDE DEF u
<1>6. \A p, left : ReaderOk(p, r, left) => ReaderOk(p, u, left) BY <1>5 DEF ReaderOk
<1> QED BY <1>1, <1>5, <1>6 DEF u, ev

\* The stop of an open segment
LEMMA Ending ==
  ASSUME NEW p \in Policies, NEW r \in Readers, PolicyOk(p), NEW left, ReaderOk(p, r, left),
         NEW i \in OpenSegs(p)
  PROVE  LET q == [p EXCEPT !.segs[i].open = FALSE] IN
         /\ Stop(p.segs[i].down) \in Events
         /\ q \in Policies
         /\ q.dropped = p.dropped /\ q.suppressed = p.suppressed /\ DOMAIN q.segs = DOMAIN p.segs
         /\ \A j \in DOMAIN p.segs : q.segs[j].kind = p.segs[j].kind
         /\ PolicyOk(q)
         /\ ReaderOk(q, Observe(r, Stop(p.segs[i].down)), left)
         /\ OpenSegs(q) = OpenSegs(p) \ {i}
<1> DEFINE q == [p EXCEPT !.segs[i].open = FALSE]
           segs == [p.segs EXCEPT ![i].open = FALSE]
           d == p.segs[i].down
           ev == Stop(d)
           u == Observe(r, ev)
<1>1. i \in DOMAIN p.segs BY DEF OpenSegs
<1>2. /\ DOMAIN p.segs \in SUBSET Indices /\ p.next \in Nat
      /\ \A j \in DOMAIN p.segs : p.segs[j] \in Segment
      /\ p.segs = [j \in DOMAIN p.segs |-> p.segs[j]]
  BY SegsTyped
<1>3. p.segs[i] \in Segment BY <1>1, <1>2
<1>4. q = [p EXCEPT !.segs = segs] BY DEF Policies
<1>5. DOMAIN segs = DOMAIN p.segs /\ segs = [j \in DOMAIN p.segs |-> segs[j]] BY <1>2
<1>6. \A j \in DOMAIN p.segs : j # i => segs[j] = p.segs[j] BY <1>2
<1>7. segs[i] = [p.segs[i] EXCEPT !.open = FALSE] BY <1>1
<1> HIDE DEF segs, q
<1>8. segs[i] \in Segment /\ segs[i].down = d /\ segs[i].kind = p.segs[i].kind /\ segs[i].open = FALSE
  BY <1>3, <1>7 DEF Segment
<1>9. segs \in Filings
  <2>1. segs \in [DOMAIN p.segs -> Segment] BY <1>2, <1>5, <1>6, <1>8
  <2> QED BY <1>2, <2>1 DEF Filings
<1>10. q \in Policies BY <1>4, <1>9 DEF Policies
<1>11. q.segs = segs /\ q.next = p.next /\ q.suppressed = p.suppressed /\ q.dropped = p.dropped
  BY <1>4 DEF Policies
<1>12. OpenSegs(q) = OpenSegs(p) \ {i} BY <1>5, <1>6, <1>8, <1>11 DEF OpenSegs
<1>13. \A j \in DOMAIN p.segs : segs[j].down = p.segs[j].down /\ segs[j].kind = p.segs[j].kind
  BY <1>6, <1>8
<1>14. PolicyOk(q)
  <2>1. \A j \in DOMAIN q.segs : q.segs[j].down < q.next BY <1>5, <1>11, <1>13 DEF PolicyOk
  <2>2. \A j, k \in DOMAIN q.segs : q.segs[j].down = q.segs[k].down => j = k
    BY <1>5, <1>11, <1>13 DEF PolicyOk
  <2> QED BY <2>1, <2>2 DEF PolicyOk
<1>15. d \in Nat BY <1>3 DEF Segment
<1>16. ev \in Events /\ ev.type = "content_block_stop" /\ ev.index = d BY <1>15 DEF Stop, Events
<1>17. d \in OpenIndices(r) BY OpenIndicesAre
<1> HIDE DEF ev
<1>18. Obeys(r, ev) BY <1>16, <1>17 DEF Obeys
<1>19. /\ u.open = {b \in r.open : b[1] # d} /\ u.seen = r.seen
       /\ u.wrong = (r.wrong \/ ~Obeys(r, ev))
  BY <1>16, OpenIs
<1> HIDE DEF u
<1>20. u.open = {<<q.segs[j].down, q.segs[j].kind>> : j \in OpenSegs(q)} \cup left
  <2> DEFINE b(j) == <<p.segs[j].down, p.segs[j].kind>>
             c(j) == <<q.segs[j].down, q.segs[j].kind>>
  <2>1. \A j \in OpenSegs(p) : c(j) = b(j) /\ b(j)[1] = p.segs[j].down
    BY <1>11, <1>13 DEF OpenSegs
  <2>2. r.open = {b(j) : j \in OpenSegs(p)} \cup left BY DEF ReaderOk
  <2>3. \A j \in OpenSegs(p) : p.segs[j].down = d <=> j = i BY <1>1 DEF PolicyOk, OpenSegs
  <2>6. \A x \in left : x[1] # d BY <1>1 DEF ReaderOk
  <2> HIDE DEF b, c, d
  <2>4. u.open = {b(j) : j \in OpenSegs(p) \ {i}} \cup left BY <1>19, <2>1, <2>2, <2>3, <2>6
  <2>5. u.open = {c(j) : j \in OpenSegs(q)} \cup left BY <1>12, <2>1, <2>4
  <2> QED BY <2>5 DEF c
<1>21. ReaderOk(q, u, left)
  <2>1. \A x \in left : x[1] < q.next /\ \A j \in DOMAIN q.segs : q.segs[j].down # x[1]
    BY <1>5, <1>11, <1>13 DEF ReaderOk
  <2> QED BY <1>11, <1>18, <1>19, <1>20, <2>1 DEF ReaderOk
<1> QED BY <1>5, <1>10, <1>11, <1>12, <1>13, <1>14, <1>16, <1>21 DEF q, ev, u

-----------------------------------------------------------------------------
(* The end of a stream *)

\* The error block and the end of the message, on a reader with nothing open
LEMMA TailObserved ==
  ASSUME NEW r \in Readers, ~r.wrong, r.open = {}, NEW i \in Int, i \notin r.seen
  PROVE  LET u == Observed(r, ErrorTail(i)) IN
         /\ ErrorTail(i) \in Seq(Events)
         /\ u.last = "message_stop" /\ ~u.wrong
         /\ r.began => Complete(u)
<1> DEFINE s == ErrorTail(i)
           a == Start(i, "text")
           b == Delta(i, "text")
           c == Stop(i)
           d == Message("message_delta")
           e == Message("message_stop")
<1>1. /\ a \in Events /\ a.type = "content_block_start" /\ a.index = i /\ a.kind = "text"
      /\ b \in Events /\ b.type = "content_block_delta" /\ b.index = i /\ b.kind = "text"
      /\ c \in Events /\ c.type = "content_block_stop" /\ c.index = i
      /\ d \in Events /\ e \in Events
      /\ d.type = "message_delta" /\ e.type = "message_stop"
  BY DEF Start, Delta, Stop, Message, Events, BlockKinds, Kinds
<1>2. s = <<a, b, c, d, e>> BY DEF ErrorTail
<1> HIDE DEF a, b, c, d, e, s
<1>3. /\ s \in Seq(Events) /\ Len(s) = 5
      /\ s[1] = a /\ s[2] = b /\ s[3] = c /\ s[4] = d /\ s[5] = e
  BY <1>1, <1>2
<1>4. PICK f : ObserveStep(f, r, s) /\ Observed(r, s) = f[Len(s)] BY <1>3, Observing
<1> DEFINE r1 == f[1]
           r2 == f[2]
           r3 == f[3]
           r4 == f[4]
           r5 == f[5]
<1>5. /\ r1 = Observe(r, a) /\ r2 = Observe(r1, b) /\ r3 = Observe(r2, c)
      /\ r4 = Observe(r3, d) /\ r5 = Observe(r4, e)
      /\ r1 \in Readers /\ r2 \in Readers /\ r3 \in Readers /\ r4 \in Readers
      /\ Observed(r, s) = r5
  <2>1. f \in [0..5 -> Readers] /\ f[0] = r /\ \A k \in 1..5 : f[k] = Observe(f[k - 1], s[k])
    BY <1>3, <1>4 DEF ObserveStep
  <2>2. 1 - 1 = 0 /\ 2 - 1 = 1 /\ 3 - 1 = 2 /\ 4 - 1 = 3 /\ 5 - 1 = 4 OBVIOUS
  <2>3. f[1] = Observe(f[1 - 1], s[1]) /\ f[2] = Observe(f[2 - 1], s[2])
        /\ f[3] = Observe(f[3 - 1], s[3]) /\ f[4] = Observe(f[4 - 1], s[4])
        /\ f[5] = Observe(f[5 - 1], s[5])
    BY <2>1
  <2> QED BY <1>3, <1>4, <2>1, <2>2, <2>3
<1> HIDE DEF r1, r2, r3, r4, r5
<1> DEFINE x == <<i, "text">>
<1>6. x[1] = i /\ x[2] = "text" OBVIOUS
<1> HIDE DEF x
<1>b. r.began \in BOOLEAN /\ r1.began \in BOOLEAN /\ r2.began \in BOOLEAN /\ r3.began \in BOOLEAN
      /\ r4.began \in BOOLEAN
  BY <1>5 DEF Readers
<1>7. r1.open = {x} /\ r1.seen = r.seen \cup {i} /\ ~r1.wrong /\ r1.began = r.began
  <2>1. OpenIndices(r) = {} BY DEF OpenIndices
  <2>2. Obeys(r, a) BY <1>1, <2>1 DEF Obeys
  <2>3. /\ r1.open = r.open \cup {<<i, "text">>} /\ r1.seen = r.seen \cup {i}
        /\ r1.wrong = (r.wrong \/ ~Obeys(r, a)) /\ r1.began = (r.began \/ a.type = "message_start")
    <3>1. r1 = Observe(r, a) BY <1>5
    <3>2. a \in Events /\ a.type = "content_block_start" /\ a.index = i /\ a.kind = "text" BY <1>1
    <3> QED BY <3>1, <3>2, OpenIs
  <2>4. a.type # "message_start" BY <1>1
  <2> QED BY <1>b, <2>2, <2>3, <2>4 DEF x
<1>8. r2.open = {x} /\ r2.seen = r.seen \cup {i} /\ ~r2.wrong /\ r2.began = r.began
  <2>1. KindsAt(r1, i) = {"text"}
    <3>1. {y \in r1.open : y[1] = i} = {x} BY <1>6, <1>7
    <3> QED BY <1>6, <3>1 DEF KindsAt
  <2>2. Obeys(r1, b) BY <1>1, <2>1 DEF Obeys, NoDeltaKinds
  <2>3. b.type \notin {"content_block_start", "content_block_stop"} BY <1>1
  <2>4. /\ r2.open = r1.open /\ r2.seen = r1.seen
        /\ r2.wrong = (r1.wrong \/ ~Obeys(r1, b))
        /\ r2.began = (r1.began \/ b.type = "message_start")
    <3>1. r2 = Observe(r1, b) /\ r1 \in Readers BY <1>5
    <3>2. b \in Events BY <1>1
    <3> QED BY <2>3, <3>1, <3>2, OpenIs
  <2>5. b.type # "message_start" BY <1>1
  <2> QED BY <1>b, <1>7, <2>2, <2>4, <2>5
<1>9. r3.open = {} /\ r3.seen = r.seen \cup {i} /\ ~r3.wrong /\ r3.began = r.began
  <2>1. i \in OpenIndices(r2) BY <1>6, <1>8 DEF OpenIndices
  <2>2. Obeys(r2, c) BY <1>1, <2>1 DEF Obeys
  <2>3. /\ r3.open = {y \in r2.open : y[1] # c.index} /\ r3.seen = r2.seen
        /\ r3.wrong = (r2.wrong \/ ~Obeys(r2, c))
        /\ r3.began = (r2.began \/ c.type = "message_start")
    <3>1. r3 = Observe(r2, c) /\ r2 \in Readers BY <1>5
    <3>2. c \in Events /\ c.type = "content_block_stop" BY <1>1
    <3> QED BY <3>1, <3>2, OpenIs
  <2>4. c.type # "message_start" BY <1>1
  <2> QED BY <1>1, <1>6, <1>8, <1>b, <2>2, <2>3, <2>4
<1>a. d = Message("message_delta") /\ e = Message("message_stop") BY DEF d, e
<1>10. r4.open = {} /\ r4.seen = r.seen \cup {i} /\ ~r4.wrong /\ r4.began = r.began
  <2>1. r4 = Observe(r3, Message("message_delta")) /\ r3 \in Readers BY <1>5, <1>a
  <2> QED BY <1>9, <1>b, <2>1, Telling
<1>11. r5.open = {} /\ r5.seen = r.seen \cup {i} /\ ~r5.wrong /\ r5.began = r.began /\ r5.last = "message_stop"
  <2>1. r5 = Observe(r4, Message("message_stop")) /\ r4 \in Readers BY <1>5, <1>a
  <2> QED BY <1>10, <1>b, <2>1, Telling
<1>12. r.began => Complete(r5) BY <1>11 DEF Complete
<1> QED BY <1>3, <1>5, <1>11, <1>12 DEF s

\* A block with nothing in it
LEMMA BlockObserved ==
  ASSUME NEW r \in Readers, ~r.wrong, r.open = {}, NEW i \in Int, i \notin r.seen,
         NEW kind \in BlockKinds
  PROVE  LET u == Observed(r, <<Start(i, kind), Stop(i)>>) IN
         /\ <<Start(i, kind), Stop(i)>> \in Seq(Events)
         /\ u \in Readers /\ ~u.wrong /\ u.open = {} /\ u.seen = r.seen \cup {i} /\ u.began = r.began
<1> DEFINE a == Start(i, kind)
           b == Stop(i)
           q == Observe(r, a)
           u == Observe(q, b)
           x == <<i, kind>>
<1>1. /\ a \in Events /\ a.type = "content_block_start" /\ a.index = i /\ a.kind = kind
      /\ b \in Events /\ b.type = "content_block_stop" /\ b.index = i
  BY DEF Start, Stop, Events
<1>2. x[1] = i OBVIOUS
<1> HIDE DEF a, b
<1>3. <<a, b>> \in Seq(Events) BY <1>1
<1>4. Observed(r, <<a, b>>) = u BY <1>1, ObservedTwo
<1>5. q \in Readers /\ q.open = {x} /\ q.seen = r.seen \cup {i} /\ ~q.wrong /\ q.began = r.began
  <2>1. OpenIndices(r) = {} BY DEF OpenIndices
  <2>2. Obeys(r, a) BY <1>1, <2>1 DEF Obeys
  <2>3. /\ q \in Readers /\ q.open = r.open \cup {<<a.index, a.kind>>} /\ q.seen = r.seen \cup {a.index}
        /\ q.wrong = (r.wrong \/ ~Obeys(r, a)) /\ q.began = (r.began \/ a.type = "message_start")
    BY <1>1, OpenIs
  <2>4. r.began \in BOOLEAN /\ q.began \in BOOLEAN BY <2>3 DEF Readers
  <2> HIDE DEF q
  <2> QED BY <1>1, <2>2, <2>3, <2>4
<1> HIDE DEF q, x
<1>6. u \in Readers /\ u.open = {} /\ u.seen = q.seen /\ ~u.wrong /\ u.began = q.began
  <2>1. i \in OpenIndices(q) BY <1>2, <1>5 DEF OpenIndices
  <2>2. Obeys(q, b) BY <1>1, <2>1 DEF Obeys
  <2>3. /\ u \in Readers /\ u.open = {y \in q.open : y[1] # b.index} /\ u.seen = q.seen
        /\ u.wrong = (q.wrong \/ ~Obeys(q, b)) /\ u.began = (q.began \/ b.type = "message_start")
    BY <1>1, <1>5, OpenIs
  <2>4. q.began \in BOOLEAN /\ u.began \in BOOLEAN BY <1>5, <2>3 DEF Readers
  <2> HIDE DEF u
  <2> QED BY <1>1, <1>2, <1>5, <2>2, <2>3, <2>4
<1> QED BY <1>3, <1>4, <1>5, <1>6 DEF a, b

\* What is yielded reaches the reader and the tracker, who go on agreeing.
LEMMA Yielded ==
  ASSUME reader \in Readers, tracker \in Trackers, Agree(reader, tracker),
         NEW evs \in Seq(Events), Yield(evs)
  PROVE  /\ reader' = Observed(reader, evs)
         /\ reader' \in Readers /\ tracker' \in Trackers /\ Agree(reader', tracker')
<1>1. reader' = Observed(reader, evs) /\ tracker' = Tracked(tracker, evs)
  BY DEF Yield, Observed, Tracked
<1> QED BY <1>1, StillAgree

\* A stream that breaks off: what is open is closed, and the error told.
LEMMA Broken ==
  ASSUME reader \in Readers, tracker \in Trackers, Agree(reader, tracker), ~reader.wrong
  PROVE  LET evs == CloseUnclosed \o ErrorTail(FreshIndex)
             u == Observed(reader, evs)
         IN  /\ evs \in Seq(Events)
             /\ u.last = "message_stop" /\ ~u.wrong
             /\ reader.began => Complete(u)
<1> DEFINE stops == CloseUnclosed
           tail == ErrorTail(FreshIndex)
           q == Observed(reader, stops)
<1>1. tracker.stack \in Seq(Int) /\ tracker.max \in Int /\ reader.seen \in SUBSET Int
      /\ reader.open \in SUBSET (Int \X BlockKinds)
  BY DEF Trackers, Readers
<1>2. /\ ToSet(tracker.stack) = OpenIndices(reader)
      /\ \A j, k \in DOMAIN tracker.stack : tracker.stack[j] = tracker.stack[k] => j = k
      /\ \A i \in reader.seen : i <= tracker.max
  BY DEF Agree
<1>3. /\ stops \in Seq(Events)
      /\ \A k \in 1..Len(stops) :
           stops[k].type = "content_block_stop" /\ stops[k].index \in ToSet(tracker.stack)
      /\ \A j, k \in 1..Len(stops) : stops[j].index = stops[k].index => j = k
      /\ \A i \in ToSet(tracker.stack) : \E k \in 1..Len(stops) : stops[k].index = i
  BY <1>1, <1>2, StopsOfStack DEF CloseUnclosed
<1> HIDE DEF stops
<1>4. /\ q \in Readers /\ ~q.wrong /\ q.seen = reader.seen /\ q.began = reader.began
      /\ q.open = {b \in reader.open : \A k \in 1..Len(stops) : stops[k].index # b[1]}
  <2>1. \A k \in 1..Len(stops) :
          stops[k].type = "content_block_stop" /\ stops[k].index \in OpenIndices(reader)
    BY <1>2, <1>3
  <2> QED BY <1>3, <2>1, StopsObserved
<1> HIDE DEF q
<1>5. q.open = {}
  <2> SUFFICES ASSUME NEW b \in reader.open, \A k \in 1..Len(stops) : stops[k].index # b[1]
               PROVE  FALSE
    BY <1>4
  <2>1. b[1] \in OpenIndices(reader) BY DEF OpenIndices
  <2> QED BY <1>2, <1>3, <2>1
<1>6. FreshIndex \in Int /\ FreshIndex \notin q.seen BY <1>1, <1>2, <1>4 DEF FreshIndex
<1> HIDE DEF tail
<1>7. /\ tail \in Seq(Events)
      /\ Observed(q, tail).last = "message_stop" /\ ~Observed(q, tail).wrong
      /\ reader.began => Complete(Observed(q, tail))
  <2> DEFINE i == FreshIndex
  <2>1. i \in Int /\ i \notin q.seen BY <1>6
  <2> HIDE DEF i
  <2>2. /\ ErrorTail(i) \in Seq(Events)
        /\ Observed(q, ErrorTail(i)).last = "message_stop" /\ ~Observed(q, ErrorTail(i)).wrong
        /\ reader.began => Complete(Observed(q, ErrorTail(i)))
    BY <1>4, <1>5, <2>1, TailObserved
  <2> QED BY <2>2 DEF i, tail
<1>8. stops \o tail \in Seq(Events) BY <1>3, <1>7, ConcatProperties
<1>9. Observed(reader, stops \o tail) = Observed(q, tail) BY <1>3, <1>7, ObservedConcat DEF q
<1> QED BY <1>7, <1>8, <1>9 DEF stops, tail

\* A request that fails before its stream: a message of the error alone
LEMMA Refused ==
  ASSUME reader = NewReader
  PROVE  LET u == Observed(reader, ErrorMessage) IN
         /\ reader \in Readers
         /\ ErrorMessage \in Seq(Events) /\ Complete(u) /\ ~u.wrong
<1> DEFINE s == <<Message("message_start")>>
           q == Observe(reader, Message("message_start"))
           tail == ErrorTail(0)
<1>1. reader \in Readers BY DEF NewReader, Readers
<1>2. /\ Message("message_start") \in Events
      /\ q \in Readers /\ q.open = {} /\ q.seen = {} /\ ~q.wrong /\ q.began
  <2>1. reader.open = {} /\ reader.seen = {} /\ ~reader.wrong BY DEF NewReader
  <2>2. /\ Message("message_start") \in Events
        /\ q \in Readers /\ q.open = reader.open /\ q.seen = reader.seen /\ q.wrong = reader.wrong
        /\ q.began = (reader.began \/ "message_start" = "message_start")
    BY <1>1, Telling
  <2> HIDE DEF q
  <2> QED BY <2>1, <2>2
<1>3. s \in Seq(Events) /\ Observed(reader, s) = q BY <1>1, <1>2, ObservedOne
<1> HIDE DEF q
<1>4. /\ tail \in Seq(Events)
      /\ Complete(Observed(q, tail)) /\ ~Observed(q, tail).wrong
  BY <1>2, TailObserved
<1> HIDE DEF s, tail
<1>5. s \o tail \in Seq(Events) BY <1>3, <1>4, ConcatProperties
<1>6. Observed(reader, s \o tail) = Observed(q, tail) BY <1>1, <1>3, <1>4, ObservedConcat
<1>7. ErrorMessage = s \o tail BY DEF ErrorMessage, s, tail
<1> QED BY <1>1, <1>4, <1>5, <1>6, <1>7

-----------------------------------------------------------------------------
(* The steps *)

\* The provider has used one more index.
LEMMA UsedIs ==
  ASSUME upstream \in Upstreams, NEW i \in Indices, NEW kind \in Kinds
  PROVE  LET up == Used(i, kind) IN
         /\ up \in Upstreams
         /\ DOMAIN up.kind = DOMAIN upstream.kind \cup {i}
         /\ up.kind[i] = kind
         /\ \A j \in DOMAIN upstream.kind : j # i => up.kind[j] = upstream.kind[j]
         /\ up.open = upstream.open \cup {i}
         /\ up.again = upstream.again /\ up.stray = upstream.stray
<1> DEFINE kinds == [j \in DOMAIN upstream.kind \cup {i} |-> IF j = i THEN kind ELSE upstream.kind[j]]
           open == upstream.open \cup {i}
           up == Used(i, kind)
           All == UNION {[D -> Kinds] : D \in SUBSET Indices}
<1>1. PICK D \in SUBSET Indices : upstream.kind \in [D -> Kinds] BY DEF Upstreams
<1>2. upstream.open \in SUBSET Indices BY DEF Upstreams
<1>3. DOMAIN upstream.kind = D /\ \A j \in D : upstream.kind[j] \in Kinds BY <1>1
<1>4. /\ DOMAIN kinds = DOMAIN upstream.kind \cup {i} /\ kinds[i] = kind
      /\ \A j \in DOMAIN upstream.kind : j # i => kinds[j] = upstream.kind[j]
  OBVIOUS
<1>5. kinds \in [D \cup {i} -> Kinds] BY <1>3
<1>6. up = [upstream EXCEPT !.kind = kinds, !.open = open] BY DEF Used, Upstreams
<1>7. open \in SUBSET Indices BY <1>2
<1> HIDE DEF kinds, up
<1>8. kinds \in All BY <1>5
<1>9. upstream \in [kind : All, open : SUBSET Indices, again : BOOLEAN, stray : BOOLEAN]
  BY DEF Upstreams
<1> HIDE DEF All, open
<1>10. /\ up \in [kind : All, open : SUBSET Indices, again : BOOLEAN, stray : BOOLEAN]
       /\ up.kind = kinds /\ up.open = open
       /\ up.again = upstream.again /\ up.stray = upstream.stray
  BY <1>6, <1>7, <1>8, <1>9
<1>11. up \in Upstreams BY <1>10 DEF Upstreams, All
<1> QED BY <1>4, <1>10, <1>11 DEF up, open

\* What an event of each kind notes of the provider
Marked(i) ==
  /\ upstream' \in Upstreams
  /\ DOMAIN upstream'.kind = DOMAIN upstream.kind \cup {i}
  /\ \A j \in DOMAIN upstream.kind : j # i => upstream'.kind[j] = upstream.kind[j]
  /\ upstream'.open = upstream.open \cup {i}

LEMMA StartMarks ==
  ASSUME upstream \in Upstreams, NEW i \in Indices, NEW kind \in Kinds,
         upstream' = [Used(i, kind) EXCEPT !.again = @ \/ StartsAgain(i)]
  PROVE  /\ Marked(i) /\ upstream'.kind[i] = kind /\ upstream'.stray = upstream.stray
         /\ upstream.again \/ StartsAgain(i) => upstream'.again
<1> DEFINE up == Used(i, kind)
           again == up.again \/ StartsAgain(i)
<1>1. /\ up \in Upstreams
      /\ DOMAIN up.kind = DOMAIN upstream.kind \cup {i}
      /\ up.kind[i] = kind
      /\ \A j \in DOMAIN upstream.kind : j # i => up.kind[j] = upstream.kind[j]
      /\ up.open = upstream.open \cup {i}
      /\ up.again = upstream.again /\ up.stray = upstream.stray
  BY UsedIs
<1>2. upstream' = [up EXCEPT !.again = again] OBVIOUS
<1>3. again \in BOOLEAN /\ (upstream.again \/ StartsAgain(i) => again)
  BY <1>1
<1> HIDE DEF up, again
<1>4. /\ upstream' \in Upstreams /\ upstream'.again = again
      /\ upstream'.kind = up.kind /\ upstream'.open = up.open /\ upstream'.stray = up.stray
  BY <1>1, <1>2, <1>3 DEF Upstreams
<1> QED BY <1>1, <1>3, <1>4 DEF Marked

LEMMA DeltaMarks ==
  ASSUME upstream \in Upstreams, NEW i \in Indices, NEW kind \in Kinds,
         upstream' = [Used(i, Known(i, kind)) EXCEPT !.stray = @ \/ StrayDelta(i, kind)]
  PROVE  /\ Marked(i) /\ upstream'.kind[i] = Known(i, kind) /\ upstream'.again = upstream.again
         /\ upstream.stray \/ StrayDelta(i, kind) => upstream'.stray
<1> DEFINE k == Known(i, kind)
           up == Used(i, k)
           stray == up.stray \/ StrayDelta(i, kind)
<1>0. k \in Kinds
  <2>1. PICK D \in SUBSET Indices : upstream.kind \in [D -> Kinds] BY DEF Upstreams
  <2> QED BY <2>1 DEF Known
<1>2. upstream' = [up EXCEPT !.stray = stray] OBVIOUS
<1> HIDE DEF k
<1>1. /\ up \in Upstreams
      /\ DOMAIN up.kind = DOMAIN upstream.kind \cup {i}
      /\ up.kind[i] = k
      /\ \A j \in DOMAIN upstream.kind : j # i => up.kind[j] = upstream.kind[j]
      /\ up.open = upstream.open \cup {i}
      /\ up.again = upstream.again /\ up.stray = upstream.stray
  BY <1>0, UsedIs
<1>3. stray \in BOOLEAN /\ (upstream.stray \/ StrayDelta(i, kind) => stray)
  BY <1>1
<1> HIDE DEF up, stray
<1>4. /\ upstream' \in Upstreams /\ upstream'.stray = stray
      /\ upstream'.kind = up.kind /\ upstream'.open = up.open /\ upstream'.again = up.again
  BY <1>1, <1>2, <1>3 DEF Upstreams
<1> QED BY <1>1, <1>3, <1>4 DEF Marked, k

LEMMA StopMarks ==
  ASSUME upstream \in Upstreams, NEW i \in Indices,
         upstream' = [upstream EXCEPT !.open = @ \ {i}, !.stray = @ \/ StrayStop(i)]
  PROVE  /\ upstream' \in Upstreams
         /\ upstream'.kind = upstream.kind /\ upstream'.open = upstream.open \ {i}
         /\ upstream'.again = upstream.again
         /\ upstream.stray \/ StrayStop(i) => upstream'.stray
<1> DEFINE stray == upstream.stray \/ StrayStop(i)
           open == upstream.open \ {i}
<1>1. stray \in BOOLEAN /\ open \in SUBSET Indices BY DEF Upstreams
<1>2. upstream' = [upstream EXCEPT !.open = open, !.stray = stray] OBVIOUS
<1> HIDE DEF stray, open
<1>3. /\ upstream' \in Upstreams /\ upstream'.stray = stray /\ upstream'.open = open
      /\ upstream'.kind = upstream.kind /\ upstream'.again = upstream.again
  BY <1>1, <1>2 DEF Upstreams
<1> QED BY <1>3 DEF stray, open

-----------------------------------------------------------------------------
(* The invariant *)

Typed ==
  /\ enabled \in BOOLEAN /\ eventMode \in BOOLEAN
  /\ policy \in Policies
  /\ reader \in Readers /\ tracker \in Trackers /\ Agree(reader, tracker)

Streaming ==
  /\ PolicyOk(policy)
  /\ UpstreamOk(enabled, policy, upstream)
  /\ Told(policy, reader, upstream)

\* As long as nothing stray has come
CleanInv ==
  /\ Typed
  /\ ~reader.wrong
  /\ phase \in {"request", "stream"} => Streaming
  /\ phase = "request" => reader = NewReader
  /\ phase = "stream" => reader.began
  /\ EndsWhole

StreamInv ==
  /\ upstream \in Upstreams
  /\ upstream.stray \/ CleanInv

\* Nothing is yielded, or one event, or two.
LEMMA NothingYielded ==
  ASSUME Typed, Yield(<<>>)
  PROVE  reader' = reader /\ tracker' \in Trackers /\ Agree(reader', tracker')
<1>1. <<>> \in Seq(Events) OBVIOUS
<1>2. reader \in Readers /\ tracker \in Trackers /\ Agree(reader, tracker) BY DEF Typed
<1>3. /\ reader' = Observed(reader, <<>>)
      /\ tracker' \in Trackers /\ Agree(reader', tracker')
  BY <1>1, <1>2, Yielded
<1> QED BY <1>2, <1>3, ObservedNothing

LEMMA OneYielded ==
  ASSUME Typed, NEW a \in Events, Yield(<<a>>)
  PROVE  reader' = Observe(reader, a) /\ reader' \in Readers /\ tracker' \in Trackers /\ Agree(reader', tracker')
<1>1. <<a>> \in Seq(Events) OBVIOUS
<1>2. reader \in Readers /\ tracker \in Trackers /\ Agree(reader, tracker) BY DEF Typed
<1>3. /\ reader' = Observed(reader, <<a>>) /\ reader' \in Readers
      /\ tracker' \in Trackers /\ Agree(reader', tracker')
  BY <1>1, <1>2, Yielded
<1> QED BY <1>2, <1>3, ObservedOne

LEMMA TwoYielded ==
  ASSUME Typed, NEW a \in Events, NEW b \in Events, Yield(<<a, b>>)
  PROVE  /\ reader' = Observe(Observe(reader, a), b)
         /\ reader' \in Readers /\ tracker' \in Trackers /\ Agree(reader', tracker')
<1>1. <<a, b>> \in Seq(Events) OBVIOUS
<1>2. reader \in Readers /\ tracker \in Trackers /\ Agree(reader, tracker) BY DEF Typed
<1>3. /\ reader' = Observed(reader, <<a, b>>) /\ reader' \in Readers
      /\ tracker' \in Trackers /\ Agree(reader', tracker')
  BY <1>1, <1>2, Yielded
<1> QED BY <1>2, <1>3, ObservedTwo

\* What a step on an event of the provider leaves
After ==
  /\ policy' \in Policies
  /\ reader' \in Readers /\ tracker' \in Trackers /\ Agree(reader', tracker')
  /\ PolicyOk(policy')
  /\ UpstreamOk(enabled, policy', upstream')
  /\ Told(policy', reader', upstream')
  /\ reader'.began

Before == Typed /\ upstream \in Upstreams /\ Streaming /\ reader.began

\* content_block_start: others are closed, and the block is started or dropped.
LEMMA BlockStarts ==
  ASSUME Before, NEW i \in Indices, NEW kind \in Kinds,
         upstream' = [Used(i, kind) EXCEPT !.again = @ \/ StartsAgain(i)],
         BlockStart(i, kind)
  PROVE  After
<1> USE DEF Before, Typed, Streaming
<1>1. /\ DOMAIN upstream'.kind = DOMAIN upstream.kind \cup {i}
      /\ upstream'.kind[i] = kind
      /\ \A j \in DOMAIN upstream.kind : j # i => upstream'.kind[j] = upstream.kind[j]
      /\ upstream'.open = upstream.open \cup {i}
      /\ upstream.again \/ StartsAgain(i) => upstream'.again
  BY StartMarks DEF Marked
<1>2. upstream'.again \/ (~upstream.again /\ i \notin upstream.open /\ i \notin policy.dropped)
  BY <1>1 DEF StartsAgain
<1>3. upstream'.again \/ (Tidy(policy, upstream) /\ i \notin OpenSegs(policy) /\ i \notin policy.suppressed)
  BY <1>2 DEF UpstreamOk, Tidy
<1>a. PICK left \in SUBSET reader.open :
        ReaderOk(policy, reader, left) /\ (upstream.again \/ left = {})
  BY DEF Told
<1>b. upstream'.again \/ left = {} BY <1>1, <1>a
<1>4. CASE Dropped(kind)
  <2>1. policy' = [policy EXCEPT !.dropped = @ \cup {i}] /\ Yield(<<>>)
    BY <1>4 DEF BlockStart
  <2>2. /\ policy' \in Policies /\ policy'.segs = policy.segs /\ policy'.next = policy.next
        /\ policy'.dropped = policy.dropped \cup {i} /\ policy'.suppressed = policy.suppressed
    BY <2>1 DEF Policies
  <2>3. reader' = reader /\ tracker' \in Trackers /\ Agree(reader', tracker')
    BY <2>1, NothingYielded
  <2>4. ~enabled BY <1>4 DEF Dropped
  <2>5. OpenSegs(policy') = OpenSegs(policy) BY <2>2 DEF OpenSegs
  <2>6. PolicyOk(policy') BY <2>2, <2>5 DEF PolicyOk
  <2>7. UpstreamOk(enabled, policy', upstream')
    <3>1. upstream'.again \/ Tidy(policy', upstream')
      BY <1>1, <1>2, <1>3, <2>2, <2>5 DEF Tidy
    <3> QED BY <1>1, <2>2, <2>4, <3>1 DEF UpstreamOk
  <2>8. Told(policy', reader', upstream')
    <3>1. ReaderOk(policy', reader', left) BY <1>a, <2>2, <2>3, <2>5 DEF ReaderOk
    <3> QED BY <1>b, <2>3, <3>1 DEF Told
  <2> QED BY <2>2, <2>3, <2>6, <2>7, <2>8 DEF After
<1>5. CASE ~Dropped(kind)
  <2> DEFINE js == OpenOthers(i)
             p == Closed(policy, js)
             stops == CloseEvents(js)
             q == Observed(reader, stops)
             ev == Start(policy.next, kind)
             more == left \cup Orphan(p, i)
  <2>1. policy' = Allocated(p, i, kind) /\ Yield(Append(stops, ev)) BY <1>5 DEF BlockStart
  <2>2. js \subseteq OpenSegs(policy) /\ OpenSegs(policy) \ js \subseteq {i}
    BY DEF OpenOthers, OpenSegs
  <2>3. /\ stops \in Seq(Events)
        /\ PolicyOk(p)
        /\ ReaderOk(p, q, left)
        /\ OpenSegs(p) = OpenSegs(policy) \ js
        /\ q.began = reader.began
    BY <1>a, <2>2, Closing DEF CloseEvents
  <2>4. js \in SUBSET DOMAIN policy.segs BY <2>2 DEF OpenSegs
  <2>5. /\ p \in Policies
        /\ p.next = policy.next
        /\ DOMAIN p.segs = DOMAIN policy.segs
        /\ \A j \in DOMAIN p.segs : p.segs[j].kind = policy.segs[j].kind
        /\ p.dropped = policy.dropped /\ p.suppressed = policy.suppressed \cup js
    BY <2>4, ClosedIs
  <2>6. upstream'.again \/ Orphan(p, i) = {}
    <3> HIDE DEF p, js
    <3>1. upstream'.again \/ i \notin OpenSegs(p) BY <1>3, <2>3
    <3> QED BY <3>1 DEF Orphan
  <2> HIDE DEF p, stops, q, js
  <2>7. q \in Readers BY <2>3, StillAgree DEF q
  <2>8. /\ ev \in Events
        /\ PolicyOk(policy')
        /\ ReaderOk(policy', Observe(q, ev), more)
        /\ OpenSegs(policy') = OpenSegs(p) \cup {i}
    <3>1. ev = Start(p.next, kind) BY <2>5
    <3> HIDE DEF ev
    <3> QED BY <2>1, <2>3, <2>5, <2>7, <3>1, Starting
  <2>9. /\ policy' \in Policies
        /\ DOMAIN policy'.segs = DOMAIN p.segs \cup {i}
        /\ policy'.segs[i].kind = kind
        /\ \A j \in DOMAIN p.segs : j # i => policy'.segs[j] = p.segs[j]
        /\ policy'.dropped = p.dropped /\ policy'.suppressed = p.suppressed
    <3>1. policy' = Allocated(p, i, kind) /\ p \in Policies BY <2>1, <2>5
    <3>2. /\ policy' \in Policies
          /\ DOMAIN policy'.segs = DOMAIN p.segs \cup {i}
          /\ policy'.segs[i] = [down |-> p.next, kind |-> kind, open |-> TRUE]
          /\ \A j \in DOMAIN p.segs : j # i => policy'.segs[j] = p.segs[j]
          /\ policy'.dropped = p.dropped /\ policy'.suppressed = p.suppressed
      BY <3>1, AllocatedIs
    <3> QED BY <3>2
  <2> HIDE DEF ev, more
  <2>10. /\ Append(stops, ev) \in Seq(Events)
         /\ Observed(reader, Append(stops, ev)) = Observe(q, ev)
    BY <2>3, <2>8, ObservedAppend DEF q
  <2>11. /\ reader' = Observe(q, ev)
         /\ reader' \in Readers /\ tracker' \in Trackers /\ Agree(reader', tracker')
    BY <2>1, <2>10, Yielded
  <2>12. reader'.began
    <3>1. reader'.began = (q.began \/ ev.type = "message_start") BY <2>7, <2>8, <2>11, OpenIs
    <3> QED BY <2>3, <3>1
  <2>13. UpstreamOk(enabled, policy', upstream')
    <3>1. upstream'.again \/ Tidy(policy', upstream')
      <4> SUFFICES ASSUME ~upstream'.again PROVE Tidy(policy', upstream') OBVIOUS
      <4>1. /\ policy.suppressed \cup OpenSegs(policy) \subseteq upstream.open
            /\ policy.dropped \cap (policy.suppressed \cup OpenSegs(policy)) = {}
            /\ i \notin upstream.open /\ i \notin policy.dropped
        BY <1>2, <1>3 DEF Tidy
      <4>2. OpenSegs(p) = {} BY <2>2, <2>3, <4>1
      <4>3. OpenSegs(policy') = {i} BY <2>8, <4>2
      <4>4. /\ policy'.suppressed \subseteq upstream.open /\ policy'.dropped = policy.dropped
            /\ policy'.dropped \cap policy'.suppressed = {}
        BY <2>2, <2>5, <2>9, <4>1
      <4> QED BY <1>1, <4>1, <4>3, <4>4 DEF Tidy
    <3>2. \A j \in DOMAIN policy'.segs \ policy'.dropped : policy'.segs[j].kind = upstream'.kind[j]
      BY <1>1, <2>5, <2>9 DEF UpstreamOk
    <3>3. policy'.dropped \subseteq DOMAIN upstream'.kind BY <1>1, <2>5, <2>9 DEF UpstreamOk
    <3>4. /\ DOMAIN policy'.segs \subseteq DOMAIN upstream'.kind
          /\ enabled => policy'.dropped = {} /\ DOMAIN policy'.segs = DOMAIN upstream'.kind
      BY <1>1, <2>5, <2>9 DEF UpstreamOk
    <3> QED BY <3>1, <3>2, <3>3, <3>4 DEF UpstreamOk
  <2>14. Told(policy', reader', upstream')
    <3>1. ReaderOk(policy', reader', more) BY <2>8, <2>11
    <3>2. more \in SUBSET reader'.open BY <3>1 DEF ReaderOk
    <3>3. upstream'.again \/ more = {} BY <1>b, <2>6 DEF more
    <3> QED BY <3>1, <3>2, <3>3 DEF Told
  <2> QED BY <2>8, <2>9, <2>11, <2>12, <2>13, <2>14 DEF After
<1> QED BY <1>4, <1>5

\* A step that leaves the policy and the reader as they are
LEMMA NothingChanges ==
  ASSUME Before, policy' = policy, reader' = reader, tracker' \in Trackers, Agree(reader', tracker'),
         UpstreamOk(enabled, policy, upstream'), upstream'.again = upstream.again
  PROVE  After
BY DEF Before, Typed, Streaming, After, Told

\* content_block_delta: passed on, dropped, or put in a block of its own
LEMMA BlockDeltas ==
  ASSUME Before, NEW i \in Indices, NEW kind \in Kinds,
         upstream' = [Used(i, Known(i, kind)) EXCEPT !.stray = @ \/ StrayDelta(i, kind)],
         ~upstream'.stray, BlockDelta(i, kind)
  PROVE  After
<1> USE DEF Before, Typed, Streaming
<1>1. /\ DOMAIN upstream'.kind = DOMAIN upstream.kind \cup {i}
      /\ upstream'.kind[i] = Known(i, kind)
      /\ \A j \in DOMAIN upstream.kind : j # i => upstream'.kind[j] = upstream.kind[j]
      /\ upstream'.open = upstream.open \cup {i}
      /\ upstream'.again = upstream.again
      /\ upstream.stray \/ StrayDelta(i, kind) => upstream'.stray
  BY DeltaMarks DEF Marked
<1>2. ~(i \in policy.dropped \/ Dropped(kind))
        => Known(i, kind) = kind /\ ~(kind = "thinking" /\ i \notin DOMAIN upstream.kind)
  BY <1>1 DEF StrayDelta
<1>3. \A j \in DOMAIN upstream.kind : upstream'.kind[j] = upstream.kind[j] BY <1>1 DEF Known
<1>a. PICK left \in SUBSET reader.open :
        ReaderOk(policy, reader, left) /\ (upstream.again \/ left = {})
  BY DEF Told
<1>4. CASE i \in policy.dropped \/ Dropped(kind)
  <2>1. policy' = policy /\ Yield(<<>>) BY <1>4 DEF BlockDelta
  <2>2. reader' = reader /\ tracker' \in Trackers /\ Agree(reader', tracker') BY <2>1, NothingYielded
  <2>3. UpstreamOk(enabled, policy, upstream')
    <3>1. ~enabled BY <1>4 DEF Dropped, UpstreamOk
    <3>2. upstream'.again \/ Tidy(policy, upstream') BY <1>1 DEF UpstreamOk, Tidy
    <3> QED BY <1>1, <1>3, <3>1, <3>2 DEF UpstreamOk
  <2> QED BY <1>1, <2>1, <2>2, <2>3, NothingChanges
<1>5. CASE /\ ~(i \in policy.dropped \/ Dropped(kind))
           /\ i \in DOMAIN policy.segs /\ policy.segs[i].open
  <2> DEFINE ev == Delta(policy.segs[i].down, policy.segs[i].kind)
  <2>1. i \in OpenSegs(policy) BY <1>5 DEF OpenSegs
  <2>2. i \in DOMAIN upstream.kind /\ policy.segs[i].kind = kind BY <1>2, <1>5 DEF UpstreamOk, Known
  <2>3. policy' = policy /\ Yield(<<ev>>) BY <1>5, <2>2 DEF BlockDelta
  <2>4. ev \in Events /\ ReaderOk(policy, Observe(reader, ev), left) BY <1>a, <2>1, Filling
  <2> HIDE DEF ev
  <2>5. reader' = Observe(reader, ev) /\ reader' \in Readers /\ tracker' \in Trackers
        /\ Agree(reader', tracker')
    BY <2>3, <2>4, OneYielded
  <2>6. reader'.began
    <3>1. reader'.began = (reader.began \/ ev.type = "message_start") BY <2>4, <2>5, OpenIs
    <3> QED BY <3>1
  <2>7. UpstreamOk(enabled, policy, upstream')
    <3>1. upstream'.again \/ Tidy(policy, upstream') BY <1>1 DEF UpstreamOk, Tidy
    <3> QED BY <1>1, <1>3, <2>2, <3>1 DEF UpstreamOk
  <2>8. Told(policy', reader', upstream')
    <3>1. ReaderOk(policy', reader', left) BY <2>3, <2>4, <2>5
    <3>2. left \in SUBSET reader'.open BY <3>1 DEF ReaderOk
    <3> QED BY <1>1, <1>a, <3>1, <3>2 DEF Told
  <2> QED BY <2>3, <2>5, <2>6, <2>7, <2>8 DEF After
<1>6. CASE /\ ~(i \in policy.dropped \/ Dropped(kind))
           /\ ~(i \in DOMAIN policy.segs /\ policy.segs[i].open)
  <2>1. ~(i \notin DOMAIN policy.segs /\ kind = "thinking")
    <3> SUFFICES ASSUME i \notin DOMAIN policy.segs, kind = "thinking" PROVE FALSE OBVIOUS
    <3>1. enabled BY <1>6 DEF Dropped
    <3>2. i \notin DOMAIN upstream.kind BY <3>1 DEF UpstreamOk
    <3> QED BY <1>2, <1>6, <3>2
  <2> DEFINE p == [policy EXCEPT !.suppressed = @ \ {i}]
             a == Start(policy.next, kind)
             b == Delta(policy.next, kind)
             q == Observe(reader, a)
             more == left \cup Orphan(p, i)
  <2>2. policy' = Allocated(p, i, kind) /\ Yield(<<a, b>>)
    BY <1>6, <2>1 DEF BlockDelta, Resumed
  <2>3. /\ p \in Policies /\ p.segs = policy.segs /\ p.next = policy.next
        /\ p.dropped = policy.dropped /\ p.suppressed = policy.suppressed \ {i}
    BY DEF Policies
  <2> HIDE DEF p
  <2>4. OpenSegs(p) = OpenSegs(policy) /\ i \notin OpenSegs(p) BY <1>6, <2>3 DEF OpenSegs
  <2>5. PolicyOk(p) BY <2>3, <2>4 DEF PolicyOk
  <2>6. ReaderOk(p, reader, left) BY <1>a, <2>3, <2>4 DEF ReaderOk
  <2>7. more = left BY <2>4 DEF Orphan
  <2>8. /\ a \in Events
        /\ PolicyOk(policy')
        /\ ReaderOk(policy', q, left)
        /\ OpenSegs(policy') = OpenSegs(p) \cup {i}
    <3>1. a = Start(p.next, kind) BY <2>3
    <3> HIDE DEF a
    <3>2. /\ a \in Events
          /\ PolicyOk(policy')
          /\ ReaderOk(policy', q, more)
          /\ OpenSegs(policy') = OpenSegs(p) \cup {i}
      BY <2>2, <2>3, <2>4, <2>5, <2>6, <3>1, Starting
    <3> HIDE DEF more, q
    <3> QED BY <2>7, <3>2
  <2> HIDE DEF more
  <2>9. /\ policy' \in Policies
        /\ DOMAIN policy'.segs = DOMAIN p.segs \cup {i}
        /\ policy'.segs[i] = [down |-> p.next, kind |-> kind, open |-> TRUE]
        /\ \A j \in DOMAIN p.segs : j # i => policy'.segs[j] = p.segs[j]
        /\ policy'.dropped = p.dropped /\ policy'.suppressed = p.suppressed
    BY <2>2, <2>3, AllocatedIs
  <2>10. policy'.segs[i].down = policy.next /\ policy'.segs[i].kind = kind BY <2>3, <2>9
  <2>11. q \in Readers /\ q.began
    <3> HIDE DEF a
    <3>1. q \in Readers /\ q.began = (reader.began \/ a.type = "message_start") BY <2>8, OpenIs
    <3> QED BY <3>1
  <2> HIDE DEF q
  <2>12. b \in Events /\ ReaderOk(policy', Observe(q, b), left)
    <3>1. i \in OpenSegs(policy') BY <2>8
    <3>2. /\ Delta(policy'.segs[i].down, policy'.segs[i].kind) \in Events
          /\ ReaderOk(policy', Observe(q, Delta(policy'.segs[i].down, policy'.segs[i].kind)), left)
      BY <2>8, <2>9, <2>11, <3>1, Filling
    <3> QED BY <2>10, <3>2
  <2> HIDE DEF a, b
  <2>13. /\ reader' = Observe(q, b)
         /\ reader' \in Readers /\ tracker' \in Trackers /\ Agree(reader', tracker')
    BY <2>2, <2>8, <2>12, TwoYielded DEF q
  <2>14. reader'.began
    <3>1. reader'.began = (q.began \/ b.type = "message_start") BY <2>11, <2>12, <2>13, OpenIs
    <3> QED BY <2>11, <3>1
  <2>15. UpstreamOk(enabled, policy', upstream')
    <3>1. upstream'.again \/ Tidy(policy', upstream')
      <4> SUFFICES ASSUME ~upstream'.again PROVE Tidy(policy', upstream') OBVIOUS
      <4>1. Tidy(policy, upstream) BY <1>1 DEF UpstreamOk
      <4>2. OpenSegs(policy') = OpenSegs(policy) \cup {i} BY <2>4, <2>8
      <4>3. policy'.suppressed = policy.suppressed \ {i} /\ policy'.dropped = policy.dropped
        BY <2>3, <2>9
      <4> QED BY <1>1, <1>6, <4>1, <4>2, <4>3 DEF Tidy
    <3>2. \A j \in DOMAIN policy'.segs \ policy'.dropped : policy'.segs[j].kind = upstream'.kind[j]
      <4> TAKE j \in DOMAIN policy'.segs \ policy'.dropped
      <4>1. CASE j = i BY <1>1, <1>2, <1>6, <2>10, <4>1
      <4>2. CASE j # i
        <5>1. j \in DOMAIN policy.segs \ policy.dropped /\ policy'.segs[j] = policy.segs[j]
          BY <2>3, <2>9, <4>2
        <5> QED BY <1>3, <5>1 DEF UpstreamOk
      <4> QED BY <4>1, <4>2
    <3>3. policy'.dropped \subseteq DOMAIN upstream'.kind BY <1>1, <2>3, <2>9 DEF UpstreamOk
    <3>4. /\ DOMAIN policy'.segs \subseteq DOMAIN upstream'.kind
          /\ enabled => policy'.dropped = {} /\ DOMAIN policy'.segs = DOMAIN upstream'.kind
      BY <1>1, <2>3, <2>9 DEF UpstreamOk
    <3> QED BY <3>1, <3>2, <3>3, <3>4 DEF UpstreamOk
  <2>16. Told(policy', reader', upstream')
    <3>1. ReaderOk(policy', reader', left) BY <2>12, <2>13
    <3>2. left \in SUBSET reader'.open BY <3>1 DEF ReaderOk
    <3> QED BY <1>1, <1>a, <3>1, <3>2 DEF Told
  <2> QED BY <2>8, <2>9, <2>13, <2>14, <2>15, <2>16 DEF After
<1> QED BY <1>4, <1>5, <1>6

\* content_block_stop: passed on or swallowed
LEMMA BlockStops ==
  ASSUME Before, NEW i \in Indices,
         upstream' = [upstream EXCEPT !.open = @ \ {i}, !.stray = @ \/ StrayStop(i)],
         ~upstream'.stray, BlockStop(i)
  PROVE  After
<1> USE DEF Before, Typed, Streaming
<1>1. /\ upstream'.kind = upstream.kind /\ upstream'.open = upstream.open \ {i}
      /\ upstream'.again = upstream.again
      /\ upstream.stray \/ StrayStop(i) => upstream'.stray
  BY StopMarks
<1>a. PICK left \in SUBSET reader.open :
        ReaderOk(policy, reader, left) /\ (upstream.again \/ left = {})
  BY DEF Told
<1>2. ASSUME policy' = policy, Yield(<<>>),
             upstream.again \/ i \notin OpenSegs(policy) \cup policy.suppressed
      PROVE  After
  <2>1. reader' = reader /\ tracker' \in Trackers /\ Agree(reader', tracker') BY <1>2, NothingYielded
  <2>2. UpstreamOk(enabled, policy, upstream')
    <3>1. upstream'.again \/ Tidy(policy, upstream') BY <1>1, <1>2 DEF UpstreamOk, Tidy
    <3> QED BY <1>1, <3>1 DEF UpstreamOk
  <2> QED BY <1>1, <1>2, <2>1, <2>2, NothingChanges
<1>3. CASE i \in policy.dropped
  <2>1. upstream.again \/ i \notin OpenSegs(policy) \cup policy.suppressed
    BY <1>3 DEF UpstreamOk, Tidy
  <2>2. policy' = policy /\ Yield(<<>>) BY <1>3 DEF BlockStop
  <2> QED BY <1>2, <2>1, <2>2
<1>4. CASE i \notin policy.dropped /\ i \in policy.suppressed
  <2>1. policy' = [policy EXCEPT !.suppressed = @ \ {i}] /\ Yield(<<>>) BY <1>4 DEF BlockStop
  <2>2. /\ policy' \in Policies /\ policy'.segs = policy.segs /\ policy'.next = policy.next
        /\ policy'.dropped = policy.dropped /\ policy'.suppressed = policy.suppressed \ {i}
    BY <2>1 DEF Policies
  <2>3. reader' = reader /\ tracker' \in Trackers /\ Agree(reader', tracker') BY <2>1, NothingYielded
  <2>4. OpenSegs(policy') = OpenSegs(policy) BY <2>2 DEF OpenSegs
  <2>5. PolicyOk(policy') BY <2>2, <2>4 DEF PolicyOk
  <2>6. UpstreamOk(enabled, policy', upstream')
    <3>1. upstream'.again \/ Tidy(policy', upstream') BY <1>1, <1>4, <2>2, <2>4 DEF UpstreamOk, Tidy
    <3> QED BY <1>1, <2>2, <3>1 DEF UpstreamOk
  <2>7. Told(policy', reader', upstream')
    <3>1. ReaderOk(policy', reader', left) BY <1>a, <2>2, <2>3, <2>4 DEF ReaderOk
    <3> QED BY <1>1, <1>a, <2>3, <3>1 DEF Told
  <2> QED BY <2>2, <2>3, <2>5, <2>6, <2>7 DEF After
<1>5. CASE /\ i \notin policy.dropped /\ i \notin policy.suppressed
           /\ i \in DOMAIN policy.segs /\ policy.segs[i].open
  <2> DEFINE ev == Stop(policy.segs[i].down)
             q == [policy EXCEPT !.segs[i].open = FALSE]
  <2>1. policy' = q /\ Yield(<<ev>>) BY <1>5 DEF BlockStop
  <2>2. i \in OpenSegs(policy) BY <1>5 DEF OpenSegs
  <2>3. /\ ev \in Events
        /\ q \in Policies
        /\ q.dropped = policy.dropped /\ q.suppressed = policy.suppressed
        /\ DOMAIN q.segs = DOMAIN policy.segs
        /\ \A j \in DOMAIN policy.segs : q.segs[j].kind = policy.segs[j].kind
        /\ PolicyOk(q)
        /\ ReaderOk(q, Observe(reader, ev), left)
        /\ OpenSegs(q) = OpenSegs(policy) \ {i}
    BY <1>a, <2>2, Ending
  <2> HIDE DEF ev, q
  <2>4. reader' = Observe(reader, ev) /\ reader' \in Readers /\ tracker' \in Trackers
        /\ Agree(reader', tracker')
    BY <2>1, <2>3, OneYielded
  <2>5. reader'.began
    <3>1. reader'.began = (reader.began \/ ev.type = "message_start") BY <2>3, <2>4, OpenIs
    <3> QED BY <3>1
  <2>6. UpstreamOk(enabled, q, upstream')
    <3>1. upstream'.again \/ Tidy(q, upstream') BY <1>1, <1>5, <2>3 DEF UpstreamOk, Tidy
    <3> QED BY <1>1, <2>3, <3>1 DEF UpstreamOk
  <2>7. Told(policy', reader', upstream')
    <3>1. ReaderOk(policy', reader', left) BY <2>1, <2>3, <2>4
    <3>2. left \in SUBSET reader'.open BY <3>1 DEF ReaderOk
    <3> QED BY <1>1, <1>a, <3>1, <3>2 DEF Told
  <2> QED BY <2>1, <2>3, <2>4, <2>5, <2>6, <2>7 DEF After
<1>6. CASE /\ i \notin policy.dropped /\ i \notin policy.suppressed
           /\ ~(i \in DOMAIN policy.segs /\ policy.segs[i].open)
  <2>1. i \in DOMAIN policy.segs \/ ~enabled BY <1>1 DEF StrayStop, UpstreamOk
  <2>2. policy' = policy /\ Yield(<<>>) BY <1>6, <2>1 DEF BlockStop
  <2>3. i \notin OpenSegs(policy) BY <1>6 DEF OpenSegs
  <2> QED BY <1>2, <1>6, <2>2, <2>3
<1> QED BY <1>3, <1>4, <1>5, <1>6

\* A request begins with an empty policy, tracker and reader.
LEMMA StreamInitially == Init => StreamInv
<1> SUFFICES ASSUME Init PROVE StreamInv OBVIOUS
<1> USE DEF Init
<1>1. <<>> \in [{} -> Segment] /\ <<>> \in [{} -> Kinds] /\ DOMAIN <<>> = {} OBVIOUS
<1>2. policy \in Policies
  <2>1. <<>> \in Filings BY <1>1 DEF Filings
  <2> QED BY <2>1 DEF Policies
<1>3. upstream \in Upstreams
  <2>1. <<>> \in UNION {[D -> Kinds] : D \in SUBSET Indices} BY <1>1
  <2> QED BY <2>1 DEF Upstreams
<1>13. ~upstream.stray OBVIOUS
<1>4. /\ reader \in Readers /\ ~reader.wrong /\ reader.open = {} /\ reader.seen = {}
      /\ reader.last = ""
  BY DEF NewReader, Readers
<1>5. tracker \in Trackers BY DEF Trackers
<1>6. Agree(reader, tracker)
  <2>1. ToSet(tracker.stack) = {} BY DEF ToSet
  <2>2. OpenIndices(reader) = {} BY <1>4 DEF OpenIndices
  <2>3. DOMAIN tracker.stack = {} OBVIOUS
  <2> HIDE DEF Init
  <2> QED BY <1>4, <2>1, <2>2, <2>3 DEF Agree
<1>7. policy.segs = <<>> /\ policy.dropped = {} /\ policy.suppressed = {} /\ upstream.kind = <<>>
  OBVIOUS
<1>8. OpenSegs(policy) = {} BY <1>1, <1>7 DEF OpenSegs
<1>9. PolicyOk(policy) BY <1>1, <1>7 DEF PolicyOk
<1>10. UpstreamOk(enabled, policy, upstream) BY <1>1, <1>7, <1>8 DEF UpstreamOk, Tidy
<1>11. Told(policy, reader, upstream)
  <2>1. ReaderOk(policy, reader, {}) BY <1>4, <1>8 DEF ReaderOk
  <2> HIDE DEF Init
  <2> QED BY <2>1 DEF Told
<1>12. phase = "request" OBVIOUS
<1> QED BY <1>2, <1>3, <1>4, <1>5, <1>6, <1>9, <1>10, <1>11, <1>12
        DEF StreamInv, CleanInv, Typed, Streaming, EndsWhole

\* Whatever was open, an error ends the message.
LEMMA FailingIsWhole ==
  ASSUME CleanInv, StreamFails
  PROVE  /\ Complete(reader') /\ ~reader'.wrong
         /\ reader' \in Readers /\ tracker' \in Trackers /\ Agree(reader', tracker')
<1>1. Typed /\ ~reader.wrong BY DEF CleanInv
<1>2. reader \in Readers /\ tracker \in Trackers /\ Agree(reader, tracker) BY <1>1 DEF Typed
<1>3. CASE phase = "request" /\ Yield(ErrorMessage)
  <2>1. reader = NewReader BY <1>3 DEF CleanInv
  <2>2. /\ ErrorMessage \in Seq(Events)
        /\ Complete(Observed(reader, ErrorMessage)) /\ ~Observed(reader, ErrorMessage).wrong
    BY <2>1, Refused
  <2> QED BY <1>2, <1>3, <2>2, Yielded
<1>4. CASE phase = "stream" /\ Yield(CloseUnclosed \o ErrorTail(FreshIndex))
  <2> DEFINE evs == CloseUnclosed \o ErrorTail(FreshIndex)
  <2>1. reader.began BY <1>4 DEF CleanInv
  <2>2. evs \in Seq(Events) /\ Complete(Observed(reader, evs)) /\ ~Observed(reader, evs).wrong
    BY <1>1, <1>2, <2>1, Broken
  <2>3. Yield(evs) BY <1>4
  <2> HIDE DEF evs
  <2> QED BY <1>2, <2>2, <2>3, Yielded
<1> QED BY <1>3, <1>4 DEF StreamFails

\* What the policy does not repair is noted for good.
LEMMA NotedForGood ==
  ASSUME upstream \in Upstreams, [Next]_vars
  PROVE  upstream' \in Upstreams /\ (upstream.stray => upstream'.stray)
<1>1. CASE ProviderEvent
  <2>1. PICK i \in Indices :
          \/ \E kind \in Kinds :
               \/ upstream' = [Used(i, kind) EXCEPT !.again = @ \/ StartsAgain(i)]
               \/ upstream' = [Used(i, Known(i, kind)) EXCEPT !.stray = @ \/ StrayDelta(i, kind)]
          \/ upstream' = [upstream EXCEPT !.open = @ \ {i}, !.stray = @ \/ StrayStop(i)]
    BY <1>1 DEF ProviderEvent
  <2>2. ASSUME NEW kind \in Kinds, upstream' = [Used(i, kind) EXCEPT !.again = @ \/ StartsAgain(i)]
        PROVE  upstream' \in Upstreams /\ (upstream.stray => upstream'.stray)
    BY <2>2, StartMarks DEF Marked
  <2>3. ASSUME NEW kind \in Kinds,
               upstream' = [Used(i, Known(i, kind)) EXCEPT !.stray = @ \/ StrayDelta(i, kind)]
        PROVE  upstream' \in Upstreams /\ (upstream.stray => upstream'.stray)
    BY <2>3, DeltaMarks DEF Marked
  <2>4. ASSUME upstream' = [upstream EXCEPT !.open = @ \ {i}, !.stray = @ \/ StrayStop(i)]
        PROVE  upstream' \in Upstreams /\ (upstream.stray => upstream'.stray)
    BY <2>4, StopMarks
  <2> QED BY <2>1, <2>2, <2>3, <2>4
<1>2. CASE ~ProviderEvent
  <2>1. upstream' = upstream
    BY <1>2 DEF Next, vars, StreamOpens, Noise, MessageStops, StreamEnds, StreamFails, Cancelled
  <2> QED BY <2>1
<1> QED BY <1>1, <1>2

\* Every step of the transport keeps the invariant.
LEMMA CleanSteps ==
  ASSUME CleanInv, upstream \in Upstreams, [Next]_vars, ~upstream'.stray
  PROVE  CleanInv'
<1>1. Typed /\ ~reader.wrong BY DEF CleanInv
<1>2. CASE StreamOpens
  <2> DEFINE ev == Message("message_start")
  <2>1. phase = "request" /\ phase' = "stream" /\ Yield(<<ev>>)
        /\ UNCHANGED <<enabled, eventMode, policy, upstream, events>>
    BY <1>2 DEF StreamOpens
  <2>2. Streaming BY <2>1 DEF CleanInv
  <2>3. reader \in Readers BY <1>1 DEF Typed
  <2>4. /\ ev \in Events
        /\ Observe(reader, ev).began = (reader.began \/ "message_start" = "message_start")
        /\ Observe(reader, ev).last = "message_start"
        /\ Observe(reader, ev).open = reader.open
        /\ \A left : ReaderOk(policy, reader, left) => ReaderOk(policy, Observe(reader, ev), left)
    BY <2>3, Telling
  <2> HIDE DEF ev
  <2>5. reader' = Observe(reader, ev) /\ reader' \in Readers /\ tracker' \in Trackers
        /\ Agree(reader', tracker')
    BY <1>1, <2>1, <2>4, OneYielded
  <2>6. Typed' BY <1>1, <2>1, <2>5 DEF Typed
  <2>7. Streaming' BY <2>1, <2>2, <2>4, <2>5 DEF Streaming, Told
  <2>8. reader'.began /\ ~reader'.wrong
    BY <2>4, <2>5, <2>7 DEF Streaming, Told, ReaderOk
  <2> QED BY <2>1, <2>6, <2>7, <2>8 DEF CleanInv, EndsWhole
<1>3. CASE ProviderEvent
  <2>1. phase = "stream" /\ UNCHANGED <<enabled, eventMode, phase>> BY <1>3 DEF ProviderEvent
  <2>2. Before BY <1>1, <2>1 DEF CleanInv, Before
  <2>4. After
    <3>1. PICK i \in Indices :
            \/ \E kind \in Kinds :
                 \/ /\ upstream' = [Used(i, kind) EXCEPT !.again = @ \/ StartsAgain(i)]
                    /\ BlockStart(i, kind)
                 \/ /\ upstream' = [Used(i, Known(i, kind)) EXCEPT !.stray = @ \/ StrayDelta(i, kind)]
                    /\ BlockDelta(i, kind)
            \/ /\ upstream' = [upstream EXCEPT !.open = @ \ {i}, !.stray = @ \/ StrayStop(i)]
               /\ BlockStop(i)
      BY <1>3 DEF ProviderEvent
    <3>2. ASSUME NEW kind \in Kinds, BlockStart(i, kind),
                 upstream' = [Used(i, kind) EXCEPT !.again = @ \/ StartsAgain(i)]
          PROVE  After
      BY <2>2, <3>2, BlockStarts
    <3>3. ASSUME NEW kind \in Kinds, BlockDelta(i, kind),
                 upstream' = [Used(i, Known(i, kind)) EXCEPT !.stray = @ \/ StrayDelta(i, kind)]
          PROVE  After
      BY <2>2, <3>3, BlockDeltas
    <3>4. ASSUME BlockStop(i),
                 upstream' = [upstream EXCEPT !.open = @ \ {i}, !.stray = @ \/ StrayStop(i)]
          PROVE  After
      BY <2>2, <3>4, BlockStops
    <3> QED BY <3>1, <3>2, <3>3, <3>4
  <2>5. Typed' BY <1>1, <2>1, <2>4 DEF Typed, After
  <2>6. Streaming' BY <2>1, <2>4 DEF Streaming, After
  <2>7. reader'.began /\ ~reader'.wrong BY <2>4 DEF After, Told, ReaderOk
  <2> QED BY <2>1, <2>5, <2>6, <2>7 DEF CleanInv, EndsWhole
<1>4. CASE MessageStops
  <2> DEFINE a == Message("message_delta")
             b == Message("message_stop")
             q == Observe(reader, a)
  <2>1. phase = "stream" /\ phase' = "stream" /\ policy' = [policy EXCEPT !.stopped = eventMode]
        /\ Yield(<<a, b>>) /\ UNCHANGED <<enabled, eventMode, upstream, events>>
    BY <1>4 DEF MessageStops
  <2>2. Streaming /\ reader.began BY <2>1 DEF CleanInv
  <2>3. reader \in Readers /\ policy \in Policies /\ eventMode \in BOOLEAN BY <1>1 DEF Typed
  <2>4. /\ a \in Events /\ q \in Readers /\ q.began = (reader.began \/ "message_delta" = "message_start")
        /\ q.open = reader.open
        /\ \A left : ReaderOk(policy, reader, left) => ReaderOk(policy, q, left)
    BY <2>3, Telling
  <2> HIDE DEF q
  <2>5. /\ b \in Events /\ Observe(q, b).began = (q.began \/ "message_stop" = "message_start")
        /\ Observe(q, b).open = q.open
        /\ \A left : ReaderOk(policy, q, left) => ReaderOk(policy, Observe(q, b), left)
    BY <2>4, Telling
  <2> HIDE DEF a, b
  <2>6. reader' = Observe(q, b) /\ reader' \in Readers /\ tracker' \in Trackers
        /\ Agree(reader', tracker')
    BY <1>1, <2>1, <2>4, <2>5, TwoYielded DEF q
  <2>7. /\ policy' \in Policies /\ policy'.segs = policy.segs /\ policy'.next = policy.next
        /\ policy'.dropped = policy.dropped /\ policy'.suppressed = policy.suppressed
    BY <2>1, <2>3 DEF Policies
  <2>8. OpenSegs(policy') = OpenSegs(policy) BY <2>7 DEF OpenSegs
  <2>9. reader'.open = reader.open
        /\ \A left : ReaderOk(policy, reader, left) => ReaderOk(policy, reader', left)
    BY <2>4, <2>5, <2>6
  <2>10. PolicyOk(policy') BY <2>2, <2>7, <2>8 DEF Streaming, PolicyOk
  <2>11. UpstreamOk(enabled', policy', upstream')
    BY <2>1, <2>2, <2>7, <2>8 DEF Streaming, UpstreamOk, Tidy
  <2>12. Told(policy', reader', upstream')
    <3>1. PICK left \in SUBSET reader.open :
            ReaderOk(policy, reader, left) /\ (upstream.again \/ left = {})
      BY <2>2 DEF Streaming, Told
    <3>2. ReaderOk(policy, reader', left) BY <2>9, <3>1
    <3>3. ReaderOk(policy', reader', left) BY <2>7, <2>8, <3>2 DEF ReaderOk
    <3> QED BY <2>1, <2>9, <3>1, <3>3 DEF Told
  <2>13. Typed' BY <1>1, <2>1, <2>6, <2>7 DEF Typed
  <2>14. Streaming' BY <2>10, <2>11, <2>12 DEF Streaming
  <2>15. ~reader'.wrong BY <2>12 DEF Told, ReaderOk
  <2>16. reader'.began BY <2>2, <2>4, <2>5, <2>6
  <2> QED BY <2>1, <2>13, <2>14, <2>15, <2>16 DEF CleanInv, EndsWhole
<1>5. CASE StreamEnds
  <2>1. phase = "stream" /\ phase' = "done"
        /\ UNCHANGED <<enabled, eventMode, policy, tracker, reader, upstream, events>>
    BY <1>5 DEF StreamEnds
  <2>2. Streaming BY <2>1 DEF CleanInv
  <2>3. upstream.open = {} => reader.open = {} \/ upstream.again
    <3> SUFFICES ASSUME upstream.open = {}, ~upstream.again PROVE reader.open = {} OBVIOUS
    <3>1. OpenSegs(policy) = {} BY <2>2 DEF Streaming, UpstreamOk, Tidy
    <3>2. ReaderOk(policy, reader, {}) BY <2>2 DEF Streaming, Told
    <3> QED BY <3>1, <3>2 DEF ReaderOk
  <2>4. Typed' BY <1>1, <2>1 DEF Typed
  <2> QED BY <1>1, <2>1, <2>3, <2>4 DEF CleanInv, EndsWhole
<1>6. CASE StreamFails
  <2>1. phase' = "done" /\ UNCHANGED <<enabled, eventMode, policy, upstream, events>>
    BY <1>6 DEF StreamFails
  <2>2. /\ Complete(reader') /\ ~reader'.wrong
        /\ reader' \in Readers /\ tracker' \in Trackers /\ Agree(reader', tracker')
    BY <1>6, FailingIsWhole
  <2>3. Typed' BY <1>1, <2>1, <2>2 DEF Typed
  <2> QED BY <2>1, <2>2, <2>3 DEF CleanInv, EndsWhole, Complete
<1>7. CASE Noise
  <2>1. UNCHANGED <<enabled, eventMode, phase, policy, tracker, reader, upstream>>
    BY <1>7 DEF Noise
  <2> QED BY <2>1 DEF CleanInv, Typed, Streaming, EndsWhole
<1>8. CASE Cancelled
  <2>1. phase' = "cancelled"
        /\ UNCHANGED <<enabled, eventMode, policy, tracker, reader, upstream, events>>
    BY <1>8 DEF Cancelled
  <2> QED BY <2>1 DEF CleanInv, Typed, Streaming, EndsWhole
<1>9. CASE UNCHANGED vars
  BY <1>9 DEF vars, CleanInv, Typed, Streaming, EndsWhole
<1> QED BY <1>2, <1>3, <1>4, <1>5, <1>6, <1>7, <1>8, <1>9 DEF Next

LEMMA StreamSteps == StreamInv /\ [Next]_vars => StreamInv'
<1> SUFFICES ASSUME StreamInv, [Next]_vars PROVE StreamInv' OBVIOUS
<1>1. upstream' \in Upstreams /\ (upstream.stray => upstream'.stray)
  BY NotedForGood DEF StreamInv
<1>2. ~upstream'.stray => CleanInv' BY <1>1, CleanSteps DEF StreamInv
<1> QED BY <1>1, <1>2 DEF StreamInv

\* Whatever the provider sends that answers to some block, however it overlaps,
\* resumes, hides, restarts or repeats blocks, the client of the transport
\* (providers/anthropic_messages.py) reads blocks that are each started once,
\* filled and stopped; and if the provider starts no index again and leaves none
\* open, nor does the proxy.
THEOREM NativeStreamIsWhole == Spec => [](NeverWrong /\ EndsWhole)
<1>1. StreamInv => NeverWrong /\ EndsWhole BY DEF StreamInv, CleanInv, NeverWrong, EndsWhole
<1> QED BY <1>1, StreamInitially, StreamSteps, PTL DEF Spec

\* When the provider fails, before the first event or after any that answers to
\* some block, what was open is closed and the message ends
\* (iter_close_unclosed_blocks, iter_midstream_error_tail).
THEOREM NativeFailureIsWhole == Spec => FailureIsWhole
<1>1. StreamInv /\ [Next]_vars
        => [StreamFails => upstream.stray \/ (Complete(reader') /\ ~reader'.wrong)]_vars
  BY FailingIsWhole DEF StreamInv
<1> QED BY <1>1, StreamInitially, StreamSteps, PTL DEF Spec, FailureIsWhole
=============================================================================

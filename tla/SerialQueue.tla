----------------------------- MODULE SerialQueue -----------------------------
(***************************************************************************)
(* What the per-tree queue promises ("Per-tree queue ensures ordered       *)
(* processing"): each lane works on one job at a time, in the order the    *)
(* jobs were accepted, takes every job at most once, and never idles while *)
(* jobs wait.  A waiting job may be withdrawn.                             *)
(***************************************************************************)
EXTENDS Naturals, Sequences, FiniteSets

CONSTANTS Lane, Job, None

VARIABLES
  accepted,  \* the jobs ever accepted
  waiting,   \* by lane, the jobs not yet begun, in order of acceptance
  active     \* by lane, the job being worked on, or None

vars == <<accepted, waiting, active>>

Init ==
  /\ accepted = {}
  /\ waiting = [l \in Lane |-> <<>>]
  /\ active = [l \in Lane |-> None]

Accept(l, j) ==
  /\ j \notin accepted
  /\ accepted' = accepted \cup {j}
  /\ IF active[l] = None
     THEN /\ active' = [active EXCEPT ![l] = j]
          /\ UNCHANGED waiting
     ELSE /\ waiting' = [waiting EXCEPT ![l] = Append(@, j)]
          /\ UNCHANGED active

Finish(l) ==
  /\ active[l] # None
  /\ IF waiting[l] = <<>>
     THEN /\ active' = [active EXCEPT ![l] = None]
          /\ UNCHANGED waiting
     ELSE /\ active' = [active EXCEPT ![l] = Head(waiting[l])]
          /\ waiting' = [waiting EXCEPT ![l] = Tail(@)]
  /\ UNCHANGED accepted

\* The other jobs keep their order: place lists where they were, in order.
Withdraw(l, j) ==
  LET kept == {i \in DOMAIN waiting[l] : waiting[l][i] # j}
  IN  /\ \E place \in [1..Cardinality(kept) -> kept] :
           /\ \A a, b \in DOMAIN place : a < b => place[a] < place[b]
           /\ waiting' = [waiting EXCEPT
                            ![l] = [a \in DOMAIN place |-> waiting[l][place[a]]]]
      /\ UNCHANGED <<accepted, active>>

Next == \E l \in Lane : \/ Finish(l)
                        \/ \E j \in Job : Accept(l, j) \/ Withdraw(l, j)

Spec == Init /\ [][Next]_vars
=============================================================================

---------------------------- MODULE SlidingWindow ----------------------------
(***************************************************************************)
(* StrictSlidingWindowLimiter (core/rate_limit.py).  A timestamp is kept   *)
(* as its age in ticks; an age is not counted beyond the window, because   *)
(* nothing tells older timestamps apart.                                   *)
(***************************************************************************)
EXTENDS Naturals, Sequences, FiniteSets

CONSTANTS
  Rate,    \* _rate_limit
  Window   \* _rate_window, in ticks

ASSUME RateIsPositive == Rate \in Nat \ {0}
ASSUME WindowIsPositive == Window \in Nat \ {0}

Age == 0..Window

\* A slip in acquire: the cutoff is one tick too young
ExpiredTooEarly(times) == Cardinality({i \in DOMAIN times : times[i] + 1 >= Window})

\* A timestamp leaves the deque when it is no younger than the cutoff; the
\* deque is ordered, oldest first.
Expired(times) == Cardinality({i \in DOMAIN times : times[i] >= Window})

Pruned(times) == SubSeq(times, Expired(times) + 1, Len(times))

\* acquire gets through at the moment at which a slot is free: the sleeps and
\* second looks in between change nothing.
SlotFree(times) == Len(Pruned(times)) < Rate
Acquired(times) == Append(Pruned(times), 0)

Older(times) == [i \in DOMAIN times |-> IF times[i] < Window THEN times[i] + 1 ELSE Window]

\* What a log of sends keeps when a tick has passed: those less than a window
\* ago.  It is what the limiter is judged by, and not the deque it goes by.
Recent(log) ==
  LET older == Older(log)
  IN  SubSeq(older, 1 + Cardinality({i \in DOMAIN older : older[i] = Window}), Len(older))
=============================================================================

------------------------ MODULE ProviderStreamsProofs ------------------------
(***************************************************************************)
(* What passes between a provider and the user (ProviderStreams).  The     *)
(* transcript, for any indices, Task ids, results and number of events:    *)
(* answered Tasks leave nothing suppressed while ids tell them apart, the  *)
(* text of two blocks is not run together, and what is shown last says how *)
(* it ended.  The streams of blocks from a provider of the native          *)
(* transport and from a web tool's turn, for any indices and number of     *)
(* events: the client can read them, and they end whole.  The stream that  *)
(* is made of an OpenAI provider's chunks, for any tokens, tool deltas and *)
(* number of chunks: the same.  The conversation that goes to it, however  *)
(* long: results stay behind the calls they answer, and what was said is   *)
(* told once and in order.  Each of these has the exceptions its property  *)
(* names.                                                                  *)
(***************************************************************************)
EXTENDS ProviderStreams, FiniteSetTheorems, SequenceTheorems, WellFoundedInduction, TLAPS

-----------------------------------------------------------------------------
(* The transcript                                                          *)

Kinds == Prose \cup {"tool"}

Segments == [kind : Kinds \cup {"subagent", "error"}, of : SUBSET Nat]

Buffers ==
  [segments : Seq(Segments),
   stack    : Seq(Tasks \cup {Synthetic}),
   open     : [Kinds -> [Index -> Nat]]]

Clis ==
  [at : [Index -> [kind : Kinds \cup {"none", "task"}, block : Nat]], live : SUBSET Index, blocks : Nat,
   waiting : SUBSET Tasks, made : SUBSET Tasks, seen : SUBSET (Tasks \cup Answers),
   strange : BOOLEAN, crossed : BOOLEAN]

LiveHasKind(c) == \A i \in c.live : c.at[i].kind \in Kinds

TranscriptTypes ==
  /\ named \in BOOLEAN
  /\ buffer \in Buffers
  /\ cli \in Clis
  /\ LiveHasKind(cli)
  /\ cli.waiting \subseteq cli.made /\ cli.made \subseteq cli.seen
  /\ IsFiniteSet(cli.waiting)

-----------------------------------------------------------------------------
(* What the operators of the buffer do                                     *)

LEMMA AddedIs ==
  ASSUME NEW t \in Buffers, NEW kind \in Kinds \cup {"subagent", "error"}, NEW block \in Nat
  PROVE  /\ Added(t, kind, block) \in Buffers
         /\ Added(t, kind, block).stack = t.stack
         /\ Added(t, kind, block).open = t.open
         /\ Added(t, kind, block).segments = Append(t.segments, Segment(kind, block))
<1> DEFINE segments == Append(t.segments, Segment(kind, block))
<1>1. Segment(kind, block) \in Segments BY DEF Segment, Segments
<1>2. t.segments \in Seq(Segments) BY DEF Buffers
<1>3. segments \in Seq(Segments) BY <1>1, <1>2
<1>4. Added(t, kind, block) = [t EXCEPT !.segments = segments] BY DEF Added
<1> HIDE DEF segments
<1>5. /\ [t EXCEPT !.segments = segments] \in Buffers
      /\ [t EXCEPT !.segments = segments].segments = segments
      /\ [t EXCEPT !.segments = segments].stack = t.stack
      /\ [t EXCEPT !.segments = segments].open = t.open
  BY <1>3 DEF Buffers
<1> QED BY <1>4, <1>5 DEF segments

At(open, kind, i, n) == [open EXCEPT ![kind][i] = n]

LEMMA OpenedIs ==
  ASSUME NEW t \in Buffers, NEW kind \in Kinds, NEW i \in Index, NEW block \in Nat
  PROVE  /\ Opened(t, kind, i, block) \in Buffers
         /\ Opened(t, kind, i, block).stack = t.stack
         /\ Opened(t, kind, i, block).open = At(t.open, kind, i, Len(t.segments) + 1)
         /\ Opened(t, kind, i, block).segments = Append(t.segments, Segment(kind, block))
<1> DEFINE c == Added(t, kind, block)
<1>1. Segment(kind, block) \in Segments BY DEF Segment, Segments
<1>2. /\ c \in Buffers /\ c.stack = t.stack /\ c.open = t.open
      /\ c.segments = Append(t.segments, Segment(kind, block))
  BY AddedIs
<1>3. Len(c.segments) = Len(t.segments) + 1 /\ Len(c.segments) \in Nat
  BY <1>1, <1>2 DEF Buffers
<1>4. Opened(t, kind, i, block) = [c EXCEPT !.open[kind][i] = Len(c.segments)] BY DEF Opened
<1> HIDE DEF c
<1>5. Opened(t, kind, i, block) = [c EXCEPT !.open = [c.open EXCEPT ![kind][i] = Len(c.segments)]]
  BY <1>2, <1>4 DEF Buffers
<1>6. [c.open EXCEPT ![kind][i] = Len(c.segments)] \in [Kinds -> [Index -> Nat]]
  BY <1>2, <1>3 DEF Buffers
<1> QED BY <1>2, <1>3, <1>5, <1>6 DEF Buffers, At

\* At most one block is open at an index.
OneOpen(t, i) == \A k, l \in Kinds : t.open[k][i] # 0 /\ t.open[l][i] # 0 => k = l

LEMMA StopBlockIs ==
  ASSUME NEW t \in Buffers, NEW i \in Index
  PROVE  /\ StopBlock(t, i) \in Buffers
         /\ StopBlock(t, i).stack = t.stack
         /\ StopBlock(t, i).segments = t.segments
         /\ \A k \in Kinds, j \in Index : j # i => StopBlock(t, i).open[k][j] = t.open[k][j]
         /\ OneOpen(t, i) => \A k \in Kinds : StopBlock(t, i).open[k][i] = 0
<1>1. PICK kind \in Kinds :
        /\ StopBlock(t, i) = [t EXCEPT !.open[kind][i] = 0]
        /\ t.open[kind][i] # 0 \/ \A k \in Kinds : k # kind => t.open[k][i] = 0
  BY DEF StopBlock, Kinds, Prose
<1>2. StopBlock(t, i) = [t EXCEPT !.open = [t.open EXCEPT ![kind][i] = 0]]
  BY <1>1 DEF Buffers
<1> DEFINE open == [t.open EXCEPT ![kind][i] = 0]
<1>3. /\ open \in [Kinds -> [Index -> Nat]]
      /\ open[kind][i] = 0
      /\ \A k \in Kinds : k # kind => open[k] = t.open[k]
      /\ \A k \in Kinds, j \in Index : j # i => open[k][j] = t.open[k][j]
  BY DEF Buffers
<1>4. OneOpen(t, i) => \A k \in Kinds : k # kind => t.open[k][i] = 0
  BY <1>1 DEF OneOpen
<1> HIDE DEF open
<1>5. StopBlock(t, i) = [t EXCEPT !.open = open] BY <1>2 DEF open
<1>6. /\ [t EXCEPT !.open = open] \in Buffers
      /\ [t EXCEPT !.open = open].stack = t.stack
      /\ [t EXCEPT !.open = open].segments = t.segments
      /\ [t EXCEPT !.open = open].open = open
  BY <1>3 DEF Buffers
<1>7. OneOpen(t, i) => \A k \in Kinds : open[k][i] = 0 BY <1>3, <1>4
<1> QED BY <1>3, <1>5, <1>6, <1>7

LEMMA ProseIs ==
  ASSUME NEW t \in Buffers, NEW kind \in Prose, NEW i \in Index, NEW block \in Nat
  PROVE  /\ StartProse(t, kind, i, block) \in Buffers
         /\ StartProse(t, kind, i, block).stack = t.stack
         /\ ChunkProse(t, kind, block) \in Buffers
         /\ ChunkProse(t, kind, block).stack = t.stack
<1>1. kind \in Kinds BY DEF Kinds
<1>2. StopBlock(t, i) \in Buffers /\ StopBlock(t, i).stack = t.stack BY StopBlockIs
<1>3. /\ Opened(StopBlock(t, i), kind, i, block) \in Buffers
      /\ Opened(StopBlock(t, i), kind, i, block).stack = t.stack
  BY <1>1, <1>2, OpenedIs
<1>4. Added(t, kind, block) \in Buffers /\ Added(t, kind, block).stack = t.stack BY <1>1, AddedIs
<1> QED BY <1>3, <1>4 DEF StartProse, ChunkProse

\* A piece of a block that is open goes into its segment.
LEMMA DeltaIs ==
  ASSUME NEW t \in Buffers, NEW kind \in Prose, NEW i \in Index, NEW block \in Nat
  PROVE  /\ DeltaProse(t, kind, i, block) \in Buffers
         /\ DeltaProse(t, kind, i, block).stack = t.stack
         /\ \/ DeltaProse(t, kind, i, block) = t
            \/ /\ t.open[kind][i] = 0
               /\ DeltaProse(t, kind, i, block) = Opened(t, kind, i, block)
            \/ LET n == t.open[kind][i]
               IN  n # 0 /\ (n \in DOMAIN t.segments /\ t.segments[n].of = {block}
                               => DeltaProse(t, kind, i, block) = t)
<1>1. kind \in Kinds BY DEF Kinds
<1>2. CASE InSubagent(t) BY <1>2 DEF DeltaProse
<1>3. CASE ~InSubagent(t) /\ t.open[kind][i] = 0
  <2>1. DeltaProse(t, kind, i, block) = Opened(t, kind, i, block) BY <1>3 DEF DeltaProse
  <2> QED BY <1>1, <1>3, <2>1, OpenedIs
<1>4. CASE ~InSubagent(t) /\ t.open[kind][i] # 0
  <2> DEFINE n == t.open[kind][i]
             filled == [t.segments EXCEPT ![n].of = @ \cup {block}]
  <2>1. DeltaProse(t, kind, i, block) = [t EXCEPT !.segments = filled]
    BY <1>4 DEF DeltaProse, Buffers
  <2>2. t.segments \in Seq(Segments) BY DEF Buffers
  <2>3. filled \in Seq(Segments)
    <3>1. CASE n \in DOMAIN t.segments
      <4>1. t.segments[n] \in Segments BY <2>2, <3>1
      <4>2. [t.segments[n] EXCEPT !.of = @ \cup {block}] \in Segments BY <4>1 DEF Segments
      <4>3. filled = [t.segments EXCEPT ![n] = [t.segments[n] EXCEPT !.of = @ \cup {block}]]
        BY <2>2, <3>1
      <4> HIDE DEF filled, n
      <4> QED BY <2>2, <3>1, <4>2, <4>3
    <3>2. CASE n \notin DOMAIN t.segments
      <4>1. t.segments = [k \in DOMAIN t.segments |-> t.segments[k]] BY <2>2
      <4>2. filled = t.segments BY <3>2, <4>1
      <4> QED BY <2>2, <4>2
    <3> QED BY <3>1, <3>2
  <2>4. n \in DOMAIN t.segments /\ t.segments[n].of = {block} => filled = t.segments
    <3>1. SUFFICES ASSUME n \in DOMAIN t.segments, t.segments[n].of = {block}
                   PROVE  filled = t.segments
      OBVIOUS
    <3>2. t.segments[n] \in Segments BY <2>2, <3>1
    <3>3. [t.segments[n] EXCEPT !.of = @ \cup {block}] = t.segments[n] BY <3>1, <3>2 DEF Segments
    <3>4. filled = [t.segments EXCEPT ![n] = t.segments[n]] BY <2>2, <3>1, <3>3
    <3>5. [t.segments EXCEPT ![n] = t.segments[n]] = t.segments BY <2>2
    <3> QED BY <3>4, <3>5
  <2>5. [t EXCEPT !.segments = t.segments] = t BY DEF Buffers
  <2> HIDE DEF filled
  <2>6. [t EXCEPT !.segments = filled] \in Buffers /\ [t EXCEPT !.segments = filled].stack = t.stack
    BY <2>3 DEF Buffers
  <2> QED BY <1>4, <2>1, <2>4, <2>5, <2>6
<1> QED BY <1>2, <1>3, <1>4

LEMMA StartToolIs ==
  ASSUME NEW t \in Buffers, NEW i \in Index, NEW block \in Nat
  PROVE  /\ StartTool(t, i, block) \in Buffers
         /\ StartTool(t, i, block).stack = t.stack
         /\ LET c == StopBlock(t, i)
            IN  \/ StartTool(t, i, block) = Opened(c, "tool", i, block)
                \/ /\ StartTool(t, i, block).segments = c.segments
                   /\ StartTool(t, i, block).open = At(c.open, "tool", i, Len(c.segments))
<1> DEFINE c == StopBlock(t, i)
<1>1. c \in Buffers /\ c.stack = t.stack BY StopBlockIs
<1>2. "tool" \in Kinds BY DEF Kinds
<1>3. CASE InSubagent(c)
  <2> DEFINE open == [c.open EXCEPT !["tool"][i] = Len(c.segments)]
  <2>1. StartTool(t, i, block) = [c EXCEPT !.open["tool"][i] = Len(c.segments)]
    BY <1>3 DEF StartTool
  <2> HIDE DEF c
  <2>2. Len(c.segments) \in Nat BY <1>1 DEF Buffers
  <2>3. open \in [Kinds -> [Index -> Nat]] BY <1>1, <2>2 DEF Buffers
  <2>4. StartTool(t, i, block) = [c EXCEPT !.open = open] BY <1>1, <2>1 DEF Buffers
  <2> HIDE DEF open
  <2>5. /\ [c EXCEPT !.open = open] \in Buffers
        /\ [c EXCEPT !.open = open].stack = c.stack
        /\ [c EXCEPT !.open = open].segments = c.segments
        /\ [c EXCEPT !.open = open].open = open
    BY <1>1, <2>3 DEF Buffers
  <2> QED BY <1>1, <2>4, <2>5 DEF open, c, At
<1>4. CASE ~InSubagent(c)
  <2>1. StartTool(t, i, block) = Opened(c, "tool", i, block) BY <1>4 DEF StartTool
  <2> QED BY <1>1, <1>2, <2>1, OpenedIs
<1> QED BY <1>3, <1>4

LEMMA StartTaskIs ==
  ASSUME NEW t \in Buffers, NEW id \in Tasks \cup {<<>>}, NEW block \in Nat
  PROVE  LET name == IF id = <<>> THEN Synthetic ELSE id
             c == Added(t, "subagent", block)
         IN  /\ StartTask(t, id, block) \in Buffers
             /\ StartTask(t, id, block).stack = Append(t.stack, name)
             /\ StartTask(t, id, block).segments = c.segments
             /\ StartTask(t, id, block).open = c.open
<1> DEFINE name == IF id = <<>> THEN Synthetic ELSE id
           c == Added(t, "subagent", block)
           stack == Append(t.stack, name)
<1>1. c \in Buffers /\ c.stack = t.stack BY AddedIs
<1>2. StartTask(t, id, block) = [c EXCEPT !.stack = stack] BY <1>1 DEF StartTask
<1>3. name \in Tasks \cup {Synthetic} OBVIOUS
<1> HIDE DEF name, c
<1>4. stack \in Seq(Tasks \cup {Synthetic}) BY <1>1, <1>3 DEF Buffers
<1> HIDE DEF stack
<1>5. /\ [c EXCEPT !.stack = stack] \in Buffers
      /\ [c EXCEPT !.stack = stack].stack = stack
      /\ [c EXCEPT !.stack = stack].segments = c.segments
      /\ [c EXCEPT !.stack = stack].open = c.open
  BY <1>1, <1>4 DEF Buffers
<1> QED BY <1>2, <1>5 DEF name, c, stack

-----------------------------------------------------------------------------
(* Segments                                                                *)

\* An open block is the live one at its index, and the segment of an open prose
\* block holds that block's text and no other.
LiveThere(t, c, kind, i) ==
  /\ i \in c.live
  /\ c.at[i].kind = kind
  /\ kind \in Prose => /\ t.open[kind][i] \in DOMAIN t.segments
                       /\ t.segments[t.open[kind][i]].of = {c.at[i].block}
OpenIsLive(t, c) ==
  \A kind \in Kinds, i \in Index : t.open[kind][i] # 0 => LiveThere(t, c, kind, i)
Unmixed(t) == \A k \in DOMAIN t.segments : \E block \in Nat : t.segments[k].of = {block}

InOrder(t, c) == OpenIsLive(t, c) /\ Unmixed(t)

NothingOpen(t, i) == \A kind \in Kinds : t.open[kind][i] = 0

\* The CLIs are the same but for index i.
Elsewhere(c, d, i) ==
  /\ \A j \in Index : j # i => d.at[j] = c.at[j]
  /\ \A j \in Index : j # i => (j \in d.live <=> j \in c.live)

Gains(t, u, kind, block) == u.segments = Append(t.segments, Segment(kind, block))

\* A segment that is added holds one block's text and leaves the others.
LEMMA AddedInOrder ==
  ASSUME NEW t \in Buffers, NEW u, NEW kind \in Kinds \cup {"subagent", "error"},
         NEW block \in Nat, Unmixed(t), Gains(t, u, kind, block)
  PROVE  /\ Unmixed(u)
         /\ Len(t.segments) + 1 \in DOMAIN u.segments
         /\ u.segments[Len(t.segments) + 1].of = {block}
         /\ \A k \in DOMAIN t.segments : k \in DOMAIN u.segments /\ u.segments[k] = t.segments[k]
<1> DEFINE seg == Segment(kind, block)
<1>1. seg \in Segments /\ seg.of = {block} BY DEF Segment, Segments
<1>2. t.segments \in Seq(Segments) BY DEF Buffers
<1> HIDE DEF seg
<1>3. /\ DOMAIN u.segments = 1..(Len(t.segments) + 1)
      /\ DOMAIN t.segments = 1..Len(t.segments)
      /\ Len(t.segments) \in Nat
      /\ u.segments[Len(t.segments) + 1] = seg
      /\ \A k \in DOMAIN t.segments : u.segments[k] = t.segments[k]
  BY <1>1, <1>2 DEF seg, Gains
<1>4. /\ Len(t.segments) + 1 \in DOMAIN u.segments
      /\ \A k \in DOMAIN t.segments : k \in DOMAIN u.segments
      /\ \A k \in DOMAIN u.segments : k = Len(t.segments) + 1 \/ k \in DOMAIN t.segments
  BY <1>3
<1>5. Unmixed(u) BY <1>1, <1>3, <1>4 DEF Unmixed
<1> QED BY <1>1, <1>3, <1>4, <1>5

LEMMA AddedKeepsOpen ==
  ASSUME NEW t \in Buffers, NEW u, NEW c, OpenIsLive(t, c), u.open = t.open,
         \A k \in DOMAIN t.segments : k \in DOMAIN u.segments /\ u.segments[k] = t.segments[k]
  PROVE  OpenIsLive(u, c)
BY DEF OpenIsLive, LiveThere

LEMMA OneIsOpen ==
  ASSUME NEW t, NEW c, NEW i \in Index, OpenIsLive(t, c)
  PROVE  /\ OneOpen(t, i)
         /\ i \notin c.live => NothingOpen(t, i)
         /\ \A kind \in Kinds : c.at[i].kind = kind /\ t.open[kind][i] = 0 => NothingOpen(t, i)
BY DEF OpenIsLive, LiveThere, OneOpen, NothingOpen

\* Stopping what is open at an index, which may then be used again.
LEMMA StoppedInOrder ==
  ASSUME NEW t \in Buffers, NEW c, NEW d, NEW i \in Index,
         OpenIsLive(t, c), Unmixed(t), Elsewhere(c, d, i)
  PROVE  LET s == StopBlock(t, i)
         IN  NothingOpen(s, i) /\ OpenIsLive(s, d) /\ Unmixed(s)
<1> DEFINE s == StopBlock(t, i)
<1>1. OneOpen(t, i) BY OneIsOpen
<1>2. /\ s.segments = t.segments
      /\ \A k \in Kinds, j \in Index : j # i => s.open[k][j] = t.open[k][j]
      /\ \A k \in Kinds : s.open[k][i] = 0
  BY <1>1, StopBlockIs
<1> HIDE DEF s
<1>3. OpenIsLive(s, d) BY <1>2 DEF OpenIsLive, LiveThere, Elsewhere
<1> QED BY <1>2, <1>3 DEF NothingOpen, Unmixed, s

LEMMA UnopenedInOrder ==
  ASSUME NEW t \in Buffers, NEW c, NEW d, NEW i \in Index,
         OpenIsLive(t, c), NothingOpen(t, i), Elsewhere(c, d, i)
  PROVE  OpenIsLive(t, d)
BY DEF OpenIsLive, LiveThere, NothingOpen, Elsewhere

\* A block that is opened at an index is the live one there.
LEMMA OpenedInOrder ==
  ASSUME NEW t \in Buffers, NEW c, NEW kind \in Kinds, NEW i \in Index, NEW block \in Nat,
         OpenIsLive(t, c), Unmixed(t), NothingOpen(t, i),
         i \in c.live, c.at[i].kind = kind, c.at[i].block = block
  PROVE  OpenIsLive(Opened(t, kind, i, block), c) /\ Unmixed(Opened(t, kind, i, block))
<1> DEFINE u == Opened(t, kind, i, block)
           n == Len(t.segments) + 1
<1>1. Gains(t, u, kind, block) /\ u.open = At(t.open, kind, i, n) BY OpenedIs DEF Gains
<1> HIDE DEF u
<1>2. kind \in Kinds \cup {"subagent", "error"} OBVIOUS
<1>3. /\ Unmixed(u)
      /\ n \in DOMAIN u.segments /\ u.segments[n].of = {block}
      /\ \A k \in DOMAIN t.segments : k \in DOMAIN u.segments /\ u.segments[k] = t.segments[k]
  BY <1>1, <1>2, AddedInOrder
<1> HIDE DEF n
<1>4. /\ u.open[kind][i] = n
      /\ \A k \in Kinds, j \in Index : k # kind \/ j # i => u.open[k][j] = t.open[k][j]
  BY <1>1 DEF Buffers, At
<1>5. \A k \in Kinds, j \in Index : u.open[k][j] # 0 =>
        \/ k = kind /\ j = i
        \/ t.open[k][j] # 0 /\ u.open[k][j] = t.open[k][j]
  BY <1>4
<1>6. OpenIsLive(u, c) BY <1>3, <1>4, <1>5 DEF OpenIsLive, LiveThere
<1> QED BY <1>3, <1>6 DEF u

-----------------------------------------------------------------------------
(* The stack of subagents                                                  *)

Entries(stack, id) == {k \in DOMAIN stack : RoughlyMatch(stack[k], id)}

Cut(t, n) == [t EXCEPT !.stack = SubSeq(@, 1, n)]

LEMMA CutIs ==
  ASSUME NEW t \in Buffers, NEW n \in 0..Len(t.stack)
  PROVE  /\ Cut(t, n) \in Buffers
         /\ Cut(t, n).segments = t.segments
         /\ Cut(t, n).open = t.open
         /\ Len(Cut(t, n).stack) = n
         /\ DOMAIN Cut(t, n).stack = 1..n
         /\ \A k \in 1..n : k \in DOMAIN t.stack /\ Cut(t, n).stack[k] = t.stack[k]
         /\ n = Len(t.stack) => Cut(t, n) = t
<1> DEFINE stack == SubSeq(t.stack, 1, n)
<1>1. t.stack \in Seq(Tasks \cup {Synthetic}) /\ Len(t.stack) \in Nat BY DEF Buffers
<1>2. /\ stack \in Seq(Tasks \cup {Synthetic})
      /\ Len(stack) = n
      /\ DOMAIN stack = 1..n
      /\ \A k \in 1..n : k \in DOMAIN t.stack /\ stack[k] = t.stack[k]
  BY <1>1
<1>3. n = Len(t.stack) => stack = t.stack BY <1>1
<1>4. Cut(t, n) = [t EXCEPT !.stack = stack] BY DEF Cut
<1>5. [t EXCEPT !.stack = t.stack] = t BY DEF Buffers
<1> HIDE DEF stack
<1>6. /\ [t EXCEPT !.stack = stack] \in Buffers
      /\ [t EXCEPT !.stack = stack].stack = stack
      /\ [t EXCEPT !.stack = stack].segments = t.segments
      /\ [t EXCEPT !.stack = stack].open = t.open
  BY <1>2 DEF Buffers
<1> QED BY <1>2, <1>3, <1>4, <1>5, <1>6

LEMMA Greatest ==
  ASSUME NEW n \in Nat, NEW S \in SUBSET (1..n), S # {}
  PROVE  \E top \in S : \A k \in S : k <= top
<1> DEFINE T == {n - k : k \in S}
           less == {ss \in Nat \X Nat : ss[1] < ss[2]}
<1>1. \A k \in S : k \in 1..n /\ n - k \in Nat /\ n - k \in T OBVIOUS
<1>2. PICK m \in T : \A k \in T : m <= k
  <2>1. T \in SUBSET Nat BY <1>1
  <2>2. T # {} BY <1>1
  <2>3. IsWellFoundedOn(less, Nat) BY NatLessThanWellFounded DEF OpToRel
  <2> HIDE DEF T, less
  <2>4. PICK m \in T : \A k \in T : ~(<<k, m>> \in less) BY <2>1, <2>2, <2>3, WFMin
  <2>5. \A k \in T : k \in Nat /\ m \in Nat /\ ~(k < m) BY <2>1, <2>4 DEF less
  <2> QED BY <2>5
<1>3. PICK top \in S : m = n - top BY <1>2
<1>4. \A k \in S : n - top <= n - k BY <1>1, <1>2, <1>3
<1> QED BY <1>1, <1>4

\* Popping cuts the stack off below an entry that matches, if any does.
LEMMA PopIs ==
  ASSUME NEW t \in Buffers, NEW id
  PROVE  \E n \in 0..Len(t.stack) :
           /\ Pop(t, id) = Cut(t, n)
           /\ id # <<>> /\ Entries(t.stack, id) # {} => n + 1 \in Entries(t.stack, id)
           /\ id = <<>> /\ SyntheticTop(t) => n + 1 = Len(t.stack)
<1>1. t.stack \in Seq(Tasks \cup {Synthetic}) /\ Len(t.stack) \in Nat BY DEF Buffers
<1>2. CASE id = <<>> /\ SyntheticTop(t)
  <2>1. t.stack # <<>> BY <1>2 DEF SyntheticTop
  <2>2. Len(t.stack) >= 1 BY <1>1, <2>1
  <2>3. Len(t.stack) - 1 \in 0..Len(t.stack) /\ (Len(t.stack) - 1) + 1 = Len(t.stack) BY <1>1, <2>2
  <2>4. Pop(t, id) = Cut(t, Len(t.stack) - 1) BY <1>2 DEF Pop, Cut, Front
  <2> QED BY <1>2, <2>3, <2>4
<1>3. CASE id # <<>> /\ Entries(t.stack, id) # {}
  <2> DEFINE top == CHOOSE k \in Entries(t.stack, id) : \A j \in Entries(t.stack, id) : j <= k
  <2>1. Entries(t.stack, id) \in SUBSET (1..Len(t.stack)) BY <1>1 DEF Entries
  <2>2. top \in Entries(t.stack, id) BY <1>1, <1>3, <2>1, Greatest
  <2>3. Pop(t, id) = Cut(t, top - 1) BY <1>3 DEF Pop, Cut, Entries
  <2> HIDE DEF top
  <2>4. top - 1 \in 0..Len(t.stack) /\ (top - 1) + 1 = top BY <1>1, <2>1, <2>2
  <2> QED BY <1>3, <2>2, <2>3, <2>4
<1>4. CASE /\ ~(id = <<>> /\ SyntheticTop(t))
           /\ ~(id # <<>> /\ Entries(t.stack, id) # {})
  <2>1. Pop(t, id) = t BY <1>4 DEF Pop, Entries
  <2>2. Len(t.stack) \in 0..Len(t.stack) BY <1>1
  <2>3. Pop(t, id) = Cut(t, Len(t.stack)) BY <2>1, <2>2, CutIs
  <2> QED BY <1>4, <2>2, <2>3
<1> QED BY <1>2, <1>3, <1>4

\* A result closes what it matches; one with no id or one like a Task's
\* closes a task without.
LEMMA ResultIs ==
  ASSUME NEW t \in Buffers, NEW id
  PROVE  \E n \in 0..Len(t.stack) :
           /\ ToolResult(t, id) = Cut(t, n)
           /\ id # <<>> /\ Entries(t.stack, id) # {} => n + 1 \in Entries(t.stack, id)
           /\ (id = <<>> \/ LooksLikeTask(id)) /\ SyntheticTop(t) => n < Len(t.stack)
<1>1. t.stack \in Seq(Tasks \cup {Synthetic}) /\ Len(t.stack) \in Nat BY DEF Buffers
<1>2. PICK n \in 0..Len(t.stack) :
        /\ Pop(t, id) = Cut(t, n)
        /\ id # <<>> /\ Entries(t.stack, id) # {} => n + 1 \in Entries(t.stack, id)
        /\ id = <<>> /\ SyntheticTop(t) => n + 1 = Len(t.stack)
  BY PopIs
<1>3. Cut(t, n) # t => n < Len(t.stack) BY <1>1, CutIs
<1>4. CASE ~(Pop(t, id) = t /\ SyntheticTop(t) /\ LooksLikeTask(id))
  <2>1. ToolResult(t, id) = Cut(t, n) BY <1>2, <1>4 DEF ToolResult
  <2>2. (id = <<>> \/ LooksLikeTask(id)) /\ SyntheticTop(t) => n < Len(t.stack)
    BY <1>1, <1>2, <1>3, <1>4
  <2> QED BY <1>2, <2>1, <2>2
<1>5. CASE Pop(t, id) = t /\ SyntheticTop(t) /\ LooksLikeTask(id)
  <2>1. PICK m \in 0..Len(t.stack) : Pop(t, <<>>) = Cut(t, m) /\ m + 1 = Len(t.stack)
    BY <1>5, PopIs
  <2>2. ToolResult(t, id) = Cut(t, m) BY <1>5, <2>1 DEF ToolResult
  <2>3. n = Len(t.stack)
    <3>1. Len(Cut(t, n).stack) = n BY CutIs
    <3> QED BY <1>2, <1>5, <3>1
  <2>4. n + 1 \notin Entries(t.stack, id) BY <1>1, <2>3 DEF Entries
  <2>5. id # <<>> BY <1>5 DEF LooksLikeTask
  <2>6. m < Len(t.stack) BY <1>1, <2>1
  <2> QED BY <1>2, <2>2, <2>4, <2>5, <2>6
<1> QED BY <1>4, <1>5

Unanswered(asked, id) == {task \in asked : RoughlyMatch(task, id)}

\* Without ids every open task has the same; with ids it has that of its call.
StackIsMade ==
  \A k \in DOMAIN buffer.stack :
    IF named THEN buffer.stack[k] \in cli.made ELSE buffer.stack[k] = Synthetic

\* Of the tasks that count as one another, no more are open than have no result.
OpenAreUnanswered ==
  /\ named /\ IdsTellTasksApart /\ ~cli.strange =>
       \A id \in cli.made :
         Cardinality(Entries(buffer.stack, id)) <= Cardinality(Unanswered(cli.waiting, id))
  /\ ~named /\ ~cli.strange => Len(buffer.stack) <= Cardinality(cli.waiting)

StackInv == StackIsMade /\ OpenAreUnanswered

LEMMA EntriesAreFinite ==
  ASSUME NEW t \in Buffers, NEW id
  PROVE  /\ IsFiniteSet(Entries(t.stack, id))
         /\ Cardinality(Entries(t.stack, id)) \in Nat
<1>1. DOMAIN t.stack = 1..Len(t.stack) /\ Len(t.stack) \in Nat BY DEF Buffers
<1>2. IsFiniteSet(1..Len(t.stack)) BY <1>1, FS_Interval
<1>3. Entries(t.stack, id) \in SUBSET (1..Len(t.stack)) BY <1>1 DEF Entries
<1>4. IsFiniteSet(Entries(t.stack, id)) BY <1>2, <1>3, FS_Subset
<1> QED BY <1>4, FS_CardinalityType

LEMMA UnansweredAreFinite ==
  ASSUME NEW asked, IsFiniteSet(asked), NEW id
  PROVE  /\ IsFiniteSet(Unanswered(asked, id))
         /\ Cardinality(Unanswered(asked, id)) \in Nat
<1>1. Unanswered(asked, id) \in SUBSET asked BY DEF Unanswered
<1>2. IsFiniteSet(Unanswered(asked, id)) BY <1>1, FS_Subset
<1> QED BY <1>2, FS_CardinalityType

LEMMA MatchesItself ==
  ASSUME NEW task \in Tasks
  PROVE  RoughlyMatch(task, task)
<1>1. Len(task) \in Nat BY IdsAreNotEmpty
<1> QED BY <1>1 DEF RoughlyMatch, IsPrefix

LEMMA MatchIsMutual ==
  ASSUME NEW a, NEW b, RoughlyMatch(a, b)
  PROVE  RoughlyMatch(b, a)
BY DEF RoughlyMatch

\* No task is open that is not unanswered: when every call has its result the
\* stack is empty.
LEMMA AnsweredIsReleased ==
  ASSUME TranscriptTypes, StackInv, IdsTellTasksApart, ~cli.strange, InSubagent(buffer)
  PROVE  cli.waiting # {}
<1> SUFFICES ASSUME cli.waiting = {} PROVE FALSE OBVIOUS
<1>1. /\ buffer \in Buffers
      /\ buffer.stack \in Seq(Tasks \cup {Synthetic})
      /\ Len(buffer.stack) \in Nat /\ buffer.stack # <<>>
  BY DEF TranscriptTypes, Buffers, InSubagent
<1>2. Len(buffer.stack) >= 1 /\ 1 \in DOMAIN buffer.stack BY <1>1
<1>3. CASE ~named
  <2>1. Len(buffer.stack) <= 0 BY <1>3, FS_EmptySet DEF StackInv, OpenAreUnanswered
  <2> QED BY <1>1, <1>2, <2>1
<1>4. CASE named
  <2> DEFINE id == buffer.stack[1]
  <2>1. id \in cli.made /\ id \in Tasks
    BY <1>2, <1>4 DEF StackInv, StackIsMade, TranscriptTypes, Clis
  <2>2. 1 \in Entries(buffer.stack, id) BY <1>2, <2>1, MatchesItself DEF Entries
  <2>3. Cardinality(Entries(buffer.stack, id)) # 0 BY <1>1, <2>2, EntriesAreFinite, FS_EmptySet
  <2>4. Unanswered(cli.waiting, id) = {} BY DEF Unanswered
  <2>5. Cardinality(Entries(buffer.stack, id)) <= 0
    BY <1>4, <2>1, <2>4, FS_EmptySet DEF StackInv, OpenAreUnanswered
  <2>6. Cardinality(Entries(buffer.stack, id)) \in Nat BY <1>1, EntriesAreFinite
  <2> HIDE DEF id
  <2> QED BY <2>3, <2>5, <2>6
<1> QED BY <1>3, <1>4

\* Events that neither call nor answer a task.
SameTasks(c, d) ==
  d.waiting = c.waiting /\ d.made = c.made /\ d.seen = c.seen /\ d.strange = c.strange
LEMMA SameStack ==
  ASSUME StackInv, named' = named, SameTasks(cli, cli'), buffer'.stack = buffer.stack
  PROVE  StackInv'
BY DEF StackInv, StackIsMade, OpenAreUnanswered, IdsTellTasksApart, SameTasks

\* Ids only grow in number, so that what holds of all of them held before.
LEMMA ApartBefore ==
  ASSUME named' = named, cli.seen \subseteq cli'.seen, IdsTellTasksApart'
  PROVE  IdsTellTasksApart
BY DEF IdsTellTasksApart

\* A call goes on the stack and waits for its result.
LEMMA CallStack ==
  ASSUME TranscriptTypes, StackInv, named' = named, NEW task \in Tasks, task \notin cli.made,
         cli'.waiting = cli.waiting \cup {task}, cli'.made = cli.made \cup {task},
         cli'.seen = cli.seen \cup {task}, cli'.strange = cli.strange,
         buffer'.stack = Append(buffer.stack, IF named THEN task ELSE Synthetic)
  PROVE  StackInv'
<1> DEFINE name == IF named THEN task ELSE Synthetic
           n == Len(buffer.stack)
<1>1. /\ buffer \in Buffers
      /\ buffer.stack \in Seq(Tasks \cup {Synthetic})
      /\ n \in Nat
      /\ name \in Tasks \cup {Synthetic}
  BY DEF TranscriptTypes, Buffers
<1>2. /\ DOMAIN buffer.stack = 1..n /\ DOMAIN buffer'.stack = 1..(n + 1) /\ Len(buffer'.stack) = n + 1
      /\ buffer'.stack[n + 1] = name
      /\ \A k \in 1..n : buffer'.stack[k] = buffer.stack[k]
  BY <1>1
<1> HIDE DEF name
<1>3. StackIsMade'
  BY <1>2 DEF StackInv, StackIsMade, name
<1>4. /\ cli.waiting \subseteq cli.made /\ cli.made \subseteq Tasks /\ IsFiniteSet(cli.waiting)
      /\ task \notin cli.waiting /\ cli.made \subseteq cli.seen
  BY DEF TranscriptTypes, Clis
<1>5. Cardinality(cli'.waiting) = Cardinality(cli.waiting) + 1 BY <1>4, FS_AddElement
<1>6. ~named' /\ ~cli'.strange => Len(buffer'.stack) <= Cardinality(cli'.waiting)
  <2>1. Cardinality(cli.waiting) \in Nat BY <1>4, FS_CardinalityType
  <2> QED BY <1>1, <1>2, <1>5, <2>1 DEF StackInv, OpenAreUnanswered
<1>7. ASSUME named', IdsTellTasksApart', ~cli'.strange, NEW id \in cli'.made
      PROVE  Cardinality(Entries(buffer'.stack, id)) <= Cardinality(Unanswered(cli'.waiting, id))
  <2> DEFINE entries == Entries(buffer.stack, id)
             open == Unanswered(cli.waiting, id)
  <2>1. /\ IsFiniteSet(entries) /\ Cardinality(entries) \in Nat
        /\ IsFiniteSet(open) /\ Cardinality(open) \in Nat
    BY <1>1, <1>4, EntriesAreFinite, UnansweredAreFinite
  <2>2. named /\ IdsTellTasksApart /\ ~cli.strange BY <1>7, ApartBefore
  <2>3. Cardinality(entries) <= Cardinality(open)
    <3>1. CASE id \in cli.made BY <2>2, <3>1 DEF StackInv, OpenAreUnanswered
    <3>2. CASE id = task /\ entries = {} BY <2>1, <3>2, FS_EmptySet
    <3>3. CASE id = task /\ entries # {}
      <4>1. PICK k \in DOMAIN buffer.stack : RoughlyMatch(buffer.stack[k], task)
        BY <3>3 DEF Entries
      <4> DEFINE other == buffer.stack[k]
      <4>2. other \in cli.made BY <2>2 DEF StackInv, StackIsMade
      <4>3. \A a \in cli.made : RoughlyMatch(a, task) <=> RoughlyMatch(a, other)
        BY <1>4, <1>7, <4>1, <4>2, MatchIsMutual DEF IdsTellTasksApart
      <4>4. \A j \in DOMAIN buffer.stack : buffer.stack[j] \in cli.made
        BY <2>2 DEF StackInv, StackIsMade
      <4>5. entries = Entries(buffer.stack, other) BY <3>3, <4>3, <4>4 DEF Entries
      <4>6. open = Unanswered(cli.waiting, other) BY <1>4, <3>3, <4>3 DEF Unanswered
      <4> QED BY <2>2, <4>2, <4>5, <4>6 DEF StackInv, OpenAreUnanswered
    <3> QED BY <3>1, <3>2, <3>3
  <2>4. CASE RoughlyMatch(task, id)
    <3>1. Entries(buffer'.stack, id) = entries \cup {n + 1}
      BY <1>1, <1>2, <2>2, <2>4 DEF Entries, name
    <3>2. n + 1 \notin entries BY <1>1, <1>2 DEF Entries
    <3>3. Unanswered(cli'.waiting, id) = open \cup {task} BY <2>4 DEF Unanswered
    <3>4. task \notin open BY <1>4 DEF Unanswered
    <3>5. Cardinality(Entries(buffer'.stack, id)) = Cardinality(entries) + 1
      BY <2>1, <3>1, <3>2, FS_AddElement
    <3>6. Cardinality(Unanswered(cli'.waiting, id)) = Cardinality(open) + 1
      BY <2>1, <3>3, <3>4, FS_AddElement
    <3> QED BY <2>1, <2>3, <3>5, <3>6
  <2>5. CASE ~RoughlyMatch(task, id)
    <3>1. Entries(buffer'.stack, id) = entries BY <1>1, <1>2, <2>2, <2>5 DEF Entries, name
    <3>2. Unanswered(cli'.waiting, id) = open BY <2>5 DEF Unanswered
    <3> QED BY <2>3, <3>1, <3>2
  <2> QED BY <2>4, <2>5
<1> QED BY <1>3, <1>6, <1>7 DEF StackInv, OpenAreUnanswered

\* The result of another tool, or of a Task that it does not answer, takes off no
\* more than it should.
LEMMA CutStack ==
  ASSUME TranscriptTypes, StackInv, named' = named, NEW n \in 0..Len(buffer.stack),
         buffer' = Cut(buffer, n), cli'.made = cli.made,
         cli'.strange \/ SameTasks(cli, cli')
  PROVE  StackInv'
<1>1. /\ buffer \in Buffers /\ Len(buffer.stack) \in Nat
      /\ DOMAIN buffer.stack = 1..Len(buffer.stack)
  BY DEF TranscriptTypes, Buffers
<1>2. /\ Len(buffer'.stack) = n /\ DOMAIN buffer'.stack = 1..n
      /\ \A k \in 1..n : k \in DOMAIN buffer.stack /\ buffer'.stack[k] = buffer.stack[k]
  BY <1>1, CutIs
<1>3. StackIsMade' BY <1>2 DEF StackInv, StackIsMade
<1>4. CASE cli'.strange BY <1>3, <1>4 DEF StackInv, OpenAreUnanswered
<1>5. CASE SameTasks(cli, cli') /\ ~cli'.strange
  <2>1. ~cli.strange /\ cli'.waiting = cli.waiting /\ (IdsTellTasksApart' => IdsTellTasksApart)
    BY <1>5 DEF SameTasks, IdsTellTasksApart
  <2>2. ~named => Len(buffer'.stack) <= Cardinality(cli'.waiting)
    <3>1. SUFFICES ASSUME ~named PROVE Len(buffer'.stack) <= Cardinality(cli'.waiting) OBVIOUS
    <3>2. Len(buffer.stack) <= Cardinality(cli.waiting) BY <2>1, <3>1 DEF StackInv, OpenAreUnanswered
    <3>3. IsFiniteSet(cli.waiting) BY DEF TranscriptTypes
    <3>4. Cardinality(cli.waiting) \in Nat BY <3>3, FS_CardinalityType
    <3> QED BY <1>1, <1>2, <2>1, <3>2, <3>4
  <2>3. ASSUME named, IdsTellTasksApart', NEW x \in cli'.made
        PROVE  Cardinality(Entries(buffer'.stack, x)) <= Cardinality(Unanswered(cli'.waiting, x))
    <3> DEFINE before == Entries(buffer.stack, x)
               after == Entries(buffer'.stack, x)
    <3>1. IsFiniteSet(before) /\ Cardinality(before) \in Nat BY <1>1, EntriesAreFinite
    <3>2. after \in SUBSET before BY <1>2 DEF Entries
    <3>3. Cardinality(after) \in Nat /\ Cardinality(after) <= Cardinality(before)
      BY <3>1, <3>2, FS_Subset, FS_CardinalityType
    <3>4. Cardinality(before) <= Cardinality(Unanswered(cli.waiting, x))
      BY <2>1, <2>3 DEF StackInv, OpenAreUnanswered
    <3>5. IsFiniteSet(cli.waiting) BY DEF TranscriptTypes
    <3>6. Cardinality(Unanswered(cli.waiting, x)) \in Nat BY <3>5, UnansweredAreFinite
    <3>7. Unanswered(cli'.waiting, x) = Unanswered(cli.waiting, x) BY <2>1 DEF Unanswered
    <3> HIDE DEF before, after
    <3>8. Cardinality(after) <= Cardinality(Unanswered(cli.waiting, x)) BY <3>1, <3>3, <3>4, <3>6
    <3> QED BY <3>7, <3>8 DEF after
  <2> QED BY <1>3, <2>2, <2>3 DEF StackInv, OpenAreUnanswered
<1> QED BY <1>4, <1>5

\* A result takes its task off, or one that counts as it, if either is open.
LEMMA ResultStack ==
  ASSUME TranscriptTypes, StackInv, named' = named, NEW task \in cli.waiting,
         cli'.waiting = cli.waiting \ {task}, cli'.made = cli.made,
         NEW id, Answered(task, id), cli'.seen = cli.seen \cup {id}, cli'.strange = cli.strange,
         buffer' = ToolResult(buffer, id)
  PROVE  StackInv'
<1>1. /\ buffer \in Buffers
      /\ buffer.stack \in Seq(Tasks \cup {Synthetic})
      /\ Len(buffer.stack) \in Nat
      /\ DOMAIN buffer.stack = 1..Len(buffer.stack)
  BY DEF TranscriptTypes, Buffers
<1>2. /\ cli.waiting \subseteq cli.made /\ cli.made \subseteq Tasks /\ IsFiniteSet(cli.waiting)
      /\ task \in Tasks /\ task \in cli.made /\ cli.made \subseteq cli.seen
  BY DEF TranscriptTypes, Clis
<1>3. PICK n \in 0..Len(buffer.stack) :
        /\ buffer' = Cut(buffer, n)
        /\ id # <<>> /\ Entries(buffer.stack, id) # {} => n + 1 \in Entries(buffer.stack, id)
        /\ (id = <<>> \/ LooksLikeTask(id)) /\ SyntheticTop(buffer) => n < Len(buffer.stack)
  BY <1>1, ResultIs
<1>4. /\ Len(buffer'.stack) = n /\ DOMAIN buffer'.stack = 1..n
      /\ \A k \in 1..n : k \in DOMAIN buffer.stack /\ buffer'.stack[k] = buffer.stack[k]
  BY <1>1, <1>3, CutIs
<1>5. StackIsMade' BY <1>4 DEF StackInv, StackIsMade
<1>6. ~named' /\ ~cli'.strange => Len(buffer'.stack) <= Cardinality(cli'.waiting)
  <2>1. SUFFICES ASSUME ~named, ~cli.strange PROVE Len(buffer'.stack) <= Cardinality(cli'.waiting) OBVIOUS
  <2>2. Cardinality(cli'.waiting) = Cardinality(cli.waiting) - 1
        /\ Cardinality(cli.waiting) \in Nat /\ Cardinality(cli'.waiting) \in Nat
    BY <1>2, FS_RemoveElement, FS_CardinalityType
  <2>3. Len(buffer.stack) <= Cardinality(cli.waiting) BY <2>1 DEF StackInv, OpenAreUnanswered
  <2>4. CASE buffer.stack = <<>> BY <1>1, <1>3, <1>4, <2>2, <2>4
  <2>5. CASE buffer.stack # <<>>
    <3>1. Len(buffer.stack) \in DOMAIN buffer.stack BY <1>1, <2>5
    <3>2. SyntheticTop(buffer)
      BY <2>1, <2>5, <3>1 DEF SyntheticTop, Last, StackInv, StackIsMade
    <3>3. n < Len(buffer.stack) BY <1>3, <2>1, <3>2 DEF Answered
    <3> QED BY <1>1, <1>3, <1>4, <2>2, <2>3, <3>3
  <2> QED BY <2>4, <2>5
<1>7. ASSUME named', IdsTellTasksApart', ~cli'.strange, NEW x \in cli'.made
      PROVE  Cardinality(Entries(buffer'.stack, x)) <= Cardinality(Unanswered(cli'.waiting, x))
  <2> DEFINE before == Entries(buffer.stack, x)
             after == Entries(buffer'.stack, x)
             open == Unanswered(cli.waiting, x)
  <2>1. /\ IsFiniteSet(before) /\ Cardinality(before) \in Nat
        /\ IsFiniteSet(open) /\ Cardinality(open) \in Nat
    BY <1>1, <1>2, EntriesAreFinite, UnansweredAreFinite
  <2>2. named /\ IdsTellTasksApart /\ ~cli.strange BY <1>7, ApartBefore
  <2>3. Cardinality(before) <= Cardinality(open) BY <1>7, <2>2 DEF StackInv, OpenAreUnanswered
  <2>4. after \in SUBSET before /\ \A k \in after : k <= n BY <1>4 DEF Entries
  <2>5. IsFiniteSet(after) /\ Cardinality(after) \in Nat /\ Cardinality(after) <= Cardinality(before)
    BY <2>1, <2>4, FS_Subset, FS_CardinalityType
  <2>6. CASE ~RoughlyMatch(task, x)
    <3>1. Unanswered(cli'.waiting, x) = open BY <2>6 DEF Unanswered
    <3> QED BY <2>1, <2>3, <2>5, <3>1
  <2>7. CASE RoughlyMatch(task, x)
    <3>1. Unanswered(cli'.waiting, x) = open \ {task} /\ task \in open BY <2>7 DEF Unanswered
    <3>2. Cardinality(Unanswered(cli'.waiting, x)) = Cardinality(open) - 1
      <4>1. Cardinality(open \ {task}) = Cardinality(open) - 1
        BY <2>1, <3>1, FS_RemoveElement
      <4> QED BY <3>1, <4>1
    <3>3. before = Entries(buffer.stack, id) /\ id # <<>>
      <4>0. id # <<>> /\ RoughlyMatch(id, task) BY <2>2 DEF Answered
      <4>1. \A a \in cli.made : RoughlyMatch(a, x) <=> RoughlyMatch(a, id)
        <5>1. \A a \in cli.made : RoughlyMatch(a, x) <=> RoughlyMatch(a, task)
          BY <1>2, <1>7, <2>2, <2>7, MatchIsMutual DEF IdsTellTasksApart
        <5>2. \A a \in cli.made : RoughlyMatch(a, id) <=> RoughlyMatch(a, task)
          BY <1>2, <1>7, <2>2, <4>0, MatchIsMutual DEF IdsTellTasksApart
        <5> QED BY <5>1, <5>2
      <4>2. \A j \in DOMAIN buffer.stack : buffer.stack[j] \in cli.made
        BY <2>2 DEF StackInv, StackIsMade
      <4> QED BY <4>0, <4>1, <4>2 DEF Entries
    <3>4. CASE before = {}
      <4>1. after = {} BY <2>4, <3>4
      <4>2. Cardinality(after) = 0 BY <4>1, FS_EmptySet
      <4>3. Cardinality(open) # 0 BY <2>1, <3>1, FS_EmptySet
      <4> QED BY <2>1, <3>2, <4>2, <4>3
    <3>5. CASE before # {}
      <4>2. n + 1 \in before BY <1>3, <3>3, <3>5
      <4>3. n + 1 \notin after BY <1>1, <1>3, <2>4
      <4>4. after \in SUBSET (before \ {n + 1}) BY <2>4, <4>3
      <4>5. IsFiniteSet(before \ {n + 1}) /\ Cardinality(before \ {n + 1}) = Cardinality(before) - 1
        BY <2>1, <4>2, FS_RemoveElement
      <4>6. Cardinality(after) <= Cardinality(before) - 1 BY <4>4, <4>5, FS_Subset
      <4> QED BY <2>1, <2>3, <2>5, <3>2, <4>6
    <3> QED BY <3>4, <3>5
  <2> QED BY <2>6, <2>7
<1> QED BY <1>5, <1>6, <1>7 DEF StackInv, OpenAreUnanswered

-----------------------------------------------------------------------------
(* The events                                                              *)

SegmentInv == ~cli.crossed => InOrder(buffer, cli)

TranscriptInv == TranscriptTypes /\ StackInv /\ SegmentInv

LEMMA BegunIs ==
  ASSUME TranscriptTypes, NEW i \in Index, NEW kind \in Kinds \cup {"task"}
  PROVE  /\ Begun(i, kind) \in Clis
         /\ SameTasks(cli, Begun(i, kind))
         /\ Begun(i, kind).crossed = cli.crossed
         /\ Begun(i, kind).live = cli.live \cup {i}
         /\ Begun(i, kind).at[i] = [kind |-> kind, block |-> cli.blocks + 1]
         /\ \A j \in Index : j # i => Begun(i, kind).at[j] = cli.at[j]
<1> DEFINE new == [kind |-> kind, block |-> cli.blocks + 1]
           at == [cli.at EXCEPT ![i] = new]
<1>1. cli \in Clis /\ cli.blocks \in Nat BY DEF TranscriptTypes, Clis
<1>2. new \in [kind : Kinds \cup {"none", "task"}, block : Nat] BY <1>1
<1>3. Begun(i, kind) = [cli EXCEPT !.blocks = cli.blocks + 1, !.at[i] = new, !.live = cli.live \cup {i}]
  BY <1>1 DEF Begun, Clis
<1> HIDE DEF new
<1>4. Begun(i, kind) = [cli EXCEPT !.blocks = cli.blocks + 1, !.at = at, !.live = cli.live \cup {i}]
  BY <1>1, <1>3 DEF Clis
<1>5. /\ at \in [Index -> [kind : Kinds \cup {"none", "task"}, block : Nat]]
      /\ at[i] = new
      /\ \A j \in Index : j # i => at[j] = cli.at[j]
  BY <1>1, <1>2 DEF Clis
<1> DEFINE blocks == cli.blocks + 1
           live == cli.live \cup {i}
<1>6. blocks \in Nat /\ live \in SUBSET Index BY <1>1 DEF Clis
<1> HIDE DEF at, blocks, live
<1>7. LET begun == [cli EXCEPT !.blocks = blocks, !.at = at, !.live = live]
      IN  /\ begun \in Clis
          /\ SameTasks(cli, begun)
          /\ begun.crossed = cli.crossed
          /\ begun.live = live
          /\ begun.at = at
  BY <1>1, <1>5, <1>6 DEF Clis, SameTasks
<1> QED BY <1>4, <1>5, <1>7 DEF new, blocks, live

\* A prose block that begins inside a subagent is not shown; else it closes
\* what is open at its index.
LEMMA ProseStart ==
  ASSUME TranscriptInv, NEW i \in Index, NEW kind \in Prose, named' = named,
         cli' = [Begun(i, kind) EXCEPT !.crossed = @ \/ Covers(i)],
         buffer' = StartProse(buffer, kind, i, cli.blocks + 1)
  PROVE  TranscriptInv'
<1> USE DEF TranscriptInv
<1> DEFINE block == cli.blocks + 1
           stopped == StopBlock(buffer, i)
           begun == Begun(i, kind)
<1>1. kind \in Kinds /\ buffer \in Buffers /\ cli \in Clis BY DEF Kinds, TranscriptTypes
<1>2. block \in Nat BY <1>1 DEF Clis
<1>3. /\ cli' \in Clis /\ SameTasks(cli, cli') /\ (cli'.crossed <=> cli.crossed \/ Covers(i))
      /\ cli'.live = cli.live \cup {i} /\ cli'.at[i] = [kind |-> kind, block |-> block]
      /\ Elsewhere(cli, cli', i)
  <2>1. /\ begun \in Clis /\ SameTasks(cli, begun) /\ begun.crossed = cli.crossed
        /\ begun.live = cli.live \cup {i} /\ begun.at[i] = [kind |-> kind, block |-> block]
        /\ Elsewhere(cli, begun, i)
    BY <1>1, BegunIs DEF Elsewhere
  <2> DEFINE crossed == begun.crossed \/ Covers(i)
  <2>2. cli' = [begun EXCEPT !.crossed = crossed] BY <2>1 DEF Clis
  <2>3. crossed \in BOOLEAN BY <2>1 DEF Clis
  <2>4. crossed <=> cli.crossed \/ Covers(i) BY <2>1
  <2> HIDE DEF begun, crossed
  <2>5. /\ cli' \in Clis /\ cli'.live = begun.live /\ cli'.at = begun.at /\ cli'.crossed = crossed
        /\ SameTasks(begun, cli')
    BY <2>1, <2>2, <2>3 DEF Clis, SameTasks
  <2> QED BY <2>1, <2>4, <2>5 DEF SameTasks, Elsewhere
<1> HIDE DEF block, begun
<1>4. buffer' \in Buffers /\ buffer'.stack = buffer.stack BY <1>1, <1>2, ProseIs DEF block
<1>5. TranscriptTypes'
  <2>1. LiveHasKind(cli') BY <1>1, <1>3 DEF TranscriptTypes, LiveHasKind, Elsewhere, Clis
  <2> QED BY <1>3, <1>4, <2>1 DEF TranscriptTypes, SameTasks
<1>6. StackInv' BY <1>3, <1>4, SameStack
<1>7. ASSUME ~cli'.crossed PROVE InOrder(buffer, cli)'
  <2>1. ~cli.crossed /\ ~Covers(i) BY <1>3, <1>7
  <2>2. OpenIsLive(buffer, cli) /\ Unmixed(buffer) BY <2>1 DEF SegmentInv, InOrder
  <2>4. CASE InSubagent(buffer)
    <3>2. NothingOpen(buffer, i) BY <2>1, <2>4 DEF Covers, NothingOpen, Kinds
    <3>3. OpenIsLive(buffer, cli') BY <1>1, <1>3, <2>2, <3>2, UnopenedInOrder
    <3> QED BY <2>2, <2>4, <3>3 DEF InOrder, StartProse
  <2>5. CASE ~InSubagent(buffer)
    <3>1. NothingOpen(stopped, i) /\ OpenIsLive(stopped, cli') /\ Unmixed(stopped)
      BY <1>1, <1>3, <2>2, StoppedInOrder
    <3>2. stopped \in Buffers BY <1>1, StopBlockIs
    <3>3. buffer' = Opened(stopped, kind, i, block) BY <2>5 DEF StartProse, block
    <3>4. i \in cli'.live /\ cli'.at[i].kind = kind /\ cli'.at[i].block = block BY <1>3
    <3> HIDE DEF stopped
    <3>5. OpenIsLive(Opened(stopped, kind, i, block), cli') /\ Unmixed(Opened(stopped, kind, i, block))
      BY <1>1, <1>2, <3>1, <3>2, <3>4, OpenedInOrder
    <3> QED BY <3>3, <3>5 DEF InOrder
  <2> QED BY <2>4, <2>5
<1> QED BY <1>5, <1>6, <1>7 DEF SegmentInv

LEMMA ToolStart ==
  ASSUME TranscriptInv, NEW i \in Index, named' = named,
         cli' = Begun(i, "tool"), buffer' = StartTool(buffer, i, cli.blocks + 1)
  PROVE  TranscriptInv'
<1> USE DEF TranscriptInv
<1> DEFINE block == cli.blocks + 1
           stopped == StopBlock(buffer, i)
<1>1. "tool" \in Kinds /\ buffer \in Buffers /\ cli \in Clis BY DEF Kinds, TranscriptTypes
<1>2. block \in Nat BY <1>1 DEF Clis
<1>3. /\ cli' \in Clis /\ SameTasks(cli, cli') /\ cli'.crossed = cli.crossed
      /\ cli'.live = cli.live \cup {i} /\ cli'.at[i] = [kind |-> "tool", block |-> block]
      /\ Elsewhere(cli, cli', i)
  BY <1>1, BegunIs DEF Elsewhere
<1> HIDE DEF block
<1>4. /\ buffer' \in Buffers /\ buffer'.stack = buffer.stack
      /\ \/ buffer' = Opened(stopped, "tool", i, block)
         \/ /\ buffer'.segments = stopped.segments
            /\ buffer'.open = At(stopped.open, "tool", i, Len(stopped.segments))
  BY <1>1, <1>2, StartToolIs DEF block
<1>5. TranscriptTypes'
  <2>1. LiveHasKind(cli') BY <1>1, <1>3 DEF TranscriptTypes, LiveHasKind, Elsewhere, Clis
  <2> QED BY <1>3, <1>4, <2>1 DEF TranscriptTypes, SameTasks
<1>6. StackInv' BY <1>3, <1>4, SameStack
<1>7. ASSUME ~cli'.crossed PROVE InOrder(buffer, cli)'
  <2>1. ~cli.crossed BY <1>3, <1>7
  <2>2. OpenIsLive(buffer, cli) /\ Unmixed(buffer) BY <2>1 DEF SegmentInv, InOrder
  <2>4. NothingOpen(stopped, i) /\ OpenIsLive(stopped, cli') /\ Unmixed(stopped)
    BY <1>1, <1>3, <2>2, StoppedInOrder
  <2>5. stopped \in Buffers BY <1>1, StopBlockIs
  <2>6. i \in cli'.live /\ cli'.at[i].kind = "tool" /\ cli'.at[i].block = block BY <1>3
  <2> HIDE DEF stopped
  <2>7. CASE buffer' = Opened(stopped, "tool", i, block)
    <3>1. OpenIsLive(Opened(stopped, "tool", i, block), cli') /\ Unmixed(Opened(stopped, "tool", i, block))
      BY <1>1, <1>2, <2>4, <2>5, <2>6, OpenedInOrder
    <3> QED BY <2>7, <3>1 DEF InOrder
  <2>8. CASE /\ buffer'.segments = stopped.segments
             /\ buffer'.open = At(stopped.open, "tool", i, Len(stopped.segments))
    <3>1. \A k \in Kinds, j \in Index :
            (k = "tool" /\ j = i) \/ buffer'.open[k][j] = stopped.open[k][j]
      BY <1>1, <2>5, <2>8 DEF At, Buffers
    <3>2. "tool" \notin Prose BY DEF Prose
    <3>3. OpenIsLive(buffer', cli')
      <4> SUFFICES ASSUME NEW k \in Kinds, NEW j \in Index, buffer'.open[k][j] # 0
                   PROVE  LiveThere(buffer', cli', k, j)
        BY DEF OpenIsLive
      <4>1. CASE k = "tool" /\ j = i BY <2>6, <3>2, <4>1 DEF LiveThere
      <4>2. CASE buffer'.open[k][j] = stopped.open[k][j]
        <5> DEFINE n == stopped.open[k][j]
        <5>1. n # 0 BY <4>2
        <5>2. /\ j \in cli'.live /\ cli'.at[j].kind = k
              /\ k \in Prose => /\ n \in DOMAIN stopped.segments
                                /\ stopped.segments[n].of = {cli'.at[j].block}
          BY <2>4, <5>1 DEF OpenIsLive, LiveThere
        <5> HIDE DEF n
        <5>3. n = buffer'.open[k][j] BY <4>2 DEF n
        <5> QED BY <2>8, <5>2, <5>3 DEF LiveThere
      <4> QED BY <3>1, <4>1, <4>2
    <3>4. Unmixed(buffer') BY <2>4, <2>8 DEF Unmixed
    <3> QED BY <3>3, <3>4 DEF InOrder
  <2> QED BY <1>4, <2>7, <2>8
<1> QED BY <1>5, <1>6, <1>7 DEF SegmentInv

\* A piece of a block goes into its segment, or into a new one if the block
\* began inside a subagent that has ended since.
LEMMA BlockContinues ==
  ASSUME TranscriptInv, NEW i \in Index, named' = named, BlockDelta(i)
  PROVE  TranscriptInv'
<1> USE DEF TranscriptInv
<1> DEFINE kind == cli.at[i].kind
           block == cli.at[i].block
<1>1. i \in cli.live /\ cli' = cli /\ buffer \in Buffers /\ cli \in Clis
  BY DEF BlockDelta, TranscriptTypes
<1>2. kind \in Kinds /\ block \in Nat BY <1>1 DEF TranscriptTypes, LiveHasKind, Clis
<1>3. kind = "tool" \/ kind \in Prose BY <1>2 DEF Kinds
<1>4. /\ kind = "tool" => buffer' = buffer
      /\ kind # "tool" => buffer' = DeltaProse(buffer, kind, i, block)
  BY DEF BlockDelta, Apply
<1> HIDE DEF kind, block
<1>5. CASE buffer' = buffer
  BY <1>1, <1>5, SameStack DEF TranscriptTypes, SegmentInv, SameTasks
<1>6. CASE kind \in Prose /\ buffer' = DeltaProse(buffer, kind, i, block)
  <2>1. /\ buffer' \in Buffers /\ buffer'.stack = buffer.stack
        /\ \/ buffer' = buffer
           \/ buffer.open[kind][i] = 0 /\ buffer' = Opened(buffer, kind, i, block)
           \/ LET n == buffer.open[kind][i]
              IN  n # 0 /\ (n \in DOMAIN buffer.segments /\ buffer.segments[n].of = {block}
                              => buffer' = buffer)
    BY <1>1, <1>2, <1>6, DeltaIs
  <2>2. TranscriptTypes' BY <1>1, <2>1 DEF TranscriptTypes
  <2>3. StackInv' BY <1>1, <2>1, SameStack DEF SameTasks
  <2>4. ASSUME ~cli'.crossed PROVE InOrder(buffer, cli)'
    <3>1. OpenIsLive(buffer, cli) /\ Unmixed(buffer)
      BY <1>1, <2>4 DEF SegmentInv, InOrder
    <3>2. CASE buffer' = buffer BY <1>1, <3>1, <3>2 DEF InOrder
    <3>3. CASE buffer.open[kind][i] = 0 /\ buffer' = Opened(buffer, kind, i, block)
      <4>1. NothingOpen(buffer, i) BY <1>2, <3>1, <3>3, OneIsOpen DEF kind
      <4>2. OpenIsLive(Opened(buffer, kind, i, block), cli) /\ Unmixed(Opened(buffer, kind, i, block))
        BY <1>1, <1>2, <3>1, <4>1, OpenedInOrder DEF kind, block
      <4> QED BY <1>1, <3>3, <4>2 DEF InOrder
    <3>4. CASE buffer.open[kind][i] # 0
      <4>1. /\ buffer.open[kind][i] \in DOMAIN buffer.segments
            /\ buffer.segments[buffer.open[kind][i]].of = {block}
        BY <1>2, <1>6, <3>1, <3>4 DEF OpenIsLive, LiveThere, block
      <4> QED BY <2>1, <3>2, <3>4, <4>1
    <3> QED BY <2>1, <3>2, <3>3, <3>4
  <2> QED BY <2>2, <2>3, <2>4 DEF SegmentInv
<1> QED BY <1>3, <1>4, <1>5, <1>6

LEMMA BlockEnds ==
  ASSUME TranscriptInv, NEW i \in Index, named' = named, BlockStop(i)
  PROVE  TranscriptInv'
<1> USE DEF TranscriptInv
<1> DEFINE live == cli.live \ {i}
<1>1. /\ i \in cli.live /\ buffer \in Buffers /\ cli \in Clis
      /\ cli' = [cli EXCEPT !.live = live]
      /\ buffer' = StopBlock(buffer, i)
  BY DEF BlockStop, Apply, TranscriptTypes
<1>2. live \in SUBSET Index /\ \A j \in Index : j # i => (j \in live <=> j \in cli.live)
  BY <1>1 DEF Clis
<1> HIDE DEF live
<1>3. /\ cli' \in Clis /\ cli'.live = live /\ cli'.at = cli.at
      /\ SameTasks(cli, cli') /\ cli'.crossed = cli.crossed
  BY <1>1, <1>2 DEF Clis, SameTasks
<1>4. Elsewhere(cli, cli', i) BY <1>2, <1>3 DEF Elsewhere
<1>5. buffer' \in Buffers /\ buffer'.stack = buffer.stack BY <1>1, StopBlockIs
<1>6. TranscriptTypes' BY <1>3, <1>5 DEF TranscriptTypes, LiveHasKind, SameTasks, live
<1>7. StackInv' BY <1>3, <1>5, SameStack
<1>8. ASSUME ~cli'.crossed PROVE InOrder(buffer, cli)'
  <2>1. OpenIsLive(buffer, cli) /\ Unmixed(buffer)
    BY <1>3, <1>8 DEF SegmentInv, InOrder
  <2> QED BY <1>1, <1>4, <2>1, StoppedInOrder DEF InOrder
<1> QED BY <1>6, <1>7, <1>8 DEF SegmentInv

SameBlocks(c, d) == d.at = c.at /\ d.live = c.live /\ d.crossed = c.crossed

\* Segments that are added, of whatever kind, leave what is open as it is.
LEMMA SegmentAdded ==
  ASSUME TranscriptInv, NEW kind \in Kinds \cup {"error"}, NEW block \in Nat, named' = named,
         buffer' = Added(buffer, kind, block),
         cli' \in Clis, SameBlocks(cli, cli'), SameTasks(cli, cli')
  PROVE  TranscriptInv'
<1> USE DEF TranscriptInv
<1>1. buffer \in Buffers /\ kind \in Kinds \cup {"subagent", "error"} BY DEF TranscriptTypes
<1>2. /\ buffer' \in Buffers /\ buffer'.stack = buffer.stack /\ buffer'.open = buffer.open
      /\ Gains(buffer, buffer', kind, block)
  BY <1>1, AddedIs DEF Gains
<1>3. TranscriptTypes' BY <1>2 DEF TranscriptTypes, LiveHasKind, SameBlocks, SameTasks
<1>4. StackInv' BY <1>2, SameStack
<1>5. ASSUME ~cli'.crossed PROVE InOrder(buffer, cli)'
  <2>1. OpenIsLive(buffer, cli) /\ Unmixed(buffer) BY <1>5 DEF SegmentInv, InOrder, SameBlocks
  <2>2. /\ Unmixed(buffer')
        /\ \A k \in DOMAIN buffer.segments :
             k \in DOMAIN buffer'.segments /\ buffer'.segments[k] = buffer.segments[k]
    BY <1>1, <1>2, <2>1, AddedInOrder
  <2>3. OpenIsLive(buffer', cli) BY <1>1, <1>2, <2>1, <2>2, AddedKeepsOpen
  <2>4. OpenIsLive(buffer', cli') BY <2>3 DEF OpenIsLive, LiveThere, SameBlocks
  <2> QED BY <2>2, <2>4 DEF InOrder
<1> QED BY <1>3, <1>4, <1>5 DEF SegmentInv

\* Nothing of the buffer or the CLI changes.
LEMMA NothingAdded ==
  ASSUME TranscriptInv, named' = named, buffer' = buffer,
         cli' \in Clis, SameBlocks(cli, cli'), SameTasks(cli, cli')
  PROVE  TranscriptInv'
<1> USE DEF TranscriptInv
<1>1. TranscriptTypes' BY DEF TranscriptTypes, LiveHasKind, SameBlocks, SameTasks
<1>2. StackInv' BY SameStack
<1>3. SegmentInv' BY DEF SegmentInv, InOrder, OpenIsLive, LiveThere, SameBlocks
<1> QED BY <1>1, <1>2, <1>3

LEMMA ChunkArrives ==
  ASSUME TranscriptInv, NEW kind \in Prose, named' = named, Chunk(kind)
  PROVE  TranscriptInv'
<1> DEFINE blocks == cli.blocks + 1
<1>1. /\ cli \in Clis /\ blocks \in Nat /\ kind \in Kinds
      /\ cli' = [cli EXCEPT !.blocks = blocks]
      /\ buffer' = ChunkProse(buffer, kind, blocks)
  BY DEF Chunk, Apply, TranscriptInv, TranscriptTypes, Clis, Kinds
<1> HIDE DEF blocks
<1>2. cli' \in Clis /\ SameBlocks(cli, cli') /\ SameTasks(cli, cli')
  BY <1>1 DEF Clis, SameBlocks, SameTasks
<1>3. buffer' = buffer \/ buffer' = Added(buffer, kind, blocks) BY <1>1 DEF ChunkProse
<1> QED BY <1>1, <1>2, <1>3, NothingAdded, SegmentAdded

LEMMA SubagentInOrder ==
  ASSUME NEW t \in Buffers, NEW u, NEW c, NEW block \in Nat, OpenIsLive(t, c), Unmixed(t),
         Gains(t, u, "subagent", block), u.open = t.open
  PROVE  InOrder(u, c)
<1>1. "subagent" \in Kinds \cup {"subagent", "error"} OBVIOUS
<1>2. /\ Unmixed(u)
      /\ \A k \in DOMAIN t.segments : k \in DOMAIN u.segments /\ u.segments[k] = t.segments[k]
  BY <1>1, AddedInOrder
<1> QED BY <1>2, AddedKeepsOpen DEF InOrder

\* A subagent gets a segment of its own and goes on the stack; what is open at
\* the index of the call is closed.
LEMMA TaskPushed ==
  ASSUME TranscriptInv, NEW task \in Tasks, task \notin cli.made, named' = named,
         NEW t \in Buffers, t.stack = buffer.stack,
         NEW c \in Clis, SameTasks(cli, c), c.crossed = cli.crossed, LiveHasKind(c),
         ~c.crossed => OpenIsLive(t, c) /\ Unmixed(t),
         cli' = [c EXCEPT !.waiting = cli.waiting \cup {task}, !.made = cli.made \cup {task},
                          !.seen = cli.seen \cup {task}],
         NEW block \in Nat, buffer' = StartTask(t, IF named THEN task ELSE <<>>, block)
  PROVE  TranscriptInv'
<1> USE DEF TranscriptInv
<1> DEFINE asked == cli.waiting \cup {task}
           made == cli.made \cup {task}
           seen == cli.seen \cup {task}
           id == IF named THEN task ELSE <<>>
           added == Added(t, "subagent", block)
<1>1. /\ cli \in Clis
      /\ asked \in SUBSET Tasks /\ made \in SUBSET Tasks /\ seen \in SUBSET (Tasks \cup Answers)
      /\ asked \subseteq made /\ made \subseteq seen /\ IsFiniteSet(cli.waiting)
  BY DEF TranscriptTypes, Clis
<1>2. IsFiniteSet(asked) BY <1>1, FS_AddElement
<1>3. cli' = [c EXCEPT !.waiting = asked, !.made = made, !.seen = seen] OBVIOUS
<1> HIDE DEF asked, made, seen
<1>4. /\ cli' \in Clis /\ cli'.waiting = asked /\ cli'.made = made /\ cli'.seen = seen
      /\ SameBlocks(c, cli') /\ cli'.strange = cli.strange
  BY <1>1, <1>3 DEF Clis, SameBlocks, SameTasks
<1>5. id \in Tasks \cup {<<>>} OBVIOUS
<1>6. (IF id = <<>> THEN Synthetic ELSE id) = IF named THEN task ELSE Synthetic
  BY IdsAreNotEmpty
<1>7. buffer' = StartTask(t, id, block) OBVIOUS
<1> HIDE DEF id
<1>8. /\ buffer' \in Buffers
      /\ buffer'.stack = Append(buffer.stack, IF named THEN task ELSE Synthetic)
      /\ buffer'.segments = added.segments /\ buffer'.open = added.open
  <2>1. LET new == StartTask(t, id, block)
        IN  /\ new \in Buffers
            /\ new.stack = Append(t.stack, IF id = <<>> THEN Synthetic ELSE id)
            /\ new.segments = added.segments /\ new.open = added.open
    BY <1>5, StartTaskIs
  <2> QED BY <1>6, <1>7, <2>1
<1>9. LiveHasKind(cli') BY <1>4 DEF LiveHasKind, SameBlocks
<1>10. TranscriptTypes' BY <1>1, <1>2, <1>4, <1>8, <1>9 DEF TranscriptTypes
<1>11. StackInv' BY <1>1, <1>4, <1>8, CallStack DEF asked, made, seen
<1>12. ASSUME ~cli'.crossed PROVE InOrder(buffer, cli)'
  <2>1. OpenIsLive(t, c) /\ Unmixed(t) BY <1>4, <1>12 DEF SameBlocks
  <2>2. OpenIsLive(t, cli') BY <1>4, <2>1 DEF OpenIsLive, LiveThere, SameBlocks
  <2>3. added.open = t.open /\ Gains(t, added, "subagent", block) BY AddedIs DEF Gains
  <2> HIDE DEF added
  <2>4. Gains(t, buffer', "subagent", block) /\ buffer'.open = t.open BY <1>8, <2>3 DEF Gains
  <2> QED BY <2>1, <2>2, <2>4, SubagentInOrder
<1> QED BY <1>10, <1>11, <1>12 DEF SegmentInv

LEMMA TaskBegins ==
  ASSUME TranscriptInv, NEW task \in Tasks, named' = named, TaskCall(task)
  PROVE  TranscriptInv'
<1> DEFINE block == cli.blocks + 1
<1>1. /\ TranscriptTypes /\ StackInv /\ SegmentInv /\ LiveHasKind(cli)
      /\ buffer \in Buffers /\ cli \in Clis /\ block \in Nat /\ task \notin cli.made
  <2>1. task \notin cli.made BY Zenon DEF TaskCall
  <2> QED BY <2>1 DEF TranscriptInv, TranscriptTypes, Clis
<1>2. ASSUME NEW i \in Index,
             cli' = [Begun(i, "task") EXCEPT !.live = cli.live \ {i}, !.waiting = @ \cup {task},
                                             !.made = @ \cup {task}, !.seen = @ \cup {task}],
             buffer' = StartTask(StopBlock(buffer, i), IF named THEN task ELSE <<>>, block)
      PROVE  TranscriptInv'
  <2> DEFINE begun == Begun(i, "task")
             live == cli.live \ {i}
             c == [begun EXCEPT !.live = live]
             t == StopBlock(buffer, i)
  <2>1. /\ begun \in Clis /\ SameTasks(cli, begun) /\ begun.crossed = cli.crossed
        /\ \A j \in Index : j # i => begun.at[j] = cli.at[j]
    <3>1. "task" \in Kinds \cup {"task"} OBVIOUS
    <3> QED BY <1>1, <3>1, BegunIs
  <2>2. live \in SUBSET Index BY <1>1 DEF Clis
  <2>3. cli' = [c EXCEPT !.waiting = cli.waiting \cup {task}, !.made = cli.made \cup {task},
                         !.seen = cli.seen \cup {task}]
    BY <1>2, <2>1 DEF SameTasks, Clis
  <2> HIDE DEF begun, live
  <2>4. /\ c \in Clis /\ SameTasks(cli, c) /\ c.crossed = cli.crossed /\ c.live = live /\ c.at = begun.at
    BY <2>1, <2>2 DEF Clis, SameTasks
  <2> HIDE DEF c
  <2>5. Elsewhere(cli, c, i) /\ LiveHasKind(c)
    BY <1>1, <2>1, <2>4 DEF Elsewhere, LiveHasKind, live, Clis
  <2>6. t \in Buffers /\ t.stack = buffer.stack BY <1>1, StopBlockIs
  <2>7. ~c.crossed => OpenIsLive(t, c) /\ Unmixed(t)
    <3>1. ~c.crossed => OpenIsLive(buffer, cli) /\ Unmixed(buffer) BY <1>1, <2>4 DEF SegmentInv, InOrder
    <3> QED BY <1>1, <2>5, <3>1, StoppedInOrder
  <2>8. buffer' = StartTask(t, IF named THEN task ELSE <<>>, block) BY <1>2
  <2> HIDE DEF t, block
  <2> QED BY <1>1, <2>3, <2>4, <2>5, <2>6, <2>7, <2>8, TaskPushed
<1>3. ASSUME cli' = [[cli EXCEPT !.blocks = @ + 1] EXCEPT !.live = cli.live, !.waiting = @ \cup {task},
                                             !.made = @ \cup {task}, !.seen = @ \cup {task}],
             buffer' = StartTask(buffer, IF named THEN task ELSE <<>>, block)
      PROVE  TranscriptInv'
  <2> DEFINE c == [cli EXCEPT !.blocks = block]
  <2>1. cli' = [c EXCEPT !.waiting = cli.waiting \cup {task}, !.made = cli.made \cup {task},
                         !.seen = cli.seen \cup {task}]
    BY <1>1, <1>3 DEF Clis
  <2> HIDE DEF block
  <2>2. c \in Clis /\ SameTasks(cli, c) /\ SameBlocks(cli, c)
    BY <1>1 DEF Clis, SameTasks, SameBlocks
  <2> HIDE DEF c
  <2>3. LiveHasKind(c) BY <1>1, <2>2 DEF LiveHasKind, SameBlocks
  <2>4. ~c.crossed => OpenIsLive(buffer, c) /\ Unmixed(buffer)
    BY <1>1, <2>2 DEF SegmentInv, InOrder, OpenIsLive, LiveThere, SameBlocks
  <2>5. c.crossed = cli.crossed BY <2>2 DEF SameBlocks
  <2> QED BY <1>1, <1>3, <2>1, <2>2, <2>3, <2>4, <2>5, TaskPushed
<1> QED BY <1>2, <1>3 DEF TaskCall, Apply

\* What only takes off the stack leaves the segments as they are.
LEMMA StackCut ==
  ASSUME TranscriptInv, named' = named, NEW n \in 0..Len(buffer.stack), buffer' = Cut(buffer, n),
         cli' \in Clis, SameBlocks(cli, cli'), cli'.waiting \subseteq cli.waiting,
         cli'.made = cli.made, cli.seen \subseteq cli'.seen, StackInv'
  PROVE  TranscriptInv'
<1> USE DEF TranscriptInv
<1>1. buffer \in Buffers BY DEF TranscriptTypes
<1>2. /\ buffer' \in Buffers /\ buffer'.segments = buffer.segments /\ buffer'.open = buffer.open
  BY <1>1, CutIs
<1>3. IsFiniteSet(cli'.waiting) BY FS_Subset DEF TranscriptTypes
<1>4. TranscriptTypes' BY <1>2, <1>3 DEF TranscriptTypes, LiveHasKind, SameBlocks
<1>5. SegmentInv'
  BY <1>2 DEF SegmentInv, InOrder, OpenIsLive, LiveThere, Unmixed, SameBlocks
<1> QED BY <1>4, <1>5

LEMMA TaskAnswered ==
  ASSUME TranscriptInv, NEW task \in Tasks, NEW id \in Answers, named' = named, TaskResult(task, id)
  PROVE  TranscriptInv'
<1> DEFINE asked == cli.waiting \ {task}
           seen == IF Answered(task, id) THEN cli.seen \cup {id} ELSE cli.seen
           strange == cli.strange \/ ~Answered(task, id)
<1>1. /\ TranscriptTypes /\ StackInv /\ buffer \in Buffers /\ cli \in Clis /\ task \in cli.waiting
      /\ asked \in SUBSET Tasks /\ seen \in SUBSET (Tasks \cup Answers) /\ strange \in BOOLEAN
  BY DEF TaskResult, TranscriptInv, TranscriptTypes, Clis
<1>2. cli' = [cli EXCEPT !.waiting = asked, !.seen = seen, !.strange = strange]
  BY <1>1 DEF TaskResult, Clis
<1>3. buffer' = ToolResult(buffer, id) BY DEF TaskResult, Apply
<1> HIDE DEF asked, seen, strange
<1>4. /\ cli' \in Clis /\ SameBlocks(cli, cli') /\ cli'.waiting = asked /\ cli'.made = cli.made
      /\ cli'.seen = seen /\ cli'.strange = strange
  BY <1>1, <1>2 DEF Clis, SameBlocks
<1>5. PICK n \in 0..Len(buffer.stack) : buffer' = Cut(buffer, n) BY <1>1, <1>3, ResultIs
<1>6. StackInv'
  <2>1. CASE strange BY <1>1, <1>4, <1>5, <2>1, CutStack
  <2>2. CASE ~strange
    <3>1. Answered(task, id) /\ cli'.seen = cli.seen \cup {id} /\ cli'.strange = cli.strange
      BY <1>1, <1>4, <2>2 DEF seen, strange, Clis
    <3> QED BY <1>1, <1>3, <1>4, <3>1, ResultStack DEF asked
  <2> QED BY <2>1, <2>2
<1> QED BY <1>4, <1>5, <1>6, StackCut DEF asked, seen

LEMMA OtherAnswered ==
  ASSUME TranscriptInv, NEW id \in Answers, named' = named, OtherResult(id)
  PROVE  TranscriptInv'
<1>1. /\ TranscriptTypes /\ StackInv /\ buffer \in Buffers /\ cli \in Clis /\ cli' = cli
      /\ buffer' = Pop(buffer, id)
  BY DEF OtherResult, Apply, TranscriptInv, TranscriptTypes
<1>2. PICK n \in 0..Len(buffer.stack) : buffer' = Cut(buffer, n) BY <1>1, PopIs
<1>3. SameTasks(cli, cli') /\ SameBlocks(cli, cli') BY <1>1 DEF SameTasks, SameBlocks
<1>4. StackInv' BY <1>1, <1>2, <1>3, CutStack
<1> QED BY <1>1, <1>2, <1>3, <1>4, StackCut

-----------------------------------------------------------------------------
(* Theorems                                                                *)

LEMMA TranscriptInitially == Init => TranscriptInv
<1> SUFFICES ASSUME Init PROVE TranscriptInv OBVIOUS
<1>1. /\ named \in BOOLEAN
      /\ buffer = [segments |-> <<>>, stack |-> <<>>, open |-> [kind \in Kinds |-> [i \in Index |-> 0]]]
      /\ cli = [at |-> [i \in Index |-> [kind |-> "none", block |-> 0]], live |-> {},
                blocks |-> 0, waiting |-> {}, made |-> {}, seen |-> {},
                strange |-> FALSE, crossed |-> FALSE]
  BY DEF Init, Kinds
<1>2. <<>> \in Seq(Segments) /\ <<>> \in Seq(Tasks \cup {Synthetic}) OBVIOUS
<1>3. buffer \in Buffers BY <1>1, <1>2 DEF Buffers
<1>4. cli \in Clis BY <1>1 DEF Clis
<1>5. TranscriptTypes BY <1>1, <1>3, <1>4, FS_EmptySet DEF TranscriptTypes, LiveHasKind
<1>6. StackInv
  <2>1. DOMAIN buffer.stack = {} /\ Len(buffer.stack) = 0 BY <1>1
  <2>2. Cardinality(cli.waiting) = 0 BY <1>1, FS_EmptySet
  <2>3. ASSUME NEW id \in cli.made PROVE FALSE BY <1>1, <2>3
  <2> QED BY <2>1, <2>2, <2>3 DEF StackInv, StackIsMade, OpenAreUnanswered
<1>7. SegmentInv BY <1>1 DEF SegmentInv, InOrder, OpenIsLive, LiveThere, Unmixed
<1> QED BY <1>5, <1>6, <1>7 DEF TranscriptInv

LEMMA TranscriptSteps == TranscriptInv /\ [Next]_vars => TranscriptInv'
<1> SUFFICES ASSUME TranscriptInv, [Next]_vars PROVE TranscriptInv' OBVIOUS
<1>1. cli \in Clis BY DEF TranscriptInv, TranscriptTypes
<1>2. "text" \in Kinds /\ \A c \in Clis : SameBlocks(c, c) /\ SameTasks(c, c)
  BY DEF Kinds, Prose, SameBlocks, SameTasks
<1>3. CASE Event
  <2>1. named' = named BY <1>3 DEF Event
  <2>2. ASSUME NEW i \in Index, BlockStart(i) PROVE TranscriptInv'
    <3>1. CASE \E kind \in Prose :
                 /\ cli' = [Begun(i, kind) EXCEPT !.crossed = @ \/ Covers(i)]
                 /\ Apply(StartProse(buffer, kind, i, cli.blocks + 1), "working", FALSE)
      BY <2>1, <2>2, <3>1, ProseStart DEF Apply
    <3>2. CASE /\ cli' = Begun(i, "tool")
               /\ Apply(StartTool(buffer, i, cli.blocks + 1), "working", FALSE)
      BY <2>1, <3>2, ToolStart DEF Apply
    <3> QED BY <2>2, <3>1, <3>2 DEF BlockStart
  <2>3. ASSUME NEW i \in Index, BlockDelta(i) PROVE TranscriptInv' BY <2>1, <2>3, BlockContinues
  <2>4. ASSUME NEW i \in Index, BlockStop(i) PROVE TranscriptInv' BY <2>1, <2>4, BlockEnds
  <2>5. ASSUME NEW kind \in Prose, Chunk(kind) PROVE TranscriptInv' BY <2>1, <2>5, ChunkArrives
  <2>6. ASSUME NEW task \in Tasks, TaskCall(task) PROVE TranscriptInv' BY <2>1, <2>6, TaskBegins
  <2>7. ASSUME NEW task \in Tasks, NEW id \in Answers, TaskResult(task, id) PROVE TranscriptInv'
    BY <2>1, <2>7, TaskAnswered
  <2>8. ASSUME NEW id \in Answers, OtherResult(id) PROVE TranscriptInv' BY <2>1, <2>8, OtherAnswered
  <2>9. CASE ErrorEvent
    <3>1. cli' = cli /\ buffer' = Added(buffer, "error", 0)
      BY <2>9 DEF ErrorEvent, Apply, ErrorSegment
    <3> QED BY <1>1, <1>2, <2>1, <3>1, SegmentAdded
  <2> QED BY <1>3, <2>2, <2>3, <2>4, <2>5, <2>6, <2>7, <2>8, <2>9 DEF Event
<1>4. CASE End
  <2>1. cli' = cli /\ named' = named BY <1>4 DEF End
  <2>2. \/ buffer' = buffer
        \/ buffer' = Added(buffer, "text", 0)
        \/ buffer' = Added(buffer, "error", 0)
    BY <1>4 DEF End, Complete, Fails, Cancelled, Final, Apply, ChunkProse, ErrorSegment
  <2> QED BY <1>1, <1>2, <2>1, <2>2, NothingAdded, SegmentAdded
<1>5. CASE SecondPasses \/ StopShown BY <1>1, <1>2, <1>5, NothingAdded DEF SecondPasses, StopShown
<1>6. CASE UNCHANGED vars BY <1>1, <1>2, <1>6, NothingAdded DEF vars
<1> QED BY <1>3, <1>4, <1>5, <1>6 DEF Next

\* For any indices, ids of calls and results and number of events, in any order:
\* of the Task calls that count as one another no more are open than lack a
\* result, as long as every result answers its call and the ids tell calls apart;
\* and an open block is the live one at its index, with a segment for its own
\* text, as long as no text has begun inside a subagent at an index still open.
THEOREM TranscriptIsInOrder == Spec => []TranscriptInv
BY TranscriptInitially, TranscriptSteps, PTL DEF Spec

\* Once every call has its result, under whatever variant of its id, nothing is
\* suppressed any more, unless ids run together or a result was no answer.
THEOREM AnsweredIsShown == Spec => []AnsweredTasksRelease
<1>1. TranscriptInv => AnsweredTasksRelease BY AnsweredIsReleased DEF TranscriptInv, AnsweredTasksRelease
<1> QED BY <1>1, TranscriptIsInOrder, PTL

\* A segment never holds the text of two blocks, unless text has begun inside a
\* subagent at an index where a block from before was still open.
THEOREM BlocksStayApart == Spec => []SegmentsUnmixed
<1>1. TranscriptInv => SegmentsUnmixed
  <2> SUFFICES ASSUME TranscriptInv, ~cli.crossed, NEW k \in DOMAIN buffer.segments
               PROVE  Cardinality(buffer.segments[k].of) = 1
    BY DEF SegmentsUnmixed
  <2>1. PICK block \in Nat : buffer.segments[k].of = {block}
    BY DEF TranscriptInv, SegmentInv, InOrder, Unmixed
  <2> QED BY <2>1, FS_Singleton
<1> QED BY <1>1, TranscriptIsInOrder, PTL

\* What is shown is what the editor displayed last, unless a stop's edit came
\* after it; a last update displays the segments and the outcome.
EditorInv ==
  /\ editor = [throttled |-> editor.throttled, displayed |-> editor.displayed]
  /\ edited \in BOOLEAN
  /\ shown = editor.displayed \/ (edited /\ shown = Bare)
  /\ outcome # "none" => editor.displayed = Rendered(buffer, outcome)

\* Whatever edit came just before and wherever a stop's own edit comes in, the
\* message is left with the last segments and how the task ended, or with Stopped.
THEOREM EndingIsShown == Spec => []FinalTextShown
<1>1. Init => EditorInv
  <2>1. Init => /\ editor = [throttled |-> FALSE, displayed |-> <<>>]
                /\ shown = <<>> /\ edited = FALSE /\ outcome = "none"
    BY Zenon DEF Init
  <2> HIDE DEF Init
  <2>2. \A x : LET e == [throttled |-> FALSE, displayed |-> x]
               IN  e.throttled = FALSE /\ e.displayed = x
    OBVIOUS
  <2> QED BY <2>1, <2>2, Zenon DEF EditorInv
<1>2. EditorInv /\ [Next]_vars => EditorInv'
  <2> SUFFICES ASSUME EditorInv, [Next]_vars PROVE EditorInv' OBVIOUS
  <2> USE DEF EditorInv
  <2>1. ASSUME NEW t, NEW status, NEW force, Apply(t, status, force), edited' = edited
        PROVE  /\ editor' = [throttled |-> editor'.throttled, displayed |-> editor'.displayed]
               /\ edited' \in BOOLEAN
               /\ shown' = editor'.displayed \/ (edited' /\ shown' = Bare')
               /\ force => editor'.displayed = Rendered(t, status)
    <3>1. Bare' = Bare BY DEF Bare
    <3>2. CASE UNCHANGED <<editor, shown>> /\ ~force
      <4>1. editor' = editor /\ shown' = shown BY <3>2
      <4> HIDE DEF Bare
      <4> QED BY <2>1, <3>1, <3>2, <4>1
    <3>3. CASE Edit(Rendered(t, status))
      <4> DEFINE text == Rendered(t, status)
      <4> HIDE DEF text
      <4>1. Edit(text) BY <3>3 DEF text
      <4>2. /\ editor' = [throttled |-> TRUE, displayed |-> text]
            /\ shown' = text \/ (text = editor.displayed /\ shown' = shown)
        BY <4>1 DEF Edit
      <4> QED BY <2>1, <3>1, <4>2 DEF text
    <3> QED BY <2>1, <3>2, <3>3 DEF Apply, Update
  <2>2. CASE Event
    <3>1. outcome = "none" /\ outcome' = outcome /\ edited' = edited BY <2>2 DEF Event
    <3>2. \E t, status, force : Apply(t, status, force)
      BY <2>2 DEF Event, BlockStart, BlockDelta, BlockStop, Chunk, TaskCall, TaskResult, OtherResult, ErrorEvent
    <3> QED BY <2>1, <3>1, <3>2
  <2>3. CASE End
    <3>1. edited' = edited BY <2>3 DEF End
    <3>2. \E t, status : outcome' = status /\ Apply(t, status, TRUE)
      BY <2>3 DEF End, Complete, Fails, Cancelled, Final
    <3>3. PICK t, status : outcome' = status /\ Apply(t, status, TRUE) BY <3>2
    <3>4. buffer' = t BY <3>3 DEF Apply
    <3>5. editor'.displayed = Rendered(buffer', outcome') BY <2>1, <3>1, <3>3, <3>4
    <3>6. Rendered(buffer', outcome') = Rendered(buffer, outcome)' BY DEF Rendered
    <3> QED BY <2>1, <3>1, <3>3, <3>5, <3>6
  <2>4. CASE SecondPasses
    <3>1. /\ editor' = [throttled |-> FALSE, displayed |-> editor.displayed]
          /\ UNCHANGED <<buffer, shown, edited, outcome>>
      BY <2>4 DEF SecondPasses
    <3> QED BY <3>1 DEF Rendered, Bare
  <2>5. CASE StopShown BY <2>5 DEF StopShown, Rendered, Bare
  <2>6. CASE UNCHANGED vars BY <2>6 DEF vars, Rendered, Bare
  <2> QED BY <2>2, <2>3, <2>4, <2>5, <2>6 DEF Next
<1>3. EditorInv => FinalTextShown BY DEF EditorInv, FinalTextShown
<1> QED BY <1>1, <1>2, <1>3, PTL DEF Spec

-----------------------------------------------------------------------------
(* The native transport: its proofs, seen from here                        *)

NP == INSTANCE NativeStreamProofs WITH MaxEvents <- MaxStreamEvents, events <- sent

\* The stream contract, the reader, the tracker and each step of the transport
\* are the same definitions there and here.
LEMMA SameContract ==
  /\ \A i, kind : Native!Start(i, kind) = NP!Start(i, kind) /\ Service!Start(i, kind) = NP!Start(i, kind)
  /\ \A i, kind : Native!Delta(i, kind) = NP!Delta(i, kind) /\ Service!Delta(i, kind) = NP!Delta(i, kind)
  /\ \A i : Native!Stop(i) = NP!Stop(i) /\ Service!Stop(i) = NP!Stop(i)
  /\ \A type : Native!Message(type) = NP!Message(type) /\ Service!Message(type) = NP!Message(type)
  /\ \A r : (Native!Complete(r) <=> NP!Complete(r)) /\ (Service!Complete(r) <=> NP!Complete(r))
  /\ Native!NewReader = NP!NewReader /\ Service!NewReader = NP!NewReader
BY DEF Native!Start, NP!Start, Service!Start, Native!Delta, NP!Delta, Service!Delta,
       Native!Stop, NP!Stop, Service!Stop, Native!Message, NP!Message, Service!Message,
       Native!Complete, NP!Complete, Service!Complete,
       Native!NewReader, NP!NewReader, Service!NewReader

\* The reader of the native transport
LEMMA SameNativeReader ==
  \A r, evs : Native!FoldLeft(Native!Observe, r, evs) = NP!FoldLeft(NP!Observe, r, evs)
BY DEF Native!FoldLeft, NP!FoldLeft, Native!MapThenFoldSet, NP!MapThenFoldSet, Native!Max, NP!Max,
       Native!Observe, NP!Observe, Native!Obeys, NP!Obeys, Native!OpenIndices, NP!OpenIndices,
       Native!KindsAt, NP!KindsAt, Native!NoDeltaKinds, NP!NoDeltaKinds

\* The reader of the web tool's turn
LEMMA SameServiceReader ==
  \A r, evs : Service!FoldLeft(Service!Observe, r, evs) = NP!FoldLeft(NP!Observe, r, evs)
BY DEF Service!FoldLeft, NP!FoldLeft, Service!MapThenFoldSet, NP!MapThenFoldSet, Service!Max, NP!Max,
       Service!Observe, NP!Observe, Service!Obeys, NP!Obeys, Service!OpenIndices, NP!OpenIndices,
       Service!KindsAt, NP!KindsAt, Service!NoDeltaKinds, NP!NoDeltaKinds

\* The tracker
LEMMA SameTracker ==
  \A t, evs : Native!FoldLeft(Native!Track, t, evs) = NP!FoldLeft(NP!Track, t, evs)
BY DEF Native!FoldLeft, NP!FoldLeft, Native!MapThenFoldSet, NP!MapThenFoldSet, Native!Max, NP!Max,
       Native!Track, NP!Track, Native!Without, NP!Without, Native!Last, NP!Last, Native!Front, NP!Front,
       Native!RemoveFirst, NP!RemoveFirst, Native!RemoveAt, NP!RemoveAt,
       Native!SelectInSeq, NP!SelectInSeq, Native!Min, NP!Min

\* What is yielded
LEMMA SameYield == \A evs : Native!Yield(evs) <=> NP!Yield(evs)
BY SameNativeReader, SameTracker DEF Native!Yield, NP!Yield

\* The stops of several blocks
LEMMA SameSets == \A S : Native!SetToSeq(S) = NP!SetToSeq(S)
BY DEF Native!SetToSeq, NP!SetToSeq, Native!IsInjective, NP!IsInjective, Native!Cardinality, NP!Cardinality,
       Native!IsFiniteSet, NP!IsFiniteSet

\* The start
LEMMA SameInit == Native!Init => NP!Init
BY SameContract DEF Native!Init, NP!Init

\* The failure
LEMMA SameFailure == Native!StreamFails => NP!StreamFails
<1>1. Native!CloseUnclosed = NP!CloseUnclosed
  BY SameContract DEF Native!CloseUnclosed, NP!CloseUnclosed, Native!Reverse, NP!Reverse
<1>2. \A i : Native!ErrorTail(i) = NP!ErrorTail(i) BY SameContract DEF Native!ErrorTail, NP!ErrorTail
<1>3. Native!ErrorMessage = NP!ErrorMessage BY <1>2, SameContract DEF Native!ErrorMessage, NP!ErrorMessage
<1>4. Native!FreshIndex = NP!FreshIndex BY DEF Native!FreshIndex, NP!FreshIndex
<1>5. /\ Native!Yield(Native!ErrorMessage) <=> NP!Yield(NP!ErrorMessage)
      /\ Native!Yield(Native!CloseUnclosed \o Native!ErrorTail(Native!FreshIndex))
           <=> NP!Yield(NP!CloseUnclosed \o NP!ErrorTail(NP!FreshIndex))
  BY <1>1, <1>2, <1>3, <1>4, SameYield
<1> QED BY <1>5 DEF Native!StreamFails, NP!StreamFails

\* The three kinds of block events
LEMMA SameStart ==
  \A i \in Indices, kind \in Native!Kinds : Native!BlockStart(i, kind) => NP!BlockStart(i, kind)
<1> SUFFICES ASSUME NEW i \in Indices, NEW kind \in Native!Kinds, Native!BlockStart(i, kind)
             PROVE  NP!BlockStart(i, kind)
  OBVIOUS
<1>1. Native!OpenOthers(i) = NP!OpenOthers(i) BY DEF Native!OpenOthers, NP!OpenOthers
<1>2. Native!CloseEvents(Native!OpenOthers(i)) = NP!CloseEvents(NP!OpenOthers(i))
  BY <1>1, SameSets, SameContract DEF Native!CloseEvents, NP!CloseEvents
<1>3. Native!Allocated(Native!Closed(policy, Native!OpenOthers(i)), i, kind)
        = NP!Allocated(NP!Closed(policy, NP!OpenOthers(i)), i, kind)
  BY <1>1 DEF Native!Allocated, NP!Allocated, Native!Closed, NP!Closed
<1>4. Native!Start(policy.next, kind) = NP!Start(policy.next, kind) BY SameContract
<1> QED BY <1>2, <1>3, <1>4, SameYield DEF Native!BlockStart, NP!BlockStart, Native!Dropped, NP!Dropped

LEMMA SameDelta ==
  \A i \in Indices, kind \in Native!Kinds : Native!BlockDelta(i, kind) => NP!BlockDelta(i, kind)
<1> SUFFICES ASSUME NEW i \in Indices, NEW kind \in Native!Kinds, Native!BlockDelta(i, kind)
             PROVE  NP!BlockDelta(i, kind)
  OBVIOUS
<1>1. Native!Resumed(i, kind) = NP!Resumed(i, kind)
  BY DEF Native!Resumed, NP!Resumed, Native!Allocated, NP!Allocated
<1>2. Native!Dropped(kind) <=> NP!Dropped(kind) BY DEF Native!Dropped, NP!Dropped
<1>3. /\ Native!Delta(i, kind) = NP!Delta(i, kind)
      /\ Native!Delta(policy.segs[i].down, kind) = NP!Delta(policy.segs[i].down, kind)
      /\ Native!Start(policy.next, kind) = NP!Start(policy.next, kind)
      /\ Native!Delta(policy.next, kind) = NP!Delta(policy.next, kind)
  BY SameContract
<1> QED BY <1>1, <1>2, <1>3, SameYield DEF Native!BlockDelta, NP!BlockDelta

LEMMA SameStop == \A i \in Indices : Native!BlockStop(i) => NP!BlockStop(i)
<1> SUFFICES ASSUME NEW i \in Indices, Native!BlockStop(i)
             PROVE  NP!BlockStop(i)
  OBVIOUS
<1>1. /\ Native!Stop(i) = NP!Stop(i)
      /\ Native!Stop(policy.segs[i].down) = NP!Stop(policy.segs[i].down)
  BY SameContract
<1>2. /\ Native!Yield(<<>>) <=> NP!Yield(<<>>)
      /\ Native!Yield(<<Native!Stop(policy.segs[i].down)>>) <=> NP!Yield(<<NP!Stop(policy.segs[i].down)>>)
      /\ Native!Yield(IF i \in DOMAIN policy.segs \/ ~enabled THEN <<>> ELSE <<Native!Stop(i)>>)
           <=> NP!Yield(IF i \in DOMAIN policy.segs \/ ~enabled THEN <<>> ELSE <<NP!Stop(i)>>)
  BY <1>1, SameYield
<1> QED BY <1>2 DEF Native!BlockStop, NP!BlockStop

\* Every step of the transport here is one there.
LEMMA SameNext == [Native!Next]_(Native!vars) => [NP!Next]_(NP!vars)
<1>1. Native!StreamOpens => NP!StreamOpens
  <2>1. Native!Yield(<<Native!Message("message_start")>>) <=> NP!Yield(<<NP!Message("message_start")>>)
    BY SameYield, SameContract
  <2> QED BY <2>1 DEF Native!StreamOpens, NP!StreamOpens
<1>2. Native!ProviderEvent => NP!ProviderEvent
  <2>1. Native!Kinds = NP!Kinds BY DEF Native!Kinds, NP!Kinds
  <2>2. \A i, kind : /\ Native!Used(i, kind) = NP!Used(i, kind)
                     /\ Native!Known(i, kind) = NP!Known(i, kind)
                     /\ Native!StartsAgain(i) <=> NP!StartsAgain(i)
                     /\ Native!StrayDelta(i, kind) <=> NP!StrayDelta(i, kind)
                     /\ Native!StrayStop(i) <=> NP!StrayStop(i)
    BY DEF Native!Used, NP!Used, Native!Known, NP!Known, Native!StartsAgain, NP!StartsAgain,
           Native!StrayDelta, NP!StrayDelta, Native!StrayStop, NP!StrayStop,
           Native!Dropped, NP!Dropped
  <2> QED BY <2>1, <2>2, SameStart, SameDelta, SameStop DEF Native!ProviderEvent, NP!ProviderEvent
<1>3. Native!Noise => NP!Noise BY DEF Native!Noise, NP!Noise
<1>4. Native!MessageStops => NP!MessageStops
  <2>1. Native!Yield(<<Native!Message("message_delta"), Native!Message("message_stop")>>)
          <=> NP!Yield(<<NP!Message("message_delta"), NP!Message("message_stop")>>)
    BY SameYield, SameContract
  <2> QED BY <2>1 DEF Native!MessageStops, NP!MessageStops
<1>5. Native!StreamEnds => NP!StreamEnds BY DEF Native!StreamEnds, NP!StreamEnds
<1>6. Native!Cancelled => NP!Cancelled BY DEF Native!Cancelled, NP!Cancelled
<1>7. UNCHANGED Native!vars => UNCHANGED NP!vars BY DEF Native!vars, NP!vars
<1>8. Native!Next => NP!Next
  BY <1>1, <1>2, <1>3, <1>4, <1>5, <1>6, SameFailure DEF Native!Next, NP!Next
<1> QED BY <1>7, <1>8

-----------------------------------------------------------------------------
(* The turn of a web tool *)

\* What the web tool's turn yields (api/web_tools/streaming.py) reaches a reader
\* of the same contract.
LEMMA ServiceYields == \A evs : Service!Yield(evs) => reader' = NP!Observed(reader, evs)
BY SameServiceReader DEF Service!Yield, NP!Observed

\* A client that has read nothing
LEMMA NewReaderIs ==
  LET r == NP!NewReader
  IN r \in NP!Readers /\ ~r.wrong /\ r.open = {} /\ r.seen = {} /\ r.last = ""
BY DEF NP!NewReader, NP!Readers

\* After the call of the tool the block of the call is closed.
LEMMA TurnBegins ==
  ASSUME reader = NP!NewReader,
         Service!Yield(<<Service!Message("message_start"),
                         Service!Start(0, "server_tool_use"), Service!Stop(0)>>)
  PROVE  /\ reader' \in NP!Readers /\ ~reader'.wrong /\ reader'.began
         /\ reader'.open = {} /\ reader'.seen = {0}
<1>0. 0 \in Int OBVIOUS
<1>1. reader \in NP!Readers /\ ~reader.wrong /\ reader.open = {} /\ reader.seen = {}
  BY NewReaderIs
<1> DEFINE first == NP!Message("message_start")
           begin == <<first>>
           block == <<NP!Start(0, "server_tool_use"), NP!Stop(0)>>
           q == NP!Observe(reader, first)
<1>2. "server_tool_use" \in NP!BlockKinds BY DEF NP!BlockKinds, NP!NoDeltaKinds
<1>3. <<Service!Message("message_start"), Service!Start(0, "server_tool_use"), Service!Stop(0)>>
        = begin \o block
  BY SameContract
<1>4. reader' = NP!Observed(reader, begin \o block) BY <1>3, ServiceYields
<1>5. /\ first \in NP!Events
      /\ q \in NP!Readers /\ q.open = reader.open /\ q.seen = reader.seen /\ q.wrong = reader.wrong
      /\ q.began = (reader.began \/ "message_start" = "message_start")
  BY <1>1, NP!Telling
<1> HIDE DEF q, first
<1>6. begin \in Seq(NP!Events) /\ NP!Observed(reader, begin) = q BY <1>1, <1>5, NP!ObservedOne DEF q
<1>7. ~q.wrong /\ q.open = {} /\ q.began /\ q.seen = {} /\ 0 \notin q.seen BY <1>1, <1>5
<1>8. /\ block \in Seq(NP!Events)
      /\ NP!Observed(q, block) \in NP!Readers /\ ~NP!Observed(q, block).wrong
      /\ NP!Observed(q, block).open = {} /\ NP!Observed(q, block).seen = q.seen \cup {0}
      /\ NP!Observed(q, block).began = q.began
  BY <1>0, <1>2, <1>5, <1>7, NP!BlockObserved
<1> HIDE DEF begin, block
<1>9. NP!Observed(reader, begin \o block) = NP!Observed(q, block)
  BY <1>1, <1>6, <1>8, NP!ObservedConcat
<1> QED BY <1>4, <1>7, <1>8, <1>9

\* The result and the text are blocks of their own, and then the message ends.
LEMMA TurnEnds ==
  ASSUME reader \in NP!Readers, ~reader.wrong, reader.open = {}, 1 \notin reader.seen, 2 \notin reader.seen,
         Service!ToolAnswers
  PROVE  /\ reader' \in NP!Readers /\ ~reader'.wrong /\ reader'.last = "message_stop"
         /\ reader.began => Service!Complete(reader')
<1> DEFINE kind == Service!ResultKind
           block == <<NP!Start(1, kind), NP!Stop(1)>>
           tail == NP!ErrorTail(2)
           q == NP!Observed(reader, block)
<1>1. kind \in NP!BlockKinds BY DEF Service!ResultKind, NP!BlockKinds, NP!NoDeltaKinds
<1>2. 1 \in Int /\ 2 \in Int OBVIOUS
<1>3. reader' = NP!Observed(reader, block \o tail)
  <2>1. <<Service!Start(1, kind), Service!Stop(1), Service!Start(2, "text"), Service!Delta(2, "text"),
          Service!Stop(2), Service!Message("message_delta"), Service!Message("message_stop")>>
          = block \o tail
    BY SameContract DEF NP!ErrorTail
  <2> QED BY <2>1, ServiceYields DEF Service!ToolAnswers
<1> HIDE DEF kind
<1>4. /\ block \in Seq(NP!Events)
      /\ q \in NP!Readers /\ ~q.wrong /\ q.open = {} /\ q.seen = reader.seen \cup {1} /\ q.began = reader.began
  BY <1>1, <1>2, NP!BlockObserved
<1> HIDE DEF block
<1>5. 2 \notin q.seen BY <1>4
<1> HIDE DEF q
<1>6. /\ tail \in Seq(NP!Events)
      /\ NP!Observed(q, tail).last = "message_stop" /\ ~NP!Observed(q, tail).wrong
      /\ q.began => NP!Complete(NP!Observed(q, tail))
  BY <1>2, <1>4, <1>5, NP!TailObserved
<1> HIDE DEF tail
<1>7. /\ NP!Observed(reader, block \o tail) = NP!Observed(q, tail)
  BY <1>4, <1>6, NP!ObservedConcat DEF q
<1>8. NP!Observed(q, tail) \in NP!Readers BY <1>4, <1>6, NP!ObservedConcat
<1> QED BY <1>3, <1>4, <1>6, <1>7, <1>8, SameContract


-----------------------------------------------------------------------------
(* The streams together *)

\* The client of a web tool's turn: nothing is open between its two parts.
TurnInv ==
  /\ reader \in NP!Readers /\ ~reader.wrong
  /\ phase # "stream"
  /\ phase = "request" => reader = NP!NewReader
  /\ phase = "turn" => reader.began /\ reader.open = {} /\ reader.seen = {0}
  /\ phase = "done" => reader.open = {}

\* Who is not followed leaves the reader as it was at first.
StreamsInv ==
  /\ follows = "native" => NP!StreamInv /\ phase # "turn"
  /\ follows = "service" => TurnInv
  /\ follows \notin {"native", "service"} =>
       /\ reader = NP!NewReader
       /\ tracker \in NP!Trackers /\ NP!Agree(reader, tracker)

\* The invariant of the streams holds when a request arrives.
LEMMA StreamsInitially == StreamsInit => StreamsInv
<1> SUFFICES ASSUME StreamsInit PROVE StreamsInv OBVIOUS
<1>1. Native!Init BY DEF StreamsInit
<1>2. NP!StreamInv BY <1>1, SameInit, NP!StreamInitially
<1>3. phase = "request" BY <1>1 DEF Native!Init
<1>7. ~upstream.stray BY <1>1 DEF Native!Init
<1>4. reader = NP!NewReader BY <1>2, <1>3, <1>7 DEF NP!StreamInv, NP!CleanInv
<1>5. tracker \in NP!Trackers /\ NP!Agree(reader, tracker)
  BY <1>2, <1>7 DEF NP!StreamInv, NP!CleanInv, NP!Typed
<1>6. reader \in NP!Readers /\ ~reader.wrong BY <1>4, NewReaderIs
<1> QED BY <1>2, <1>3, <1>4, <1>5, <1>6 DEF StreamsInv, TurnInv

\* Every step of ClaudeProxyService.create_message keeps this.
LEMMA TurnSteps == TurnInv /\ Service!Next => TurnInv'
<1> SUFFICES ASSUME TurnInv, Service!Next PROVE TurnInv' OBVIOUS
<1>1. CASE Service!Refuse BY <1>1 DEF Service!Refuse, TurnInv
<1>2. CASE Service!Begin
  <2>1. phase = "request" /\ phase' = "turn" BY <1>2 DEF Service!Begin
  <2>2. reader = NP!NewReader BY <2>1 DEF TurnInv
  <2>3. Service!Yield(<<Service!Message("message_start"),
                        Service!Start(0, "server_tool_use"), Service!Stop(0)>>)
    BY <1>2 DEF Service!Begin
  <2>4. /\ reader' \in NP!Readers /\ ~reader'.wrong /\ reader'.began
        /\ reader'.open = {} /\ reader'.seen = {0}
    BY <2>2, <2>3, TurnBegins
  <2> QED BY <2>1, <2>4 DEF TurnInv
<1>3. CASE Service!Forward BY <1>3 DEF Service!Forward, TurnInv
<1>4. CASE Service!Redirected BY <1>4 DEF Service!Redirected, TurnInv
<1>5. CASE Service!ToolAnswers
  <2>1. phase = "turn" /\ phase' = "done" BY <1>5 DEF Service!ToolAnswers
  <2>2. /\ reader \in NP!Readers /\ ~reader.wrong /\ reader.open = {} /\ reader.began
        /\ reader.seen = {0}
    BY <2>1 DEF TurnInv
  <2>3. 1 \notin reader.seen /\ 2 \notin reader.seen BY <2>2
  <2>4. reader' \in NP!Readers /\ ~reader'.wrong /\ Service!Complete(reader')
    BY <1>5, <2>2, <2>3, TurnEnds
  <2> QED BY <2>1, <2>4 DEF TurnInv, Service!Complete
<1>6. CASE Service!Cancelled BY <1>6 DEF Service!Cancelled, TurnInv
<1> QED BY <1>1, <1>2, <1>3, <1>4, <1>5, <1>6 DEF Service!Next

\* A step of whichever transport is followed keeps the invariant.
LEMMA StreamsSteps == StreamsInv /\ [StreamsNext]_allVars => StreamsInv'
<1> SUFFICES ASSUME StreamsInv, [StreamsNext]_allVars PROVE StreamsInv' OBVIOUS
<1> USE DEF nativeVars, openaiVars, serviceVars, streamVars
<1>1. CASE RequestStep \/ StatusStep \/ UNCHANGED allVars
  <2>1. UNCHANGED <<follows, streamVars>> BY <1>1 DEF RequestStep, StatusStep, allVars
  <2>2. UNCHANGED NP!vars BY <2>1 DEF NP!vars
  <2>3. NP!StreamInv => NP!StreamInv' BY <2>2, NP!StreamSteps
  <2>4. UNCHANGED <<follows, phase, reader, tracker>> BY <2>1
  <2>5. NP!Agree(reader, tracker) => NP!Agree(reader', tracker') BY <2>4
  <2> QED BY <2>3, <2>4, <2>5 DEF StreamsInv, TurnInv
<1>2. CASE OpenAiStep
  <2>1. follows = "openai" /\ UNCHANGED <<follows, reader, tracker>> BY <1>2 DEF OpenAiStep
  <2>2. NP!Agree(reader, tracker) => NP!Agree(reader', tracker') BY <2>1
  <2> QED BY <2>1, <2>2 DEF StreamsInv
<1>3. CASE NativeStep
  <2>1. follows = "native" /\ follows' = follows /\ Native!Next BY <1>3 DEF NativeStep
  <2>2. NP!StreamInv /\ phase # "turn" BY <2>1 DEF StreamsInv
  <2>3. [NP!Next]_(NP!vars) BY <2>1, SameNext
  <2>4. NP!StreamInv' BY <2>2, <2>3, NP!StreamSteps
  <2>5. phase' # "turn"
    BY <2>1, <2>2 DEF Native!Next, Native!StreamOpens, Native!ProviderEvent, Native!Noise,
       Native!MessageStops, Native!StreamEnds, Native!StreamFails, Native!Cancelled
  <2> QED BY <2>1, <2>4, <2>5 DEF StreamsInv
<1>4. CASE ServiceStep
  <2>1. follows = "service" /\ follows' = follows /\ Service!Next BY <1>4 DEF ServiceStep
  <2> QED BY <2>1, TurnSteps DEF StreamsInv
<1> QED BY <1>1, <1>2, <1>3, <1>4 DEF StreamsNext

\* Whatever blocks the provider overlaps, resumes, hides, restarts or stops late,
\* transform_native_sse_block_event passes them on as blocks that are started
\* once, filled and stopped, as long as every event answers to some block; and it
\* leaves none open that the provider closed, if no index was started again.
THEOREM NativeStreamsAreWhole == StreamsSpec => []NativeWellFormed
<1>1. StreamsInv => NativeWellFormed
  <2> SUFFICES ASSUME StreamsInv PROVE NativeWellFormed OBVIOUS
  <2>1. CASE follows = "native"
    <3>1. NP!NeverWrong /\ NP!EndsWhole
      BY <2>1 DEF StreamsInv, NP!StreamInv, NP!CleanInv, NP!NeverWrong, NP!EndsWhole
    <3> QED BY <3>1 DEF NativeWellFormed, NP!NeverWrong, NP!EndsWhole, Native!NeverWrong, Native!EndsWhole
  <2>2. CASE follows = "service"
    BY <2>2 DEF StreamsInv, TurnInv, NativeWellFormed, Native!NeverWrong, Native!EndsWhole
  <2>3. CASE follows \notin {"native", "service"}
    <3>1. ~reader.wrong /\ reader.open = {} BY <2>3, NewReaderIs DEF StreamsInv
    <3> QED BY <3>1 DEF NativeWellFormed, Native!NeverWrong, Native!EndsWhole
  <2> QED BY <2>1, <2>2, <2>3
<1> QED BY <1>1, StreamsInitially, StreamsSteps, PTL DEF StreamsSpec

\* A native stream that fails at any point (AnthropicMessagesTransport) is a whole
\* message for the client, if nothing stray was passed on before, and so is the
\* turn of a web tool, whatever became of the tool.
THEOREM FailedStreamsAreWhole == StreamsSpec => FailureIsWhole
<1>1. StreamsInv /\ [StreamsNext]_allVars
        => [Native!StreamFails
              => upstream.stray \/ (Native!Complete(reader') /\ ~reader'.wrong)]_(Native!vars)
  <2> SUFFICES ASSUME StreamsInv, [StreamsNext]_allVars, Native!StreamFails
               PROVE  \/ upstream.stray
                      \/ Native!Complete(reader') /\ ~reader'.wrong
                      \/ UNCHANGED Native!vars
    OBVIOUS
  <2> USE DEF nativeVars, openaiVars, serviceVars, streamVars
  <2>1. NP!StreamFails BY SameFailure
  <2>2. CASE follows = "native"
    <3>1. NP!StreamInv BY <2>2 DEF StreamsInv
    <3>2. upstream.stray \/ (NP!Complete(reader') /\ ~reader'.wrong)
      BY <2>1, <3>1, NP!FailingIsWhole DEF NP!StreamInv
    <3> QED BY <3>2, SameContract
  <2>3. CASE follows = "service"
    <3>1. TurnInv BY <2>3 DEF StreamsInv
    <3>2. phase = "request" /\ phase' = "done" BY <3>1 DEF TurnInv, Native!StreamFails
    <3>3. ~ServiceStep
      BY <3>2 DEF ServiceStep, Service!Next, Service!Refuse, Service!Begin, Service!Forward,
         Service!Redirected, Service!ToolAnswers, Service!Cancelled
    <3>4. UNCHANGED allVars \/ RequestStep \/ StatusStep
      BY <2>3, <3>3 DEF StreamsNext, OpenAiStep, NativeStep
    <3>5. UNCHANGED streamVars BY <3>4 DEF allVars, RequestStep, StatusStep
    <3> QED BY <3>2, <3>5
  <2>4. CASE follows \notin {"native", "service"}
    <3>1. /\ reader = NP!NewReader
          /\ tracker \in NP!Trackers /\ NP!Agree(reader, tracker)
      BY <2>4 DEF StreamsInv
    <3>2. reader \in NP!Readers /\ ~reader.wrong /\ reader.last = "" BY <3>1, NewReaderIs
    <3>3. reader' = reader
      BY <2>4 DEF StreamsNext, allVars, RequestStep, StatusStep, OpenAiStep, NativeStep, ServiceStep
    <3>4. CASE phase = "request" /\ NP!Yield(NP!ErrorMessage)
      <4>1. NP!Complete(NP!Observed(reader, NP!ErrorMessage)) BY <3>1, NP!Refused
      <4>2. reader' = NP!Observed(reader, NP!ErrorMessage) BY <3>4 DEF NP!Yield, NP!Observed
      <4> QED BY <3>2, <3>3, <4>1, <4>2 DEF NP!Complete
    <3>5. CASE phase = "stream" /\ NP!Yield(NP!CloseUnclosed \o NP!ErrorTail(NP!FreshIndex))
      <4> DEFINE evs == NP!CloseUnclosed \o NP!ErrorTail(NP!FreshIndex)
      <4>1. NP!Observed(reader, evs).last = "message_stop" BY <3>1, <3>2, NP!Broken
      <4>2. reader' = NP!Observed(reader, evs) BY <3>5 DEF NP!Yield, NP!Observed
      <4> QED BY <3>2, <3>3, <4>1, <4>2
    <3> QED BY <2>1, <3>4, <3>5 DEF NP!StreamFails
  <2> QED BY <2>2, <2>3, <2>4
<1>2. StreamsInv /\ [StreamsNext]_allVars
        => [Service!ToolAnswers => Service!Complete(reader') /\ ~reader'.wrong]_(Service!vars)
  <2> SUFFICES ASSUME StreamsInv, [StreamsNext]_allVars, Service!ToolAnswers
               PROVE  Service!Complete(reader') /\ ~reader'.wrong
    OBVIOUS
  <2> USE DEF nativeVars, openaiVars, serviceVars, streamVars
  <2>1. phase = "turn" BY DEF Service!ToolAnswers
  <2>2. follows # "native" BY <2>1 DEF StreamsInv
  <2>3. CASE follows = "service"
    <3>1. /\ reader \in NP!Readers /\ ~reader.wrong /\ reader.open = {} /\ reader.began
          /\ reader.seen = {0}
      BY <2>1, <2>3 DEF StreamsInv, TurnInv
    <3>2. 1 \notin reader.seen /\ 2 \notin reader.seen BY <3>1
    <3> QED BY <3>1, <3>2, TurnEnds
  <2>4. CASE follows # "service"
    <3>1. reader = NP!NewReader BY <2>2, <2>4 DEF StreamsInv
    <3>2. /\ reader \in NP!Readers /\ ~reader.wrong /\ reader.last = "" /\ reader.open = {}
          /\ 1 \notin reader.seen /\ 2 \notin reader.seen
      BY <3>1, NewReaderIs
    <3>3. reader' = reader
      BY <2>2, <2>4
         DEF StreamsNext, allVars, RequestStep, StatusStep, OpenAiStep, NativeStep, ServiceStep
    <3>4. reader'.last = "message_stop" BY <3>2, TurnEnds
    <3> QED BY <3>2, <3>3, <3>4
  <2> QED BY <2>3, <2>4
<1>3. StreamsSpec => Native!FailureIsWhole
  BY <1>1, StreamsInitially, StreamsSteps, PTL DEF StreamsSpec, Native!FailureIsWhole
<1>4. StreamsSpec => Service!TurnIsWhole
  BY <1>2, StreamsInitially, StreamsSteps, PTL DEF StreamsSpec, Service!TurnIsWhole
<1> QED BY <1>3, <1>4 DEF FailureIsWhole

-----------------------------------------------------------------------------
(* Folds over a set, which take its members in an order that is left open  *)

AnyOf(s) == CHOOSE x \in s : TRUE

\* A fold over a set takes one member at a time, any one.
SetIterates(h, F, r, S) ==
  h = [s \in SUBSET S |-> IF s = {} THEN r ELSE F[<<h[s \ {AnyOf(s)}], AnyOf(s)>>]]

\* What is left when one member is taken out is smaller.
LEMMA AnyIsOne ==
  ASSUME NEW S, IsFiniteSet(S), NEW s \in SUBSET S, s # {}
  PROVE  /\ AnyOf(s) \in s /\ s \ {AnyOf(s)} \in SUBSET S
         /\ Cardinality(s) \in Nat /\ Cardinality(s \ {AnyOf(s)}) \in Nat
         /\ Cardinality(s \ {AnyOf(s)}) + 1 = Cardinality(s)
<1>1. AnyOf(s) \in s BY DEF AnyOf
<1>2. IsFiniteSet(s) BY FS_Subset
<1>3. Cardinality(s) \in Nat BY <1>2, FS_CardinalityType
<1>4. IsFiniteSet(s \ {AnyOf(s)}) BY <1>2, FS_RemoveElement
<1>5. Cardinality(s \ {AnyOf(s)}) \in Nat BY <1>4, FS_CardinalityType
<1>6. Cardinality(s \ {AnyOf(s)}) = Cardinality(s) - 1 BY <1>1, <1>2, FS_RemoveElement
<1> QED BY <1>1, <1>3, <1>5, <1>6

LEMMA SetFoldExists ==
  ASSUME NEW S, IsFiniteSet(S), NEW F, NEW r
  PROVE  \E h : SetIterates(h, F, r, S)
<1> DEFINE Upto(n) == {s \in SUBSET S : Cardinality(s) <= n}
           Next1(h, s) == IF s = {} THEN r ELSE F[<<h[s \ {AnyOf(s)}], AnyOf(s)>>]
           P(n) == \E h : \A s \in Upto(n) : h[s] = Next1(h, s)
           T == {n \in Nat : P(n)}
<1>1. P(0)
  <2> DEFINE h == [s \in SUBSET S |-> r]
  <2>1. \A s \in Upto(0) : s = {}
    <3> TAKE s \in Upto(0)
    <3>1. IsFiniteSet(s) BY FS_Subset
    <3>2. Cardinality(s) \in Nat BY <3>1, FS_CardinalityType
    <3>3. Cardinality(s) = 0 BY <3>2
    <3> QED BY <3>1, <3>3, FS_EmptySet
  <2>2. \A s \in Upto(0) : h[s] = Next1(h, s) BY <2>1
  <2> QED BY <2>2
<1>2. ASSUME NEW n \in Nat, P(n) PROVE P(n + 1)
  <2>1. PICK g : \A s \in Upto(n) : g[s] = Next1(g, s) BY <1>2
  <2> DEFINE h == [s \in SUBSET S |-> IF s \in Upto(n) THEN g[s] ELSE Next1(g, s)]
  <2>2. ASSUME NEW s \in Upto(n + 1) PROVE h[s] = Next1(h, s)
    <3>1. CASE s = {}
      <4>1. Next1(g, s) = r /\ Next1(h, s) = r BY <3>1
      <4>2. s \in Upto(n) => g[s] = Next1(g, s) BY <2>1
      <4> QED BY <4>1, <4>2
    <3>2. CASE s # {}
      <4> DEFINE t == s \ {AnyOf(s)}
      <4>1. /\ t \in SUBSET S /\ Cardinality(s) \in Nat /\ Cardinality(t) \in Nat
            /\ Cardinality(t) + 1 = Cardinality(s)
        BY <3>2, AnyIsOne
      <4> HIDE DEF t
      <4>2. t \in Upto(n) BY <4>1
      <4>3. h[t] = g[t] BY <4>1, <4>2
      <4>4. Next1(h, s) = F[<<h[t], AnyOf(s)>>] /\ Next1(g, s) = F[<<g[t], AnyOf(s)>>] BY <3>2 DEF t
      <4>5. h[s] = Next1(g, s) BY <2>1
      <4> QED BY <4>3, <4>4, <4>5
    <3> QED BY <3>1, <3>2
  <2> HIDE DEF h
  <2> QED BY <2>2
<1>3. Cardinality(S) \in Nat BY FS_CardinalityType
<1>4. P(Cardinality(S))
  <2> HIDE DEF P
  <2>1. 0 \in T /\ \A n \in Nat : n \in T => n + 1 \in T BY <1>1, <1>2
  <2>2. Nat \subseteq T
    <3> HIDE DEF T
    <3> QED BY <2>1, NP!NatInductionOnSet
  <2> QED BY <1>3, <2>2
<1>5. PICK g : \A s \in Upto(Cardinality(S)) : g[s] = Next1(g, s) BY <1>4
<1>6. \A s \in SUBSET S : s \in Upto(Cardinality(S))
  <2> TAKE s \in SUBSET S
  <2>1. Cardinality(s) <= Cardinality(S) BY FS_Subset
  <2> QED BY <2>1
<1> DEFINE h == [s \in SUBSET S |-> g[s]]
<1>7. \A s \in SUBSET S : h[s] = g[s] OBVIOUS
<1>8. \A s \in SUBSET S : g[s] = Next1(g, s) BY <1>5, <1>6
<1>9. \A s \in SUBSET S : Next1(g, s) = Next1(h, s)
  <2> TAKE s \in SUBSET S
  <2>1. CASE s = {} BY <2>1
  <2>2. CASE s # {}
    <3>1. s \ {AnyOf(s)} \in SUBSET S OBVIOUS
    <3>2. h[s \ {AnyOf(s)}] = g[s \ {AnyOf(s)}] BY <3>1
    <3> HIDE DEF h
    <3> QED BY <2>2, <3>2
  <2> QED BY <2>1, <2>2
<1>10. h = [s \in SUBSET S |-> Next1(h, s)]
  <2>1. \A s \in SUBSET S : g[s] = Next1(h, s) BY <1>8, <1>9
  <2> QED BY <2>1
<1>11. SetIterates(h, F, r, S)
  <2> HIDE DEF h
  <2> QED BY <1>10 DEF SetIterates
<1> QED BY <1>11

\* What holds at first and is kept by each step holds of all that is computed.
LEMMA SetGrows ==
  ASSUME NEW S, IsFiniteSet(S), NEW h, NEW R, h[{}] \in R[{}],
         \A s \in SUBSET S : s # {} /\ h[s \ {AnyOf(s)}] \in R[s \ {AnyOf(s)}] => h[s] \in R[s]
  PROVE  \A s \in SUBSET S : h[s] \in R[s]
<1> DEFINE P(n) == \A s \in SUBSET S : Cardinality(s) = n => h[s] \in R[s]
           T == {n \in Nat : P(n)}
<1>1. P(0)
  <2> SUFFICES ASSUME NEW s \in SUBSET S, Cardinality(s) = 0 PROVE h[s] \in R[s] OBVIOUS
  <2>1. IsFiniteSet(s) BY FS_Subset
  <2>2. s = {} BY <2>1, FS_EmptySet
  <2> QED BY <2>2
<1>2. ASSUME NEW n \in Nat, P(n) PROVE P(n + 1)
  <2> SUFFICES ASSUME NEW s \in SUBSET S, Cardinality(s) = n + 1 PROVE h[s] \in R[s] OBVIOUS
  <2>0. Cardinality({}) = 0 BY FS_EmptySet
  <2>1. s # {}
    <3> SUFFICES ASSUME s = {} PROVE FALSE OBVIOUS
    <3>1. n + 1 = 0 BY <2>0
    <3> HIDE DEF P
    <3>2. n + 1 # 0 OBVIOUS
    <3> QED BY <3>1, <3>2
  <2> DEFINE t == s \ {AnyOf(s)}
  <2>2. AnyOf(s) \in s /\ t \in SUBSET S /\ Cardinality(t) \in Nat /\ Cardinality(t) + 1 = Cardinality(s)
    BY <2>1, AnyIsOne
  <2> HIDE DEF P
  <2>4. h[t] \in R[t]
    <3> HIDE DEF t
    <3>1. Cardinality(t) = n BY <2>2
    <3> QED BY <1>2, <2>2, <3>1 DEF P
  <2> QED BY <2>1, <2>4
<1>3. \A n \in Nat : P(n)
  <2> HIDE DEF P
  <2>1. 0 \in T /\ \A n \in Nat : n \in T => n + 1 \in T BY <1>1, <1>2
  <2>2. Nat \subseteq T
    <3> HIDE DEF T
    <3> QED BY <2>1, NP!NatInductionOnSet
  <2> QED BY <2>2
<1> TAKE s \in SUBSET S
<1>4. IsFiniteSet(s) BY FS_Subset
<1>5. Cardinality(s) \in Nat BY <1>4, FS_CardinalityType
<1>6. P(Cardinality(s)) BY <1>3, <1>5
<1> QED BY <1>6

-----------------------------------------------------------------------------
(* OpenAI: the reader *)

\* A client that has begun to read and whose blocks have indices of their own
Good(r) ==
  /\ r \in NP!Readers /\ ~r.wrong /\ r.began
  /\ NP!OpenIndices(r) \subseteq r.seen
  /\ \A x, y \in r.open : x[1] = y[1] => x = y

Blocks == {"thinking", "text", "tool_use"}

\* The reader, and the events, are those of the native transport.
LEMMA SameOpenAi ==
  /\ \A r, ev : OpenAi!Observe(r, ev) = NP!Observe(r, ev)
  /\ \A i, kind : OpenAi!Start(i, kind) = NP!Start(i, kind)
  /\ \A i, kind : OpenAi!Delta(i, kind) = NP!Delta(i, kind)
  /\ \A i : OpenAi!Stop(i) = NP!Stop(i)
  /\ \A type : OpenAi!Message(type) = NP!Message(type)
  /\ \A r : OpenAi!Complete(r) <=> NP!Complete(r)
  /\ OpenAi!NewReader = NP!NewReader
BY DEF OpenAi!Observe, NP!Observe, OpenAi!Obeys, NP!Obeys, OpenAi!OpenIndices, NP!OpenIndices,
       OpenAi!KindsAt, NP!KindsAt, OpenAi!NoDeltaKinds, NP!NoDeltaKinds,
       OpenAi!Start, NP!Start, OpenAi!Delta, NP!Delta, OpenAi!Stop, NP!Stop,
       OpenAi!Message, NP!Message, OpenAi!Complete, NP!Complete, OpenAi!NewReader, NP!NewReader

\* A block that has never been seen is started.
LEMMA GoodStart ==
  ASSUME NEW r, Good(r), NEW i \in Int, i \notin r.seen, NEW kind \in Blocks
  PROVE  LET u == OpenAi!Observe(r, OpenAi!Start(i, kind)) IN
         Good(u) /\ u.open = r.open \cup {<<i, kind>>} /\ u.seen = r.seen \cup {i}
<1> DEFINE a == NP!Start(i, kind)
           u == NP!Observe(r, a)
           x == <<i, kind>>
<1>1. r \in NP!Readers /\ ~r.wrong /\ r.began /\ NP!OpenIndices(r) \subseteq r.seen BY DEF Good
<1>2. a \in NP!Events /\ a.type = "content_block_start" /\ a.index = i /\ a.kind = kind
  BY DEF NP!Start, NP!Events, NP!BlockKinds, NP!Kinds, Blocks
<1>3. x[1] = i OBVIOUS
<1>4. u = OpenAi!Observe(r, OpenAi!Start(i, kind)) BY SameOpenAi
<1> HIDE DEF a
<1>5. i \notin NP!OpenIndices(r) \cup r.seen BY <1>1
<1>6. NP!Obeys(r, a) BY <1>2, <1>5 DEF NP!Obeys
<1>7. /\ u \in NP!Readers /\ u.open = r.open \cup {<<a.index, a.kind>>}
      /\ u.seen = r.seen \cup {a.index}
      /\ NP!OpenIndices(u) = NP!OpenIndices(r) \cup {a.index}
      /\ u.wrong = (r.wrong \/ ~NP!Obeys(r, a))
      /\ u.began = (r.began \/ a.type = "message_start")
  BY <1>1, <1>2, NP!OpenIs
<1> HIDE DEF u
<1>8. u.open = r.open \cup {x} /\ u.seen = r.seen \cup {i} BY <1>2, <1>7
<1>9. \A b \in r.open : b[1] # i BY <1>5 DEF NP!OpenIndices
<1> HIDE DEF x
<1>10. \A b, c \in u.open : b[1] = c[1] => b = c BY <1>3, <1>8, <1>9 DEF Good
<1>11. ~u.wrong /\ u.began /\ NP!OpenIndices(u) \subseteq u.seen BY <1>1, <1>2, <1>6, <1>7
<1> QED BY <1>4, <1>7, <1>8, <1>10, <1>11 DEF Good, x

\* A block that is open is filled.
LEMMA GoodDelta ==
  ASSUME NEW r, Good(r), NEW i \in Int, NEW kind \in Blocks, <<i, kind>> \in r.open
  PROVE  LET u == OpenAi!Observe(r, OpenAi!Delta(i, kind)) IN
         Good(u) /\ u.open = r.open /\ u.seen = r.seen
<1> DEFINE a == NP!Delta(i, kind)
           u == NP!Observe(r, a)
           x == <<i, kind>>
<1>1. r \in NP!Readers /\ ~r.wrong /\ r.began /\ NP!OpenIndices(r) \subseteq r.seen BY DEF Good
<1>2. a \in NP!Events /\ a.type = "content_block_delta" /\ a.index = i /\ a.kind = kind
  BY DEF NP!Delta, NP!Events, NP!BlockKinds, NP!Kinds, Blocks
<1>3. x[1] = i /\ x[2] = kind /\ x \in r.open OBVIOUS
<1>4. u = OpenAi!Observe(r, OpenAi!Delta(i, kind)) BY SameOpenAi
<1> HIDE DEF a, x
<1>5. \A b \in r.open : b[1] = i => b = x BY <1>3 DEF Good
<1>6. NP!KindsAt(r, i) = {kind} BY <1>3, <1>5 DEF NP!KindsAt
<1>7. kind \notin NP!NoDeltaKinds BY DEF NP!NoDeltaKinds, Blocks
<1>8. NP!Obeys(r, a) BY <1>2, <1>6, <1>7 DEF NP!Obeys
<1>9. /\ u \in NP!Readers /\ u.open = r.open /\ u.seen = r.seen
      /\ NP!OpenIndices(u) = NP!OpenIndices(r)
      /\ u.wrong = (r.wrong \/ ~NP!Obeys(r, a))
      /\ u.began = (r.began \/ a.type = "message_start")
  BY <1>1, <1>2, NP!OpenIs
<1> HIDE DEF u
<1>10. ~u.wrong /\ u.began /\ NP!OpenIndices(u) \subseteq u.seen BY <1>1, <1>2, <1>8, <1>9
<1> QED BY <1>4, <1>9, <1>10 DEF Good

\* A block that is open is stopped.
LEMMA GoodStop ==
  ASSUME NEW r, Good(r), NEW i \in Int, NEW kind, <<i, kind>> \in r.open
  PROVE  LET u == OpenAi!Observe(r, OpenAi!Stop(i)) IN
         Good(u) /\ u.open = r.open \ {<<i, kind>>} /\ u.seen = r.seen
<1> DEFINE a == NP!Stop(i)
           u == NP!Observe(r, a)
           x == <<i, kind>>
<1>1. r \in NP!Readers /\ ~r.wrong /\ r.began /\ NP!OpenIndices(r) \subseteq r.seen BY DEF Good
<1>2. a \in NP!Events /\ a.type = "content_block_stop" /\ a.index = i
  BY DEF NP!Stop, NP!Events
<1>3. x[1] = i /\ x \in r.open OBVIOUS
<1>4. u = OpenAi!Observe(r, OpenAi!Stop(i)) BY SameOpenAi
<1> HIDE DEF a, x
<1>5. \A b \in r.open : b[1] = i <=> b = x BY <1>3 DEF Good
<1>6. i \in NP!OpenIndices(r) BY <1>3 DEF NP!OpenIndices
<1>8. NP!Obeys(r, a) BY <1>2, <1>6 DEF NP!Obeys
<1>9. /\ u \in NP!Readers /\ u.open = {b \in r.open : b[1] # a.index} /\ u.seen = r.seen
      /\ NP!OpenIndices(u) = NP!OpenIndices(r) \ {a.index}
      /\ u.wrong = (r.wrong \/ ~NP!Obeys(r, a))
      /\ u.began = (r.began \/ a.type = "message_start")
  BY <1>1, <1>2, NP!OpenIs
<1> HIDE DEF u
<1>10. ~u.wrong /\ u.began /\ NP!OpenIndices(u) \subseteq u.seen BY <1>1, <1>2, <1>8, <1>9
<1>11. u.open = r.open \ {x} BY <1>2, <1>5, <1>9
<1>12. \A b, c \in u.open : b[1] = c[1] => b = c BY <1>11 DEF Good
<1> QED BY <1>4, <1>9, <1>10, <1>11, <1>12 DEF Good, x

\* Something is said of the message as a whole.
LEMMA GoodMessage ==
  ASSUME NEW r, Good(r), NEW type \in {"message_start", "message_delta", "message_stop", "error"}
  PROVE  LET u == OpenAi!Observe(r, OpenAi!Message(type)) IN
         Good(u) /\ u.open = r.open /\ u.seen = r.seen /\ u.last = type
<1> DEFINE u == NP!Observe(r, NP!Message(type))
<1>1. r \in NP!Readers /\ ~r.wrong /\ r.began /\ NP!OpenIndices(r) \subseteq r.seen BY DEF Good
<1>2. u = OpenAi!Observe(r, OpenAi!Message(type)) BY SameOpenAi
<1>3. /\ u \in NP!Readers /\ u.open = r.open /\ u.seen = r.seen /\ u.wrong = r.wrong
      /\ u.last = type /\ u.began = (r.began \/ type = "message_start")
  BY <1>1, NP!Telling
<1> HIDE DEF u
<1>4. NP!OpenIndices(u) = NP!OpenIndices(r) BY <1>3 DEF NP!OpenIndices
<1>5. \A b, c \in u.open : b[1] = c[1] => b = c BY <1>3 DEF Good
<1> QED BY <1>1, <1>2, <1>3, <1>4, <1>5 DEF Good

-----------------------------------------------------------------------------
(* OpenAI: the builder                                                     *)

\* A string literal is not a string to the provers.
Pieces == STRING \cup {"Ta", "sk"}
ToolState ==
  [started : BOOLEAN, block : Int, called : Seq(Pieces), name : Seq(Pieces), pre : Seq(STRING),
   buffer : Seq(STRING), emitted : BOOLEAN, raw : BOOLEAN]
ToolStates == UNION {[D -> ToolState] : D \in SUBSET Nat}
Builders ==
  [next : Nat, thinking : Int, thinkingOn : BOOLEAN, text : Int, textOn : BOOLEAN,
   tools : ToolStates, written : SUBSET {"text", "thinking"}, failed : BOOLEAN,
   reader : NP!Readers]

Started(tools) == {i \in DOMAIN tools : tools[i].started}
ToolBlock(tools, i) == <<tools[i].block, "tool_use">>
ToolBlocks(tools) == {ToolBlock(tools, i) : i \in Started(tools)}
ThinkingBlock(s) == IF s.thinkingOn THEN {<<s.thinking, "thinking">>} ELSE {}
TextBlock(s) == IF s.textOn THEN {<<s.text, "text">>} ELSE {}

\* Before its block is started a tool has sent nothing.  One begun as Task is
\* Task still, or its name has outgrown that, and only then does it send
\* arguments as they come.
ToolOk(tool) ==
  /\ tool.started => tool.name # <<>>
  /\ ~tool.started => tool.buffer = <<>> /\ ~tool.raw
  /\ tool.started /\ tool.called = OpenAi!TaskName =>
       /\ tool.name = OpenAi!TaskName \/ Len(tool.name) > 2
       /\ tool.raw => Len(tool.name) > 2

ToolsOk(tools) ==
  /\ IsFiniteSet(DOMAIN tools)
  /\ \A i, j \in Started(tools) : tools[i].block = tools[j].block => i = j
  /\ \A i \in DOMAIN tools : ToolOk(tools[i])

\* The blocks a client has open are those the builder takes to be.
BuilderOk(s) ==
  /\ s \in Builders /\ Good(s.reader)
  /\ ToolsOk(s.tools)
  /\ s.reader.open = ThinkingBlock(s) \cup TextBlock(s) \cup ToolBlocks(s.tools)
  /\ \A k \in s.reader.seen : k < s.next
  /\ s.text # -1 \/ s.thinking # -1 \/ Started(s.tools) # {} => s.reader.seen # {}

\* What an operation on the content blocks leaves alone
SameRest(s, u) == u.tools = s.tools /\ u.failed = s.failed

LEMMA EmitIs ==
  ASSUME NEW s \in Builders, NEW ev
  PROVE  OpenAi!Emit(s, ev) = [s EXCEPT !.reader = OpenAi!Observe(s.reader, ev)]
BY DEF OpenAi!Emit, Builders

\* start_thinking_block, start_text_block
LEMMA ThinkingStarts ==
  ASSUME NEW s, BuilderOk(s), ~s.thinkingOn
  PROVE  LET u == OpenAi!StartThinking(s) IN
         /\ BuilderOk(u) /\ SameRest(s, u) /\ u.thinkingOn /\ u.textOn = s.textOn
         /\ u.reader.seen # {}
<1> DEFINE u == OpenAi!StartThinking(s)
           r == OpenAi!Observe(s.reader, OpenAi!Start(s.next, "thinking"))
           x == <<s.next, "thinking">>
<1>1. s \in Builders /\ Good(s.reader) BY DEF BuilderOk
<1>2. s.next \in Int /\ s.next \notin s.reader.seen BY DEF BuilderOk, Builders
<1>3. Good(r) /\ r.open = s.reader.open \cup {x} /\ r.seen = s.reader.seen \cup {s.next}
  BY <1>1, <1>2, GoodStart DEF Blocks
<1>4. u = [s EXCEPT !.next = s.next + 1, !.thinking = s.next, !.thinkingOn = TRUE, !.reader = r]
  BY <1>1 DEF OpenAi!StartThinking, OpenAi!Emit, Builders
<1>a. s.next \in Nat /\ s.next + 1 \in Nat /\ s.next \in Int /\ r \in NP!Readers
  BY <1>1, <1>3 DEF Builders, Good
<1> HIDE DEF r, u, x
<1>5. /\ u \in Builders /\ u.next = s.next + 1 /\ u.thinking = s.next /\ u.thinkingOn /\ u.reader = r
      /\ u.text = s.text /\ u.textOn = s.textOn /\ u.tools = s.tools /\ u.failed = s.failed
  BY <1>1, <1>a, <1>4 DEF Builders
<1> USE DEF x
<1>6. ThinkingBlock(s) = {} /\ ThinkingBlock(u) = {x} /\ TextBlock(u) = TextBlock(s)
  BY <1>5 DEF ThinkingBlock, TextBlock
<1> HIDE DEF x
<1>7. u.reader.open = ThinkingBlock(u) \cup TextBlock(u) \cup ToolBlocks(u.tools)
  BY <1>3, <1>5, <1>6 DEF BuilderOk
<1>8. \A k \in u.reader.seen : k < u.next
  <2>1. s.reader.seen \in SUBSET Int /\ s.next \in Nat BY <1>1 DEF Good, NP!Readers, Builders
  <2> QED BY <1>3, <1>5, <2>1 DEF BuilderOk
<1> QED BY <1>3, <1>5, <1>7, <1>8 DEF BuilderOk, SameRest, u

LEMMA TextStarts ==
  ASSUME NEW s, BuilderOk(s), ~s.textOn
  PROVE  LET u == OpenAi!StartText(s) IN
         /\ BuilderOk(u) /\ SameRest(s, u) /\ u.textOn /\ u.thinkingOn = s.thinkingOn
         /\ u.reader.seen # {}
<1> DEFINE u == OpenAi!StartText(s)
           r == OpenAi!Observe(s.reader, OpenAi!Start(s.next, "text"))
           x == <<s.next, "text">>
<1>1. s \in Builders /\ Good(s.reader) BY DEF BuilderOk
<1>2. s.next \in Int /\ s.next \notin s.reader.seen BY DEF BuilderOk, Builders
<1>3. Good(r) /\ r.open = s.reader.open \cup {x} /\ r.seen = s.reader.seen \cup {s.next}
  BY <1>1, <1>2, GoodStart DEF Blocks
<1>4. u = [s EXCEPT !.next = s.next + 1, !.text = s.next, !.textOn = TRUE, !.reader = r]
  BY <1>1 DEF OpenAi!StartText, OpenAi!Emit, Builders
<1>a. s.next \in Nat /\ s.next + 1 \in Nat /\ s.next \in Int /\ r \in NP!Readers
  BY <1>1, <1>3 DEF Builders, Good
<1> HIDE DEF r, u, x
<1>5. /\ u \in Builders /\ u.next = s.next + 1 /\ u.text = s.next /\ u.textOn /\ u.reader = r
      /\ u.thinking = s.thinking /\ u.thinkingOn = s.thinkingOn /\ u.tools = s.tools
      /\ u.failed = s.failed
  BY <1>1, <1>a, <1>4 DEF Builders
<1> USE DEF x
<1>6. TextBlock(s) = {} /\ TextBlock(u) = {x} /\ ThinkingBlock(u) = ThinkingBlock(s)
  BY <1>5 DEF ThinkingBlock, TextBlock
<1> HIDE DEF x
<1>7. u.reader.open = ThinkingBlock(u) \cup TextBlock(u) \cup ToolBlocks(u.tools)
  BY <1>3, <1>5, <1>6 DEF BuilderOk
<1>8. \A k \in u.reader.seen : k < u.next
  <2>1. s.reader.seen \in SUBSET Int /\ s.next \in Nat BY <1>1 DEF Good, NP!Readers, Builders
  <2> QED BY <1>3, <1>5, <2>1 DEF BuilderOk
<1> QED BY <1>3, <1>5, <1>7, <1>8 DEF BuilderOk, SameRest, u

\* stop_thinking_block, stop_text_block
LEMMA ThinkingStops ==
  ASSUME NEW s, BuilderOk(s)
  PROVE  LET u == OpenAi!StopThinking(s) IN
         /\ BuilderOk(u) /\ SameRest(s, u) /\ ~u.thinkingOn /\ u.textOn = s.textOn
         /\ u.thinking = s.thinking /\ u.text = s.text /\ u.written = s.written
         /\ u.reader.seen = s.reader.seen
<1> DEFINE u == OpenAi!StopThinking(s)
           r == OpenAi!Observe(s.reader, OpenAi!Stop(s.thinking))
           x == <<s.thinking, "thinking">>
<1>1. s \in Builders /\ Good(s.reader) BY DEF BuilderOk
<1>2. CASE ~s.thinkingOn BY <1>2 DEF OpenAi!StopThinking, SameRest
<1>3. CASE s.thinkingOn
  <2>1. x \in s.reader.open BY <1>3 DEF BuilderOk, ThinkingBlock
  <2>2. s.thinking \in Int BY <1>1 DEF Builders
  <2>3. Good(r) /\ r.open = s.reader.open \ {x} /\ r.seen = s.reader.seen
    BY <1>1, <2>1, <2>2, GoodStop
  <2>4. u = [s EXCEPT !.thinkingOn = FALSE, !.reader = r]
    BY <1>1, <1>3 DEF OpenAi!StopThinking, OpenAi!Emit, Builders
  <2> HIDE DEF r
  <2>5. /\ u \in Builders /\ u.next = s.next /\ u.thinking = s.thinking /\ ~u.thinkingOn /\ u.reader = r
        /\ u.text = s.text /\ u.textOn = s.textOn /\ u.tools = s.tools /\ u.failed = s.failed
        /\ u.written = s.written
    BY <1>1, <2>3, <2>4 DEF Builders, Good
  <2> HIDE DEF u
  <2>6. x \notin TextBlock(s) /\ x \notin ToolBlocks(s.tools)
    <3>1. x[2] = "thinking" OBVIOUS
    <3> HIDE DEF x
    <3>2. \A b \in TextBlock(s) \cup ToolBlocks(s.tools) : b[2] # "thinking"
      BY DEF TextBlock, ToolBlocks, ToolBlock
    <3> QED BY <3>1, <3>2
  <2>7. ThinkingBlock(s) = {x} /\ ThinkingBlock(u) = {} /\ TextBlock(u) = TextBlock(s)
    BY <1>3, <2>5 DEF ThinkingBlock, TextBlock
  <2> HIDE DEF x
  <2>8. u.reader.open = ThinkingBlock(u) \cup TextBlock(u) \cup ToolBlocks(u.tools)
    BY <2>3, <2>5, <2>6, <2>7 DEF BuilderOk
  <2> QED BY <2>3, <2>5, <2>8 DEF BuilderOk, SameRest, u
<1> QED BY <1>2, <1>3

LEMMA TextStops ==
  ASSUME NEW s, BuilderOk(s)
  PROVE  LET u == OpenAi!StopText(s) IN
         /\ BuilderOk(u) /\ SameRest(s, u) /\ ~u.textOn /\ u.thinkingOn = s.thinkingOn
         /\ u.thinking = s.thinking /\ u.text = s.text /\ u.written = s.written
         /\ u.reader.seen = s.reader.seen
<1> DEFINE u == OpenAi!StopText(s)
           r == OpenAi!Observe(s.reader, OpenAi!Stop(s.text))
           x == <<s.text, "text">>
<1>1. s \in Builders /\ Good(s.reader) BY DEF BuilderOk
<1>2. CASE ~s.textOn BY <1>2 DEF OpenAi!StopText, SameRest
<1>3. CASE s.textOn
  <2>1. x \in s.reader.open BY <1>3 DEF BuilderOk, TextBlock
  <2>2. s.text \in Int BY <1>1 DEF Builders
  <2>3. Good(r) /\ r.open = s.reader.open \ {x} /\ r.seen = s.reader.seen
    BY <1>1, <2>1, <2>2, GoodStop
  <2>4. u = [s EXCEPT !.textOn = FALSE, !.reader = r]
    BY <1>1, <1>3 DEF OpenAi!StopText, OpenAi!Emit, Builders
  <2> HIDE DEF r
  <2>5. /\ u \in Builders /\ u.next = s.next /\ u.thinking = s.thinking /\ ~u.textOn /\ u.reader = r
        /\ u.text = s.text /\ u.thinkingOn = s.thinkingOn /\ u.tools = s.tools /\ u.failed = s.failed
        /\ u.written = s.written
    BY <1>1, <2>3, <2>4 DEF Builders, Good
  <2> HIDE DEF u
  <2>6. x \notin ThinkingBlock(s) /\ x \notin ToolBlocks(s.tools)
    <3>1. x[2] = "text" OBVIOUS
    <3> HIDE DEF x
    <3>2. \A b \in ThinkingBlock(s) \cup ToolBlocks(s.tools) : b[2] # "text"
      BY DEF ThinkingBlock, ToolBlocks, ToolBlock
    <3> QED BY <3>1, <3>2
  <2>7. TextBlock(s) = {x} /\ TextBlock(u) = {} /\ ThinkingBlock(u) = ThinkingBlock(s)
    BY <1>3, <2>5 DEF ThinkingBlock, TextBlock
  <2> HIDE DEF x
  <2>8. u.reader.open = ThinkingBlock(u) \cup TextBlock(u) \cup ToolBlocks(u.tools)
    BY <2>3, <2>5, <2>6, <2>7 DEF BuilderOk
  <2> QED BY <2>3, <2>5, <2>8 DEF BuilderOk, SameRest, u
<1> QED BY <1>2, <1>3

\* A block that is open has been seen.
LEMMA OpenIsSeen ==
  ASSUME NEW s, BuilderOk(s), s.textOn \/ s.thinkingOn
  PROVE  s.reader.seen # {}
<1>1. PICK b : b \in s.reader.open BY DEF BuilderOk, ThinkingBlock, TextBlock
<1>2. b[1] \in s.reader.seen BY <1>1 DEF BuilderOk, Good, NP!OpenIndices
<1> QED BY <1>2

\* An operation changes nothing of the builder but the reader and what was
\* written.
LEMMA ReaderChanges ==
  ASSUME NEW s, BuilderOk(s), NEW u, NEW r, NEW w \in SUBSET {"text", "thinking"},
         u = [s EXCEPT !.reader = r, !.written = w],
         Good(r), r.open = s.reader.open, r.seen = s.reader.seen
  PROVE  /\ BuilderOk(u) /\ SameRest(s, u)
         /\ u.thinkingOn = s.thinkingOn /\ u.textOn = s.textOn /\ u.reader = r
<1>1. s \in Builders /\ r \in NP!Readers BY DEF BuilderOk, Good
<1>2. /\ u \in Builders /\ u.next = s.next /\ u.thinking = s.thinking /\ u.thinkingOn = s.thinkingOn
      /\ u.text = s.text /\ u.textOn = s.textOn /\ u.tools = s.tools /\ u.failed = s.failed
      /\ u.reader = r
  BY <1>1 DEF Builders
<1>3. ThinkingBlock(u) = ThinkingBlock(s) /\ TextBlock(u) = TextBlock(s)
  BY <1>2 DEF ThinkingBlock, TextBlock
<1> QED BY <1>2, <1>3 DEF BuilderOk, SameRest

\* ensure_thinking_block and emit_thinking_delta
LEMMA ThinkingEmitted ==
  ASSUME NEW s, BuilderOk(s)
  PROVE  LET u == OpenAi!EmitThinking(s) IN
         BuilderOk(u) /\ SameRest(s, u) /\ u.reader.seen # {}
<1> DEFINE a == OpenAi!StopText(s)
           c == OpenAi!EnsureThinking(s)
           r == OpenAi!Observe(c.reader, OpenAi!Delta(c.thinking, "thinking"))
           u == OpenAi!EmitThinking(s)
<1>1. BuilderOk(a) /\ SameRest(s, a) BY TextStops
<1>2. c = IF a.thinkingOn THEN a ELSE OpenAi!StartThinking(a) BY DEF OpenAi!EnsureThinking
<1> HIDE DEF a, c
<1>3. BuilderOk(c) /\ SameRest(a, c) /\ c.thinkingOn
  <2>1. CASE a.thinkingOn BY <1>1, <1>2, <2>1 DEF SameRest
  <2>2. CASE ~a.thinkingOn BY <1>1, <1>2, <2>2, ThinkingStarts
  <2> QED BY <2>1, <2>2
<1>4. c \in Builders /\ c.thinking \in Int /\ Good(c.reader) /\ c.written \in SUBSET {"text", "thinking"}
  BY <1>3 DEF BuilderOk, Builders
<1>5. <<c.thinking, "thinking">> \in c.reader.open BY <1>3 DEF BuilderOk, ThinkingBlock
<1>6. Good(r) /\ r.open = c.reader.open /\ r.seen = c.reader.seen BY <1>4, <1>5, GoodDelta DEF Blocks
<1>7. u = [c EXCEPT !.reader = r, !.written = c.written \cup {"thinking"}]
  <2> DEFINE e == OpenAi!Emit(c, OpenAi!Delta(c.thinking, "thinking"))
  <2>1. u = [e EXCEPT !.written = e.written \cup {"thinking"}] BY DEF OpenAi!EmitThinking, c
  <2>2. e = [c EXCEPT !.reader = r] BY DEF OpenAi!Emit
  <2> HIDE DEF e, r, u
  <2>3. e.written = c.written BY <1>4, <2>2 DEF Builders
  <2> QED BY <1>4, <2>1, <2>2, <2>3 DEF Builders
<1> DEFINE w == c.written \cup {"thinking"}
<1>8. w \in SUBSET {"text", "thinking"} /\ u = [c EXCEPT !.reader = r, !.written = w] BY <1>4, <1>7
<1> HIDE DEF r, u, w
<1>9. BuilderOk(u) /\ SameRest(c, u) /\ u.reader = r BY <1>3, <1>6, <1>8, ReaderChanges
<1>10. c.reader.seen # {} BY <1>3, OpenIsSeen
<1> QED BY <1>1, <1>3, <1>6, <1>9, <1>10 DEF SameRest, u

\* ensure_text_block and emit_text_delta
LEMMA TextEmitted ==
  ASSUME NEW s, BuilderOk(s), NEW blank \in BOOLEAN
  PROVE  LET u == OpenAi!EmitText(s, blank) IN
         BuilderOk(u) /\ SameRest(s, u) /\ u.reader.seen # {}
<1> DEFINE a == OpenAi!StopThinking(s)
           c == OpenAi!EnsureText(s)
           r == OpenAi!Observe(c.reader, OpenAi!Delta(c.text, "text"))
           u == OpenAi!EmitText(s, blank)
           w == IF blank THEN c.written ELSE c.written \cup {"text"}
<1>1. BuilderOk(a) /\ SameRest(s, a) BY ThinkingStops
<1>2. c = IF a.textOn THEN a ELSE OpenAi!StartText(a) BY DEF OpenAi!EnsureText
<1> HIDE DEF a, c
<1>3. BuilderOk(c) /\ SameRest(a, c) /\ c.textOn
  <2>1. CASE a.textOn BY <1>1, <1>2, <2>1 DEF SameRest
  <2>2. CASE ~a.textOn BY <1>1, <1>2, <2>2, TextStarts
  <2> QED BY <2>1, <2>2
<1>4. c \in Builders /\ c.text \in Int /\ Good(c.reader) /\ c.written \in SUBSET {"text", "thinking"}
  BY <1>3 DEF BuilderOk, Builders
<1>5. <<c.text, "text">> \in c.reader.open BY <1>3 DEF BuilderOk, TextBlock
<1>6. Good(r) /\ r.open = c.reader.open /\ r.seen = c.reader.seen BY <1>4, <1>5, GoodDelta DEF Blocks
<1>7. u = [c EXCEPT !.reader = r, !.written = w]
  BY <1>4 DEF OpenAi!EmitText, OpenAi!Emit, c, Builders
<1>8. w \in SUBSET {"text", "thinking"} BY <1>4
<1> HIDE DEF r, u, w
<1>9. BuilderOk(u) /\ SameRest(c, u) /\ u.reader = r BY <1>3, <1>6, <1>7, <1>8, ReaderChanges
<1>10. c.reader.seen # {} BY <1>3, OpenIsSeen
<1> QED BY <1>1, <1>3, <1>6, <1>9, <1>10 DEF SameRest, u

\* close_content_blocks
LEMMA ContentClosed ==
  ASSUME NEW s, BuilderOk(s)
  PROVE  LET u == OpenAi!CloseContent(s) IN
         /\ BuilderOk(u) /\ SameRest(s, u) /\ ~u.thinkingOn /\ ~u.textOn
         /\ u.thinking = s.thinking /\ u.text = s.text /\ u.written = s.written
         /\ u.reader.seen = s.reader.seen
<1> DEFINE a == OpenAi!StopThinking(s)
<1>1. /\ BuilderOk(a) /\ SameRest(s, a) /\ ~a.thinkingOn /\ a.thinking = s.thinking /\ a.text = s.text
      /\ a.written = s.written /\ a.reader.seen = s.reader.seen
  BY ThinkingStops
<1> HIDE DEF a
<1>2. /\ BuilderOk(OpenAi!StopText(a)) /\ SameRest(a, OpenAi!StopText(a)) /\ ~OpenAi!StopText(a).textOn
      /\ OpenAi!StopText(a).thinkingOn = a.thinkingOn /\ OpenAi!StopText(a).thinking = a.thinking
      /\ OpenAi!StopText(a).text = a.text /\ OpenAi!StopText(a).written = a.written
      /\ OpenAi!StopText(a).reader.seen = a.reader.seen
  BY <1>1, TextStops
<1> QED BY <1>1, <1>2 DEF OpenAi!CloseContent, SameRest, a

\* A block that is opened, filled and closed at once leaves nothing open.
LEMMA WholeIsRead ==
  ASSUME NEW r, Good(r), NEW i \in Int, i \notin r.seen, NEW kind \in Blocks
  PROVE  LET u == OpenAi!Observe(OpenAi!Observe(OpenAi!Observe(r, OpenAi!Start(i, kind)),
                                                OpenAi!Delta(i, kind)), OpenAi!Stop(i))
         IN Good(u) /\ u.open = r.open /\ u.seen = r.seen \cup {i}
<1> DEFINE a == OpenAi!Observe(r, OpenAi!Start(i, kind))
           b == OpenAi!Observe(a, OpenAi!Delta(i, kind))
           c == OpenAi!Observe(b, OpenAi!Stop(i))
           x == <<i, kind>>
<1>1. Good(a) /\ a.open = r.open \cup {x} /\ a.seen = r.seen \cup {i} BY GoodStart
<1>2. x \notin r.open
  <2>1. x[1] = i OBVIOUS
  <2> HIDE DEF x
  <2> QED BY <2>1 DEF Good, NP!OpenIndices
<1> HIDE DEF a
<1>3. Good(b) /\ b.open = a.open /\ b.seen = a.seen BY <1>1, GoodDelta
<1> HIDE DEF b
<1>4. Good(c) /\ c.open = b.open \ {x} /\ c.seen = b.seen BY <1>1, <1>3, GoodStop
<1> HIDE DEF c, x
<1> QED BY <1>1, <1>2, <1>3, <1>4 DEF a, b, c

LEMMA WholeBlockOk ==
  ASSUME NEW s, BuilderOk(s), NEW kind \in Blocks
  PROVE  LET u == OpenAi!WholeBlock(s, kind) IN
         /\ BuilderOk(u) /\ SameRest(s, u) /\ u.thinkingOn = s.thinkingOn /\ u.textOn = s.textOn
         /\ u.reader.seen # {} /\ u.text = s.text /\ u.thinking = s.thinking /\ u.written = s.written
<1> DEFINE u == OpenAi!WholeBlock(s, kind)
           r == OpenAi!Observe(OpenAi!Observe(OpenAi!Observe(s.reader, OpenAi!Start(s.next, kind)),
                                              OpenAi!Delta(s.next, kind)), OpenAi!Stop(s.next))
<1>1. s \in Builders /\ Good(s.reader) BY DEF BuilderOk
<1>2. s.next \in Int /\ s.next \notin s.reader.seen /\ s.next \in Nat /\ s.next + 1 \in Nat
  BY <1>1 DEF BuilderOk, Builders
<1>3. Good(r) /\ r.open = s.reader.open /\ r.seen = s.reader.seen \cup {s.next}
  BY <1>1, <1>2, WholeIsRead
<1>4. u = [s EXCEPT !.next = s.next + 1, !.reader = r]
  BY <1>1 DEF OpenAi!WholeBlock, OpenAi!Emit, Builders
<1>5. r \in NP!Readers BY <1>3 DEF Good
<1> HIDE DEF r, u
<1>6. /\ u \in Builders /\ u.next = s.next + 1 /\ u.thinking = s.thinking /\ u.thinkingOn = s.thinkingOn
      /\ u.text = s.text /\ u.textOn = s.textOn /\ u.tools = s.tools /\ u.failed = s.failed
      /\ u.reader = r /\ u.written = s.written
  BY <1>1, <1>2, <1>4, <1>5 DEF Builders
<1>7. ThinkingBlock(u) = ThinkingBlock(s) /\ TextBlock(u) = TextBlock(s)
  BY <1>6 DEF ThinkingBlock, TextBlock
<1>8. \A k \in u.reader.seen : k < u.next
  <2>1. s.reader.seen \in SUBSET Int BY <1>1 DEF Good, NP!Readers
  <2> QED BY <1>2, <1>3, <1>6, <2>1 DEF BuilderOk
<1> QED BY <1>3, <1>6, <1>7, <1>8 DEF BuilderOk, SameRest, u

\* _iter_heuristic_tool_use_sse
LEMMA HeuristicToolsOk ==
  ASSUME NEW s, BuilderOk(s), NEW n
  PROVE  LET u == OpenAi!HeuristicTools(s, n) IN BuilderOk(u) /\ SameRest(s, u)
<1>1. CASE n = 0 BY <1>1 DEF OpenAi!HeuristicTools, SameRest
<1>2. CASE n # 0
  <2> DEFINE c == OpenAi!CloseContent(s)
             u == OpenAi!WholeBlock(c, "tool_use")
  <2>1. BuilderOk(c) /\ SameRest(s, c) BY ContentClosed
  <2> HIDE DEF c
  <2>2. BuilderOk(u) /\ SameRest(c, u) BY <2>1, WholeBlockOk DEF Blocks
  <2> QED BY <1>2, <2>1, <2>2 DEF OpenAi!HeuristicTools, SameRest, c
<1> QED BY <1>1, <1>2

\* What a piece of text does, whatever the two parsers make of it
LEMMA ContentOk ==
  ASSUME NEW b, BuilderOk(b.sse), NEW inThink, NEW t,
         b = [heur |-> b.heur, sse |-> b.sse]
  PROVE  LET v == OpenAi!Content(b, inThink, t) IN
         /\ BuilderOk(v.sse) /\ SameRest(b.sse, v.sse)
         /\ v = [heur |-> v.heur, sse |-> v.sse]
<1> DEFINE v == OpenAi!Content(b, inThink, t)
<1>1. CASE ~inThink
  <2> DEFINE f == OpenAi!Feed(b.heur, t)
             blank == f.out \subseteq {"blank"}
             c == IF f.out = {} THEN b.sse ELSE OpenAi!EmitText(b.sse, blank)
             u == OpenAi!HeuristicTools(c, f.tools)
  <2>1. BuilderOk(c) /\ SameRest(b.sse, c)
    <3>1. blank \in BOOLEAN OBVIOUS
    <3> HIDE DEF blank
    <3>2. BuilderOk(OpenAi!EmitText(b.sse, blank)) /\ SameRest(b.sse, OpenAi!EmitText(b.sse, blank))
      BY <3>1, TextEmitted
    <3> HIDE DEF f
    <3> QED BY <3>2 DEF SameRest
  <2>2. v = [heur |-> [state |-> f.state, buffer |-> f.buffer], sse |-> u]
    BY <1>1 DEF OpenAi!Content, OpenAi!Show
  <2> HIDE DEF c, f, v
  <2>3. BuilderOk(u) /\ SameRest(c, u) BY <2>1, HeuristicToolsOk
  <2> HIDE DEF u
  <2>4. v.sse = u /\ v = [heur |-> v.heur, sse |-> v.sse] BY <2>2
  <2> QED BY <2>1, <2>3, <2>4 DEF SameRest, v
<1>2. CASE inThink /\ enabled
  <2> DEFINE u == OpenAi!EmitThinking(b.sse)
  <2>1. v = [heur |-> b.heur, sse |-> u] BY <1>2 DEF OpenAi!Content
  <2>2. BuilderOk(u) /\ SameRest(b.sse, u) BY ThinkingEmitted
  <2> HIDE DEF u, v
  <2>3. v.sse = u /\ v.heur = b.heur BY <2>1
  <2> QED BY <2>1, <2>2, <2>3 DEF v
<1>3. CASE inThink /\ ~enabled
  <2>1. v = b BY <1>3 DEF OpenAi!Content
  <2> HIDE DEF v
  <2> QED BY <2>1 DEF SameRest, v
<1> QED BY <1>1, <1>2, <1>3

LEMMA MaxOfTwo == OpenAi!Max({1}) = 1 /\ OpenAi!Max({2}) = 2 /\ OpenAi!Max({1, 2}) = 2
<1>1. \E x \in {1} : \A y \in {1} : x >= y OBVIOUS
<1>2. \E x \in {2} : \A y \in {2} : x >= y OBVIOUS
<1>3. \E x \in {1, 2} : \A y \in {1, 2} : x >= y OBVIOUS
<1>4. OpenAi!Max({1}) = 1 BY <1>1 DEF OpenAi!Max
<1>5. OpenAi!Max({2}) = 2 BY <1>2 DEF OpenAi!Max
<1>6. OpenAi!Max({1, 2}) = 2 BY <1>3 DEF OpenAi!Max
<1> QED BY <1>4, <1>5, <1>6

\* The pieces the tag parser lets out, no more than two, are read in turn.
LEMMA PiecesRead ==
  ASSUME NEW b, BuilderOk(b.sse), b = [heur |-> b.heur, sse |-> b.sse],
         NEW n \in 0..2, NEW evs, DOMAIN evs = 1..n
  PROVE  LET v == OpenAi!FoldLeft(LAMBDA acc, piece : OpenAi!Content(acc, think.inThink, piece), b, evs)
         IN BuilderOk(v.sse) /\ SameRest(b.sse, v.sse)
<1> DEFINE C(x, k) == OpenAi!Content(x, think.inThink, evs[k])
           Goes(h) == h = [s \in SUBSET DOMAIN evs |->
                             IF s = {} THEN b ELSE LET x == OpenAi!Max(s) IN C(h[s \ {x}], x)]
           g == CHOOSE h : Goes(h)
           v == OpenAi!FoldLeft(LAMBDA acc, piece : OpenAi!Content(acc, think.inThink, piece), b, evs)
<1>1. v = g[DOMAIN evs] BY DEF OpenAi!FoldLeft, OpenAi!MapThenFoldSet
<1> HIDE DEF v
<1>2. ASSUME NEW x, BuilderOk(x.sse), x = [heur |-> x.heur, sse |-> x.sse], NEW k
      PROVE  /\ BuilderOk(C(x, k).sse) /\ SameRest(x.sse, C(x, k).sse)
             /\ C(x, k) = [heur |-> C(x, k).heur, sse |-> C(x, k).sse]
  BY <1>2, ContentOk
<1>3. BuilderOk(C(b, 1).sse) /\ SameRest(b.sse, C(b, 1).sse)
      /\ C(b, 1) = [heur |-> C(b, 1).heur, sse |-> C(b, 1).sse]
  BY <1>2
<1> HIDE DEF C
<1>4. BuilderOk(C(C(b, 1), 2).sse) /\ SameRest(C(b, 1).sse, C(C(b, 1), 2).sse)
  BY <1>2, <1>3
<1>5. CASE n = 0
  <2>1. DOMAIN evs = {} /\ SUBSET DOMAIN evs = {{}} BY <1>5
  <2> DEFINE h == [s \in SUBSET DOMAIN evs |-> b]
  <2>2. Goes(h) BY <2>1
  <2>3. Goes(g)
    <3> HIDE DEF Goes, h
    <3> QED BY <2>2
  <2> HIDE DEF g
  <2>4. g[{}] = b BY <2>1, <2>3
  <2>5. v = b BY <1>1, <2>1, <2>4
  <2> QED BY <2>5 DEF SameRest, v
<1>6. CASE n = 1
  <2>1. DOMAIN evs = {1} /\ SUBSET DOMAIN evs = {{}, {1}} BY <1>6
  <2> DEFINE h == [s \in SUBSET DOMAIN evs |-> IF s = {} THEN b ELSE C(b, 1)]
  <2>2. Goes(h)
    <3>1. {1} # {} /\ {1} \ {1} = {} OBVIOUS
    <3>2. h[{}] = b BY <2>1
    <3>3. \A s \in SUBSET DOMAIN evs :
            h[s] = IF s = {} THEN b ELSE LET x == OpenAi!Max(s) IN C(h[s \ {x}], x)
      <4> HIDE DEF h
      <4> TAKE s \in SUBSET DOMAIN evs
      <4>1. CASE s = {} BY <3>2, <4>1
      <4>2. CASE s = {1} BY <2>1, <3>1, <3>2, <4>2, MaxOfTwo DEF h
      <4> QED BY <2>1, <4>1, <4>2
    <3> QED BY <3>3
  <2>3. Goes(g)
    <3> HIDE DEF Goes, h
    <3> QED BY <2>2
  <2> HIDE DEF g
  <2>4. g[{}] = b /\ g[{1}] = C(b, 1)
    <3>1. {1} # {} /\ {1} \ {1} = {} OBVIOUS
    <3>a. \A s \in SUBSET DOMAIN evs :
            g[s] = IF s = {} THEN b ELSE LET x == OpenAi!Max(s) IN C(g[s \ {x}], x)
      BY <2>3
    <3> HIDE DEF Goes
    <3>2. g[{}] = b BY <2>1, <3>a
    <3>3. g[{1}] = C(g[{1} \ {1}], 1)
      <4>1. {1} \in SUBSET DOMAIN evs BY <2>1
      <4>2. g[{1}] = LET x == OpenAi!Max({1}) IN C(g[{1} \ {x}], x) BY <3>1, <3>a, <4>1
      <4> QED BY <4>2, MaxOfTwo
    <3> QED BY <3>1, <3>2, <3>3
  <2>5. v = C(b, 1) BY <1>1, <2>1, <2>4
  <2> QED BY <1>3, <2>5 DEF v
<1>7. CASE n = 2
  <2>1. DOMAIN evs = {1, 2} /\ SUBSET DOMAIN evs = {{}, {1}, {2}, {1, 2}} BY <1>7
  <2> DEFINE h == [s \in SUBSET DOMAIN evs |->
                     IF s = {} THEN b ELSE IF s = {1} THEN C(b, 1)
                     ELSE IF s = {2} THEN C(b, 2) ELSE C(C(b, 1), 2)]
  <2>0. /\ {1} # {} /\ {1} \ {1} = {} /\ {2} # {} /\ {2} \ {2} = {} /\ {2} # {1}
        /\ {1, 2} # {} /\ {1, 2} # {1} /\ {1, 2} # {2} /\ {1, 2} \ {2} = {1}
    OBVIOUS
  <2>2. Goes(h)
    <3>1. h[{}] = b /\ h[{1}] = C(b, 1) /\ h[{2}] = C(b, 2) /\ h[{1, 2}] = C(C(b, 1), 2)
      BY <2>0, <2>1
    <3>2. h = [s \in SUBSET DOMAIN evs |-> h[s]] OBVIOUS
    <3> HIDE DEF h
    <3>3. \A s \in SUBSET DOMAIN evs :
            h[s] = IF s = {} THEN b ELSE LET x == OpenAi!Max(s) IN C(h[s \ {x}], x)
      <4> TAKE s \in SUBSET DOMAIN evs
      <4>1. CASE s = {} BY <3>1, <4>1
      <4>2. CASE s = {1} BY <2>0, <3>1, <4>2, MaxOfTwo
      <4>3. CASE s = {2} BY <2>0, <3>1, <4>3, MaxOfTwo
      <4>4. CASE s = {1, 2} BY <2>0, <3>1, <4>4, MaxOfTwo
      <4> QED BY <2>1, <4>1, <4>2, <4>3, <4>4
    <3> QED BY <3>2, <3>3
  <2>3. Goes(g)
    <3> HIDE DEF Goes, h
    <3> QED BY <2>2
  <2> HIDE DEF g, h
  <2>4. \A s \in SUBSET DOMAIN evs :
          g[s] = IF s = {} THEN b ELSE LET x == OpenAi!Max(s) IN C(g[s \ {x}], x)
    BY <2>3
  <2> HIDE DEF Goes
  <2>5. g[{}] = b BY <2>1, <2>4
  <2>6. g[{1}] = C(g[{1} \ {1}], 1)
    <3>1. {1} \in SUBSET DOMAIN evs BY <2>1
    <3>2. {1} # {} OBVIOUS
    <3>3. g[{1}] = LET x == OpenAi!Max({1}) IN C(g[{1} \ {x}], x) BY <2>4, <3>1, <3>2
    <3> QED BY <3>3, MaxOfTwo
  <2>7. g[{1, 2}] = C(g[{1, 2} \ {2}], 2)
    <3>1. {1, 2} \in SUBSET DOMAIN evs BY <2>1
    <3>2. {1, 2} # {} OBVIOUS
    <3>3. g[{1, 2}] = LET x == OpenAi!Max({1, 2}) IN C(g[{1, 2} \ {x}], x) BY <2>4, <3>1, <3>2
    <3> QED BY <3>3, MaxOfTwo
  <2>8. g[{1}] = C(b, 1) BY <2>0, <2>5, <2>6
  <2>9. g[{1, 2}] = C(C(b, 1), 2) BY <2>0, <2>7, <2>8
  <2>10. v = C(C(b, 1), 2) BY <1>1, <2>1, <2>9
  <2> QED BY <1>3, <1>4, <2>10 DEF SameRest, v
<1>8. n = 0 \/ n = 1 \/ n = 2 OBVIOUS
<1> QED BY ONLY <1>5, <1>6, <1>7, <1>8

LEMMA FedContent ==
  ASSUME NEW b, BuilderOk(b.sse), b = [heur |-> b.heur, sse |-> b.sse], NEW t
  PROVE  LET v == OpenAi!FeedContent(b, t) IN BuilderOk(v.sse) /\ SameRest(b.sse, v.sse)
<1> DEFINE evs == OpenAi!ThinkOutput(think, t)
<1>1. \E n \in 0..2 : DOMAIN evs = 1..n
  <2> DEFINE p == IF /\ think.held /\ t # "WebFetch{}"
                     /\ ~(OpenAi!IsTag(think, t) /\ t \in {"think>", "/think>"})
                  THEN <<"<">> ELSE <<>>
             q == IF OpenAi!IsTag(think, t) \/ t = "<" THEN <<>> ELSE <<t>>
  <2>1. evs = p \o q BY DEF OpenAi!ThinkOutput
  <2>2. (p = <<>> \/ p = <<"<">>) /\ (q = <<>> \/ q = <<t>>) OBVIOUS
  <2> HIDE DEF p, q, evs
  <2>5. /\ p \in Seq({"<", t}) /\ q \in Seq({"<", t})
        /\ (Len(p) = 0 \/ Len(p) = 1) /\ (Len(q) = 0 \/ Len(q) = 1)
    <3>1. ASSUME NEW A, NEW x \in A
          PROVE  /\ <<>> \in Seq(A) /\ <<x>> \in Seq(A) /\ Len(<<>>) = 0 /\ Len(<<x>>) = 1
      OBVIOUS
    <3>2. "<" \in {"<", t} /\ t \in {"<", t} OBVIOUS
    <3>3. p \in Seq({"<", t}) /\ (Len(p) = 0 \/ Len(p) = 1) BY <2>2, <3>1, <3>2
    <3>4. q \in Seq({"<", t}) /\ (Len(q) = 0 \/ Len(q) = 1) BY <2>2, <3>1, <3>2
    <3> QED BY <3>3, <3>4
  <2>3. DOMAIN (p \o q) = 1..(Len(p) + Len(q))
    BY <2>5
  <2>4. Len(p) + Len(q) \in 0..2 BY <2>5
  <2> QED BY <2>1, <2>3, <2>4
<1>2. PICK n \in 0..2 : DOMAIN evs = 1..n BY <1>1
<1> HIDE DEF evs
<1>3. LET v == OpenAi!FoldLeft(LAMBDA acc, piece : OpenAi!Content(acc, think.inThink, piece), b, evs)
      IN BuilderOk(v.sse) /\ SameRest(b.sse, v.sse)
  BY <1>2, PiecesRead
<1> QED BY <1>3 DEF OpenAi!FeedContent, evs

-----------------------------------------------------------------------------
(* OpenAI: the tools                                                       *)

\* What an operation on the tools leaves alone
SameContent(s, u) ==
  /\ u.thinking = s.thinking /\ u.thinkingOn = s.thinkingOn /\ u.text = s.text /\ u.textOn = s.textOn
  /\ u.written = s.written

\* One tool of them is changed, or a new one is there.
WithOne(tools, i, tool) == [j \in DOMAIN tools \cup {i} |-> IF j = i THEN tool ELSE tools[j]]
KeepsBlock(tools, i, tool) ==
  /\ i \in DOMAIN tools => tool.started = tools[i].started /\ tool.block = tools[i].block
  /\ i \notin DOMAIN tools => ~tool.started

LEMMA ToolIsSet ==
  ASSUME NEW ts \in ToolStates, NEW i \in Nat, NEW tool \in ToolState
  PROVE  /\ WithOne(ts, i, tool) \in ToolStates
         /\ DOMAIN WithOne(ts, i, tool) = DOMAIN ts \cup {i}
         /\ WithOne(ts, i, tool)[i] = tool
         /\ \A j \in DOMAIN ts : j # i => WithOne(ts, i, tool)[j] = ts[j]
         /\ i \in DOMAIN ts => [ts EXCEPT ![i] = tool] = WithOne(ts, i, tool)
<1>1. DOMAIN ts \in SUBSET Nat /\ ts \in [DOMAIN ts -> ToolState] BY DEF ToolStates
<1> DEFINE D == DOMAIN ts \cup {i}
           us == WithOne(ts, i, tool)
<1>2. D \in SUBSET Nat BY <1>1
<1>3. us \in [D -> ToolState] BY <1>1 DEF WithOne
<1>4. us \in ToolStates BY <1>2, <1>3 DEF ToolStates
<1>5. i \in DOMAIN ts => [ts EXCEPT ![i] = tool] = us
  <2> SUFFICES ASSUME i \in DOMAIN ts PROVE [ts EXCEPT ![i] = tool] = us OBVIOUS
  <2>1. DOMAIN ts = DOMAIN ts \cup {i} OBVIOUS
  <2> QED BY <1>1, <2>1 DEF WithOne
<1> QED BY <1>4, <1>5 DEF WithOne

LEMMA ToolsStayOk ==
  ASSUME NEW ts \in ToolStates, ToolsOk(ts), NEW i \in Nat, NEW tool \in ToolState,
         ToolOk(tool), KeepsBlock(ts, i, tool)
  PROVE  LET us == WithOne(ts, i, tool) IN
         ToolsOk(us) /\ Started(us) = Started(ts) /\ ToolBlocks(us) = ToolBlocks(ts)
<1> DEFINE us == WithOne(ts, i, tool)
<1>1. /\ us \in ToolStates /\ DOMAIN us = DOMAIN ts \cup {i} /\ us[i] = tool
      /\ \A j \in DOMAIN ts : j # i => us[j] = ts[j]
  BY ToolIsSet
<1> HIDE DEF us
<1>2. Started(us) = Started(ts) BY <1>1 DEF Started, KeepsBlock
<1>3. \A j \in Started(ts) : us[j].block = ts[j].block BY <1>1 DEF Started, KeepsBlock
<1>4. ToolBlocks(us) = ToolBlocks(ts) BY <1>2, <1>3 DEF ToolBlocks, ToolBlock
<1>5. IsFiniteSet(DOMAIN us) BY <1>1, FS_AddElement DEF ToolsOk
<1>6. \A j, k \in Started(us) : us[j].block = us[k].block => j = k BY <1>2, <1>3 DEF ToolsOk
<1>7. \A j \in DOMAIN us : ToolOk(us[j]) BY <1>1 DEF ToolsOk
<1> QED BY <1>2, <1>4, <1>5, <1>6, <1>7 DEF ToolsOk, us

WithTool(s, i, tool, r) == [s EXCEPT !.tools = WithOne(s.tools, i, tool), !.reader = r]

LEMMA ToolChanges ==
  ASSUME NEW s, BuilderOk(s), NEW i \in Nat, NEW tool \in ToolState, ToolOk(tool),
         KeepsBlock(s.tools, i, tool), NEW r, Good(r),
         r.open = s.reader.open, r.seen = s.reader.seen
  PROVE  LET u == WithTool(s, i, tool, r) IN
         /\ BuilderOk(u) /\ SameContent(s, u) /\ u.failed = s.failed
         /\ DOMAIN u.tools = DOMAIN s.tools \cup {i} /\ u.tools[i] = tool
         /\ Started(u.tools) = Started(s.tools) /\ u.reader = r
<1> DEFINE us == WithOne(s.tools, i, tool)
           u == WithTool(s, i, tool, r)
<1>1. s \in Builders /\ r \in NP!Readers /\ ToolsOk(s.tools) BY DEF BuilderOk, Good
<1>2. s.tools \in ToolStates BY <1>1 DEF Builders
<1>3. us \in ToolStates /\ DOMAIN us = DOMAIN s.tools \cup {i} /\ us[i] = tool
  <2> DEFINE ts == s.tools
  <2>1. ts \in ToolStates BY <1>2
  <2> HIDE DEF ts
  <2>2. WithOne(ts, i, tool) \in ToolStates /\ DOMAIN WithOne(ts, i, tool) = DOMAIN ts \cup {i}
        /\ WithOne(ts, i, tool)[i] = tool
    <3>1. WithOne(ts, i, tool) \in ToolStates BY <2>1, ToolIsSet
    <3> QED BY <3>1 DEF WithOne
  <2> QED BY <2>2 DEF ts
<1>4. ToolsOk(us) /\ Started(us) = Started(s.tools) /\ ToolBlocks(us) = ToolBlocks(s.tools)
  BY <1>1, <1>2, ToolsStayOk
<1>5. u = [s EXCEPT !.tools = us, !.reader = r] BY DEF WithTool
<1> HIDE DEF us, u
<1>6. /\ u \in Builders /\ u.next = s.next /\ u.tools = us /\ u.failed = s.failed /\ u.reader = r
      /\ u.thinking = s.thinking /\ u.thinkingOn = s.thinkingOn /\ u.text = s.text
      /\ u.textOn = s.textOn /\ u.written = s.written
  BY <1>1, <1>3, <1>5 DEF Builders
<1>7. ThinkingBlock(u) = ThinkingBlock(s) /\ TextBlock(u) = TextBlock(s)
  BY <1>6 DEF ThinkingBlock, TextBlock
<1>8. BuilderOk(u) BY <1>4, <1>6, <1>7 DEF BuilderOk
<1> QED BY <1>3, <1>4, <1>6, <1>8 DEF SameContent, u

\* What raises in the transport is found failed.
LEMMA FailedIsOk ==
  ASSUME NEW s, BuilderOk(s)
  PROVE  LET u == [s EXCEPT !.failed = TRUE] IN
         BuilderOk(u) /\ SameContent(s, u) /\ u.tools = s.tools
<1> DEFINE u == [s EXCEPT !.failed = TRUE]
<1>1. s \in Builders BY DEF BuilderOk
<1>2. /\ u \in Builders /\ u.next = s.next /\ u.tools = s.tools /\ u.reader = s.reader
      /\ u.thinking = s.thinking /\ u.thinkingOn = s.thinkingOn /\ u.text = s.text
      /\ u.textOn = s.textOn /\ u.written = s.written
  BY <1>1 DEF Builders
<1> HIDE DEF u
<1>3. ThinkingBlock(u) = ThinkingBlock(s) /\ TextBlock(u) = TextBlock(s)
  BY <1>2 DEF ThinkingBlock, TextBlock
<1>4. BuilderOk(u) BY <1>2, <1>3 DEF BuilderOk
<1> QED BY <1>2, <1>4 DEF SameContent, u

\* The same, with a delta to the block of a tool that has been started
LEMMA ToolIsFed ==
  ASSUME NEW s, BuilderOk(s), NEW i \in Started(s.tools)
  PROVE  LET r == OpenAi!Observe(s.reader, OpenAi!Delta(s.tools[i].block, "tool_use"))
         IN Good(r) /\ r.open = s.reader.open /\ r.seen = s.reader.seen
<1>1. s \in Builders /\ s.tools \in ToolStates /\ Good(s.reader) BY DEF BuilderOk, Builders
<1>2. s.tools[i] \in ToolState BY <1>1 DEF ToolStates, Started
<1>3. s.tools[i].block \in Int BY <1>2 DEF ToolState
<1>4. <<s.tools[i].block, "tool_use">> \in s.reader.open BY DEF BuilderOk, ToolBlocks, ToolBlock
<1> QED BY <1>1, <1>3, <1>4, GoodDelta DEF Blocks

\* A tool that has a name is started.
LEMMA ToolStarts ==
  ASSUME NEW s, BuilderOk(s), NEW i \in DOMAIN s.tools, ~s.tools[i].started, s.tools[i].name # <<>>
  PROVE  LET u == OpenAi!StartToolBlock(s, i) IN
         /\ BuilderOk(u) /\ SameContent(s, u) /\ u.failed = s.failed
         /\ DOMAIN u.tools = DOMAIN s.tools /\ i \in Started(u.tools)
         /\ u.tools[i].name = s.tools[i].name
<1> DEFINE u == OpenAi!StartToolBlock(s, i)
           r == OpenAi!Observe(s.reader, OpenAi!Start(s.next, "tool_use"))
           x == <<s.next, "tool_use">>
           ts == s.tools
           tool == [ts[i] EXCEPT !.block = s.next, !.started = TRUE, !.called = ts[i].name]
           us == [ts EXCEPT ![i] = tool]
<1>1. s \in Builders /\ Good(s.reader) /\ ToolsOk(ts) BY DEF BuilderOk
<1>2. s.next \in Int /\ s.next \notin s.reader.seen BY DEF BuilderOk, Builders
<1>3. Good(r) /\ r.open = s.reader.open \cup {x} /\ r.seen = s.reader.seen \cup {s.next}
  BY <1>1, <1>2, GoodStart DEF Blocks
<1>4. ts \in ToolStates /\ DOMAIN ts \in SUBSET Nat /\ ts \in [DOMAIN ts -> ToolState]
  BY <1>1 DEF Builders, ToolStates
<1>5. i \in Nat /\ ts[i] \in ToolState BY <1>4
<1>6. u = [s EXCEPT !.next = s.next + 1, !.tools = us, !.reader = r]
  BY <1>1, <1>4, <1>5, ZenonT(60) DEF OpenAi!StartToolBlock, OpenAi!Emit, Builders, ToolState
<1>7. s.next \in Nat /\ s.next + 1 \in Nat /\ s.next \in Int /\ r \in NP!Readers
  BY <1>1, <1>3 DEF Builders, Good
<1>8. /\ tool \in ToolState /\ tool.started /\ tool.block = s.next /\ tool.name = ts[i].name
      /\ tool.raw = ts[i].raw /\ tool.called = ts[i].name
  BY <1>5, <1>7 DEF ToolState
<1>9. ToolOk(ts[i]) /\ ToolOk(tool) BY <1>1, <1>8 DEF ToolsOk, ToolOk
<1> HIDE DEF r, u, x, tool
<1>10. us \in ToolStates /\ DOMAIN us = DOMAIN ts /\ us[i] = tool
       /\ \A j \in DOMAIN ts : j # i => us[j] = ts[j]
  BY <1>4, <1>8 DEF ToolStates
<1> HIDE DEF us, ts
<1>11. /\ u \in Builders /\ u.next = s.next + 1 /\ u.tools = us /\ u.reader = r /\ u.failed = s.failed
       /\ u.thinking = s.thinking /\ u.thinkingOn = s.thinkingOn /\ u.text = s.text
       /\ u.textOn = s.textOn /\ u.written = s.written
  BY <1>1, <1>6, <1>7, <1>10 DEF Builders
<1>12. ThinkingBlock(u) = ThinkingBlock(s) /\ TextBlock(u) = TextBlock(s)
  BY <1>11 DEF ThinkingBlock, TextBlock
<1>13. i \in DOMAIN ts /\ ~ts[i].started BY DEF ts
<1>14. Started(us) = Started(ts) \cup {i} /\ i \notin Started(ts)
  BY <1>8, <1>10, <1>13 DEF Started
<1>15. \A j \in Started(ts) : us[j] = ts[j] BY <1>10, <1>14 DEF Started
<1>16. ToolBlocks(us) = ToolBlocks(ts) \cup {x}
  <2>1. ToolBlock(us, i) = x BY <1>8, <1>10 DEF ToolBlock, x
  <2>2. \A j \in Started(ts) : ToolBlock(us, j) = ToolBlock(ts, j) BY <1>15 DEF ToolBlock
  <2> QED BY <1>14, <2>1, <2>2 DEF ToolBlocks
<1>17. \A j \in Started(ts) : ts[j].block # s.next
  <2> TAKE j \in Started(ts)
  <2> DEFINE y == ToolBlock(ts, j)
  <2>1. y[1] = ts[j].block BY DEF ToolBlock
  <2>2. y \in s.reader.open BY DEF BuilderOk, ToolBlocks, ts
  <2> HIDE DEF y
  <2>3. y[1] \in s.reader.seen BY <1>1, <2>2 DEF Good, NP!OpenIndices
  <2> QED BY <1>2, <2>1, <2>3
<1>18. ToolsOk(us)
  <2>1. \A j, k \in Started(us) : us[j].block = us[k].block => j = k
    BY <1>1, <1>8, <1>10, <1>14, <1>15, <1>17 DEF ToolsOk
  <2>2. \A j \in DOMAIN us : ToolOk(us[j]) BY <1>1, <1>9, <1>10 DEF ToolsOk
  <2>3. IsFiniteSet(DOMAIN us) BY <1>1, <1>10 DEF ToolsOk
  <2> QED BY <2>1, <2>2, <2>3 DEF ToolsOk
<1>19. u.reader.open = ThinkingBlock(u) \cup TextBlock(u) \cup ToolBlocks(u.tools)
  BY <1>3, <1>11, <1>12, <1>16 DEF BuilderOk, ts
<1>20. \A k \in u.reader.seen : k < u.next
  <2>1. s.reader.seen \in SUBSET Int BY <1>1 DEF Good, NP!Readers
  <2> QED BY <1>3, <1>7, <1>11, <2>1 DEF BuilderOk
<1>21. u.reader.seen # {} BY <1>3, <1>11
<1>22. BuilderOk(u) BY <1>3, <1>11, <1>18, <1>19, <1>20, <1>21 DEF BuilderOk
<1> QED BY <1>8, <1>10, <1>11, <1>14, <1>22 DEF SameContent, u, ts

\* A tool becomes another with the same block, and the client may be told.
Replaced(s, i, tool, r) == [s EXCEPT !.tools = [s.tools EXCEPT ![i] = tool], !.reader = r]

LEMMA ToolReplaced ==
  ASSUME NEW s, BuilderOk(s), NEW i \in DOMAIN s.tools, NEW tool \in ToolState, ToolOk(tool),
         tool.started = s.tools[i].started, tool.block = s.tools[i].block,
         NEW r, Good(r), r.open = s.reader.open, r.seen = s.reader.seen
  PROVE  LET u == Replaced(s, i, tool, r) IN
         /\ BuilderOk(u) /\ SameContent(s, u) /\ DOMAIN u.tools = DOMAIN s.tools
         /\ Started(u.tools) = Started(s.tools) /\ u.reader = r
<1> DEFINE ts == s.tools
           u == Replaced(s, i, tool, r)
           w == WithTool(s, i, tool, r)
<1>1. s \in Builders BY DEF BuilderOk
<1>2. ts \in ToolStates /\ DOMAIN ts \in SUBSET Nat /\ ts \in [DOMAIN ts -> ToolState]
  BY <1>1 DEF Builders, ToolStates
<1>3. i \in Nat /\ i \in DOMAIN ts BY <1>2
<1>4. KeepsBlock(s.tools, i, tool) BY DEF KeepsBlock
<1>5. [ts EXCEPT ![i] = tool] = WithOne(ts, i, tool)
  <2>1. DOMAIN ts \cup {i} = DOMAIN ts BY <1>3
  <2> HIDE DEF ts
  <2> QED BY <1>2, <1>3, <2>1 DEF WithOne
<1>6. u = w BY <1>5 DEF Replaced, WithTool
<1> HIDE DEF u, w
<1>7. /\ BuilderOk(w) /\ SameContent(s, w) /\ DOMAIN w.tools = DOMAIN s.tools \cup {i}
      /\ Started(w.tools) = Started(s.tools) /\ w.reader = r
  BY <1>3, <1>4, ToolChanges DEF w
<1>8. DOMAIN s.tools \cup {i} = DOMAIN s.tools OBVIOUS
<1> QED BY <1>6, <1>7, <1>8 DEF u

\* Task's arguments are sent as one object, or given up.
LEMMA TaskArgsEmitted ==
  ASSUME NEW s, BuilderOk(s), NEW i \in Started(s.tools)
  PROVE  LET u == OpenAi!EmitToolDelta([s EXCEPT !.tools[i].buffer = <<>>, !.tools[i].emitted = TRUE], i)
         IN  /\ BuilderOk(u) /\ SameContent(s, u) /\ DOMAIN u.tools = DOMAIN s.tools
             /\ Started(u.tools) = Started(s.tools) /\ u.reader.seen = s.reader.seen
<1> DEFINE ts == s.tools
           tool == [ts[i] EXCEPT !.buffer = <<>>, !.emitted = TRUE]
           r == OpenAi!Observe(s.reader, OpenAi!Delta(ts[i].block, "tool_use"))
           v == [s EXCEPT !.tools[i].buffer = <<>>, !.tools[i].emitted = TRUE]
           u == OpenAi!EmitToolDelta(v, i)
<1>1. s \in Builders /\ ToolsOk(ts) BY DEF BuilderOk
<1>2. ts \in ToolStates /\ ts \in [DOMAIN ts -> ToolState] BY <1>1 DEF Builders, ToolStates
<1>3. i \in DOMAIN ts /\ ts[i] \in ToolState /\ ts[i].started BY <1>2 DEF Started
<1>4. ToolOk(ts[i]) BY <1>1, <1>3 DEF ToolsOk
<1>5. Good(r) /\ r.open = s.reader.open /\ r.seen = s.reader.seen BY ToolIsFed
<1>6. <<>> \in Seq(STRING) OBVIOUS
<1>7. /\ tool \in ToolState /\ tool.started /\ tool.block = ts[i].block
      /\ tool.name = ts[i].name /\ tool.raw = ts[i].raw /\ tool.called = ts[i].called
  BY <1>3, <1>6 DEF ToolState
<1>8. ToolOk(tool)
  <2> HIDE DEF tool
  <2> QED BY <1>3, <1>4, <1>7 DEF ToolOk
<1>9. v = [s EXCEPT !.tools = [ts EXCEPT ![i] = tool]]
  BY <1>1, <1>2, <1>3 DEF Builders, ToolState
<1>10. v.reader = s.reader /\ v.tools[i].block = ts[i].block
  BY <1>1, <1>2, <1>3, <1>9 DEF Builders, ToolState
<1> HIDE DEF v
<1>11. u = [v EXCEPT !.reader = r]
  <2> HIDE DEF ts, tool
  <2> QED BY <1>10 DEF OpenAi!EmitToolDelta, OpenAi!Emit, r
<1> HIDE DEF u, r
<1>12. u = [[s EXCEPT !.tools = [ts EXCEPT ![i] = tool]] EXCEPT !.reader = r] BY <1>9, <1>11
<1> HIDE DEF tool
<1>13. u = Replaced(s, i, tool, r)
  <2> DEFINE us == [ts EXCEPT ![i] = tool]
  <2>1. u = [[s EXCEPT !.tools = us] EXCEPT !.reader = r] BY <1>12
  <2>2. us = [s.tools EXCEPT ![i] = tool] OBVIOUS
  <2> HIDE DEF us, ts
  <2>3. u = [s EXCEPT !.tools = us, !.reader = r] BY <1>1, <2>1 DEF Builders
  <2> QED BY <2>2, <2>3 DEF Replaced
<1> DEFINE w == Replaced(s, i, tool, r)
<1>14. /\ BuilderOk(w) /\ SameContent(s, w) /\ DOMAIN w.tools = DOMAIN s.tools
       /\ Started(w.tools) = Started(s.tools) /\ w.reader = r
  <2>1. /\ i \in DOMAIN s.tools /\ tool \in ToolState
        /\ tool.started = s.tools[i].started /\ tool.block = s.tools[i].block
    BY <1>3, <1>7
  <2> HIDE DEF ts
  <2> QED BY <1>5, <1>8, <2>1, ToolReplaced
<1> HIDE DEF w
<1> QED BY <1>5, <1>13, <1>14 DEF u, v, w

\* _emit_tool_arg_delta, for a tool that has been started
LEMMA ArgsEmitted ==
  ASSUME NEW s, BuilderOk(s), NEW i \in Started(s.tools), NEW args \in Seq(STRING)
  PROVE  LET u == OpenAi!EmitToolArgs(s, i, args) IN
         /\ BuilderOk(u) /\ SameContent(s, u) /\ DOMAIN u.tools = DOMAIN s.tools
         /\ Started(u.tools) = Started(s.tools)
<1> DEFINE u == OpenAi!EmitToolArgs(s, i, args)
           ts == s.tools
           r == OpenAi!Observe(s.reader, OpenAi!Delta(ts[i].block, "tool_use"))
           kept == ts[i].buffer \o args
<1>1. s \in Builders /\ Good(s.reader) /\ ToolsOk(ts) BY DEF BuilderOk
<1>2. ts \in ToolStates /\ ts \in [DOMAIN ts -> ToolState] BY <1>1 DEF Builders, ToolStates
<1>3. i \in DOMAIN ts /\ ts[i] \in ToolState /\ ts[i].started BY <1>2 DEF Started
<1>4. ToolOk(ts[i]) BY <1>1, <1>3 DEF ToolsOk
<1>5. Good(r) /\ r.open = s.reader.open /\ r.seen = s.reader.seen BY ToolIsFed
<1> HIDE DEF r, kept
<1>8. CASE args = <<>> BY <1>8 DEF OpenAi!EmitToolArgs, SameContent
<1>9. CASE args # <<>> /\ ts[i].name # OpenAi!TaskName
  <2> DEFINE tool == [ts[i] EXCEPT !.raw = TRUE]
             w == Replaced(s, i, tool, r)
  <2>0. /\ tool \in ToolState /\ tool.started /\ tool.block = ts[i].block
        /\ tool.name = ts[i].name /\ tool.called = ts[i].called
    BY <1>3 DEF ToolState
  <2>1. tool \in ToolState /\ ToolOk(tool) /\ tool.started /\ tool.block = ts[i].block
    <3> HIDE DEF tool
    <3> QED BY <1>3, <1>4, <1>9, <2>0 DEF ToolOk
  <2>2. u = [s EXCEPT !.tools = [ts EXCEPT ![i] = tool], !.reader = r]
    BY <1>1, <1>2, <1>3, <1>9
       DEF OpenAi!EmitToolArgs, OpenAi!EmitToolDelta, OpenAi!Emit, Builders, r, ToolState
  <2> HIDE DEF tool, u
  <2>3. u = w BY <2>2 DEF Replaced
  <2>4. /\ BuilderOk(w) /\ SameContent(s, w) /\ DOMAIN w.tools = DOMAIN s.tools
        /\ Started(w.tools) = Started(s.tools) /\ w.reader = r
    BY <1>3, <1>5, <2>1, ToolReplaced
  <2> HIDE DEF w
  <2> QED BY <2>3, <2>4 DEF u
<1>10. CASE args # <<>> /\ ts[i].name = OpenAi!TaskName
  <2>0. u = OpenAi!BufferTaskArgs(s, i, args) BY <1>10 DEF OpenAi!EmitToolArgs
  <2>1. CASE ts[i].emitted BY <2>0, <2>1 DEF OpenAi!BufferTaskArgs, SameContent
  <2>a. kept \in Seq(STRING) BY <1>3 DEF kept, ToolState
  <2>2. CASE ~ts[i].emitted /\ OpenAi!Parsed(kept) = "object"
    <3> DEFINE w == OpenAi!EmitToolDelta([s EXCEPT !.tools[i].buffer = <<>>, !.tools[i].emitted = TRUE], i)
    <3>1. u = w BY <2>0, <2>2 DEF OpenAi!BufferTaskArgs, kept
    <3>2. /\ BuilderOk(w) /\ SameContent(s, w) /\ DOMAIN w.tools = DOMAIN s.tools
          /\ Started(w.tools) = Started(s.tools)
      BY TaskArgsEmitted
    <3> HIDE DEF u, w
    <3> QED BY <3>1, <3>2 DEF u
  <2>3. CASE ~ts[i].emitted /\ OpenAi!Parsed(kept) # "object"
    <3> DEFINE tool == [ts[i] EXCEPT !.buffer = kept]
               v == [s EXCEPT !.tools[i].buffer = kept]
               w == Replaced(s, i, tool, s.reader)
    <3>1. tool \in ToolState /\ ToolOk(tool) /\ tool.started /\ tool.block = ts[i].block
      BY <1>3, <1>4, <2>a DEF ToolState, ToolOk
    <3>2. v = [s EXCEPT !.tools = [ts EXCEPT ![i] = tool], !.reader = s.reader]
      BY <1>1, <1>2, <1>3 DEF Builders, ToolState
    <3>3. u = IF OpenAi!Parsed(kept) = "number" THEN [v EXCEPT !.failed = TRUE] ELSE v
      BY <2>0, <2>3 DEF OpenAi!BufferTaskArgs, kept
    <3> HIDE DEF tool, u, v
    <3>4. v = w BY <3>2 DEF Replaced
    <3>5. /\ BuilderOk(w) /\ SameContent(s, w) /\ DOMAIN w.tools = DOMAIN s.tools
          /\ Started(w.tools) = Started(s.tools) /\ w.reader = s.reader
      BY <1>1, <1>3, <3>1, ToolReplaced
    <3> HIDE DEF w
    <3>6. /\ BuilderOk([v EXCEPT !.failed = TRUE]) /\ SameContent(v, [v EXCEPT !.failed = TRUE])
          /\ [v EXCEPT !.failed = TRUE].tools = v.tools
      BY <3>4, <3>5, FailedIsOk
    <3>7. CASE OpenAi!Parsed(kept) = "number"
      <4>1. u = [v EXCEPT !.failed = TRUE] BY <3>3, <3>7
      <4>2. BuilderOk(u) /\ SameContent(v, u) /\ u.tools = v.tools BY <3>6, <4>1
      <4> QED BY <3>4, <3>5, <4>2 DEF SameContent, u
    <3>8. CASE OpenAi!Parsed(kept) # "number"
      <4>1. u = v BY <3>3, <3>8
      <4> QED BY <3>4, <3>5, <4>1 DEF u
    <3> QED BY <3>7, <3>8
  <2> QED BY <2>1, <2>2, <2>3
<1> QED BY <1>8, <1>9, <1>10

LEMMA PrefixIs ==
  ASSUME NEW p \in Seq(Pieces), NEW q \in Seq(Pieces)
  PROVE  OpenAi!IsPrefix(p, q) <=> Len(p) <= Len(q) /\ \A k \in 1..Len(p) : p[k] = q[k]
<1>0. Len(p) \in Nat /\ Len(q) \in Nat OBVIOUS
<1>1. SubSeq(p, 1, Len(p)) = p OBVIOUS
<1>2. CASE Len(p) <= Len(q)
  <2> DEFINE t == SubSeq(q, 1, Len(p))
  <2>1. t \in Seq(Pieces) /\ Len(t) = Len(p) BY <1>0, <1>2
  <2>2. \A k \in 1..Len(p) : t[k] = q[k] BY <1>0, <1>2
  <2>3. OpenAi!IsPrefix(p, q) <=> p = t BY <1>1, <1>2 DEF OpenAi!IsPrefix
  <2> HIDE DEF t
  <2>4. p = t <=> \A k \in 1..Len(p) : p[k] = t[k]
    <3> SUFFICES ASSUME \A k \in 1..Len(p) : p[k] = t[k] PROVE p = t OBVIOUS
    <3> QED BY <2>1, SeqEqual
  <2> QED BY <1>2, <2>2, <2>3, <2>4
<1>3. CASE ~(Len(p) <= Len(q)) BY <1>3 DEF OpenAi!IsPrefix
<1> QED BY <1>2, <1>3

\* A name never gets shorter, and one that is Task stays so or gets longer.
LEMMA MergedIsOk ==
  ASSUME NEW prev \in Seq(Pieces), NEW name \in Seq(Pieces)
  PROVE  LET m == OpenAi!MergedName(prev, name) IN
         /\ m \in Seq(Pieces) /\ Len(prev) \in Nat /\ Len(m) \in Nat
         /\ Len(prev) <= Len(m)
         /\ prev # <<>> => m # <<>>
         /\ prev = OpenAi!TaskName => m = OpenAi!TaskName \/ Len(m) > 2
<1>0. /\ OpenAi!TaskName \in Seq(Pieces) /\ Len(OpenAi!TaskName) = 2
      /\ <<>> \in Seq(Pieces) /\ Len(<<>>) = 0
  <2>1. "Ta" \in Pieces /\ "sk" \in Pieces BY DEF Pieces
  <2>2. ASSUME NEW A, NEW a \in A, NEW b \in A
        PROVE  <<a, b>> \in Seq(A) /\ Len(<<a, b>>) = 2 /\ <<>> \in Seq(A) /\ Len(<<>>) = 0
    OBVIOUS
  <2>3. <<"Ta", "sk">> \in Seq(Pieces) /\ Len(<<"Ta", "sk">>) = 2 /\ <<>> \in Seq(Pieces)
        /\ Len(<<>>) = 0
    BY ONLY <2>1, <2>2
  <2> QED BY <2>3 DEF OpenAi!TaskName
<1> DEFINE T == OpenAi!TaskName
           m == OpenAi!MergedName(prev, name)
           both == prev \o name
<1>1. T \in Seq(Pieces) /\ Len(T) = 2 BY <1>0
<1>2. both \in Seq(Pieces) /\ Len(both) = Len(prev) + Len(name) OBVIOUS
<1>3. Len(prev) \in Nat /\ Len(name) \in Nat OBVIOUS
<1> HIDE DEF T, both, m
<1>4. m \in Seq(Pieces) /\ Len(prev) <= Len(m) /\ (prev = T => m = T \/ Len(m) > 2)
  <2>1. CASE OpenAi!IsPrefix(prev, name)
    <3>1. m = name BY <2>1 DEF m, OpenAi!MergedName
    <3>2. Len(prev) <= Len(name) /\ \A k \in 1..Len(prev) : prev[k] = name[k] BY <2>1, PrefixIs
    <3>3. ASSUME prev = T, Len(name) <= 2 PROVE name = T
      <4>1. Len(name) = 2 BY <1>1, <1>3, <3>2, <3>3
      <4>2. \A k \in 1..Len(name) : name[k] = T[k] BY <1>1, <3>2, <3>3, <4>1
      <4> QED BY <1>1, <4>1, <4>2, SeqEqual
    <3> QED BY <1>3, <3>1, <3>2, <3>3
  <2>2. CASE ~OpenAi!IsPrefix(prev, name) /\ OpenAi!IsPrefix(name, prev)
    <3>1. m = prev BY <2>2 DEF m, OpenAi!MergedName
    <3> QED BY <1>3, <3>1
  <2>3. CASE ~OpenAi!IsPrefix(prev, name) /\ ~OpenAi!IsPrefix(name, prev)
    <3>1. m = both BY <2>3 DEF m, both, OpenAi!MergedName
    <3>2. Len(name) # 0
      <4> SUFFICES ASSUME Len(name) = 0 PROVE FALSE OBVIOUS
      <4>1. Len(name) <= Len(prev) /\ \A k \in 1..Len(name) : FALSE BY <1>3
      <4> QED BY <2>3, <4>1, PrefixIs
    <3>3. Len(prev) <= Len(both) BY <1>2, <1>3
    <3>4. prev = T => Len(both) > 2 BY <1>1, <1>2, <1>3, <3>2
    <3> QED BY <1>2, <3>1, <3>3, <3>4
  <2> QED BY <2>1, <2>2, <2>3
<1>5. Len(m) \in Nat BY <1>4
<1>6. prev # <<>> => m # <<>>
  <2> SUFFICES ASSUME m = <<>> PROVE prev = <<>> OBVIOUS
  <2>1. Len(m) = 0 BY <1>0
  <2>2. Len(prev) = 0 BY <1>3, <1>4, <2>1
  <2> QED BY <2>2
<1> QED BY <1>3, <1>4, <1>5, <1>6 DEF m, T

\* register_tool_name
LEMMA NameRegistered ==
  ASSUME NEW s, BuilderOk(s), NEW i \in Nat, NEW name \in Seq(Pieces)
  PROVE  LET u == OpenAi!RegisterToolName(s, i, name) IN
         /\ BuilderOk(u) /\ SameContent(s, u) /\ i \in DOMAIN u.tools
<1> DEFINE ts == s.tools
           old == IF i \in DOMAIN ts THEN ts[i] ELSE OpenAi!NewTool
           merged == OpenAi!MergedName(old.name, name)
           tool == [old EXCEPT !.name = merged]
           u == OpenAi!RegisterToolName(s, i, name)
           c == OpenAi!EnsureToolState(s, i)
           all == WithOne(ts, i, old)
<1>1. s \in Builders /\ Good(s.reader) /\ ToolsOk(ts) BY DEF BuilderOk
<1>2. ts \in ToolStates /\ DOMAIN ts \in SUBSET Nat /\ ts \in [DOMAIN ts -> ToolState]
  BY <1>1 DEF Builders, ToolStates
<1>3. OpenAi!NewTool \in ToolState /\ ToolOk(OpenAi!NewTool) /\ ~OpenAi!NewTool.started
  <2>1. <<>> \in Seq(Pieces) /\ <<>> \in Seq(STRING) /\ -1 \in Int OBVIOUS
  <2> QED BY <2>1 DEF OpenAi!NewTool, ToolState, ToolOk
<1>4. old \in ToolState /\ ToolOk(old) BY <1>1, <1>2, <1>3 DEF ToolsOk
<1>5. i \in DOMAIN ts => old = ts[i] OBVIOUS
<1>6. i \notin DOMAIN ts => ~old.started BY <1>3
<1>7. c = [s EXCEPT !.tools = all]
  <2>1. CASE i \in DOMAIN ts
    <3>1. DOMAIN ts \cup {i} = DOMAIN ts BY <2>1
    <3>2. all = ts BY <1>2, <2>1, <3>1 DEF WithOne
    <3> HIDE DEF all
    <3> QED BY <1>1, <2>1, <3>2 DEF OpenAi!EnsureToolState, Builders
  <2>2. CASE i \notin DOMAIN ts BY <1>1, <2>2 DEF OpenAi!EnsureToolState, Builders, WithOne
  <2> QED BY <2>1, <2>2
<1> HIDE DEF old, merged, tool, u, c
<1>8. old.name \in Seq(Pieces) BY <1>4 DEF ToolState
<1>9. /\ merged \in Seq(Pieces) /\ (old.name # <<>> => merged # <<>>)
      /\ Len(old.name) \in Nat /\ Len(merged) \in Nat /\ Len(old.name) <= Len(merged)
      /\ old.name = OpenAi!TaskName => merged = OpenAi!TaskName \/ Len(merged) > 2
  BY <1>8, MergedIsOk DEF merged
<1>10. /\ tool \in ToolState /\ tool.started = old.started /\ tool.block = old.block
       /\ tool.called = old.called /\ tool.name = merged /\ tool.buffer = old.buffer /\ tool.raw = old.raw
  BY <1>4, <1>9 DEF ToolState, tool
<1>11. ToolOk(tool)
  <2>1. tool.started => tool.name # <<>> BY <1>4, <1>9, <1>10 DEF ToolOk
  <2>2. ~tool.started => tool.buffer = <<>> /\ ~tool.raw BY <1>4, <1>10 DEF ToolOk
  <2>3. ASSUME tool.started, tool.called = OpenAi!TaskName
        PROVE  /\ tool.name = OpenAi!TaskName \/ Len(tool.name) > 2
               /\ tool.raw => Len(tool.name) > 2
    <3>1. /\ old.name = OpenAi!TaskName \/ Len(old.name) > 2
          /\ old.raw => Len(old.name) > 2
      BY <1>4, <1>10, <2>3 DEF ToolOk
    <3>2. Len(old.name) > 2 => Len(merged) > 2 BY <1>9
    <3> QED BY <1>9, <1>10, <3>1, <3>2
  <2> QED BY <2>1, <2>2, <2>3 DEF ToolOk
<1>12. KeepsBlock(ts, i, tool) BY <1>5, <1>6, <1>10 DEF KeepsBlock
<1>13. u = WithTool(s, i, tool, s.reader)
  <2>1. all \in ToolStates /\ i \in DOMAIN all /\ all[i] = old
    <3>1. ASSUME NEW xs \in ToolStates
          PROVE  WithOne(xs, i, old) \in ToolStates /\ i \in DOMAIN WithOne(xs, i, old) /\ WithOne(xs, i, old)[i] = old
      <4> HIDE DEF all, ts
      <4>1. old \in ToolState BY <1>4
      <4>2. WithOne(xs, i, old) \in ToolStates BY <4>1, ToolIsSet
      <4>3. DOMAIN WithOne(xs, i, old) = DOMAIN xs \cup {i} BY <4>1, ToolIsSet
      <4>4. WithOne(xs, i, old)[i] = old BY DEF WithOne
      <4> QED BY <4>2, <4>3, <4>4
    <3> QED BY <1>2, <3>1
  <2>2. u = [c EXCEPT !.tools[i].name = OpenAi!MergedName(c.tools[i].name, name)]
    BY DEF OpenAi!RegisterToolName, u, c
  <2>3. c.tools = all BY <1>1, <1>7 DEF Builders
  <2>4. u = [c EXCEPT !.tools = [all EXCEPT ![i] = tool]]
    <3> HIDE DEF all, ts
    <3>1. c.tools[i].name = old.name BY <2>1, <2>3
    <3>2. u = [c EXCEPT !.tools[i].name = merged] BY <2>2, <3>1 DEF merged
    <3>3. u = [c EXCEPT !.tools = [c.tools EXCEPT ![i] = [c.tools[i] EXCEPT !.name = merged]]]
      BY <3>2
    <3> QED BY <2>1, <2>3, <3>3 DEF tool
  <2>5. [all EXCEPT ![i] = tool] = WithOne(ts, i, tool)
    BY <1>2 DEF WithOne
  <2> HIDE DEF all
  <2> DEFINE us == WithOne(ts, i, tool)
  <2>6. u = [s EXCEPT !.tools = us]
    <3>1. u = [c EXCEPT !.tools = us] BY <2>4, <2>5
    <3> HIDE DEF us, ts
    <3> QED BY <1>1, <1>7, <3>1 DEF Builders
  <2>7. u = [s EXCEPT !.tools = us, !.reader = s.reader]
    <3>1. u = [s EXCEPT !.tools = us] BY <2>6
    <3> HIDE DEF us
    <3> QED BY <1>1, <3>1 DEF Builders
  <2> QED BY <2>7 DEF WithTool
<1> DEFINE w == WithTool(s, i, tool, s.reader)
<1>14. /\ BuilderOk(w) /\ SameContent(s, w) /\ DOMAIN w.tools = DOMAIN s.tools \cup {i}
  BY <1>1, <1>10, <1>11, <1>12, ToolChanges
<1>15. u = w BY <1>13
<1> HIDE DEF w
<1> QED BY <1>14, <1>15 DEF u

\* set_pre_start_args
LEMMA PreIsSet ==
  ASSUME NEW s, BuilderOk(s), NEW i \in DOMAIN s.tools, NEW p \in Seq(STRING)
  PROVE  LET u == [s EXCEPT !.tools[i].pre = p] IN
         /\ BuilderOk(u) /\ SameContent(s, u) /\ DOMAIN u.tools = DOMAIN s.tools
         /\ Started(u.tools) = Started(s.tools)
<1> DEFINE ts == s.tools
           tool == [ts[i] EXCEPT !.pre = p]
           u == [s EXCEPT !.tools[i].pre = p]
           w == Replaced(s, i, tool, s.reader)
<1>1. s \in Builders /\ Good(s.reader) /\ ToolsOk(ts) BY DEF BuilderOk
<1>2. ts \in ToolStates /\ ts \in [DOMAIN ts -> ToolState] BY <1>1 DEF Builders, ToolStates
<1>3. i \in DOMAIN ts /\ ts[i] \in ToolState BY <1>2
<1>4. ToolOk(ts[i]) BY <1>1, <1>3 DEF ToolsOk
<1>5. /\ tool \in ToolState /\ tool.started = ts[i].started /\ tool.block = ts[i].block
      /\ tool.name = ts[i].name /\ tool.buffer = ts[i].buffer /\ tool.raw = ts[i].raw
      /\ tool.called = ts[i].called
  BY <1>3 DEF ToolState
<1>6. u = [s EXCEPT !.tools = [ts EXCEPT ![i] = tool], !.reader = s.reader]
  BY <1>1, <1>2, <1>3 DEF Builders, ToolState
<1> HIDE DEF tool, u
<1>7. ToolOk(tool) BY <1>4, <1>5 DEF ToolOk
<1>8. u = w BY <1>6 DEF Replaced
<1>9. /\ BuilderOk(w) /\ SameContent(s, w) /\ DOMAIN w.tools = DOMAIN s.tools
      /\ Started(w.tools) = Started(s.tools)
  BY <1>1, <1>3, <1>5, <1>7, ToolReplaced
<1> HIDE DEF w
<1> QED BY <1>8, <1>9 DEF u

\* A tool is started by the first delta after which it has a name.
LEMMA NamedStarts ==
  ASSUME NEW s, BuilderOk(s), NEW i \in DOMAIN s.tools
  PROVE  LET u == OpenAi!StartNamedTool(s, i) IN
         BuilderOk(u) /\ SameContent(s, u) /\ i \in DOMAIN u.tools
<1> DEFINE u == OpenAi!StartNamedTool(s, i)
           c == OpenAi!StartToolBlock(s, i)
           d == [c EXCEPT !.tools[i].pre = <<>>]
           pre == s.tools[i].pre
           e == OpenAi!EmitToolArgs(d, i, pre)
<1>1. CASE s.tools[i].started \/ s.tools[i].name = <<>>
  BY <1>1 DEF OpenAi!StartNamedTool, SameContent
<1>2. CASE ~s.tools[i].started /\ s.tools[i].name # <<>>
  <2>1. u = e BY <1>2 DEF OpenAi!StartNamedTool
  <2>2. BuilderOk(c) /\ SameContent(s, c) /\ i \in DOMAIN c.tools /\ i \in Started(c.tools)
    BY <1>2, ToolStarts
  <2>3. pre \in Seq(STRING)
    <3>1. s.tools \in ToolStates BY DEF BuilderOk, Builders
    <3> QED BY <3>1 DEF ToolStates, ToolState
  <2>4. <<>> \in Seq(STRING) OBVIOUS
  <2> HIDE DEF c, pre
  <2>5. BuilderOk(d) /\ SameContent(c, d) /\ i \in Started(d.tools) BY <2>2, <2>4, PreIsSet
  <2> HIDE DEF d
  <2>6. BuilderOk(e) /\ SameContent(d, e) /\ i \in Started(e.tools) BY <2>3, <2>5, ArgsEmitted
  <2> HIDE DEF e, u
  <2> QED BY <2>1, <2>2, <2>5, <2>6 DEF SameContent, Started, u
<1> QED BY <1>1, <1>2

\* _process_tool_call
LEMMA ToolCallProcessed ==
  ASSUME NEW s, BuilderOk(s), NEW tc \in ToolDeltas
  PROVE  LET u == OpenAi!ProcessToolCall(s, tc) IN BuilderOk(u) /\ SameContent(s, u)
<1> DEFINE i == IF tc.index < 0 THEN Cardinality(DOMAIN s.tools) ELSE tc.index
           a == OpenAi!RegisterToolName(s, i, tc.name)
           c == OpenAi!StartNamedTool(a, i)
           u == OpenAi!ProcessToolCall(s, tc)
<1>1. tc.index \in Int /\ tc.name \in Seq(Pieces) /\ tc.args \in Seq(STRING)
  <2>1. tc.name \in Seq(STRING) BY ToolDeltasAreDeltas
  <2>2. STRING \subseteq Pieces BY DEF Pieces
  <2>a. ASSUME NEW A, NEW B, A \subseteq B, NEW q \in Seq(A) PROVE q \in Seq(B)
    BY <2>a
  <2>3. tc.name \in Seq(Pieces) BY <2>1, <2>2, <2>a
  <2> QED BY <2>3, ToolDeltasAreDeltas
<1>2. i \in Nat
  <2>1. IsFiniteSet(DOMAIN s.tools) BY DEF BuilderOk, ToolsOk
  <2>2. Cardinality(DOMAIN s.tools) \in Nat BY <2>1, FS_CardinalityType
  <2> QED BY <1>1, <2>2
<1>3. u = IF c.failed THEN c
          ELSE IF c.tools[i].started THEN OpenAi!EmitToolArgs(c, i, tc.args)
          ELSE [c EXCEPT !.tools[i].pre = c.tools[i].pre \o tc.args]
  <2>1. OpenAi!Cardinality(DOMAIN s.tools) = Cardinality(DOMAIN s.tools)
    BY DEF OpenAi!Cardinality, Cardinality
  <2> HIDE DEF a, c
  <2>2. c = OpenAi!StartNamedTool(OpenAi!RegisterToolName(s, i, tc.name), i) BY DEF a, c
  <2>3. (IF tc.index < 0 THEN OpenAi!Cardinality(DOMAIN s.tools) ELSE tc.index) = i BY <2>1
  <2> HIDE DEF i
  <2> QED BY <2>2, <2>3 DEF OpenAi!ProcessToolCall
<1> HIDE DEF i, u
<1>5. BuilderOk(a) /\ SameContent(s, a) /\ i \in DOMAIN a.tools BY <1>1, <1>2, NameRegistered
<1> HIDE DEF a
<1>6. BuilderOk(c) /\ SameContent(a, c) /\ i \in DOMAIN c.tools BY <1>5, NamedStarts
<1> HIDE DEF c
<1>7. CASE c.failed BY <1>3, <1>5, <1>6, <1>7 DEF SameContent, u
<1>8. CASE ~c.failed /\ c.tools[i].started
  <2> DEFINE e == OpenAi!EmitToolArgs(c, i, tc.args)
  <2>1. i \in Started(c.tools) BY <1>6, <1>8 DEF Started
  <2>2. BuilderOk(e) /\ SameContent(c, e) BY <1>1, <1>6, <2>1, ArgsEmitted
  <2>3. u = e BY <1>3, <1>8
  <2> HIDE DEF e
  <2> QED BY <1>5, <1>6, <2>2, <2>3 DEF SameContent, u
<1>9. CASE ~c.failed /\ ~c.tools[i].started
  <2> DEFINE p == c.tools[i].pre \o tc.args
             e == [c EXCEPT !.tools[i].pre = p]
  <2>1. p \in Seq(STRING)
    <3>1. c.tools \in ToolStates BY <1>6 DEF BuilderOk, Builders
    <3>2. c.tools[i].pre \in Seq(STRING) BY <1>6, <3>1 DEF ToolStates, ToolState
    <3> QED BY <1>1, <3>2
  <2>3. u = e BY <1>3, <1>9
  <2> HIDE DEF p
  <2>2. BuilderOk(e) /\ SameContent(c, e) BY <1>6, <2>1, PreIsSet
  <2> HIDE DEF e
  <2> QED BY <1>5, <1>6, <2>2, <2>3 DEF SameContent, u
<1> QED BY <1>7, <1>8, <1>9

\* The tools, in an order that is left open, have their blocks stopped.
LEMMA ToolsStop ==
  ASSUME NEW s, BuilderOk(s), ~s.thinkingOn, ~s.textOn
  PROVE  LET u == OpenAi!StopTools(s) IN
         /\ Good(u.reader) /\ u.reader.open = {} /\ u.reader.seen = s.reader.seen
         /\ u.tools = s.tools /\ u.next = s.next /\ u.next \in Nat /\ u \in Builders
<1> DEFINE S == DOMAIN s.tools
           ts == s.tools
           Op(i, acc) == IF ts[i].started THEN OpenAi!Emit(acc, OpenAi!Stop(ts[i].block)) ELSE acc
           Left(t) == {ToolBlock(ts, i) : i \in Started(ts) \ t}
           R == [t \in SUBSET S |->
                   {u \in Builders : /\ Good(u.reader) /\ u.reader.open = Left(t)
                                     /\ u.reader.seen = s.reader.seen
                                     /\ u.tools = ts /\ u.next = s.next}]
           Goes(h) == h = [t \in SUBSET S |->
                             IF t = {} THEN s ELSE LET x == CHOOSE y \in t : TRUE IN Op(x, h[t \ {x}])]
           g == CHOOSE h : Goes(h)
<1>1. s \in Builders /\ Good(s.reader) /\ ToolsOk(ts) /\ IsFiniteSet(S) BY DEF BuilderOk, ToolsOk
<1>2. ts \in ToolStates /\ S \in SUBSET Nat /\ ts \in [S -> ToolState]
  BY <1>1 DEF Builders, ToolStates
<1>3. OpenAi!StopTools(s) = g[S]
  BY DEF OpenAi!StopTools, OpenAi!FoldSet, OpenAi!MapThenFoldSet
<1>4. s \in R[{}]
  <2>1. Left({}) = ToolBlocks(ts) BY DEF ToolBlocks
  <2>2. s.reader.open = ToolBlocks(ts) BY DEF BuilderOk, ThinkingBlock, TextBlock
  <2> HIDE DEF Left
  <2> QED BY <1>1, <2>1, <2>2
<1>5. ASSUME NEW t \in SUBSET S, NEW i \in t, NEW acc \in R[t \ {i}]
      PROVE  Op(i, acc) \in R[t]
  <2> DEFINE x == ToolBlock(ts, i)
             r == OpenAi!Observe(acc.reader, OpenAi!Stop(ts[i].block))
             v == OpenAi!Emit(acc, OpenAi!Stop(ts[i].block))
  <2>1. /\ acc \in Builders /\ Good(acc.reader) /\ acc.reader.open = Left(t \ {i})
        /\ acc.reader.seen = s.reader.seen /\ acc.tools = ts /\ acc.next = s.next
    OBVIOUS
  <2>2. CASE ~ts[i].started
    <3>1. Started(ts) \ t = Started(ts) \ (t \ {i}) BY <2>2 DEF Started
    <3>2. Left(t) = Left(t \ {i}) BY <3>1
    <3>3. Op(i, acc) = acc BY <2>2
    <3> HIDE DEF Left, Op
    <3> QED BY <2>1, <3>2, <3>3
  <2>3. CASE ts[i].started
    <3>1. i \in Started(ts) BY <2>3 DEF Started
    <3>2. x \in Left(t \ {i}) BY <3>1
    <3>3. x = <<ts[i].block, "tool_use">> /\ ts[i].block \in Int BY <1>2 DEF ToolBlock, ToolState
    <3> HIDE DEF Left
    <3>4. Good(r) /\ r.open = acc.reader.open \ {x} /\ r.seen = acc.reader.seen
      BY <2>1, <3>2, <3>3, GoodStop
    <3>5. Left(t) = Left(t \ {i}) \ {x}
      <4>1. \A j \in Started(ts) : ToolBlock(ts, j) = x => j = i
        <5> SUFFICES ASSUME NEW j \in Started(ts), ToolBlock(ts, j) = x PROVE j = i OBVIOUS
        <5>1. ToolBlock(ts, j)[1] = ts[j].block /\ x[1] = ts[i].block BY DEF ToolBlock
        <5>2. ts[j].block = ts[i].block BY <5>1
        <5> QED BY <1>1, <3>1, <5>2 DEF ToolsOk
      <4> HIDE DEF x
      <4>2. x = ToolBlock(ts, i) BY DEF x
      <4> HIDE DEF ts
      <4> QED BY <3>1, <4>1, <4>2 DEF Left
    <3>6. v = [acc EXCEPT !.reader = r] BY <2>1, EmitIs
    <3>7. r \in NP!Readers BY <3>4 DEF Good
    <3> HIDE DEF r, v, x
    <3>8. v \in Builders /\ v.reader = r /\ v.tools = acc.tools /\ v.next = acc.next
      BY <2>1, <3>6, <3>7 DEF Builders
    <3>9. Op(i, acc) = v BY <2>3 DEF v
    <3> HIDE DEF Op, ts
    <3> QED BY <2>1, <3>4, <3>5, <3>8, <3>9
  <2> QED BY <2>2, <2>3
<1> HIDE DEF Op
<1> DEFINE F == [p \in Builders \X S |-> Op(p[2], p[1])]
<1>6. PICK h : SetIterates(h, F, s, S) BY <1>1, SetFoldExists
<1>7. \A t \in SUBSET S : t # {} => AnyOf(t) \in t /\ t \ {AnyOf(t)} \in SUBSET S BY <1>1, AnyIsOne
<1>8. \A t \in SUBSET S : h[t] = IF t = {} THEN s ELSE F[<<h[t \ {AnyOf(t)}], AnyOf(t)>>]
  BY <1>6 DEF SetIterates
<1>9. \A t \in SUBSET S : R[t] \subseteq Builders OBVIOUS
<1> HIDE DEF R
<1>10. ASSUME NEW t \in SUBSET S, t # {}, h[t \ {AnyOf(t)}] \in R[t \ {AnyOf(t)}]
       PROVE  h[t] = Op(AnyOf(t), h[t \ {AnyOf(t)}]) /\ h[t] \in R[t]
  <2>1. h[t \ {AnyOf(t)}] \in Builders /\ AnyOf(t) \in S BY <1>7, <1>9, <1>10
  <2>2. h[t] = F[<<h[t \ {AnyOf(t)}], AnyOf(t)>>] BY <1>8, <1>10
  <2>3. h[t] = Op(AnyOf(t), h[t \ {AnyOf(t)}]) BY <2>1, <2>2
  <2> QED BY <1>5, <1>7, <1>10, <2>3
<1> HIDE DEF F, S
<1>11. {} \in SUBSET S /\ h[{}] = s BY <1>8
<1>12. \A t \in SUBSET S : h[t] \in R[t] BY <1>1, <1>4, <1>10, <1>11, SetGrows
<1>13. Goes(h)
  <2>1. \A t \in SUBSET S : h[t] = IF t = {} THEN s ELSE Op(AnyOf(t), h[t \ {AnyOf(t)}])
    BY <1>7, <1>10, <1>11, <1>12
  <2>2. h = [t \in SUBSET S |-> h[t]] BY <1>6 DEF SetIterates
  <2>3. h = [t \in SUBSET S |-> IF t = {} THEN s ELSE Op(AnyOf(t), h[t \ {AnyOf(t)}])] BY <2>1, <2>2
  <2> QED BY <2>3 DEF AnyOf
<1>14. Goes(g)
  <2> HIDE DEF Goes
  <2> QED BY <1>13
<1>15. \A t \in SUBSET S : g[t] = IF t = {} THEN s ELSE Op(AnyOf(t), g[t \ {AnyOf(t)}])
  <2> HIDE DEF g
  <2> QED BY <1>14 DEF AnyOf
<1> HIDE DEF Goes, g
<1>16. \A t \in SUBSET S : t # {} /\ g[t \ {AnyOf(t)}] \in R[t \ {AnyOf(t)}] => g[t] \in R[t]
  <2> SUFFICES ASSUME NEW t \in SUBSET S, t # {}, g[t \ {AnyOf(t)}] \in R[t \ {AnyOf(t)}]
               PROVE  g[t] \in R[t]
    OBVIOUS
  <2>1. AnyOf(t) \in t BY <1>7
  <2>2. g[t] = Op(AnyOf(t), g[t \ {AnyOf(t)}]) BY <1>15
  <2>3. Op(AnyOf(t), g[t \ {AnyOf(t)}]) \in R[t] BY <1>5, <2>1
  <2> QED BY <2>2, <2>3
<1>17. g[{}] \in R[{}] BY <1>4, <1>11, <1>15
<1>18. g[S] \in R[S] BY <1>1, <1>16, <1>17, SetGrows
<1>19. Left(S) = {} BY DEF Started, S
<1> HIDE DEF Left
<1>20. S \in SUBSET S OBVIOUS
<1> USE DEF R
<1> QED BY <1>3, <1>18, <1>19, <1>20 DEF Builders

\* Task arguments that never became an object are given up, tool by tool.
LEMMA ArgsFlushed ==
  ASSUME NEW s, BuilderOk(s)
  PROVE  LET u == OpenAi!FlushTaskArgs(s) IN
         /\ BuilderOk(u) /\ SameContent(s, u) /\ Started(u.tools) = Started(s.tools)
         /\ u.reader.seen = s.reader.seen
<1> DEFINE S == DOMAIN s.tools
           ts == s.tools
           Given(i, acc) == OpenAi!EmitToolDelta([acc EXCEPT !.tools[i].buffer = <<>>,
                                                             !.tools[i].emitted = TRUE], i)
           Op(i, acc) == IF ts[i].buffer = <<>> \/ ts[i].emitted THEN acc ELSE Given(i, acc)
           R == [t \in SUBSET S |->
                   {u \in Builders : /\ BuilderOk(u) /\ SameContent(s, u)
                                     /\ Started(u.tools) = Started(ts)
                                     /\ u.reader.seen = s.reader.seen}]
           Goes(h) == h = [t \in SUBSET S |->
                             IF t = {} THEN s ELSE LET x == CHOOSE y \in t : TRUE IN Op(x, h[t \ {x}])]
           g == CHOOSE h : Goes(h)
<1>1. s \in Builders /\ ToolsOk(ts) /\ IsFiniteSet(S) BY DEF BuilderOk, ToolsOk
<1>3. OpenAi!FlushTaskArgs(s) = g[S]
  BY DEF OpenAi!FlushTaskArgs, OpenAi!FoldSet, OpenAi!MapThenFoldSet
<1>4. s \in R[{}]
  <2>1. SameContent(s, s) BY DEF SameContent
  <2> QED BY <1>1, <2>1
<1>5. ASSUME NEW t \in SUBSET S, NEW i \in t, NEW acc \in R[t \ {i}]
      PROVE  Op(i, acc) \in R[t]
  <2>1. /\ acc \in Builders /\ BuilderOk(acc) /\ SameContent(s, acc)
        /\ Started(acc.tools) = Started(ts) /\ acc.reader.seen = s.reader.seen
    OBVIOUS
  <2>2. CASE ts[i].buffer = <<>> \/ ts[i].emitted
    <3>1. Op(i, acc) = acc BY <2>2
    <3> HIDE DEF Op
    <3> QED BY <2>1, <3>1
  <2>3. CASE ~(ts[i].buffer = <<>> \/ ts[i].emitted)
    <3>1. ToolOk(ts[i]) BY <1>1 DEF ToolsOk
    <3>2. i \in Started(acc.tools) BY <2>1, <2>3, <3>1 DEF ToolOk, Started
    <3> DEFINE v == Given(i, acc)
    <3>3. /\ BuilderOk(v) /\ SameContent(acc, v) /\ Started(v.tools) = Started(acc.tools)
          /\ v.reader.seen = acc.reader.seen
      BY <2>1, <3>2, TaskArgsEmitted
    <3>4. Op(i, acc) = v BY <2>3
    <3> HIDE DEF Op, v, Given
    <3>5. v \in Builders /\ SameContent(s, v) BY <2>1, <3>3 DEF BuilderOk, SameContent
    <3> QED BY <2>1, <3>3, <3>4, <3>5
  <2> QED BY <2>2, <2>3
<1> HIDE DEF Op
<1> DEFINE F == [p \in Builders \X S |-> Op(p[2], p[1])]
<1>6. PICK h : SetIterates(h, F, s, S) BY <1>1, SetFoldExists
<1>7. \A t \in SUBSET S : t # {} => AnyOf(t) \in t /\ t \ {AnyOf(t)} \in SUBSET S BY <1>1, AnyIsOne
<1>8. \A t \in SUBSET S : h[t] = IF t = {} THEN s ELSE F[<<h[t \ {AnyOf(t)}], AnyOf(t)>>]
  BY <1>6 DEF SetIterates
<1>9. \A t \in SUBSET S : R[t] \subseteq Builders OBVIOUS
<1> HIDE DEF R
<1>10. ASSUME NEW t \in SUBSET S, t # {}, h[t \ {AnyOf(t)}] \in R[t \ {AnyOf(t)}]
       PROVE  h[t] = Op(AnyOf(t), h[t \ {AnyOf(t)}]) /\ h[t] \in R[t]
  <2>1. h[t \ {AnyOf(t)}] \in Builders /\ AnyOf(t) \in S BY <1>7, <1>9, <1>10
  <2>2. h[t] = F[<<h[t \ {AnyOf(t)}], AnyOf(t)>>] BY <1>8, <1>10
  <2>3. h[t] = Op(AnyOf(t), h[t \ {AnyOf(t)}]) BY <2>1, <2>2
  <2> QED BY <1>5, <1>7, <1>10, <2>3
<1> HIDE DEF F, S
<1>11. {} \in SUBSET S /\ h[{}] = s BY <1>8
<1>12. \A t \in SUBSET S : h[t] \in R[t] BY <1>1, <1>4, <1>10, <1>11, SetGrows
<1>13. Goes(h)
  <2>1. \A t \in SUBSET S : h[t] = IF t = {} THEN s ELSE Op(AnyOf(t), h[t \ {AnyOf(t)}])
    BY <1>7, <1>10, <1>11, <1>12
  <2>2. h = [t \in SUBSET S |-> h[t]] BY <1>6 DEF SetIterates
  <2>3. h = [t \in SUBSET S |-> IF t = {} THEN s ELSE Op(AnyOf(t), h[t \ {AnyOf(t)}])] BY <2>1, <2>2
  <2> QED BY <2>3 DEF AnyOf
<1>14. Goes(g)
  <2> HIDE DEF Goes
  <2> QED BY <1>13
<1>15. \A t \in SUBSET S : g[t] = IF t = {} THEN s ELSE Op(AnyOf(t), g[t \ {AnyOf(t)}])
  <2> HIDE DEF g
  <2> QED BY <1>14 DEF AnyOf
<1> HIDE DEF Goes, g
<1>16. \A t \in SUBSET S : t # {} /\ g[t \ {AnyOf(t)}] \in R[t \ {AnyOf(t)}] => g[t] \in R[t]
  <2> SUFFICES ASSUME NEW t \in SUBSET S, t # {}, g[t \ {AnyOf(t)}] \in R[t \ {AnyOf(t)}]
               PROVE  g[t] \in R[t]
    OBVIOUS
  <2>1. AnyOf(t) \in t BY <1>7
  <2>2. g[t] = Op(AnyOf(t), g[t \ {AnyOf(t)}]) BY <1>15
  <2>3. Op(AnyOf(t), g[t \ {AnyOf(t)}]) \in R[t] BY <1>5, <2>1
  <2> QED BY <2>2, <2>3
<1>17. g[{}] \in R[{}] BY <1>4, <1>11, <1>15
<1>18. g[S] \in R[S] BY <1>1, <1>16, <1>17, SetGrows
<1>20. S \in SUBSET S OBVIOUS
<1> USE DEF R
<1> QED BY <1>3, <1>18, <1>20

-----------------------------------------------------------------------------
(* OpenAI: the end of a message                                            *)

\* Nothing is open, and an index is left for one more block.
Closed(u) ==
  /\ u \in Builders /\ Good(u.reader) /\ u.reader.open = {} /\ ToolsOk(u.tools)
  /\ \A k \in u.reader.seen : k < u.next
  /\ Started(u.tools) # {} => u.reader.seen # {}

\* close_all_blocks
LEMMA AllClosed ==
  ASSUME NEW s, BuilderOk(s)
  PROVE  LET u == OpenAi!CloseAll(s) IN
         Closed(u) /\ u.tools = s.tools /\ u.reader.seen = s.reader.seen
<1> DEFINE c == OpenAi!CloseContent(s)
           u == OpenAi!StopTools(c)
<1>1. /\ BuilderOk(c) /\ SameRest(s, c) /\ ~c.thinkingOn /\ ~c.textOn
      /\ c.thinking = s.thinking /\ c.text = s.text /\ c.reader.seen = s.reader.seen
  BY ContentClosed
<1> HIDE DEF c
<1>2. /\ Good(u.reader) /\ u.reader.open = {} /\ u.reader.seen = c.reader.seen
      /\ u.tools = c.tools /\ u.next = c.next /\ u \in Builders
  BY <1>1, ToolsStop
<1> HIDE DEF u
<1>3. Closed(u) /\ u.tools = s.tools BY <1>1, <1>2 DEF Closed, BuilderOk, SameRest
<1> QED BY <1>1, <1>2, <1>3 DEF OpenAi!CloseAll, u, c

\* The last events make the message whole.
LEMMA Finished ==
  ASSUME NEW s \in Builders, Good(s.reader), s.reader.open = {}, s.reader.seen # {}
  PROVE  LET u == OpenAi!Finish(s) IN
         OpenAi!Complete(u.reader) /\ ~u.reader.wrong /\ u.tools = s.tools
<1> DEFINE a == OpenAi!Observe(s.reader, OpenAi!Message("message_delta"))
           b == OpenAi!Observe(a, OpenAi!Message("message_stop"))
           v == OpenAi!Emit(s, OpenAi!Message("message_delta"))
           u == OpenAi!Finish(s)
<1>1. Good(a) /\ a.open = s.reader.open /\ a.seen = s.reader.seen BY GoodMessage
<1> HIDE DEF a
<1>2. Good(b) /\ b.open = a.open /\ b.seen = a.seen /\ b.last = "message_stop" BY <1>1, GoodMessage
<1>3. v = [s EXCEPT !.reader = a] BY EmitIs DEF a
<1>4. a \in NP!Readers BY <1>1 DEF Good
<1> HIDE DEF v
<1>5. v \in Builders /\ v.reader = a /\ v.tools = s.tools BY <1>3, <1>4 DEF Builders
<1>6. OpenAi!Emit(v, OpenAi!Message("message_stop")) = [v EXCEPT !.reader = b] BY <1>5, EmitIs
<1>7. u = [v EXCEPT !.reader = b] BY <1>6 DEF OpenAi!Finish, v
<1> HIDE DEF b, u
<1>8. u.reader = b /\ u.tools = s.tools BY <1>5, <1>7 DEF Builders
<1>9. OpenAi!Complete(b) BY <1>1, <1>2 DEF OpenAi!Complete, Good
<1> QED BY <1>2, <1>8, <1>9 DEF Good, u

\* What a failure sends after everything has been closed
LEMMA FailedIsWhole ==
  ASSUME NEW s, BuilderOk(s)
  PROVE  LET u == OpenAi!FailEvents(s) IN
         OpenAi!Complete(u.reader) /\ ~u.reader.wrong /\ ToolsOk(u.tools)
<1> DEFINE c == OpenAi!CloseAll(s)
           u == OpenAi!FailEvents(s)
<1>1. Closed(c) BY AllClosed
<1>2. u = OpenAi!Finish(IF OpenAi!HasEmittedToolBlock(c) THEN OpenAi!Emit(c, OpenAi!Message("error"))
                        ELSE OpenAi!WholeBlock(c, "text"))
  BY DEF OpenAi!FailEvents
<1> HIDE DEF c
<1>3. OpenAi!HasEmittedToolBlock(c) <=> Started(c.tools) # {}
  BY DEF OpenAi!HasEmittedToolBlock, Started
<1>4. CASE Started(c.tools) # {}
  <2> DEFINE r == OpenAi!Observe(c.reader, OpenAi!Message("error"))
             v == OpenAi!Emit(c, OpenAi!Message("error"))
  <2>1. Good(r) /\ r.open = c.reader.open /\ r.seen = c.reader.seen BY <1>1, GoodMessage DEF Closed
  <2>2. v = [c EXCEPT !.reader = r] BY <1>1, EmitIs DEF Closed
  <2>3. r \in NP!Readers /\ c \in Builders BY <1>1, <2>1 DEF Good, Closed
  <2> HIDE DEF r, v
  <2>4. v \in Builders /\ v.reader = r /\ v.tools = c.tools BY <2>2, <2>3 DEF Builders
  <2>5. v.reader.open = {} /\ v.reader.seen # {} /\ Good(v.reader)
    BY <1>1, <1>4, <2>1, <2>4 DEF Closed
  <2>6. LET w == OpenAi!Finish(v) IN OpenAi!Complete(w.reader) /\ ~w.reader.wrong /\ w.tools = v.tools
    BY <2>4, <2>5, Finished
  <2>7. u = OpenAi!Finish(v) BY <1>2, <1>3, <1>4 DEF v
  <2> QED BY <1>1, <2>4, <2>6, <2>7 DEF Closed
<1>5. CASE Started(c.tools) = {}
  <2> DEFINE r == OpenAi!Observe(OpenAi!Observe(OpenAi!Observe(c.reader, OpenAi!Start(c.next, "text")),
                                                OpenAi!Delta(c.next, "text")), OpenAi!Stop(c.next))
             v == OpenAi!WholeBlock(c, "text")
  <2>1. c \in Builders /\ Good(c.reader) BY <1>1 DEF Closed
  <2>2. c.next \in Int /\ c.next \notin c.reader.seen /\ c.next + 1 \in Nat
    BY <1>1, <2>1 DEF Closed, Builders
  <2>3. Good(r) /\ r.open = c.reader.open /\ r.seen = c.reader.seen \cup {c.next}
    BY <2>1, <2>2, WholeIsRead DEF Blocks
  <2>4. v = [c EXCEPT !.next = c.next + 1, !.reader = r]
    BY <2>1 DEF OpenAi!WholeBlock, OpenAi!Emit, Builders
  <2>5. r \in NP!Readers BY <2>3 DEF Good
  <2> HIDE DEF r, v
  <2>6. v \in Builders /\ v.reader = r /\ v.tools = c.tools BY <2>1, <2>2, <2>4, <2>5 DEF Builders
  <2>7. v.reader.open = {} /\ v.reader.seen # {} /\ Good(v.reader) BY <1>1, <2>3, <2>6 DEF Closed
  <2>8. LET w == OpenAi!Finish(v) IN OpenAi!Complete(w.reader) /\ ~w.reader.wrong /\ w.tools = v.tools
    BY <2>6, <2>7, Finished
  <2>9. u = OpenAi!Finish(v) BY <1>2, <1>3, <1>5 DEF v
  <2> QED BY <1>1, <2>6, <2>8, <2>9 DEF Closed
<1> QED BY <1>4, <1>5

\* A message with no block, or with nothing but thinking, gets a blank text.
LEMMA EmptyFilled ==
  ASSUME NEW s, BuilderOk(s)
  PROVE  LET u == OpenAi!FillEmpty(s) IN BuilderOk(u) /\ u.reader.seen # {}
<1> DEFINE u == OpenAi!FillEmpty(s)
           v == OpenAi!EmitText(s, TRUE)
<1>1. BuilderOk(v) /\ v.reader.seen # {} BY TextEmitted
<1>2. OpenAi!HasEmittedToolBlock(s) <=> Started(s.tools) # {}
  BY DEF OpenAi!HasEmittedToolBlock, Started
<1> HIDE DEF v
<1>3. u = v \/ (u = s /\ (s.text # -1 \/ s.thinking # -1 \/ OpenAi!HasEmittedToolBlock(s)))
  BY DEF OpenAi!FillEmpty, v
<1> HIDE DEF u
<1> QED BY <1>1, <1>2, <1>3 DEF BuilderOk, u

\* A stream that ends well is a whole message.
LEMMA EndedIsWhole ==
  ASSUME NEW s, BuilderOk(s)
  PROVE  LET u == OpenAi!Finish(OpenAi!CloseAll(OpenAi!FlushTaskArgs(OpenAi!FillEmpty(
                                  OpenAi!FlushHeuristic(OpenAi!FlushThink(s))))))
         IN  OpenAi!Complete(u.reader) /\ ~u.reader.wrong /\ ToolsOk(u.tools)
<1> DEFINE a == OpenAi!FlushThink(s)
           b == OpenAi!FlushHeuristic(a)
           c == OpenAi!FillEmpty(b)
           d == OpenAi!FlushTaskArgs(c)
           e == OpenAi!CloseAll(d)
           u == OpenAi!Finish(e)
<1>1. BuilderOk(a)
  <2>1. BuilderOk(OpenAi!EmitThinking(s)) BY ThinkingEmitted
  <2>2. BuilderOk(OpenAi!EmitText(s, FALSE)) BY TextEmitted
  <2>3. a \in {s, OpenAi!EmitThinking(s), OpenAi!EmitText(s, FALSE)}
    BY DEF OpenAi!FlushThink, OpenAi!Reasoning
  <2> HIDE DEF a
  <2> QED BY <2>1, <2>2, <2>3
<1> HIDE DEF a
<1>2. BuilderOk(b) BY <1>1, HeuristicToolsOk DEF OpenAi!FlushHeuristic
<1> HIDE DEF b
<1>3. BuilderOk(c) /\ c.reader.seen # {} BY <1>2, EmptyFilled
<1> HIDE DEF c
<1>4. BuilderOk(d) /\ d.reader.seen # {} BY <1>3, ArgsFlushed
<1> HIDE DEF d
<1>5. Closed(e) /\ e.reader.seen # {} BY <1>4, AllClosed
<1> HIDE DEF e
<1>6. OpenAi!Complete(u.reader) /\ ~u.reader.wrong /\ u.tools = e.tools
  BY <1>5, Finished DEF Closed
<1> HIDE DEF u
<1>7. ToolsOk(u.tools) BY <1>5, <1>6 DEF Closed
<1> QED BY <1>6, <1>7 DEF a, b, c, d, e, u

-----------------------------------------------------------------------------
(* OpenAI: the stream                                                      *)

OpenAiInv ==
  /\ follows = "openai" =>
       /\ phase \in {"request", "stream", "done", "cancelled"}
       /\ phase \in {"request", "stream"} => BuilderOk(sse)
       /\ ~sse.reader.wrong /\ ToolsOk(sse.tools)
       /\ phase = "done" => OpenAi!Complete(sse.reader)
  /\ follows # "openai" => sse.tools = <<>>

LEMMA OpenAiInitially == StreamsInit => OpenAiInv
<1> SUFFICES ASSUME StreamsInit PROVE OpenAiInv OBVIOUS
<1> DEFINE r == OpenAi!Observe(OpenAi!NewReader, OpenAi!Message("message_start"))
<1>1. phase = "request" /\ sse = OpenAi!Emit(OpenAi!NewBuilder, OpenAi!Message("message_start"))
  BY DEF StreamsInit, OpenAi!Init
<1>2. OpenAi!NewBuilder.reader = OpenAi!NewReader BY DEF OpenAi!NewBuilder
<1>3. /\ r \in NP!Readers /\ r.open = {} /\ r.seen = {} /\ ~r.wrong /\ r.began
  <2>1. r = NP!Observe(NP!NewReader, NP!Message("message_start")) BY SameOpenAi
  <2> DEFINE n == NP!NewReader
             u == NP!Observe(n, NP!Message("message_start"))
  <2>2. n \in NP!Readers /\ ~n.wrong /\ n.open = {} /\ n.seen = {} BY NewReaderIs
  <2> HIDE DEF n, r
  <2>3. /\ u \in NP!Readers /\ u.open = n.open /\ u.seen = n.seen /\ u.wrong = n.wrong
        /\ u.began = (n.began \/ TRUE)
    BY <2>2, NP!Telling
  <2>4. r = u BY <2>1 DEF n
  <2> HIDE DEF u
  <2> QED BY <2>2, <2>3, <2>4
<1> HIDE DEF r
<1>4. sse = [OpenAi!NewBuilder EXCEPT !.reader = r] BY <1>1, <1>2 DEF OpenAi!Emit, r
<1>5. /\ sse.next = 0 /\ sse.thinking = -1 /\ sse.thinkingOn = FALSE /\ sse.text = -1
      /\ sse.textOn = FALSE /\ sse.tools = <<>> /\ sse.written = {} /\ sse.failed = FALSE
      /\ sse.reader = r
  BY <1>4 DEF OpenAi!NewBuilder
<1>6. <<>> \in ToolStates /\ DOMAIN <<>> = {}
  <2>1. <<>> \in [{} -> ToolState] /\ {} \in SUBSET Nat OBVIOUS
  <2> QED BY <2>1 DEF ToolStates
<1>7. sse \in Builders
  <2> DEFINE none == <<>>
  <2>1. sse = [next |-> 0, thinking |-> -1, thinkingOn |-> FALSE, text |-> -1, textOn |-> FALSE,
               tools |-> none, written |-> {}, failed |-> FALSE, reader |-> r]
    BY <1>4 DEF OpenAi!NewBuilder
  <2>2. none \in ToolStates /\ -1 \in Int /\ 0 \in Nat BY <1>6
  <2> HIDE DEF none
  <2> QED BY <1>3, <2>1, <2>2 DEF Builders
<1>8. Good(r) BY <1>3 DEF Good, NP!OpenIndices
<1>9. Started(sse.tools) = {} BY <1>5, <1>6 DEF Started
<1>10. ToolsOk(sse.tools)
  <2>1. IsFiniteSet(DOMAIN sse.tools) BY <1>5, <1>6, FS_EmptySet
  <2> QED BY <1>5, <1>6, <1>9, <2>1 DEF ToolsOk
<1>11. BuilderOk(sse)
  <2>1. sse.reader.open = ThinkingBlock(sse) \cup TextBlock(sse) \cup ToolBlocks(sse.tools)
    BY <1>3, <1>5, <1>9 DEF ThinkingBlock, TextBlock, ToolBlocks
  <2> QED BY <1>3, <1>5, <1>7, <1>8, <1>9, <1>10, <2>1 DEF BuilderOk
<1> QED BY <1>1, <1>3, <1>5, <1>10, <1>11 DEF OpenAiInv

LEMMA OkIsOpenAi ==
  ASSUME BuilderOk(sse)', phase' \in {"request", "stream"}, follows' = "openai"
  PROVE  OpenAiInv'
BY DEF OpenAiInv, BuilderOk, Good

LEMMA OpenAiSteps == OpenAiInv /\ [StreamsNext]_allVars => OpenAiInv'
<1> SUFFICES ASSUME OpenAiInv, [StreamsNext]_allVars PROVE OpenAiInv' OBVIOUS
<1> USE DEF openaiVars, streamVars, allVars
<1>1. CASE UNCHANGED allVars BY <1>1 DEF OpenAiInv, BuilderOk
<1>2. CASE RequestStep \/ StatusStep BY <1>2 DEF RequestStep, StatusStep, OpenAiInv
<1>3. CASE NativeStep \/ ServiceStep BY <1>3 DEF NativeStep, ServiceStep, OpenAiInv
<1>4. CASE OpenAiStep
  <2>0. follows = "openai" /\ follows' = "openai" /\ OpenAi!Next BY <1>4 DEF OpenAiStep
  <2>a. phase \in {"request", "stream"} => BuilderOk(sse) BY <2>0 DEF OpenAiInv
  <2>1. CASE OpenAi!OpenStream
    BY <2>0, <2>1 DEF OpenAi!OpenStream, OpenAiInv
  <2>2. CASE OpenAi!ReadChunk
    <3>0. BuilderOk(sse) /\ phase' = "stream" BY <2>2, <2>a DEF OpenAi!ReadChunk
    <3>1. BuilderOk(OpenAi!EmitThinking(sse)) BY <3>0, ThinkingEmitted
    <3>2. CASE OpenAi!ReadReasoning
      <4>1. sse' \in {sse, OpenAi!EmitThinking(sse)} BY <3>2 DEF OpenAi!ReadReasoning, OpenAi!Reasoning
      <4>2. BuilderOk(sse') BY <3>0, <3>1, <4>1
      <4> QED BY <2>0, <3>0, <4>2, OkIsOpenAi
    <3>3. ASSUME NEW t \in Tokens, OpenAi!ReadContent(t) PROVE OpenAiInv'
      <4> DEFINE b == [heur |-> heur, sse |-> sse]
                 v == OpenAi!FeedContent(b, t)
      <4>1. sse' = v.sse BY <3>3 DEF OpenAi!ReadContent
      <4>2. b.sse = sse /\ b = [heur |-> b.heur, sse |-> b.sse] OBVIOUS
      <4> HIDE DEF b
      <4>3. BuilderOk(v.sse) BY <3>0, <4>2, FedContent
      <4> HIDE DEF v
      <4>4. BuilderOk(sse') BY <4>1, <4>3
      <4> QED BY <2>0, <3>0, <4>4, OkIsOpenAi
    <3>4. ASSUME NEW tc \in ToolDeltas, OpenAi!ReadToolCall(tc) PROVE OpenAiInv'
      <4> DEFINE c == OpenAi!CloseContent(sse)
                 v == OpenAi!ProcessToolCall(c, tc)
      <4>1. sse' = v BY <3>4 DEF OpenAi!ReadToolCall, OpenAi!ToolCall
      <4>2. BuilderOk(c) BY <3>0, ContentClosed
      <4> HIDE DEF c
      <4>3. BuilderOk(v) BY <4>2, ToolCallProcessed
      <4> HIDE DEF v
      <4>4. BuilderOk(sse') BY <4>1, <4>3
      <4> QED BY <2>0, <3>0, <4>4, OkIsOpenAi
    <3> QED BY <2>2, <3>2, <3>3, <3>4 DEF OpenAi!ReadChunk
  <2>3. CASE OpenAi!StreamFails
    <3> DEFINE u == OpenAi!FailEvents(sse)
    <3>1. BuilderOk(sse) /\ phase' = "done" /\ sse' = u BY <2>3, <2>a DEF OpenAi!StreamFails
    <3>2. OpenAi!Complete(u.reader) /\ ~u.reader.wrong /\ ToolsOk(u.tools) BY <3>1, FailedIsWhole
    <3> HIDE DEF u
    <3> QED BY <2>0, <3>1, <3>2 DEF OpenAiInv
  <2>4. CASE OpenAi!Cancelled
    BY <2>0, <2>4 DEF OpenAi!Cancelled, OpenAiInv
  <2>5. CASE OpenAi!StreamEnds
    <3> DEFINE u == OpenAi!Finish(OpenAi!CloseAll(OpenAi!FlushTaskArgs(OpenAi!FillEmpty(
                                    OpenAi!FlushHeuristic(OpenAi!FlushThink(sse))))))
    <3>1. BuilderOk(sse) /\ phase' = "done" /\ sse' = u BY <2>5, <2>a DEF OpenAi!StreamEnds
    <3>2. OpenAi!Complete(u.reader) /\ ~u.reader.wrong /\ ToolsOk(u.tools) BY <3>1, EndedIsWhole
    <3> HIDE DEF u
    <3> QED BY <2>0, <3>1, <3>2 DEF OpenAiInv
  <2> QED BY <2>0, <2>1, <2>2, <2>3, <2>4, <2>5 DEF OpenAi!Next
<1> QED BY <1>1, <1>2, <1>3, <1>4 DEF StreamsNext

\* Whatever reasoning, text and tool calls the chunks of an OpenAI stream carry,
\* and in whatever order, what the SSE builder makes of them is started once,
\* filled and stopped, and the message is whole at the end, by an error or not.
THEOREM OpenAiStreamsAreWhole == StreamsSpec => []OpenAiWellFormed
<1>1. OpenAiInv => OpenAiWellFormed BY DEF OpenAiInv, OpenAiWellFormed, OpenAi!WellFormed
<1> QED BY <1>1, OpenAiInitially, OpenAiSteps, PTL DEF StreamsSpec

\* However names and arguments are cut up, a call that the client was told is a
\* Task, and that has not got a longer name since, has no argument passed on as
\* it came (_emit_tool_arg_delta).
THEOREM TaskArgsAreHeld == StreamsSpec => []TaskArgsNormalised
<1>1. OpenAiInv => TaskArgsNormalised
  <2> SUFFICES ASSUME OpenAiInv PROVE TaskArgsNormalised OBVIOUS
  <2>1. CASE follows = "openai"
    <3>1. ToolsOk(sse.tools) BY <2>1 DEF OpenAiInv
    <3>2. SUFFICES ASSUME NEW i \in DOMAIN sse.tools, sse.tools[i].started,
                          sse.tools[i].called = OpenAi!TaskName, sse.tools[i].name = OpenAi!TaskName
                   PROVE  ~sse.tools[i].raw
      BY DEF TaskArgsNormalised, OpenAi!TaskArgsNormalised
    <3>3. Len(OpenAi!TaskName) = 2 BY DEF OpenAi!TaskName
    <3>4. sse.tools[i].raw => Len(sse.tools[i].name) > 2
      <4>1. ToolOk(sse.tools[i]) BY <3>1 DEF ToolsOk
      <4> QED BY <3>2, <4>1 DEF ToolOk
    <3>5. ~(Len(sse.tools[i].name) > 2) BY <3>2, <3>3
    <3> QED BY <3>4, <3>5
  <2>2. CASE follows # "openai"
    <3>1. sse.tools = <<>> BY <2>2 DEF OpenAiInv
    <3> QED BY <3>1 DEF TaskArgsNormalised, OpenAi!TaskArgsNormalised
  <2> QED BY <2>1, <2>2
<1> QED BY <1>1, OpenAiInitially, OpenAiSteps, PTL DEF StreamsSpec

-----------------------------------------------------------------------------
(* The conversation that goes to an OpenAI provider                        *)

IsSequence(s) == s \in Seq({s[k] : k \in DOMAIN s})

\* Results of calls, and nothing else
Results(s, tools) == \A k \in DOMAIN s : s[k].role = "tool" /\ s[k].content[1] \in tools

\* What may stand between a call and its result
Between(m, mixed) == m.role = "tool" \/ (mixed /\ m.role = "user")

\* What is still due was called, and nothing else stands behind the call.
CallIsNear(s, tools, mixed) ==
  \E j \in DOMAIN s :
    /\ tools \subseteq s[j].calls
    /\ \A i \in DOMAIN s : i > j => Between(s[i], mixed)

Follows(s, mixed) ==
  \A k \in DOMAIN s : s[k].role = "tool" =>
    \E j \in 1..(k - 1) :
      /\ s[k].content[1] \in s[j].calls
      /\ \A i \in (j + 1)..(k - 1) : Between(s[i], mixed)

Late(tools, blocks, reasoning) == [tools |-> tools, blocks |-> blocks, reasoning |-> reasoning]

IsClient(c) ==
  /\ c = [sent |-> c.sent, blocks |-> c.blocks, results |-> c.results, texts |-> c.texts,
          thoughts |-> c.thoughts, ended |-> c.ended, open |-> c.open, spoke |-> c.spoke,
          stray |-> c.stray, early |-> c.early, overtaken |-> c.overtaken,
          repeated |-> c.repeated]
  /\ c.blocks \in Nat
  /\ c.spoke \in BOOLEAN /\ c.stray \in BOOLEAN /\ c.early \in BOOLEAN

\* Texts that are not written yet were said by the user.
ListTyped ==
  /\ list = [reading |-> list.reading, texts |-> list.texts, brought |-> list.brought]
  /\ list.reading \in BOOLEAN
  /\ ~list.reading => list = Request!NoList
  /\ list.reading => client.ended = Request!None
  /\ list.texts # <<>> => client.spoke

RequestTyped ==
  /\ IsClient(client) /\ ListTyped
  /\ waiting = Late(waiting.tools, waiting.blocks, waiting.reasoning)

\* What is put off waits for the calls whose results are due, and when it has
\* been brought out, none is.
ResultsInv ==
  /\ IsSequence(result) /\ Follows(result, client.early)
  /\ client.ended = Request!None /\ client.open # {} => CallIsNear(result, client.open, client.spoke)
  /\ waiting # Request!Nothing => client.open \subseteq waiting.tools
  /\ list.brought # Request!Nothing => client.open = {}

ConversionInv == RequestTyped /\ (client.stray \/ ResultsInv)

\* One sequence behind another
LEMMA Joined ==
  ASSUME NEW s, NEW t, IsSequence(s), IsSequence(t)
  PROVE  /\ IsSequence(s \o t)
         /\ Len(s) \in Nat /\ Len(t) \in Nat /\ DOMAIN s = 1..Len(s) /\ DOMAIN t = 1..Len(t)
         /\ DOMAIN (s \o t) = 1..(Len(s) + Len(t))
         /\ \A k \in 1..Len(s) : (s \o t)[k] = s[k]
         /\ \A k \in 1..Len(t) : (s \o t)[Len(s) + k] = t[k]
<1> DEFINE S == {s[k] : k \in DOMAIN s}
           T == {t[k] : k \in DOMAIN t}
           U == S \cup T
<1>1. s \in Seq(S) /\ t \in Seq(T) BY DEF IsSequence
<1> HIDE DEF S, T
<1>2. s \in Seq(U) /\ t \in Seq(U) BY <1>1
<1> HIDE DEF U
<1>3. s \o t \in Seq(U) BY <1>2
<1>4. \A x : x \in Seq(U) => IsSequence(x)
  <2> SUFFICES ASSUME NEW x \in Seq(U) PROVE IsSequence(x) OBVIOUS
  <2> DEFINE X == {x[k] : k \in DOMAIN x}
  <2>1. \A k \in 1..Len(x) : x[k] \in X OBVIOUS
  <2> HIDE DEF X
  <2>2. x \in Seq(X) BY <2>1
  <2> QED BY <2>2 DEF IsSequence, X
<1>5. IsSequence(s \o t) BY <1>3, <1>4
<1>6. Len(s) \in Nat /\ Len(t) \in Nat /\ DOMAIN s = 1..Len(s) /\ DOMAIN t = 1..Len(t) BY <1>2
<1>7. Len(s \o t) = Len(s) + Len(t) /\ DOMAIN (s \o t) = 1..Len(s \o t) BY <1>2, <1>3
<1>8. \A k \in 1..Len(s) : (s \o t)[k] = s[k] BY <1>2
<1>9. \A k \in 1..Len(t) : (s \o t)[Len(s) + k] = t[k] BY <1>2
<1> QED BY <1>5, <1>6, <1>7, <1>8, <1>9

\* Where an element of a joined sequence is from
LEMMA JoinedAt ==
  ASSUME NEW s, NEW t, IsSequence(s), IsSequence(t), NEW k \in DOMAIN (s \o t)
  PROVE  \/ k \in DOMAIN s /\ (s \o t)[k] = s[k]
         \/ k - Len(s) \in DOMAIN t /\ (s \o t)[k] = t[k - Len(s)] /\ k > Len(s)
<1>1. /\ Len(s) \in Nat /\ Len(t) \in Nat /\ DOMAIN s = 1..Len(s) /\ DOMAIN t = 1..Len(t)
      /\ k \in 1..(Len(s) + Len(t))
      /\ \A j \in 1..Len(s) : (s \o t)[j] = s[j]
      /\ \A j \in 1..Len(t) : (s \o t)[Len(s) + j] = t[j]
  BY Joined
<1>2. CASE k <= Len(s) BY <1>1, <1>2
<1>3. CASE k > Len(s)
  <2>1. k - Len(s) \in 1..Len(t) /\ Len(s) + (k - Len(s)) = k BY <1>1, <1>3
  <2> QED BY <1>1, <1>3, <2>1
<1> QED BY <1>1, <1>2, <1>3

\* What is no result can always be added.
LEMMA OthersAdded ==
  ASSUME NEW s, NEW t, IsSequence(s), IsSequence(t), NEW mixed, Follows(s, mixed),
         \A k \in DOMAIN t : t[k].role # "tool"
  PROVE  IsSequence(s \o t) /\ Follows(s \o t, mixed)
<1> DEFINE u == s \o t
<1>1. /\ IsSequence(u) /\ Len(s) \in Nat /\ DOMAIN s = 1..Len(s)
      /\ \A j \in 1..Len(s) : u[j] = s[j]
  BY Joined
<1>2. ASSUME NEW k \in DOMAIN u, u[k].role = "tool"
      PROVE  \E j \in 1..(k - 1) :
               /\ u[k].content[1] \in u[j].calls
               /\ \A i \in (j + 1)..(k - 1) : Between(u[i], mixed)
  <2>1. k \in DOMAIN s /\ u[k] = s[k] BY <1>2, JoinedAt
  <2>2. PICK j \in 1..(k - 1) : /\ s[k].content[1] \in s[j].calls
                                /\ \A i \in (j + 1)..(k - 1) : Between(s[i], mixed)
    BY <1>2, <2>1 DEF Follows
  <2>3. j \in 1..Len(s) /\ \A i \in (j + 1)..(k - 1) : i \in 1..Len(s) BY <1>1, <2>1
  <2> QED BY <1>1, <2>1, <2>2, <2>3
<1> HIDE DEF u
<1>3. Follows(u, mixed) BY <1>2 DEF Follows
<1> QED BY <1>1, <1>3 DEF u

\* Results of open calls can be added, and others then still.
LEMMA ResultsAdded ==
  ASSUME NEW s, NEW t, IsSequence(s), IsSequence(t), NEW mixed, Follows(s, mixed),
         NEW tools, CallIsNear(s, tools, mixed), Results(t, tools)
  PROVE  IsSequence(s \o t) /\ Follows(s \o t, mixed)
<1> DEFINE u == s \o t
<1>1. /\ IsSequence(u) /\ Len(s) \in Nat /\ Len(t) \in Nat
      /\ DOMAIN s = 1..Len(s) /\ DOMAIN t = 1..Len(t) /\ DOMAIN u = 1..(Len(s) + Len(t))
      /\ \A j \in 1..Len(s) : u[j] = s[j]
  BY Joined
<1>2. PICK c \in DOMAIN s : /\ tools \subseteq s[c].calls
                            /\ \A i \in DOMAIN s : i > c => Between(s[i], mixed)
  BY DEF CallIsNear
<1>3. ASSUME NEW i \in DOMAIN u, i > c PROVE Between(u[i], mixed)
  <2>1. CASE i \in DOMAIN s /\ u[i] = s[i] BY <1>2, <1>3, <2>1
  <2>2. CASE i - Len(s) \in DOMAIN t /\ u[i] = t[i - Len(s)] BY <2>2 DEF Results, Between
  <2> QED BY <2>1, <2>2, JoinedAt
<1>5. ASSUME NEW k \in DOMAIN u, u[k].role = "tool"
      PROVE  \E j \in 1..(k - 1) :
               /\ u[k].content[1] \in u[j].calls
               /\ \A i \in (j + 1)..(k - 1) : Between(u[i], mixed)
  <2>1. CASE k \in DOMAIN s /\ u[k] = s[k]
    <3>1. PICK j \in 1..(k - 1) : /\ s[k].content[1] \in s[j].calls
                                  /\ \A i \in (j + 1)..(k - 1) : Between(s[i], mixed)
      BY <1>5, <2>1 DEF Follows
    <3>2. j \in 1..Len(s) /\ \A i \in (j + 1)..(k - 1) : i \in 1..Len(s) BY <1>1, <2>1
    <3> QED BY <1>1, <2>1, <3>1, <3>2
  <2>2. CASE k - Len(s) \in DOMAIN t /\ u[k] = t[k - Len(s)] /\ k > Len(s)
    <3>1. u[k].content[1] \in s[c].calls BY <1>2, <2>2 DEF Results
    <3>2. u[c] = s[c] /\ c \in 1..(k - 1) BY <1>1, <2>2
    <3>3. \A i \in (c + 1)..(k - 1) : i \in DOMAIN u /\ i > c BY <1>1
    <3> HIDE DEF u
    <3> QED BY <1>3, <3>1, <3>2, <3>3
  <2> QED BY <2>1, <2>2, JoinedAt
<1> HIDE DEF u
<1>6. Follows(u, mixed) BY <1>5 DEF Follows
<1> QED BY <1>1, <1>6 DEF u

\* What is added leaves a call near, as long as it may stand between.
LEMMA StaysNear ==
  ASSUME NEW s, NEW t, IsSequence(s), IsSequence(t), NEW tools, NEW mixed,
         CallIsNear(s, tools, mixed), \A k \in DOMAIN t : Between(t[k], mixed)
  PROVE  CallIsNear(s \o t, tools, mixed)
<1> DEFINE u == s \o t
<1>1. /\ Len(s) \in Nat /\ Len(t) \in Nat
      /\ DOMAIN s = 1..Len(s) /\ DOMAIN t = 1..Len(t) /\ DOMAIN u = 1..(Len(s) + Len(t))
      /\ \A j \in 1..Len(s) : u[j] = s[j]
  BY Joined
<1>2. PICK c \in DOMAIN s : /\ tools \subseteq s[c].calls
                            /\ \A i \in DOMAIN s : i > c => Between(s[i], mixed)
  BY DEF CallIsNear
<1>3. ASSUME NEW i \in DOMAIN u, i > c PROVE Between(u[i], mixed)
  <2>1. CASE i \in DOMAIN s /\ u[i] = s[i] BY <1>2, <1>3, <2>1
  <2>2. CASE i - Len(s) \in DOMAIN t /\ u[i] = t[i - Len(s)] BY <2>2
  <2> QED BY <2>1, <2>2, JoinedAt
<1>4. c \in DOMAIN u /\ u[c] = s[c] BY <1>1
<1> HIDE DEF u
<1>5. CallIsNear(u, tools, mixed) BY <1>2, <1>3, <1>4 DEF CallIsNear
<1> QED BY <1>5 DEF u

\* More may stand between, and fewer results may be due.
LEMMA MoreBetween ==
  ASSUME NEW s, NEW a \in BOOLEAN, NEW b \in BOOLEAN, a => b
  PROVE  /\ Follows(s, a) => Follows(s, b)
         /\ \A x, y : y \subseteq x /\ CallIsNear(s, x, a) => CallIsNear(s, y, b)
<1>1. \A m : Between(m, a) => Between(m, b) BY DEF Between
<1>2. Follows(s, a) => Follows(s, b)
  <2> SUFFICES ASSUME Follows(s, a), NEW k \in DOMAIN s, s[k].role = "tool"
               PROVE  \E j \in 1..(k - 1) :
                        /\ s[k].content[1] \in s[j].calls
                        /\ \A i \in (j + 1)..(k - 1) : Between(s[i], b)
    BY DEF Follows
  <2>1. PICK j \in 1..(k - 1) : /\ s[k].content[1] \in s[j].calls
                                /\ \A i \in (j + 1)..(k - 1) : Between(s[i], a)
    BY DEF Follows
  <2> QED BY <1>1, <2>1
<1>3. ASSUME NEW x, NEW y, y \subseteq x, CallIsNear(s, x, a) PROVE CallIsNear(s, y, b)
  <2>1. PICK j \in DOMAIN s : /\ x \subseteq s[j].calls
                              /\ \A i \in DOMAIN s : i > j => Between(s[i], a)
    BY <1>3 DEF CallIsNear
  <2>2. y \subseteq s[j].calls BY <1>3, <2>1
  <2> QED BY <1>1, <2>1, <2>2 DEF CallIsNear
<1> QED BY <1>2, <1>3

\* A message that is put off, and what a user or an assistant says, is no result.
LEMMA SaidIsNoResult ==
  /\ \A blocks, reasoning :
       LET m == Request!AssistantMessage(blocks, reasoning) IN m.role = "assistant"
  /\ \A role, content : Request!Plain(role, content).role = role
  /\ \A tool : LET m == Request!ToolMessage(tool) IN m.role = "tool" /\ m.content[1] = tool
BY DEF Request!AssistantMessage, Request!Plain, Request!ToolMessage

LEMMA OneIsSequence == \A x : IsSequence(<<x>>) /\ DOMAIN <<x>> = {1} /\ <<x>>[1] = x /\ Len(<<x>>) = 1
<1> SUFFICES ASSUME NEW x PROVE IsSequence(<<x>>) /\ DOMAIN <<x>> = {1} /\ <<x>>[1] = x /\ Len(<<x>>) = 1
  OBVIOUS
<1>1. {<<x>>[k] : k \in DOMAIN <<x>>} = {x} OBVIOUS
<1>2. <<x>> \in Seq({x}) OBVIOUS
<1>3. IsSequence(<<x>>) BY <1>1, <1>2 DEF IsSequence
<1> QED BY <1>3

LEMMA NoneIsSequence == IsSequence(<<>>) /\ DOMAIN <<>> = {} /\ Len(<<>>) = 0
BY DEF IsSequence

\* What is put off is brought out as what an assistant says.
LEMMA PutOffIsSaid ==
  ASSUME NEW w
  PROVE  IsSequence(Request!PutOff(w)) /\ \A k \in DOMAIN Request!PutOff(w) : Request!PutOff(w)[k].role # "tool"
<1> DEFINE m == Request!AssistantMessage(w.blocks, w.reasoning)
<1>1. m.role = "assistant" BY SaidIsNoResult
<1> HIDE DEF m
<1>2. Request!PutOff(w) = <<>> \/ Request!PutOff(w) = <<m>> BY DEF Request!PutOff, m
<1> QED BY <1>1, <1>2, OneIsSequence, NoneIsSequence

\* Texts that stand together are what a user says.
LEMMA JoinedIsSaid ==
  ASSUME NEW texts
  PROVE  /\ IsSequence(Request!Joined(texts))
         /\ \A k \in DOMAIN Request!Joined(texts) : Request!Joined(texts)[k].role = "user"
         /\ texts = <<>> => Request!Joined(texts) = <<>>
<1> DEFINE m == Request!Plain("user", texts)
<1>1. m.role = "user" BY SaidIsNoResult
<1> HIDE DEF m
<1>2. (texts = <<>> /\ Request!Joined(texts) = <<>>) \/ (texts # <<>> /\ Request!Joined(texts) = <<m>>)
  BY DEF Request!Joined, m
<1> QED BY <1>1, <1>2, OneIsSequence, NoneIsSequence

\* What an assistant says is added, its calls in the last message.
LEMMA AssistantAdds ==
  ASSUME NEW blocks, NEW reasoning, Request!Assistant(blocks, reasoning),
         IsSequence(result), NEW mixed, Follows(result, mixed)
  PROVE  /\ IsSequence(result') /\ Follows(result', mixed)
         /\ Request!Tools(blocks) # {} => CallIsNear(result', Request!Tools(blocks), FALSE)
<1> DEFINE T == Request!Tools(blocks)
           s == IF T # {} THEN Request!Split(blocks, reasoning)
                ELSE [messages |-> <<Request!AssistantMessage(blocks, reasoning)>>,
                      waiting |-> Request!Nothing]
           late == Request!PutOff(waiting)
<1>1. result' = result \o late \o s.messages /\ waiting' = s.waiting BY DEF Request!Assistant
<1>2. \E x, w : /\ s = [messages |-> <<x>>, waiting |-> w] /\ x.role = "assistant"
                /\ T # {} => x.calls = T
                /\ w = Request!Nothing \/ (T # {} /\ \E b : w = Late(T, b, reasoning))
  <2>1. CASE T = {}
    <3> DEFINE x == Request!AssistantMessage(blocks, reasoning)
    <3>1. x.role = "assistant" BY SaidIsNoResult
    <3> HIDE DEF x
    <3> QED BY <2>1, <3>1 DEF x
  <2>2. CASE T # {}
    <3> DEFINE first == Request!FirstTool(blocks)
               before == SubSeq(blocks, 1, first - 1)
               y == Request!AssistantMessage(before, reasoning)
               x == [y EXCEPT !.calls = T]
               after == Request!OfTypes(SubSeq(blocks, first + 1, Len(blocks)),
                                        Request!Types \ {"tool"})
               w == IF after = <<>> THEN Request!Nothing ELSE Late(T, after, reasoning)
    <3>1. x.role = "assistant" /\ x.calls = T
      BY DEF Request!AssistantMessage, Request!Plain
    <3>2. Request!Split(blocks, reasoning) = [messages |-> <<x>>, waiting |-> w]
      BY DEF Request!Split, Late
    <3> HIDE DEF x
    <3>3. w = Request!Nothing \/ w = Late(T, after, reasoning) OBVIOUS
    <3> HIDE DEF w, T
    <3> QED BY <2>2, <3>1, <3>2, <3>3
  <2> QED BY <2>1, <2>2
<1>3. PICK x, w : /\ s = [messages |-> <<x>>, waiting |-> w] /\ x.role = "assistant"
                  /\ T # {} => x.calls = T
                  /\ w = Request!Nothing \/ (T # {} /\ \E b : w = Late(T, b, reasoning))
  BY <1>2
<1>4. s.messages = <<x>> /\ s.waiting = w BY <1>3
<1>5. waiting' = w /\ result' = result \o late \o <<x>> BY <1>1, <1>4
<1>6. IsSequence(late) /\ \A k \in DOMAIN late : late[k].role # "tool" BY PutOffIsSaid
<1> DEFINE base == result \o late
<1>7. result' = base \o <<x>> BY <1>5
<1> HIDE DEF late
<1>8. IsSequence(base) /\ Follows(base, mixed) BY <1>6, OthersAdded
<1> HIDE DEF base, s
<1>9. IsSequence(<<x>>) /\ DOMAIN <<x>> = {1} /\ <<x>>[1] = x /\ Len(<<x>>) = 1 BY OneIsSequence
<1>10. \A k \in DOMAIN <<x>> : <<x>>[k].role # "tool" BY <1>3, <1>9
<1>11. IsSequence(base \o <<x>>) /\ Follows(base \o <<x>>, mixed) BY <1>8, <1>9, <1>10, OthersAdded
<1>12. T # {} => CallIsNear(base \o <<x>>, T, FALSE)
  <2> SUFFICES ASSUME T # {} PROVE CallIsNear(base \o <<x>>, T, FALSE) OBVIOUS
  <2> DEFINE u == base \o <<x>>
  <2>1. /\ Len(base) \in Nat /\ DOMAIN u = 1..(Len(base) + 1)
        /\ \A k \in 1..1 : u[Len(base) + k] = <<x>>[k]
    BY <1>8, <1>9, Joined
  <2>2. u[Len(base) + 1] = x BY <1>9, <2>1
  <2>3. T \subseteq u[Len(base) + 1].calls BY <1>3, <2>2
  <2>4. Len(base) + 1 \in DOMAIN u /\ \A i \in DOMAIN u : ~(i > Len(base) + 1) BY <2>1
  <2> HIDE DEF u, T
  <2>5. CallIsNear(u, T, FALSE) BY <2>3, <2>4 DEF CallIsNear
  <2> QED BY <2>5 DEF u
<1> QED BY <1>7, <1>11, <1>12

\* What a user says in a message of its own
LEMMA UserAdds ==
  ASSUME NEW n, Request!UserString(n), IsSequence(result), NEW mixed, Follows(result, mixed)
  PROVE  IsSequence(result') /\ Follows(result', mixed) /\ waiting' = Request!Nothing
<1> DEFINE x == Request!Plain("user", <<n>>)
           late == Request!PutOff(waiting)
           base == result \o late
<1>1. result' = base \o <<x>> /\ waiting' = Request!Nothing BY DEF Request!UserString
<1>2. IsSequence(late) /\ \A k \in DOMAIN late : late[k].role # "tool" BY PutOffIsSaid
<1>3. x.role = "user" BY SaidIsNoResult
<1> HIDE DEF x, late
<1>4. IsSequence(base) /\ Follows(base, mixed) BY <1>2, OthersAdded
<1> HIDE DEF base
<1>5. IsSequence(<<x>>) /\ DOMAIN <<x>> = {1} /\ <<x>>[1] = x BY OneIsSequence
<1>6. \A k \in DOMAIN <<x>> : <<x>>[k].role # "tool" BY <1>3, <1>5
<1> QED BY <1>1, <1>4, <1>5, <1>6, OthersAdded

\* What an assistant says in a string
LEMMA StringAdds ==
  ASSUME NEW n, NEW reasoning, Request!AssistantString(n, reasoning),
         IsSequence(result), NEW mixed, Follows(result, mixed)
  PROVE  IsSequence(result') /\ Follows(result', mixed) /\ waiting' = waiting
<1> DEFINE y == Request!Plain("assistant", IF reasoning /\ mode = "think_tags" THEN <<0, n>> ELSE <<n>>)
           x == [y EXCEPT !.reasoning = IF reasoning /\ mode = "reasoning_content" THEN <<0>> ELSE <<>>]
<1>1. result' = Append(result, x) /\ waiting' = waiting BY DEF Request!AssistantString
<1>2. x.role = "assistant" BY DEF Request!Plain
<1> HIDE DEF x
<1>3. Append(result, x) = result \o <<x>>
  <2> DEFINE S == {result[k] : k \in DOMAIN result} \cup {x}
  <2>1. result \in Seq({result[k] : k \in DOMAIN result}) BY DEF IsSequence
  <2>2. {result[k] : k \in DOMAIN result} \subseteq S /\ x \in S OBVIOUS
  <2> HIDE DEF S
  <2>3. result \in Seq(S) BY <2>1, <2>2
  <2> QED BY <2>2, <2>3
<1>5. IsSequence(<<x>>) /\ DOMAIN <<x>> = {1} /\ <<x>>[1] = x BY OneIsSequence
<1>6. \A k \in DOMAIN <<x>> : <<x>>[k].role # "tool" BY <1>2, <1>5
<1> QED BY <1>1, <1>3, <1>5, <1>6, OthersAdded

LEMMA JoinedThree ==
  ASSUME NEW s, NEW t, NEW u, IsSequence(s), IsSequence(t), IsSequence(u)
  PROVE  s \o (t \o u) = (s \o t) \o u /\ s \o <<>> = s
<1> DEFINE Of(x) == {x[k] : k \in DOMAIN x}
           U == Of(s) \cup Of(t) \cup Of(u)
<1>1. s \in Seq(Of(s)) /\ t \in Seq(Of(t)) /\ u \in Seq(Of(u)) BY DEF IsSequence
<1> HIDE DEF Of
<1>2. s \in Seq(U) /\ t \in Seq(U) /\ u \in Seq(U) BY <1>1
<1> HIDE DEF U
<1> QED BY <1>2, ConcatAssociative, ConcatEmptySeq

\* What is put off, and for what
LEMMA AssistantWaits ==
  ASSUME NEW blocks, NEW reasoning, Request!Assistant(blocks, reasoning)
  PROVE  \/ waiting' = Request!Nothing
         \/ \E b : waiting' = Late(Request!Tools(blocks), b, reasoning)
<1> DEFINE T == Request!Tools(blocks)
           s == IF T # {} THEN Request!Split(blocks, reasoning)
                ELSE [messages |-> <<Request!AssistantMessage(blocks, reasoning)>>,
                      waiting |-> Request!Nothing]
<1>1. waiting' = s.waiting BY DEF Request!Assistant
<1>2. CASE T = {} BY <1>1, <1>2
<1>3. CASE T # {}
  <2> DEFINE after == Request!OfTypes(SubSeq(blocks, Request!FirstTool(blocks) + 1, Len(blocks)),
                                      Request!Types \ {"tool"})
  <2>1. waiting' = IF after = <<>> THEN Request!Nothing ELSE Late(T, after, reasoning)
    BY <1>1, <1>3 DEF Request!Split, Late
  <2> HIDE DEF after
  <2> QED BY <2>1
<1> QED BY <1>2, <1>3

\* What a client says is counted; the rest is as it was or as the action has it.
LEMMA SaidIs ==
  ASSUME NEW c, IsClient(c), NEW blocks, Len(blocks) \in Nat, NEW reasoning,
         Request!Said(c, blocks, reasoning)
  PROVE  /\ IsClient(client')
         /\ client'.blocks = c.blocks + Len(blocks)
         /\ client'.texts = c.texts \o Request!Numbers(Request!OfTypes(blocks, {"text"}))
         /\ client'.thoughts = c.thoughts \o Request!Kept(blocks, reasoning)
         /\ client'.ended = c.ended /\ client'.open = c.open /\ client'.spoke = c.spoke
         /\ client'.stray = c.stray /\ client'.early = c.early
         /\ client'.overtaken = c.overtaken /\ client'.repeated = c.repeated
<1> DEFINE ts == c.texts \o Request!Numbers(Request!OfTypes(blocks, {"text"}))
           hs == c.thoughts \o Request!Kept(blocks, reasoning)
<1>1. client' = [c EXCEPT !.blocks = c.blocks + Len(blocks), !.texts = ts, !.thoughts = hs]
  BY DEF Request!Said
<1> HIDE DEF ts, hs
<1>2. client' = [sent |-> c.sent, blocks |-> c.blocks + Len(blocks), results |-> c.results, texts |-> ts,
                 thoughts |-> hs, ended |-> c.ended, open |-> c.open, spoke |-> c.spoke,
                 stray |-> c.stray, early |-> c.early, overtaken |-> c.overtaken,
                 repeated |-> c.repeated]
  BY <1>1 DEF IsClient
<1>3. c.blocks + Len(blocks) \in Nat BY DEF IsClient
<1>4. c.spoke \in BOOLEAN /\ c.stray \in BOOLEAN /\ c.early \in BOOLEAN BY DEF IsClient
<1> HIDE DEF Request!Said
<1>5. IsClient(client') BY <1>2, <1>3, <1>4 DEF IsClient
<1> QED BY <1>2, <1>5 DEF ts, hs

LEMMA ConversionInitially == StreamsInit => ConversionInv
<1> SUFFICES ASSUME StreamsInit PROVE ConversionInv OBVIOUS
<1>1. /\ result = <<>> /\ waiting = Request!Nothing /\ list = Request!NoList
      /\ client = [sent |-> 0, blocks |-> 0, results |-> 0, texts |-> <<>>, thoughts |-> <<>>,
                   ended |-> Request!None, open |-> {}, spoke |-> FALSE,
                   stray |-> FALSE, early |-> FALSE, overtaken |-> FALSE, repeated |-> FALSE]
  BY DEF StreamsInit, Request!Init
<1>2. IsSequence(result) /\ Follows(result, client.early) BY <1>1, NoneIsSequence DEF Follows
<1>3. IsClient(client)
  <2>1. client.blocks = 0 /\ client.spoke = FALSE /\ client.stray = FALSE /\ client.early = FALSE BY <1>1
  <2> QED BY <1>1, <2>1 DEF IsClient
<1>4. ListTyped BY <1>1 DEF ListTyped, Request!NoList
<1>5. waiting = Late(waiting.tools, waiting.blocks, waiting.reasoning) BY <1>1 DEF Late, Request!Nothing
<1>6. ResultsInv
  <2>1. client.open = {} /\ list.brought = Request!Nothing BY <1>1 DEF Request!NoList
  <2> QED BY <1>1, <1>2, <2>1 DEF ResultsInv
<1> QED BY <1>3, <1>4, <1>5, <1>6 DEF ConversionInv, RequestTyped

\* What a step of the converter has to carry on
Carried ==
  /\ RequestTyped' /\ (client.stray => client'.stray)
  /\ (client.overtaken => client'.overtaken) /\ (client.repeated => client'.repeated)
  /\ ResultsInv /\ ~client'.stray => ResultsInv'

\* What is not being read is no list.
LEMMA NotReading ==
  ASSUME RequestTyped, ~list.reading, list' = list
  PROVE  /\ list = Request!NoList /\ list.texts = <<>> /\ list.brought = Request!Nothing
         /\ list'.texts = <<>> /\ list'.brought = Request!Nothing /\ ListTyped'
<1>1. list = Request!NoList BY DEF RequestTyped, ListTyped
<1>2. list.texts = <<>> /\ list.brought = Request!Nothing /\ list.reading = FALSE BY <1>1 DEF Request!NoList
<1>3. ListTyped' BY <1>1, <1>2 DEF ListTyped, Request!NoList
<1> QED BY <1>1, <1>2, <1>3

LEMMA AssistantCarries ==
  ASSUME RequestTyped, Request!AssistantSpeaks
  PROVE  Carried
<1>1. PICK types \in Request!Blocks, reasoning \in BOOLEAN :
        LET blocks == Request!Numbered(types)
        IN /\ Request!Assistant(blocks, reasoning)
           /\ Request!Said([client EXCEPT !.sent = client.sent + 1, !.open = Request!Tools(blocks),
                                          !.spoke = FALSE], blocks, reasoning)
  BY DEF Request!AssistantSpeaks
<1> DEFINE blocks == Request!Numbered(types)
           T == Request!Tools(blocks)
<1>c. PICK c : c = [client EXCEPT !.sent = client.sent + 1, !.open = T, !.spoke = FALSE] OBVIOUS
<1>2. Request!Assistant(blocks, reasoning) /\ Request!Said(c, blocks, reasoning) BY <1>1, <1>c
<1>3. ~list.reading /\ list' = list BY DEF Request!AssistantSpeaks, Request!MayGoOn
<1>4. Len(blocks) \in Nat
  <2>1. MaxBlocks \in Nat /\ client.blocks \in Nat
    BY ConversationIsBounded DEF RequestTyped, IsClient
  <2>2. PICK n \in 1..(MaxBlocks - client.blocks) : types \in [1..n -> Request!Types]
    BY DEF Request!Blocks
  <2>3. n \in Nat BY <2>1
  <2>4. DOMAIN blocks = 1..n BY <2>2 DEF Request!Numbered
  <2>5. blocks = [k \in 1..n |-> blocks[k]] BY <2>2 DEF Request!Numbered
  <2> HIDE DEF blocks
  <2> QED BY <2>3, <2>4, <2>5
<1> HIDE DEF blocks, T
<1>5. /\ IsClient(c) /\ c.open = T /\ c.spoke = FALSE
      /\ c.stray = client.stray /\ c.early = client.early
      /\ c.overtaken = client.overtaken /\ c.repeated = client.repeated
  BY <1>c DEF RequestTyped, IsClient
<1>6. /\ IsClient(client') /\ client'.open = T /\ client'.spoke = FALSE
      /\ client'.stray = client.stray /\ client'.early = client.early
      /\ client'.overtaken = client.overtaken /\ client'.repeated = client.repeated
  BY <1>2, <1>4, <1>5, SaidIs
<1>7. list'.texts = <<>> /\ list'.brought = Request!Nothing /\ ListTyped' BY <1>3, NotReading
<1>8. waiting' = Request!Nothing \/ \E b : waiting' = Late(T, b, reasoning)
  BY <1>2, AssistantWaits DEF T
<1>9. /\ waiting' = Late(waiting'.tools, waiting'.blocks, waiting'.reasoning)
      /\ waiting' # Request!Nothing => waiting'.tools = T
  BY <1>8 DEF Late, Request!Nothing
<1>10. RequestTyped' BY <1>6, <1>7, <1>9 DEF RequestTyped, Late
<1>11. ASSUME ResultsInv PROVE ResultsInv'
  <2>1. IsSequence(result) /\ Follows(result, client.early) BY <1>11 DEF ResultsInv
  <2>2. /\ IsSequence(result') /\ Follows(result', client.early)
        /\ T # {} => CallIsNear(result', T, FALSE)
    BY <1>2, <2>1, AssistantAdds DEF T
  <2> QED BY <1>6, <1>7, <1>9, <2>2 DEF ResultsInv
<1> QED BY <1>6, <1>10, <1>11 DEF Carried

LEMMA AssistantStringCarries ==
  ASSUME RequestTyped, Request!AssistantSpeaksString
  PROVE  Carried
<1> DEFINE x == client.overtaken \/ waiting # Request!Nothing
           b == Request!OneText
<1>c. PICK c : c = [client EXCEPT !.sent = client.sent + 1, !.open = {}, !.overtaken = x] OBVIOUS
<1>1. PICK reasoning \in BOOLEAN :
        Request!AssistantString(client.blocks + 1, reasoning) /\ Request!Said(c, b, reasoning)
  BY <1>c DEF Request!AssistantSpeaksString
<1>2. ~list.reading /\ list' = list BY DEF Request!AssistantSpeaksString, Request!MayGoOn
<1>3. Len(b) \in Nat BY DEF Request!OneText
<1>4. /\ IsClient(c) /\ c.open = {} /\ c.stray = client.stray /\ c.early = client.early
      /\ c.overtaken = x /\ c.repeated = client.repeated
  <2> HIDE DEF x
  <2> QED BY <1>c DEF RequestTyped, IsClient
<1> HIDE DEF b, x
<1>5. /\ IsClient(client') /\ client'.open = {} /\ client'.stray = client.stray /\ client'.early = client.early
      /\ client'.overtaken = x /\ client'.repeated = client.repeated
  BY <1>1, <1>3, <1>4, SaidIs
<1>6. list'.brought = Request!Nothing /\ ListTyped' BY <1>2, NotReading
<1>7. waiting' = waiting BY <1>1 DEF Request!AssistantString
<1>8. RequestTyped' BY <1>5, <1>6, <1>7 DEF RequestTyped, Late
<1>9. ASSUME ResultsInv PROVE ResultsInv'
  <2>1. IsSequence(result) /\ Follows(result, client.early) BY <1>9 DEF ResultsInv
  <2>2. IsSequence(result') /\ Follows(result', client.early) BY <1>1, <2>1, StringAdds
  <2> QED BY <1>5, <1>6, <2>2 DEF ResultsInv
<1> QED BY <1>5, <1>8, <1>9 DEF Carried, x

LEMMA UserStringCarries ==
  ASSUME RequestTyped, Request!UserSpeaksString
  PROVE  Carried
<1> DEFINE b == Request!OneText
<1>c. PICK c : c = [client EXCEPT !.sent = client.sent + 1, !.open = {}] OBVIOUS
<1>1. Request!UserString(client.blocks + 1) /\ Request!Said(c, b, FALSE)
  BY <1>c DEF Request!UserSpeaksString
<1>2. ~list.reading /\ list' = list BY DEF Request!UserSpeaksString, Request!MayGoOn
<1>3. Len(b) \in Nat BY DEF Request!OneText
<1>4. /\ IsClient(c) /\ c.open = {} /\ c.stray = client.stray /\ c.early = client.early
      /\ c.overtaken = client.overtaken /\ c.repeated = client.repeated
  BY <1>c DEF RequestTyped, IsClient
<1> HIDE DEF b
<1>5. /\ IsClient(client') /\ client'.open = {} /\ client'.stray = client.stray /\ client'.early = client.early
      /\ client'.overtaken = client.overtaken /\ client'.repeated = client.repeated
  BY <1>1, <1>3, <1>4, SaidIs
<1>6. list'.brought = Request!Nothing /\ ListTyped' BY <1>2, NotReading
<1>7. waiting' = Request!Nothing BY <1>1 DEF Request!UserString
<1>8. RequestTyped' BY <1>5, <1>6, <1>7 DEF RequestTyped, Late, Request!Nothing
<1>9. ASSUME ResultsInv PROVE ResultsInv'
  <2>1. IsSequence(result) /\ Follows(result, client.early) BY <1>9 DEF ResultsInv
  <2>2. IsSequence(result') /\ Follows(result', client.early) BY <1>1, <2>1, UserAdds
  <2> QED BY <1>5, <1>6, <2>2 DEF ResultsInv
<1> QED BY <1>5, <1>8, <1>9 DEF Carried

LEMMA ListBeginsCarries ==
  ASSUME RequestTyped, Request!UserListBegins
  PROVE  Carried
<1>1. /\ client.ended = Request!None /\ result' = result /\ waiting' = waiting
      /\ list' = [Request!NoList EXCEPT !.reading = TRUE]
      /\ client' = [client EXCEPT !.sent = client.sent + 1]
  BY DEF Request!UserListBegins, Request!MayGoOn
<1>2. /\ IsClient(client') /\ client'.open = client.open /\ client'.spoke = client.spoke
      /\ client'.stray = client.stray /\ client'.early = client.early /\ client'.ended = client.ended
      /\ client'.overtaken = client.overtaken /\ client'.repeated = client.repeated
  BY <1>1 DEF RequestTyped, IsClient
<1>3. list' = [reading |-> TRUE, texts |-> <<>>, brought |-> Request!Nothing]
  BY <1>1 DEF Request!NoList
<1>4. ListTyped'
  <2>1. /\ list'.reading = TRUE /\ list'.texts = <<>> /\ list'.brought = Request!Nothing
        /\ client'.ended = Request!None
    BY <1>1, <1>2, <1>3
  <2> QED BY <1>3, <2>1 DEF ListTyped
<1>5. RequestTyped' BY <1>1, <1>2, <1>4 DEF RequestTyped, Late
<1>6. ASSUME ResultsInv PROVE ResultsInv'
  BY <1>1, <1>2, <1>3, <1>6 DEF ResultsInv, IsSequence, Follows, CallIsNear
<1> QED BY <1>2, <1>5, <1>6 DEF Carried

LEMMA TextCarries ==
  ASSUME RequestTyped, Request!UserText
  PROVE  Carried
<1> DEFINE x == client.overtaken \/ waiting # Request!Nothing
           b == Request!OneText
<1>c. PICK c : c = [client EXCEPT !.spoke = TRUE, !.overtaken = x] OBVIOUS
<1>1. /\ list.reading /\ result' = result /\ waiting' = waiting
      /\ list' = [list EXCEPT !.texts = Append(list.texts, client.blocks + 1)]
      /\ Request!Said(c, b, FALSE)
  BY <1>c DEF Request!UserText
<1>2. Len(b) \in Nat BY DEF Request!OneText
<1>3. /\ IsClient(c) /\ c.open = client.open /\ c.spoke = TRUE
      /\ c.stray = client.stray /\ c.early = client.early /\ c.ended = client.ended
      /\ c.overtaken = x /\ c.repeated = client.repeated
  <2> HIDE DEF x
  <2> QED BY <1>c DEF RequestTyped, IsClient
<1> HIDE DEF b, x
<1>4. /\ IsClient(client') /\ client'.open = client.open /\ client'.spoke = TRUE
      /\ client'.stray = client.stray /\ client'.early = client.early /\ client'.ended = client.ended
      /\ client'.overtaken = x /\ client'.repeated = client.repeated
  BY <1>1, <1>2, <1>3, SaidIs
<1>5. list' = [reading |-> list.reading, texts |-> Append(list.texts, client.blocks + 1), brought |-> list.brought]
  BY <1>1 DEF RequestTyped, ListTyped
<1>6. ListTyped'
  <2>1. list.reading \in BOOLEAN /\ client.ended = Request!None BY <1>1 DEF RequestTyped, ListTyped
  <2> QED BY <1>1, <1>4, <1>5, <2>1 DEF ListTyped
<1>7. RequestTyped' BY <1>1, <1>4, <1>6 DEF RequestTyped, Late
<1>8. ASSUME ResultsInv PROVE ResultsInv'
  <2>1. client.open # {} => CallIsNear(result, client.open, client.spoke)
    BY <1>1, <1>8 DEF ResultsInv, RequestTyped, ListTyped
  <2>2. client.spoke \in BOOLEAN BY DEF RequestTyped, IsClient
  <2>3. client.open # {} => CallIsNear(result, client.open, TRUE)
    <3> SUFFICES ASSUME client.open # {} PROVE CallIsNear(result, client.open, TRUE) OBVIOUS
    <3>1. TRUE \in BOOLEAN /\ (client.spoke => TRUE) OBVIOUS
    <3> QED BY <2>1, <2>2, <3>1, MoreBetween
  <2>4. IsSequence(result') /\ Follows(result', client'.early)
    BY <1>1, <1>4, <1>8 DEF ResultsInv
  <2>5. client'.open # {} => CallIsNear(result', client'.open, client'.spoke)
    BY <1>1, <1>4, <2>3
  <2> QED BY <1>1, <1>4, <1>5, <1>8, <2>4, <2>5 DEF ResultsInv
<1> QED BY <1>4, <1>7, <1>8 DEF Carried, x

\* A result that was due follows its call.
LEMMA ResultCarries ==
  ASSUME RequestTyped, Request!UserResult
  PROVE  Carried
<1>1. PICK tool :
        /\ list.reading
        /\ Request!Result(tool)
        /\ client' = [client EXCEPT !.results = client.results + 1, !.open = client.open \ {tool},
                                    !.stray = client.stray \/ tool \notin client.open,
                                    !.early = client.early \/ client.spoke,
                                    !.repeated = client.repeated \/ list.brought # Request!Nothing]
  BY DEF Request!UserResult
<1> DEFINE rest == waiting.tools \ {tool}
           last == waiting # Request!Nothing /\ rest = {}
           brought == IF last THEN waiting ELSE list.brought
           open == client.open \ {tool}
           early == client.early \/ client.spoke
           texts == Request!Joined(list.texts)
           one == <<Request!ToolMessage(tool)>>
           late == Request!PutOff(brought)
<1>2. /\ result' = result \o texts \o one \o late
      /\ waiting' = IF waiting = Request!Nothing \/ last THEN Request!Nothing
                    ELSE [waiting EXCEPT !.tools = rest]
      /\ list' = [list EXCEPT !.texts = <<>>, !.brought = brought]
  BY <1>1 DEF Request!Result
<1>3. /\ IsClient(client') /\ client'.open = open /\ client'.early = early
      /\ client'.spoke = client.spoke /\ client'.ended = client.ended
      /\ client'.stray = (client.stray \/ tool \notin client.open)
      /\ client'.overtaken = client.overtaken
      /\ client'.repeated = (client.repeated \/ list.brought # Request!Nothing)
  BY <1>1 DEF RequestTyped, IsClient
<1>4. client.spoke \in BOOLEAN /\ client.early \in BOOLEAN /\ early \in BOOLEAN
  BY DEF RequestTyped, IsClient
<1>5. /\ list.reading \in BOOLEAN /\ list.reading /\ client.ended = Request!None
      /\ list.texts # <<>> => client.spoke
      /\ list = [reading |-> list.reading, texts |-> list.texts, brought |-> list.brought]
  BY <1>1 DEF RequestTyped, ListTyped
<1>6. waiting = Late(waiting.tools, waiting.blocks, waiting.reasoning) BY DEF RequestTyped
<1> HIDE DEF brought
<1>7. list' = [reading |-> list.reading, texts |-> <<>>, brought |-> brought]
  BY <1>2, <1>5
<1>8. ListTyped'
  <2>1. client'.ended = Request!None BY <1>3, <1>5
  <2> QED BY <1>5, <1>7, <2>1 DEF ListTyped
<1>9. waiting' = Request!Nothing \/ waiting' = Late(rest, waiting.blocks, waiting.reasoning)
  <2> HIDE DEF rest
  <2>1. [waiting EXCEPT !.tools = rest] = Late(rest, waiting.blocks, waiting.reasoning)
    BY <1>6 DEF Late
  <2> QED BY <1>2, <2>1
<1>10. /\ waiting' = Late(waiting'.tools, waiting'.blocks, waiting'.reasoning)
       /\ waiting' # Request!Nothing => waiting'.tools = rest
  <2> HIDE DEF rest
  <2> QED BY <1>9 DEF Late, Request!Nothing
<1>11. RequestTyped' BY <1>3, <1>8, <1>10 DEF RequestTyped, Late
<1> HIDE DEF last, rest, open, early, texts, one, late
<1>12. ASSUME ResultsInv, tool \in client.open PROVE ResultsInv'
  <2>1. /\ IsSequence(result) /\ Follows(result, client.early)
        /\ CallIsNear(result, client.open, client.spoke)
        /\ list.brought = Request!Nothing
        /\ waiting # Request!Nothing => client.open \subseteq waiting.tools
    BY <1>5, <1>12 DEF ResultsInv
  <2>2. Follows(result, early) BY <1>4, <2>1, MoreBetween DEF early
  <2>3. /\ IsSequence(texts) /\ \A k \in DOMAIN texts : texts[k].role = "user"
        /\ list.texts = <<>> => texts = <<>>
    BY JoinedIsSaid DEF texts
  <2> DEFINE s1 == result \o texts
  <2>4. IsSequence(s1) /\ Follows(s1, early) BY <2>1, <2>2, <2>3, OthersAdded
  <2>5. CallIsNear(s1, client.open, client.spoke)
    <3>1. \A k \in DOMAIN texts : Between(texts[k], client.spoke)
      <4>1. CASE list.texts = <<>> BY <2>3, <4>1
      <4>2. CASE list.texts # <<>> BY <1>5, <2>3, <4>2 DEF Between
      <4> QED BY <4>1, <4>2
    <3> QED BY <2>1, <2>3, <3>1, StaysNear
  <2> HIDE DEF s1
  <2>6. CallIsNear(s1, client.open, early) BY <1>4, <2>5, MoreBetween DEF early
  <2>7. IsSequence(one) /\ Results(one, client.open)
    <3> DEFINE m == Request!ToolMessage(tool)
    <3>1. m.role = "tool" /\ m.content[1] = tool BY SaidIsNoResult
    <3> HIDE DEF m
    <3>2. IsSequence(<<m>>) /\ DOMAIN <<m>> = {1} /\ <<m>>[1] = m BY OneIsSequence
    <3>3. Results(<<m>>, client.open) BY <1>12, <3>1, <3>2 DEF Results
    <3> QED BY <3>2, <3>3 DEF one, m
  <2> DEFINE s2 == s1 \o one
  <2>8. IsSequence(s2) /\ Follows(s2, early) BY <2>4, <2>6, <2>7, ResultsAdded
  <2>9. CallIsNear(s2, client.open, client.spoke)
    <3>1. \A k \in DOMAIN one : Between(one[k], client.spoke) BY <2>7 DEF Results, Between
    <3> QED BY <2>4, <2>5, <2>7, <3>1, StaysNear
  <2> HIDE DEF s2
  <2>10. open \subseteq client.open BY DEF open
  <2>11. CallIsNear(s2, open, client.spoke) BY <1>4, <2>9, <2>10, MoreBetween
  <2>12. result' = s2 \o late BY <1>2 DEF s1, s2
  <2>13. IsSequence(late) /\ \A k \in DOMAIN late : late[k].role # "tool" BY PutOffIsSaid DEF late
  <2>14. IsSequence(result') /\ Follows(result', early) BY <2>8, <2>12, <2>13, OthersAdded
  <2>15. CASE last
    <3>1. open = {} BY <2>1, <2>15 DEF last, rest, open
    <3>2. waiting' = Request!Nothing BY <1>2, <2>15
    <3> QED BY <1>3, <2>14, <3>1, <3>2 DEF ResultsInv
  <2>16. CASE ~last
    <3>1. brought = Request!Nothing BY <2>1, <2>16 DEF brought
    <3>2. late = <<>> BY <3>1 DEF late, Request!PutOff
    <3>3. result' = s2 BY <2>8, <2>12, <3>2, JoinedThree
    <3>4. CallIsNear(result', open, client.spoke) BY <2>11, <3>3
    <3>5. waiting' # Request!Nothing => open \subseteq waiting'.tools
      <4>1. waiting' # Request!Nothing => waiting # Request!Nothing BY <1>2
      <4> QED BY <1>10, <2>1, <4>1 DEF rest, open
    <3>6. list'.brought = Request!Nothing BY <1>7, <3>1
    <3> QED BY <1>3, <2>14, <3>4, <3>5, <3>6 DEF ResultsInv
  <2> QED BY <2>15, <2>16
<1> QED BY <1>3, <1>11, <1>12 DEF Carried

LEMMA ListEndsCarries ==
  ASSUME RequestTyped, Request!UserListEnds
  PROVE  Carried
<1> DEFINE texts == Request!Joined(list.texts)
<1>1. /\ list.reading /\ result' = result \o texts /\ list' = Request!NoList
      /\ waiting' = waiting /\ client' = client
  BY DEF Request!UserListEnds
<1>2. ListTyped' BY <1>1 DEF ListTyped, Request!NoList
<1>3. RequestTyped' BY <1>1, <1>2 DEF RequestTyped, IsClient, Late
<1>4. list'.brought = Request!Nothing BY <1>1 DEF Request!NoList
<1>5. /\ IsSequence(texts) /\ \A k \in DOMAIN texts : texts[k].role = "user"
      /\ list.texts = <<>> => texts = <<>>
  BY JoinedIsSaid
<1>6. list.texts # <<>> => client.spoke BY DEF RequestTyped, ListTyped
<1> HIDE DEF texts
<1>7. \A k \in DOMAIN texts : Between(texts[k], client.spoke)
  <2>1. CASE list.texts = <<>> BY <1>5, <2>1
  <2>2. CASE list.texts # <<>> BY <1>5, <1>6, <2>2 DEF Between
  <2> QED BY <2>1, <2>2
<1>8. ASSUME ResultsInv PROVE ResultsInv'
  <2>1. IsSequence(result) /\ Follows(result, client.early) BY <1>8 DEF ResultsInv
  <2>2. \A k \in DOMAIN texts : texts[k].role # "tool" BY <1>5
  <2>3. IsSequence(result') /\ Follows(result', client.early) BY <1>1, <1>5, <2>1, <2>2, OthersAdded
  <2>4. client.ended = Request!None /\ client.open # {} => CallIsNear(result', client.open, client.spoke)
    <3> SUFFICES ASSUME client.ended = Request!None, client.open # {}
                 PROVE  CallIsNear(result', client.open, client.spoke)
      OBVIOUS
    <3>1. CallIsNear(result, client.open, client.spoke) BY <1>8 DEF ResultsInv
    <3> QED BY <1>1, <1>5, <1>7, <2>1, <3>1, StaysNear
  <2> QED BY <1>1, <1>4, <1>8, <2>3, <2>4 DEF ResultsInv
<1> QED BY <1>1, <1>3, <1>8 DEF Carried

\* When the conversation has ended, nothing waits.
LEMMA EndCarries ==
  ASSUME RequestTyped, Request!Ends \/ Request!Refused
  PROVE  Carried
<1>1. PICK how : how # Request!None /\ client' = [client EXCEPT !.ended = how]
  <2>1. "whole" # Request!None /\ "refused" # Request!None BY DEF Request!None
  <2> QED BY <2>1 DEF Request!Ends, Request!Refused
<1>2. waiting' = Request!Nothing /\ list' = Request!NoList
  <2>1. ~list.reading => list = Request!NoList BY DEF RequestTyped, ListTyped
  <2> QED BY <2>1 DEF Request!Ends, Request!Refused
<1>3. /\ IsClient(client') /\ client'.stray = client.stray /\ client'.early = client.early
      /\ client'.overtaken = client.overtaken /\ client'.repeated = client.repeated
      /\ client'.ended = how
  BY <1>1 DEF RequestTyped, IsClient
<1>4. ListTyped' BY <1>2 DEF ListTyped, Request!NoList
<1>5. RequestTyped' BY <1>2, <1>3, <1>4 DEF RequestTyped, Late, Request!Nothing
<1>6. list'.brought = Request!Nothing BY <1>2 DEF Request!NoList
<1>7. ASSUME ResultsInv PROVE ResultsInv'
  <2>1. IsSequence(result) /\ Follows(result, client.early) BY <1>7 DEF ResultsInv
  <2>2. IsSequence(result') /\ Follows(result', client.early)
    <3>1. CASE Request!Refused
      <4>1. result' = <<>> BY <3>1 DEF Request!Refused
      <4> QED BY <4>1, NoneIsSequence DEF Follows
    <3>2. CASE Request!Ends
      <4>1. result' = result \o Request!PutOff(waiting) BY <3>2 DEF Request!Ends
      <4> QED BY <2>1, <4>1, PutOffIsSaid, OthersAdded
    <3> QED BY <3>1, <3>2
  <2> QED BY <1>1, <1>2, <1>3, <1>6, <2>2 DEF ResultsInv
<1> QED BY <1>3, <1>5, <1>7 DEF Carried

LEMMA ConversionSteps == ConversionInv /\ [StreamsNext]_allVars => ConversionInv'
<1> SUFFICES ASSUME ConversionInv, [StreamsNext]_allVars PROVE ConversionInv' OBVIOUS
<1>1. Request!Next \/ UNCHANGED requestVars
  BY DEF StreamsNext, RequestStep, OpenAiStep, NativeStep, ServiceStep, StatusStep, allVars
<1>2. CASE UNCHANGED requestVars
  BY <1>2 DEF requestVars, ConversionInv, RequestTyped, ResultsInv, IsClient, ListTyped, Late,
              IsSequence, Follows, CallIsNear
<1>3. CASE Request!Next
  <2>1. RequestTyped BY DEF ConversionInv
  <2>2. Carried
    BY <1>3, <2>1, AssistantCarries, AssistantStringCarries, UserStringCarries, ListBeginsCarries,
       TextCarries, ResultCarries, ListEndsCarries, EndCarries DEF Request!Next
  <2> QED BY <2>2 DEF Carried, ConversionInv
<1> QED BY <1>1, <1>2, <1>3

\* An OpenAI provider refuses a result that does not stand behind its call.
\* As long as the client gives every result when it is due, which is once and
\* before anybody speaks but users in lists, no message of an assistant's and
\* nothing that was put off parts it from its call, in however many lists the
\* results come; and while the user too is silent until all of them are given,
\* there are only results between (core/anthropic/conversion.py).
THEOREM ResultsStayBehindCalls == StreamsSpec => []ResultsFollowCalls
<1>1. ConversionInv => ResultsFollowCalls
  BY DEF ConversionInv, ResultsInv, Follows, Between, ResultsFollowCalls, Request!ResultsFollowCalls
<1> QED BY <1>1, ConversionInitially, ConversionSteps, PTL DEF StreamsSpec

-----------------------------------------------------------------------------
(* Flattening and selecting                                                *)

\* The recursive function in FlattenSeq, for the first n places
IsFlat(f, s, n) == f = [i \in 1..n |-> IF i = 1 THEN s[i] ELSE f[i - 1] \o s[i]]

LEMMA FlatExists ==
  ASSUME NEW X, NEW s \in Seq(Seq(X)), NEW n \in Nat, n <= Len(s)
  PROVE  \E f \in [1..n -> Seq(X)] : IsFlat(f, s, n)
<1> DEFINE P(k) == k <= Len(s) => \E f \in [1..k -> Seq(X)] : IsFlat(f, s, k)
           S == {k \in Nat : P(k)}
<1>1. P(0)
  <2> DEFINE f == [i \in 1..0 |-> <<>>]
  <2>1. f \in [1..0 -> Seq(X)] OBVIOUS
  <2>2. IsFlat(f, s, 0) BY DEF IsFlat
  <2> QED BY <2>1, <2>2
<1>2. ASSUME NEW k \in Nat, P(k) PROVE P(k + 1)
  <2> SUFFICES ASSUME k + 1 <= Len(s)
               PROVE  \E f \in [1..(k + 1) -> Seq(X)] : IsFlat(f, s, k + 1)
    OBVIOUS
  <2>1. k <= Len(s) /\ s[k + 1] \in Seq(X) OBVIOUS
  <2>2. PICK g \in [1..k -> Seq(X)] : IsFlat(g, s, k) BY <1>2, <2>1
  <2> DEFINE last == IF k = 0 THEN s[1] ELSE g[k] \o s[k + 1]
             f == [i \in 1..(k + 1) |-> IF i = k + 1 THEN last ELSE g[i]]
  <2>3. last \in Seq(X)
    <3>1. CASE k = 0 BY <2>1, <3>1
    <3>2. CASE k # 0
      <4>1. g[k] \in Seq(X) BY <3>2
      <4> QED BY <2>1, <3>2, <4>1
    <3> QED BY <3>1, <3>2
  <2>4. \A i \in 1..k : g[i] = IF i = 1 THEN s[i] ELSE g[i - 1] \o s[i] BY <2>2 DEF IsFlat
  <2>5. ASSUME NEW i \in 1..(k + 1) PROVE f[i] = IF i = 1 THEN s[i] ELSE f[i - 1] \o s[i]
    <3>1. CASE i = k + 1
      <4>1. f[i] = last BY <3>1
      <4>2. k # 0 => i # 1 /\ f[i - 1] = g[k] BY <3>1
      <4> HIDE DEF f
      <4> QED BY <3>1, <4>1, <4>2
    <3>2. CASE i # k + 1
      <4>1. i \in 1..k /\ f[i] = g[i] BY <3>2
      <4>2. i # 1 => i - 1 \in 1..(k + 1) /\ i - 1 # k + 1 BY <4>1
      <4>3. i # 1 => f[i - 1] = g[i - 1] BY <4>2
      <4> HIDE DEF f
      <4> QED BY <2>4, <4>1, <4>3
    <3> QED BY <3>1, <3>2
  <2>6. f \in [1..(k + 1) -> Seq(X)] BY <2>3
  <2>7. IsFlat(f, s, k + 1)
    <3>1. f = [i \in 1..(k + 1) |-> f[i]] OBVIOUS
    <3> HIDE DEF f
    <3> QED BY <2>5, <3>1 DEF IsFlat
  <2> HIDE DEF f
  <2> QED BY <2>6, <2>7
<1>3. Nat \subseteq S
  <2>1. 0 \in S /\ \A k \in Nat : k \in S => k + 1 \in S
    <3> HIDE DEF P
    <3> QED BY <1>1, <1>2
  <2> HIDE DEF S
  <2> QED BY <2>1, NP!NatInductionOnSet
<1> QED BY <1>3

Agree(s, t, n) == \A k \in 1..n : s[k] = t[k]

\* Two that agree on the first places
LEMMA FlatAgrees ==
  ASSUME NEW f, NEW g, NEW s, NEW t, NEW m \in Nat, NEW n \in Nat, m <= n,
         IsFlat(f, s, m), IsFlat(g, t, n), Agree(s, t, m)
  PROVE  Agree(f, g, m)
<1> DEFINE P(k) == k \in 1..m => f[k] = g[k]
           S == {k \in Nat : P(k)}
<1>1. P(0) OBVIOUS
<1>2. ASSUME NEW k \in Nat, P(k) PROVE P(k + 1)
  <2> SUFFICES ASSUME k + 1 \in 1..m PROVE f[k + 1] = g[k + 1] OBVIOUS
  <2>1. k + 1 \in 1..n /\ (k + 1) - 1 = k /\ s[k + 1] = t[k + 1] BY DEF Agree
  <2>2. f[k + 1] = IF k + 1 = 1 THEN s[k + 1] ELSE f[k] \o s[k + 1] BY <2>1 DEF IsFlat
  <2>3. g[k + 1] = IF k + 1 = 1 THEN t[k + 1] ELSE g[k] \o t[k + 1] BY <2>1 DEF IsFlat
  <2>4. k + 1 # 1 => f[k] = g[k] BY <1>2
  <2> QED BY <2>1, <2>2, <2>3, <2>4
<1>3. Nat \subseteq S
  <2>1. 0 \in S /\ \A k \in Nat : k \in S => k + 1 \in S
    <3> HIDE DEF P
    <3> QED BY <1>1, <1>2
  <2> HIDE DEF S
  <2> QED BY <2>1, NP!NatInductionOnSet
<1> QED BY <1>3 DEF Agree

\* What FlattenSeq gives for a sequence of sequences
LEMMA FlatIs ==
  ASSUME NEW X, NEW s \in Seq(Seq(X))
  PROVE  /\ s = <<>> => Request!FlattenSeq(s) = <<>>
         /\ s # <<>> => \E f \in [1..Len(s) -> Seq(X)] :
                          IsFlat(f, s, Len(s)) /\ Request!FlattenSeq(s) = f[Len(s)]
<1> DEFINE g == CHOOSE f : IsFlat(f, s, Len(s))
<1>1. Len(s) \in Nat /\ Len(s) <= Len(s) OBVIOUS
<1>2. PICK f \in [1..Len(s) -> Seq(X)] : IsFlat(f, s, Len(s)) BY <1>1, FlatExists
<1>3. IsFlat(g, s, Len(s)) BY <1>2
<1>4. Request!FlattenSeq(s) = IF Len(s) = 0 THEN s ELSE g[Len(s)] BY DEF Request!FlattenSeq, IsFlat
<1> HIDE DEF g
<1>a. Agree(s, s, Len(s)) BY DEF Agree
<1>5. Agree(f, g, Len(s)) BY <1>1, <1>2, <1>3, <1>a, FlatAgrees
<1>6. s = <<>> <=> Len(s) = 0 OBVIOUS
<1>7. s # <<>> => Len(s) \in 1..Len(s) BY <1>1, <1>6
<1> QED BY <1>2, <1>4, <1>5, <1>6, <1>7 DEF Agree

\* One more
LEMMA FlattenOne ==
  ASSUME NEW X, NEW s \in Seq(Seq(X)), NEW x \in Seq(X)
  PROVE  /\ Request!FlattenSeq(s) \in Seq(X)
         /\ Request!FlattenSeq(Append(s, x)) = Request!FlattenSeq(s) \o x
<1> DEFINE t == Append(s, x)
           N == Len(s)
<1>1. /\ t \in Seq(Seq(X)) /\ t # <<>> /\ Len(t) = N + 1 /\ N \in Nat
      /\ t[N + 1] = x /\ \A k \in 1..N : s[k] = t[k]
  <2>1. N \in Nat /\ t \in Seq(Seq(X)) /\ Len(t) = N + 1 OBVIOUS
  <2>2. t[N + 1] = x OBVIOUS
  <2>3. \A k \in 1..N : s[k] = t[k] OBVIOUS
  <2> HIDE DEF t
  <2>4. t # <<>> BY <2>1
  <2> QED BY <2>1, <2>2, <2>3, <2>4
<1>a. IF s = <<>> THEN N = 0 ELSE N >= 1 OBVIOUS
<1> HIDE DEF t, N
<1>2. PICK g \in [1..Len(t) -> Seq(X)] : IsFlat(g, t, Len(t)) /\ Request!FlattenSeq(t) = g[Len(t)]
  BY <1>1, FlatIs
<1>3. g[N + 1] = IF N + 1 = 1 THEN x ELSE g[N] \o x
  <2>1. N + 1 \in 1..Len(t) /\ (N + 1) - 1 = N BY <1>1
  <2> QED BY <1>1, <1>2, <2>1 DEF IsFlat
<1>4. CASE s = <<>>
  <2>1. Request!FlattenSeq(s) = <<>> BY <1>4, FlatIs
  <2>2. N = 0 BY <1>a, <1>4
  <2> QED BY <1>1, <1>2, <1>3, <2>1, <2>2 DEF t
<1>5. CASE s # <<>>
  <2>1. PICK f \in [1..N -> Seq(X)] : IsFlat(f, s, N) /\ Request!FlattenSeq(s) = f[N]
    BY <1>5, FlatIs DEF N
  <2>2. N >= 1 /\ N \in 1..N BY <1>a, <1>1, <1>5
  <2>3. N <= Len(t) /\ Len(t) \in Nat BY <1>1
  <2>a. Agree(s, t, N) BY <1>1 DEF Agree
  <2>4. Agree(f, g, N) BY <1>1, <1>2, <2>1, <2>3, <2>a, FlatAgrees
  <2>5. f[N] = g[N] /\ f[N] \in Seq(X) BY <2>1, <2>2, <2>4 DEF Agree
  <2>6. N + 1 # 1 BY <2>2
  <2> QED BY <1>1, <1>2, <1>3, <2>1, <2>5, <2>6 DEF t
<1> QED BY <1>4, <1>5

\* A sequence is made by appending.
LEMMA SeqInduction ==
  ASSUME NEW X, NEW S, <<>> \in S, \A s \in Seq(X), x \in X : s \in S => Append(s, x) \in S
  PROVE  Seq(X) \subseteq S
<1> DEFINE P(n) == \A s \in Seq(X) : Len(s) = n => s \in S
           N == {n \in Nat : P(n)}
<1>1. P(0)
  <2>1. \A s \in Seq(X) : Len(s) = 0 => s = <<>> OBVIOUS
  <2> QED BY <2>1
<1>2. ASSUME NEW n \in Nat, P(n) PROVE P(n + 1)
  <2> SUFFICES ASSUME NEW s \in Seq(X), Len(s) = n + 1 PROVE s \in S OBVIOUS
  <2> DEFINE t == SubSeq(s, 1, n)
             x == s[n + 1]
  <2>1. t \in Seq(X) /\ Len(t) = n /\ x \in X /\ \A k \in 1..n : t[k] = s[k] OBVIOUS
  <2> HIDE DEF t
  <2>2. Append(t, x) \in Seq(X) /\ Len(Append(t, x)) = n + 1 BY <2>1
  <2>3. \A k \in 1..(n + 1) : Append(t, x)[k] = s[k] BY <2>1
  <2>4. Append(t, x) = s BY <2>2, <2>3, SeqEqual
  <2>5. t \in S BY <1>2, <2>1
  <2> QED BY <2>1, <2>4, <2>5
<1>3. Nat \subseteq N
  <2>1. 0 \in N /\ \A n \in Nat : n \in N => n + 1 \in N
    <3> HIDE DEF P
    <3> QED BY <1>1, <1>2
  <2> HIDE DEF N
  <2> QED BY <2>1, NP!NatInductionOnSet
<1> SUFFICES ASSUME NEW s \in Seq(X) PROVE s \in S OBVIOUS
<1>4. Len(s) \in Nat OBVIOUS
<1> QED BY <1>3, <1>4

LEMMA Appended ==
  ASSUME NEW X, NEW s \in Seq(X), NEW t \in Seq(X), NEW x \in X
  PROVE  s \o Append(t, x) = Append(s \o t, x) /\ Append(t, x) = t \o <<x>>
<1>1. <<x>> \in Seq(X) OBVIOUS
<1>2. \A u \in Seq(X) : Append(u, x) = u \o <<x>> OBVIOUS
<1>3. s \o t \in Seq(X) OBVIOUS
<1> QED BY <1>1, <1>2, <1>3, ConcatAssociative

LEMMA ElementsIn ==
  ASSUME NEW X, NEW Y, NEW s \in Seq(X), \A k \in 1..Len(s) : s[k] \in Y
  PROVE  s \in Seq(Y)
OBVIOUS

LEMMA FlattenNone == Request!FlattenSeq(<<>>) = <<>>
<1>1. <<>> \in Seq(Seq({})) OBVIOUS
<1> QED BY <1>1, FlatIs

Associates(X) == \A a, b, c \in Seq(X) : (a \o b) \o c = a \o (b \o c)

LEMMA JoinsAssociate ==
  ASSUME NEW X
  PROVE  Associates(X)
BY DEF Associates

LEMMA FlattenJoined ==
  ASSUME NEW X, NEW s \in Seq(Seq(X)), NEW t \in Seq(Seq(X))
  PROVE  Request!FlattenSeq(s \o t) = Request!FlattenSeq(s) \o Request!FlattenSeq(t)
<1> DEFINE F(u) == Request!FlattenSeq(u)
           S == {u \in Seq(Seq(X)) : F(s \o u) = F(s) \o F(u)}
<1>0. \A u \in Seq(Seq(X)), x \in Seq(X) : F(u) \in Seq(X) /\ F(Append(u, x)) = F(u) \o x
  BY FlattenOne
<1>1. <<>> \in S
  <2>0. <<>> \in Seq(X) OBVIOUS
  <2>1. F(s) \in Seq(X) BY <1>0, <2>0
  <2>2. F(<<>>) = <<>> BY FlattenNone
  <2> HIDE DEF F
  <2>3. s \o <<>> = s /\ F(s) \o <<>> = F(s) BY <2>1, ConcatEmptySeq
  <2>4. <<>> \in Seq(Seq(X)) OBVIOUS
  <2> QED BY <2>2, <2>3, <2>4
<1>2. ASSUME NEW u \in Seq(Seq(X)), NEW x \in Seq(X), u \in S PROVE Append(u, x) \in S
  <2> HIDE DEF F
  <2>1. s \o Append(u, x) = Append(s \o u, x) /\ s \o u \in Seq(Seq(X)) /\ Append(u, x) \in Seq(Seq(X))
    <3>1. s \o u \in Seq(Seq(X)) /\ Append(u, x) \in Seq(Seq(X)) OBVIOUS
    <3> QED BY <3>1, Appended
  <2>2. F(Append(s \o u, x)) = F(s \o u) \o x BY <1>0, <2>1
  <2>3. F(s \o u) = F(s) \o F(u) BY <1>2
  <2>4. F(s) \in Seq(X) /\ F(u) \in Seq(X) /\ F(Append(u, x)) = F(u) \o x BY <1>0
  <2>5. (F(s) \o F(u)) \o x = F(s) \o (F(u) \o x)
    <3>1. Associates(X) BY JoinsAssociate
    <3> QED BY <2>4, <3>1 DEF Associates
  <2> QED BY <2>1, <2>2, <2>3, <2>4, <2>5
<1>3. Seq(Seq(X)) \subseteq S
  <2> HIDE DEF S
  <2> QED BY <1>1, <1>2, SeqInduction
<1> QED BY <1>3

Chosen(s, A) == [k \in DOMAIN s |-> IF s[k] \in A THEN <<s[k]>> ELSE <<>>]

LEMMA OnlyChosen ==
  ASSUME NEW X, NEW s \in Seq(X), NEW A
  PROVE  /\ Request!Only(s, A) = Request!FlattenSeq(Chosen(s, A))
         /\ Chosen(s, A) \in Seq(Seq(X)) /\ Len(Chosen(s, A)) = Len(s)
         /\ \A k \in 1..Len(s) : Chosen(s, A)[k] = IF s[k] \in A THEN <<s[k]>> ELSE <<>>
<1>1. Request!Only(s, A) = Request!FlattenSeq(Chosen(s, A)) BY DEF Request!Only, Chosen
<1>2. DOMAIN s = 1..Len(s) /\ Len(s) \in Nat OBVIOUS
<1>3. \A k \in 1..Len(s) : (IF s[k] \in A THEN <<s[k]>> ELSE <<>>) \in Seq(X) OBVIOUS
<1>4. Chosen(s, A) \in [1..Len(s) -> Seq(X)] BY <1>2, <1>3 DEF Chosen
<1>5. \A k \in 1..Len(s) : Chosen(s, A)[k] = IF s[k] \in A THEN <<s[k]>> ELSE <<>> BY <1>2 DEF Chosen
<1>6. Chosen(s, A) \in Seq(Seq(X)) /\ Len(Chosen(s, A)) = Len(s) BY <1>2, <1>4
<1> QED BY <1>1, <1>5, <1>6

LEMMA OnlyTyped ==
  ASSUME NEW X, NEW s \in Seq(X), NEW A
  PROVE  Request!Only(s, A) \in Seq(X)
<1>1. Request!Only(s, A) = Request!FlattenSeq(Chosen(s, A)) /\ Chosen(s, A) \in Seq(Seq(X))
  BY OnlyChosen
<1>2. <<>> \in Seq(X) OBVIOUS
<1> QED BY <1>1, <1>2, FlattenOne

OnlyJoins(s, t) == \A A : Request!Only(s \o t, A) = Request!Only(s, A) \o Request!Only(t, A)

LEMMA OnlyJoined ==
  ASSUME NEW X, NEW s \in Seq(X), NEW t \in Seq(X)
  PROVE  OnlyJoins(s, t)
<1> SUFFICES ASSUME NEW A
             PROVE  Request!Only(s \o t, A) = Request!Only(s, A) \o Request!Only(t, A)
  BY DEF OnlyJoins
<1> DEFINE u == s \o t
           cs == Chosen(s, A)
           ct == Chosen(t, A)
           cu == Chosen(u, A)
<1>1. u \in Seq(X) /\ Len(u) = Len(s) + Len(t) /\ Len(s) \in Nat /\ Len(t) \in Nat OBVIOUS
<1>2. \A k \in 1..Len(s) : u[k] = s[k] OBVIOUS
<1>3. \A k \in 1..Len(t) : u[Len(s) + k] = t[k] OBVIOUS
<1> HIDE DEF u
<1>4. /\ Request!Only(s, A) = Request!FlattenSeq(cs) /\ cs \in Seq(Seq(X)) /\ Len(cs) = Len(s)
      /\ \A k \in 1..Len(s) : cs[k] = IF s[k] \in A THEN <<s[k]>> ELSE <<>>
  BY OnlyChosen
<1>5. /\ Request!Only(t, A) = Request!FlattenSeq(ct) /\ ct \in Seq(Seq(X)) /\ Len(ct) = Len(t)
      /\ \A k \in 1..Len(t) : ct[k] = IF t[k] \in A THEN <<t[k]>> ELSE <<>>
  BY OnlyChosen
<1>6. /\ Request!Only(u, A) = Request!FlattenSeq(cu) /\ cu \in Seq(Seq(X)) /\ Len(cu) = Len(u)
      /\ \A k \in 1..Len(u) : cu[k] = IF u[k] \in A THEN <<u[k]>> ELSE <<>>
  <2>1. u \in Seq(X) BY <1>1
  <2> QED BY <2>1, OnlyChosen
<1> HIDE DEF cs, ct, cu
<1>7. cu = cs \o ct
  <2> DEFINE c == cs \o ct
  <2>1. /\ c \in Seq(Seq(X)) /\ Len(c) = Len(cs) + Len(ct)
        /\ \A k \in 1..(Len(cs) + Len(ct)) : c[k] = IF k <= Len(cs) THEN cs[k] ELSE ct[k - Len(cs)]
    <3>1. cs \in Seq(Seq(X)) /\ ct \in Seq(Seq(X)) BY <1>4, <1>5
    <3> QED BY <3>1, ConcatProperties
  <2> HIDE DEF c
  <2>2. ASSUME NEW k \in 1..Len(cu) PROVE cu[k] = c[k]
    <3>0. k \in 1..Len(u) /\ k \in 1..(Len(cs) + Len(ct)) BY <1>1, <1>4, <1>5, <1>6
    <3>1. CASE k <= Len(s)
      <4>1. k \in 1..Len(s) BY <1>1, <3>1
      <4>2. cu[k] = cs[k] BY <1>2, <1>4, <1>6, <3>0, <4>1
      <4>3. k <= Len(cs) BY <1>4, <3>1
      <4>4. c[k] = cs[k] BY <2>1, <3>0, <4>3
      <4> QED BY <4>2, <4>4
    <3>2. CASE k > Len(s)
      <4> DEFINE j == k - Len(s)
      <4>1. j \in 1..Len(t) /\ k = Len(s) + j BY <1>1, <3>0, <3>2
      <4>a. ~(k <= Len(cs)) /\ j = k - Len(cs) BY <1>1, <1>4, <3>0, <3>2
      <4>2. c[k] = ct[j] BY <2>1, <3>0, <4>a
      <4> HIDE DEF j
      <4>3. u[k] = t[j] BY <1>3, <4>1
      <4>4. cu[k] = ct[j] BY <1>5, <1>6, <3>0, <4>1, <4>3
      <4> QED BY <4>2, <4>4
    <3>3. k <= Len(s) \/ k > Len(s) BY <1>1
    <3> QED BY <3>1, <3>2, <3>3
  <2>3. Len(cu) = Len(c) BY <1>1, <1>4, <1>5, <1>6, <2>1
  <2>4. cu \in Seq(Seq(X)) BY <1>6
  <2>5. cu = c BY <2>1, <2>2, <2>3, <2>4, SeqEqual
  <2> QED BY <2>5 DEF c
<1>8. Request!FlattenSeq(cs \o ct) = Request!FlattenSeq(cs) \o Request!FlattenSeq(ct)
  BY <1>4, <1>5, FlattenJoined
<1> QED BY <1>4, <1>5, <1>6, <1>7, <1>8 DEF u

LEMMA OnlyOne ==
  ASSUME NEW x, NEW A
  PROVE  Request!Only(<<x>>, A) = (IF x \in A THEN <<x>> ELSE <<>>) /\ Request!Only(<<>>, A) = <<>>
<1> DEFINE e == IF x \in A THEN <<x>> ELSE <<>>
<1>1. Chosen(<<x>>, A) = Append(<<>>, e) BY DEF Chosen
<1>2. Chosen(<<>>, A) = <<>> BY DEF Chosen
<1>3. <<x>> \in Seq({x}) /\ <<>> \in Seq({x}) /\ <<>> \in Seq(Seq({x})) /\ e \in Seq({x})
  <2>1. <<x>> \in Seq({x}) /\ <<>> \in Seq({x}) /\ <<>> \in Seq(Seq({x})) OBVIOUS
  <2> QED BY <2>1
<1>4. /\ Request!Only(<<x>>, A) = Request!FlattenSeq(Chosen(<<x>>, A))
      /\ Request!Only(<<>>, A) = Request!FlattenSeq(Chosen(<<>>, A))
  BY <1>3, OnlyChosen
<1> HIDE DEF e
<1>5. Request!FlattenSeq(Append(<<>>, e)) = Request!FlattenSeq(<<>>) \o e BY <1>3, FlattenOne
<1>6. <<>> \o e = e BY <1>3, ConcatEmptySeq
<1> QED BY <1>1, <1>2, <1>4, <1>5, <1>6, FlattenNone DEF e

Alike(A, B, X) == \A x \in X : x \in A <=> x \in B

\* Only asks of the elements there are.
LEMMA OnlySame ==
  ASSUME NEW X, NEW s \in Seq(X), NEW A, NEW B, Alike(A, B, X)
  PROVE  Request!Only(s, A) = Request!Only(s, B)
<1>1. \A k \in DOMAIN s : s[k] \in A <=> s[k] \in B BY DEF Alike
<1>2. Chosen(s, A) = Chosen(s, B) BY <1>1 DEF Chosen
<1> QED BY <1>2, OnlyChosen

-----------------------------------------------------------------------------
(* Blocks and their numbers                                                *)

Items(N) == [type : Request!Types, n : N]
Picked(blocks, types) == Request!Numbers(Request!OfTypes(blocks, types))

LEMMA NumbersTyped ==
  ASSUME NEW N, NEW b \in Seq(Items(N))
  PROVE  /\ Request!Numbers(b) \in Seq(N) /\ Len(Request!Numbers(b)) = Len(b)
         /\ \A k \in 1..Len(b) : Request!Numbers(b)[k] = b[k].n
         /\ Request!Numbers(<<>>) = <<>>
<1> DEFINE nb == Request!Numbers(b)
<1>1. \A k \in 1..Len(b) : b[k] \in Items(N) OBVIOUS
<1>2. \A k \in 1..Len(b) : b[k].n \in N BY <1>1 DEF Items
<1>3. Len(b) \in Nat /\ DOMAIN b = 1..Len(b) OBVIOUS
<1>4. nb = [k \in 1..Len(b) |-> b[k].n] BY <1>3 DEF Request!Numbers
<1> HIDE DEF nb
<1>5. nb \in Seq(N) /\ Len(nb) = Len(b) BY <1>2, <1>3, <1>4
<1>6. \A k \in 1..Len(b) : nb[k] = b[k].n BY <1>4
<1>7. Request!Numbers(<<>>) = <<>> BY DEF Request!Numbers
<1> QED BY <1>5, <1>6, <1>7 DEF nb

LEMMA NumbersAppended ==
  ASSUME NEW N, NEW b \in Seq(Items(N)), NEW x \in Items(N)
  PROVE  Request!Numbers(Append(b, x)) = Append(Request!Numbers(b), x.n)
<1> DEFINE I == Items(N)
           c == Append(b, x)
           nb == Request!Numbers(b)
           nc == Request!Numbers(c)
           d == Append(nb, x.n)
<1>1. x.n \in N BY DEF Items
<1>2. /\ c \in Seq(I) /\ Len(b) \in Nat /\ Len(c) = Len(b) + 1
      /\ c[Len(b) + 1] = x /\ \A k \in 1..Len(b) : c[k] = b[k]
  <2> HIDE DEF I
  <2>0. Len(b) \in Nat OBVIOUS
  <2>a. c \in Seq(I) /\ Len(c) = Len(b) + 1 BY AppendProperties DEF I
  <2>2. c[Len(b) + 1] = x OBVIOUS
  <2>3. \A k \in 1..Len(b) : c[k] = b[k] OBVIOUS
  <2> QED BY <2>0, <2>a, <2>2, <2>3
<1> HIDE DEF I, c
<1>3. nb \in Seq(N) /\ Len(nb) = Len(b) /\ \A k \in 1..Len(b) : nb[k] = b[k].n
  BY NumbersTyped
<1>4. nc \in Seq(N) /\ Len(nc) = Len(c) /\ \A k \in 1..Len(c) : nc[k] = c[k].n
  BY <1>2, NumbersTyped DEF I
<1> HIDE DEF nb, nc
<1>5. d \in Seq(N) /\ Len(d) = Len(b) + 1 BY <1>1, <1>2, <1>3
<1>6. d[Len(b) + 1] = x.n BY <1>1, <1>2, <1>3
<1>7. \A k \in 1..Len(b) : d[k] = nb[k] BY <1>1, <1>2, <1>3
<1> HIDE DEF d
<1>8. \A k \in 1..Len(nc) : nc[k] = d[k]
  <2> SUFFICES ASSUME NEW k \in 1..(Len(b) + 1) PROVE nc[k] = d[k] BY <1>2, <1>4
  <2>1. nc[k] = c[k].n BY <1>2, <1>4
  <2>2. CASE k = Len(b) + 1 BY <1>2, <1>6, <2>1, <2>2
  <2>3. CASE k \in 1..Len(b) BY <1>2, <1>3, <1>7, <2>1, <2>3
  <2> QED BY <1>2, <2>2, <2>3
<1>9. Len(nc) = Len(d) BY <1>2, <1>4, <1>5
<1>10. nc = d BY <1>4, <1>5, <1>8, <1>9, SeqEqual
<1> QED BY <1>10 DEF nc, c, d, nb

\* Only, with the elements one at a time
LEMMA OnlyAppended ==
  ASSUME NEW X, NEW s \in Seq(X), NEW x \in X, NEW A
  PROVE  /\ Request!Only(s, A) \in Seq(X)
         /\ Request!Only(Append(s, x), A)
              = IF x \in A THEN Append(Request!Only(s, A), x) ELSE Request!Only(s, A)
<1>1. <<x>> \in Seq(X) /\ Append(s, x) = s \o <<x>> BY Appended
<1>2. /\ Request!Only(s, A) \in Seq(X)
      /\ Request!Only(s \o <<x>>, A) = Request!Only(s, A) \o Request!Only(<<x>>, A)
  <2>1. <<x>> \in Seq(X) BY <1>1
  <2>2. OnlyJoins(s, <<x>>) BY <2>1, OnlyJoined
  <2> QED BY <2>2, OnlyTyped DEF OnlyJoins
<1>3. Append(Request!Only(s, A), x) = Request!Only(s, A) \o <<x>> BY <1>2, Appended
<1>4. Request!Only(s, A) \o <<>> = Request!Only(s, A) BY <1>2, ConcatEmptySeq
<1> QED BY <1>1, <1>2, <1>3, <1>4, OnlyOne

LEMMA PickedTyped ==
  ASSUME NEW N, NEW b \in Seq(Items(N)), NEW types
  PROVE  /\ Picked(b, types) \in Seq(N) /\ Request!OfTypes(b, types) \in Seq(Items(N))
         /\ Picked(<<>>, types) = <<>>
<1> DEFINE A == [type : types, n : Nat]
           o == Request!Only(b, A)
<1>1. o \in Seq(Items(N)) BY OnlyTyped
<1>2. Request!OfTypes(b, types) = o /\ Request!OfTypes(<<>>, types) = Request!Only(<<>>, A)
  BY DEF Request!OfTypes
<1> HIDE DEF o, A
<1>3. Request!Numbers(o) \in Seq(N) /\ Request!Numbers(<<>>) = <<>> BY <1>1, NumbersTyped
<1> QED BY <1>1, <1>2, <1>3, OnlyOne DEF Picked

LEMMA PickedAppended ==
  ASSUME NEW N \in SUBSET Nat, NEW b \in Seq(Items(N)), NEW x \in Items(N), NEW types
  PROVE  /\ Request!OfTypes(Append(b, x), types)
              = IF x.type \in types THEN Append(Request!OfTypes(b, types), x)
                                    ELSE Request!OfTypes(b, types)
         /\ Picked(Append(b, x), types)
              = IF x.type \in types THEN Append(Picked(b, types), x.n) ELSE Picked(b, types)
<1> DEFINE A == [type : types, n : Nat]
           o == Request!Only(b, A)
           p == Request!Only(Append(b, x), A)
<1>1. x \in A <=> x.type \in types BY DEF Items
<1>2. o = Request!OfTypes(b, types) /\ p = Request!OfTypes(Append(b, x), types)
  BY DEF Request!OfTypes
<1> HIDE DEF A
<1>3. o \in Seq(Items(N)) /\ p = IF x \in A THEN Append(o, x) ELSE o BY OnlyAppended
<1> HIDE DEF o, p
<1>4. Request!Numbers(Append(o, x)) = Append(Request!Numbers(o), x.n)
  BY <1>3, NumbersAppended
<1> QED BY <1>1, <1>2, <1>3, <1>4 DEF Picked

PickedJoins(b, c, types) == Picked(b \o c, types) = Picked(b, types) \o Picked(c, types)

LEMMA PickedJoined ==
  ASSUME NEW N \in SUBSET Nat, NEW b \in Seq(Items(N)), NEW c \in Seq(Items(N)), NEW types
  PROVE  PickedJoins(b, c, types)
<1> DEFINE I == Items(N)
           P(d) == Picked(d, types)
           S == {d \in Seq(I) : P(b \o d) = P(b) \o P(d)}
<1>1. \A d \in Seq(I) : P(d) \in Seq(N) BY PickedTyped
<1>2. P(<<>>) = <<>> BY PickedTyped
<1>3. \A d \in Seq(I), x \in I :
        P(Append(d, x)) = IF x.type \in types THEN Append(P(d), x.n) ELSE P(d)
  BY PickedAppended
<1>4. \A x \in I : x.n \in N BY DEF Items
<1> HIDE DEF P, I
<1>5. <<>> \in S
  <2>1. b \in Seq(I) BY DEF I
  <2>2. b \o <<>> = b /\ P(b) \o <<>> = P(b) BY <1>1, <2>1, ConcatEmptySeq
  <2>3. <<>> \in Seq(I) OBVIOUS
  <2> QED BY <1>2, <2>2, <2>3
<1>6. ASSUME NEW d \in Seq(I), NEW x \in I, d \in S PROVE Append(d, x) \in S
  <2>1. b \in Seq(I) BY DEF I
  <2>2. b \o Append(d, x) = Append(b \o d, x) BY <2>1, Appended
  <2>3. b \o d \in Seq(I) /\ Append(d, x) \in Seq(I) BY <2>1
  <2>4. P(b \o d) = P(b) \o P(d) BY <1>6
  <2>5. P(b) \in Seq(N) /\ P(d) \in Seq(N) /\ x.n \in N BY <1>1, <1>4, <2>1
  <2>6. P(b) \o Append(P(d), x.n) = Append(P(b) \o P(d), x.n) BY <2>5, Appended
  <2>7. P(Append(b \o d, x)) = IF x.type \in types THEN Append(P(b \o d), x.n) ELSE P(b \o d)
    BY <1>3, <2>3
  <2>8. P(Append(d, x)) = IF x.type \in types THEN Append(P(d), x.n) ELSE P(d) BY <1>3
  <2>9. P(b \o Append(d, x)) = P(b) \o P(Append(d, x)) BY <2>2, <2>4, <2>6, <2>7, <2>8
  <2> QED BY <2>3, <2>9
<1>7. Seq(I) \subseteq S
  <2> HIDE DEF S
  <2> QED BY <1>5, <1>6, SeqInduction
<1>8. c \in S BY <1>7 DEF I
<1> QED BY <1>8 DEF P, PickedJoins

Marks(A, blocks, kinds) == \A x \in blocks : x.n \in A <=> x.type \in kinds

\* What a set of numbers keeps that tells some of the types from the others
LEMMA OnlyPicked ==
  ASSUME NEW N \in SUBSET Nat, NEW I \in SUBSET Items(N), NEW b \in Seq(I), NEW types,
         NEW A, NEW kinds, Marks(A, I, kinds)
  PROVE  Request!Only(Picked(b, types), A) = Picked(b, types \cap kinds)
<1> DEFINE P(d) == Picked(d, types)
           Q(d) == Picked(d, types \cap kinds)
           O(s) == Request!Only(s, A)
           S == {d \in Seq(I) : O(P(d)) = Q(d)}
<1>0. \A d \in Seq(I) : d \in Seq(Items(N)) OBVIOUS
<1>1. \A d \in Seq(I) : P(d) \in Seq(N) /\ P(<<>>) = <<>> /\ Q(<<>>) = <<>> BY <1>0, PickedTyped
<1>2. \A d \in Seq(I), x \in I :
        P(Append(d, x)) = IF x.type \in types THEN Append(P(d), x.n) ELSE P(d)
  BY <1>0, PickedAppended
<1>3. \A d \in Seq(I), x \in I :
        Q(Append(d, x)) = IF x.type \in types \cap kinds THEN Append(Q(d), x.n) ELSE Q(d)
  BY <1>0, PickedAppended
<1>4. \A s \in Seq(N), n \in N : O(Append(s, n)) = IF n \in A THEN Append(O(s), n) ELSE O(s)
  BY OnlyAppended
<1>5. O(<<>>) = <<>> BY OnlyOne
<1>6. \A x \in I : x.n \in N BY DEF Items
<1> HIDE DEF P, Q, O
<1>7. <<>> \in S
  <2>1. <<>> \in Seq(I) OBVIOUS
  <2> QED BY <1>1, <1>5, <2>1
<1>8. ASSUME NEW d \in Seq(I), NEW x \in I, d \in S PROVE Append(d, x) \in S
  <2>1. Append(d, x) \in Seq(I) OBVIOUS
  <2>2. O(P(d)) = Q(d) BY <1>8
  <2>3. O(P(Append(d, x))) = IF x.type \in types /\ x.n \in A THEN Append(O(P(d)), x.n) ELSE O(P(d))
    <3>1. P(d) \in Seq(N) /\ x.n \in N BY <1>1, <1>6
    <3>2. O(Append(P(d), x.n)) = IF x.n \in A THEN Append(O(P(d)), x.n) ELSE O(P(d)) BY <1>4, <3>1
    <3> QED BY <1>2, <3>2
  <2>4. x.n \in A <=> x.type \in kinds BY DEF Marks
  <2>5. O(P(Append(d, x))) = Q(Append(d, x)) BY <1>3, <2>2, <2>3, <2>4
  <2> QED BY <2>1, <2>5
<1>9. Seq(I) \subseteq S
  <2> HIDE DEF S
  <2> QED BY <1>7, <1>8, SeqInduction
<1>10. b \in S BY <1>9
<1> QED BY <1>10 DEF P, Q, O

\* What is put off has lost its calls only.
LEMMA PickedTwice ==
  ASSUME NEW N \in SUBSET Nat, NEW b \in Seq(Items(N)), NEW some, NEW types
  PROVE  Picked(Request!OfTypes(b, some), types) = Picked(b, types \cap some)
<1> DEFINE I == Items(N)
           P(d) == Picked(d, types)
           Q(d) == Picked(d, types \cap some)
           O(d) == Request!OfTypes(d, some)
           S == {d \in Seq(I) : P(O(d)) = Q(d)}
<1>1. \A d \in Seq(I) : O(d) \in Seq(I) BY PickedTyped
<1>2. P(<<>>) = <<>> /\ Q(<<>>) = <<>> /\ O(<<>>) = <<>> BY PickedTyped, OnlyOne DEF Request!OfTypes
<1>3. \A d \in Seq(I), x \in I :
        P(Append(d, x)) = IF x.type \in types THEN Append(P(d), x.n) ELSE P(d)
  BY PickedAppended
<1>4. \A d \in Seq(I), x \in I :
        Q(Append(d, x)) = IF x.type \in types \cap some THEN Append(Q(d), x.n) ELSE Q(d)
  BY PickedAppended
<1>5. \A d \in Seq(I), x \in I : O(Append(d, x)) = IF x.type \in some THEN Append(O(d), x) ELSE O(d)
  BY PickedAppended
<1> HIDE DEF P, Q, O, I
<1>6. <<>> \in S
  <2>1. <<>> \in Seq(I) OBVIOUS
  <2> QED BY <1>2, <2>1
<1>7. ASSUME NEW d \in Seq(I), NEW x \in I, d \in S PROVE Append(d, x) \in S
  <2>1. Append(d, x) \in Seq(I) OBVIOUS
  <2>2. P(O(d)) = Q(d) BY <1>7
  <2>3. P(O(Append(d, x))) =
          IF x.type \in types /\ x.type \in some THEN Append(P(O(d)), x.n) ELSE P(O(d))
    BY <1>1, <1>3, <1>5
  <2>4. P(O(Append(d, x))) = Q(Append(d, x)) BY <1>4, <2>2, <2>3
  <2> QED BY <2>1, <2>4
<1>8. Seq(I) \subseteq S
  <2> HIDE DEF S
  <2> QED BY <1>6, <1>7, SeqInduction
<1>9. b \in S BY <1>8 DEF I
<1> QED BY <1>9 DEF P, Q, O

\* Which numbers are picked
LEMMA PickedFrom ==
  ASSUME NEW N \in SUBSET Nat, NEW b \in Seq(Items(N)), NEW types
  PROVE  Request!ToSet(Picked(b, types)) = {b[k].n : k \in {j \in DOMAIN b : b[j].type \in types}}
<1> DEFINE I == Items(N)
           P(d) == Picked(d, types)
           T(s) == Request!ToSet(s)
           F(d) == {d[k].n : k \in {j \in DOMAIN d : d[j].type \in types}}
           S == {d \in Seq(I) : T(P(d)) = F(d)}
<1>1. \A d \in Seq(I) : P(d) \in Seq(N) BY PickedTyped
<1>2. P(<<>>) = <<>> BY PickedTyped
<1>3. \A d \in Seq(I), x \in I :
        P(Append(d, x)) = IF x.type \in types THEN Append(P(d), x.n) ELSE P(d)
  BY PickedAppended
<1>4. \A s \in Seq(N), n \in N : T(Append(s, n)) = T(s) \cup {n}
  <2> SUFFICES ASSUME NEW s \in Seq(N), NEW n \in N PROVE T(Append(s, n)) = T(s) \cup {n} OBVIOUS
  <2> DEFINE t == Append(s, n)
  <2>1. Len(s) \in Nat /\ DOMAIN s = 1..Len(s) /\ DOMAIN t = 1..(Len(s) + 1) OBVIOUS
  <2>2. t[Len(s) + 1] = n OBVIOUS
  <2>3. \A k \in 1..Len(s) : t[k] = s[k] OBVIOUS
  <2> HIDE DEF t
  <2>4. T(t) = {t[k] : k \in 1..(Len(s) + 1)} /\ T(s) = {s[k] : k \in 1..Len(s)}
    BY <2>1 DEF Request!ToSet
  <2>5. 1..(Len(s) + 1) = (1..Len(s)) \cup {Len(s) + 1} BY <2>1
  <2> QED BY <2>2, <2>3, <2>4, <2>5 DEF t
<1>5. \A d \in Seq(I), x \in I :
        F(Append(d, x)) = IF x.type \in types THEN F(d) \cup {x.n} ELSE F(d)
  <2> SUFFICES ASSUME NEW d \in Seq(I), NEW x \in I
               PROVE  F(Append(d, x)) = IF x.type \in types THEN F(d) \cup {x.n} ELSE F(d)
    OBVIOUS
  <2> DEFINE t == Append(d, x)
  <2> HIDE DEF I
  <2>1. Len(d) \in Nat /\ DOMAIN d = 1..Len(d) /\ DOMAIN t = 1..(Len(d) + 1) OBVIOUS
  <2>2. t[Len(d) + 1] = x OBVIOUS
  <2>3. \A k \in 1..Len(d) : t[k] = d[k] OBVIOUS
  <2> HIDE DEF t
  <2>4. DOMAIN t = DOMAIN d \cup {Len(d) + 1} BY <2>1
  <2>5. \A k \in DOMAIN d : t[k] = d[k] BY <2>1, <2>3
  <2>6. F(t) = IF x.type \in types THEN F(d) \cup {x.n} ELSE F(d) BY <2>2, <2>4, <2>5
  <2> HIDE DEF F
  <2> QED BY <2>6 DEF t
<1>6. T(<<>>) = {} /\ F(<<>>) = {} BY DEF Request!ToSet
<1>7. \A x \in I : x.n \in N BY DEF Items
<1> HIDE DEF P, T, F, I
<1>8. <<>> \in S
  <2>1. <<>> \in Seq(I) OBVIOUS
  <2> QED BY <1>2, <1>6, <2>1
<1>9. ASSUME NEW d \in Seq(I), NEW x \in I, d \in S PROVE Append(d, x) \in S
  <2>1. Append(d, x) \in Seq(I) OBVIOUS
  <2>2. T(P(d)) = F(d) BY <1>9
  <2>3. T(P(Append(d, x))) = IF x.type \in types THEN T(P(d)) \cup {x.n} ELSE T(P(d))
    BY <1>1, <1>3, <1>4, <1>7
  <2>4. T(P(Append(d, x))) = F(Append(d, x)) BY <1>5, <2>2, <2>3
  <2> QED BY <2>1, <2>4
<1>10. Seq(I) \subseteq S
  <2> HIDE DEF S
  <2> QED BY <1>8, <1>9, SeqInduction
<1>11. b \in S BY <1>10 DEF I
<1> QED BY <1>11 DEF P, T, F

-----------------------------------------------------------------------------
(* What a message says                                                     *)

\* An assistant's message, by what is picked from its blocks
Reasoned(blocks, reasoning) ==
  IF mode # "reasoning_content" THEN <<>> ELSE IF reasoning THEN <<0>> ELSE Picked(blocks, {"thinking"})
Shown == {"text"} \cup (IF mode = "think_tags" THEN {"thinking"} ELSE {})
Keeps(reasoning) == ~(mode = "disabled" \/ (mode = "reasoning_content" /\ reasoning))

LEMMA SpokenIs ==
  ASSUME NEW blocks, NEW reasoning, NEW calls
  PROVE  LET m == Request!AssistantMessage(blocks, reasoning)
             p == Reasoned(blocks, reasoning) \o Picked(blocks, Shown)
         IN Request!Spoken(m) = p /\ Request!Spoken([m EXCEPT !.calls = calls]) = p
<1> DEFINE m == Request!AssistantMessage(blocks, reasoning)
           r == Reasoned(blocks, reasoning)
           c == Picked(blocks, Shown)
<1>1. m = [role |-> "assistant", content |-> c, calls |-> {}, reasoning |-> r]
  <2>1. m = [Request!Plain("assistant", c) EXCEPT !.reasoning = r]
    BY DEF Request!AssistantMessage, Reasoned, Shown, Picked
  <2> HIDE DEF m, r, c
  <2> QED BY <2>1 DEF Request!Plain
<1> HIDE DEF m, r, c
<1>2. [m EXCEPT !.calls = calls] = [role |-> "assistant", content |-> c, calls |-> calls, reasoning |-> r]
  BY <1>1
<1>3. "assistant" # "tool" OBVIOUS
<1> QED BY <1>1, <1>2, <1>3 DEF Request!Spoken, m, r, c

LEMMA KeptIs ==
  \A blocks, reasoning : Request!Kept(blocks, reasoning)
                           = IF Keeps(reasoning) THEN Picked(blocks, {"thinking"}) ELSE <<>>
BY DEF Request!Kept, Keeps, Picked

\* Nothing is picked of no types.
LEMMA PickedNone ==
  ASSUME NEW N \in SUBSET Nat, NEW b \in Seq(Items(N))
  PROVE  Picked(b, {}) = <<>>
<1>1. Request!ToSet(Picked(b, {})) = {b[k].n : k \in {j \in DOMAIN b : b[j].type \in {}}} BY PickedFrom
<1>2. Request!ToSet(Picked(b, {})) = {} BY <1>1
<1>3. Picked(b, {}) \in Seq(N) BY PickedTyped
<1> DEFINE p == Picked(b, {})
<1> HIDE DEF p
<1>4. DOMAIN p = {} BY <1>2 DEF Request!ToSet, p
<1> QED BY <1>3, <1>4 DEF p

\* The provider is told every text of a message, once and in order ...
LEMMA SaysTexts ==
  ASSUME NEW N \in SUBSET (Nat \ {0}), NEW I \in SUBSET Items(N), NEW b \in Seq(I), NEW reasoning,
         NEW A, 0 \notin A, Marks(A, I, {"text"})
  PROVE  LET p == Reasoned(b, reasoning) \o Picked(b, Shown) IN
         p \in Seq({0} \cup N) /\ Request!Only(p, A) = Picked(b, {"text"})
<1> DEFINE r == Reasoned(b, reasoning)
           c == Picked(b, Shown)
           t == Picked(b, {"thinking"})
           Y == {0} \cup N
<1>0. N \in SUBSET Nat /\ b \in Seq(Items(N)) OBVIOUS
<1>1. t \in Seq(N) /\ c \in Seq(N) BY <1>0, PickedTyped
<1>2. Request!Only(t, A) = Picked(b, {"thinking"} \cap {"text"})
      /\ Request!Only(c, A) = Picked(b, Shown \cap {"text"})
  BY <1>0, OnlyPicked
<1>3. {"thinking"} \cap {"text"} = {} /\ Shown \cap {"text"} = {"text"} BY DEF Shown
<1>4. Picked(b, {}) = <<>> BY <1>0, PickedNone
<1>5. Request!Only(<<>>, A) = <<>> /\ Request!Only(<<0>>, A) = <<>> BY OnlyOne
<1>6. r \in {<<>>, <<0>>, t} BY DEF Reasoned
<1> HIDE DEF r, c, t
<1>7. Request!Only(r, A) = <<>> BY <1>2, <1>3, <1>4, <1>5, <1>6
<1>8. r \in Seq(Y) /\ c \in Seq(Y)
  <2>1. t \in Seq(Y) /\ c \in Seq(Y) /\ <<0>> \in Seq(Y) /\ <<>> \in Seq(Y) BY <1>1
  <2> QED BY <1>6, <2>1
<1>9. OnlyJoins(r, c) BY <1>8, OnlyJoined
<1>10. Picked(b, {"text"}) \in Seq(N) BY <1>0, PickedTyped
<1>11. <<>> \o Picked(b, {"text"}) = Picked(b, {"text"}) BY <1>10, ConcatEmptySeq
<1>12. r \o c \in Seq(Y) BY <1>8
<1> QED BY <1>2, <1>3, <1>7, <1>9, <1>11, <1>12 DEF OnlyJoins, r, c

\* ... and every thought that the mode keeps.
LEMMA SaysThoughts ==
  ASSUME mode \in Request!Modes,
         NEW N \in SUBSET (Nat \ {0}), NEW I \in SUBSET Items(N), NEW b \in Seq(I), NEW reasoning \in BOOLEAN,
         NEW A, 0 \notin A,
         Marks(A, I, IF Keeps(reasoning) THEN {"thinking"} ELSE {})
  PROVE  LET p == Reasoned(b, reasoning) \o Picked(b, Shown) IN
         Request!Only(p, A) = Request!Kept(b, reasoning)
<1> DEFINE K == IF Keeps(reasoning) THEN {"thinking"} ELSE {}
           r == Reasoned(b, reasoning)
           c == Picked(b, Shown)
           t == Picked(b, {"thinking"})
           Y == {0} \cup N
<1>0. N \in SUBSET Nat /\ b \in Seq(Items(N)) OBVIOUS
<1>1. t \in Seq(N) /\ c \in Seq(N) BY <1>0, PickedTyped
<1>2. Request!Only(t, A) = Picked(b, {"thinking"} \cap K)
      /\ Request!Only(c, A) = Picked(b, Shown \cap K)
  BY <1>0, OnlyPicked
<1>3. Picked(b, {}) = <<>> BY <1>0, PickedNone
<1>4. Request!Only(<<>>, A) = <<>> /\ Request!Only(<<0>>, A) = <<>> BY OnlyOne
<1>5. r \in {<<>>, <<0>>, t} BY DEF Reasoned
<1>6. r \in Seq(Y) /\ c \in Seq(Y)
  <2>1. t \in Seq(Y) /\ c \in Seq(Y) /\ <<0>> \in Seq(Y) /\ <<>> \in Seq(Y) BY <1>1
  <2> HIDE DEF r, t, c
  <2> QED BY <1>5, <2>1
<1>7. OnlyJoins(r, c) BY <1>6, OnlyJoined
<1>8. Request!Kept(b, reasoning) = IF Keeps(reasoning) THEN t ELSE <<>> BY KeptIs
<1>9. t \o <<>> = t /\ <<>> \o t = t BY <1>1, ConcatEmptySeq
<1>10. <<>> \o <<>> = <<>> OBVIOUS
<1>11. CASE ~Keeps(reasoning)
  <2>1. {"thinking"} \cap K = {} /\ Shown \cap K = {} BY <1>11
  <2>2. Request!Only(t, A) = <<>> /\ Request!Only(c, A) = <<>> BY <1>2, <1>3, <2>1
  <2> HIDE DEF r, c, t
  <2>3. Request!Only(r, A) = <<>> BY <1>4, <1>5, <2>2
  <2> QED BY <1>7, <1>8, <1>10, <1>11, <2>2, <2>3 DEF OnlyJoins, r, c
<1>12. CASE Keeps(reasoning) /\ mode = "think_tags"
  <2>1. r = <<>> BY <1>12 DEF Reasoned
  <2>2. Shown \cap K = {"thinking"} BY <1>12 DEF Shown
  <2>3. Request!Only(c, A) = t BY <1>2, <2>2
  <2> HIDE DEF r, c, t
  <2> QED BY <1>4, <1>7, <1>8, <1>9, <1>12, <2>1, <2>3 DEF OnlyJoins, r, c
<1>13. CASE Keeps(reasoning) /\ mode = "reasoning_content"
  <2>1. ~reasoning BY <1>13 DEF Keeps
  <2>2. r = t BY <1>13, <2>1 DEF Reasoned
  <2>3. Shown \cap K = {} /\ {"thinking"} \cap K = {"thinking"} BY <1>13 DEF Shown
  <2>4. Request!Only(c, A) = <<>> /\ Request!Only(t, A) = t BY <1>2, <1>3, <2>3
  <2> HIDE DEF r, c, t
  <2> QED BY <1>7, <1>8, <1>9, <1>13, <2>2, <2>4 DEF OnlyJoins, r, c
<1>14. Keeps(reasoning) => mode \in {"think_tags", "reasoning_content"} BY DEF Keeps, Request!Modes
<1> QED BY <1>11, <1>12, <1>13, <1>14

\* The numbers tell the blocks apart.
Distinct(b) == \A j, k \in DOMAIN b : b[j].n = b[k].n => j = k
Elements(b) == {b[k] : k \in DOMAIN b}

LEMMA NumbersMark ==
  ASSUME NEW N \in SUBSET Nat, NEW b \in Seq(Items(N)), Distinct(b), NEW types
  PROVE  Marks(Request!ToSet(Picked(b, types)), Elements(b), types)
<1>1. Request!ToSet(Picked(b, types)) = {b[k].n : k \in {j \in DOMAIN b : b[j].type \in types}}
  BY PickedFrom
<1>2. ASSUME NEW x \in Elements(b)
      PROVE  x.n \in Request!ToSet(Picked(b, types)) <=> x.type \in types
  <2>1. PICK k \in DOMAIN b : x = b[k] BY DEF Elements
  <2> QED BY <1>1, <2>1 DEF Distinct
<1> QED BY <1>2 DEF Marks

\* What p tells of a message, told in whichever way, is what the message says.
Says(p, b, reasoning) ==
  /\ Request!Only(p, Request!ToSet(Picked(b, {"text"}))) = Picked(b, {"text"})
  /\ Request!Only(p, Request!ToSet(Request!Kept(b, reasoning))) = Request!Kept(b, reasoning)

\* A message without calls
LEMMA WholeSays ==
  ASSUME mode \in Request!Modes,
         NEW N \in SUBSET (Nat \ {0}), NEW b \in Seq(Items(N)), Distinct(b),
         NEW c \in Seq(Elements(b)), NEW reasoning \in BOOLEAN
  PROVE  LET p == Reasoned(c, reasoning) \o Picked(c, Shown) IN
         /\ p \in Seq({0} \cup N)
         /\ Request!Only(p, Request!ToSet(Picked(b, {"text"}))) = Picked(c, {"text"})
         /\ Request!Only(p, Request!ToSet(Request!Kept(b, reasoning))) = Request!Kept(c, reasoning)
<1> DEFINE A == Request!ToSet(Picked(b, {"text"}))
           K == IF Keeps(reasoning) THEN {"thinking"} ELSE {}
           H == Request!ToSet(Request!Kept(b, reasoning))
           I == Elements(b)
           p == Reasoned(c, reasoning) \o Picked(c, Shown)
<1>0. N \in SUBSET Nat OBVIOUS
<1>1. I \in SUBSET Items(N) BY DEF Elements
<1>2. Picked(b, {"text"}) \in Seq(N) /\ Picked(b, K) \in Seq(N) BY PickedTyped
<1>3. Request!Kept(b, reasoning) = Picked(b, K)
  <2>1. Picked(b, {}) = <<>> BY <1>0, PickedNone
  <2> QED BY <2>1, KeptIs
<1>4. Marks(A, I, {"text"}) BY <1>0, NumbersMark
<1>5. Marks(H, I, K) BY <1>0, <1>3, NumbersMark
<1>6. \A s \in Seq(N) : 0 \notin Request!ToSet(s) BY DEF Request!ToSet
<1>7. 0 \notin A /\ 0 \notin H BY <1>2, <1>3, <1>6
<1> HIDE DEF A, H, I
<1>8. c \in Seq(I) BY DEF I
<1>9. p \in Seq({0} \cup N) /\ Request!Only(p, A) = Picked(c, {"text"})
  BY <1>1, <1>4, <1>7, <1>8, SaysTexts
<1>10. Request!Only(p, H) = Request!Kept(c, reasoning) BY <1>1, <1>5, <1>7, <1>8, SaysThoughts
<1> QED BY <1>9, <1>10 DEF A, H

Before(b, k) == SubSeq(b, 1, k - 1)
Behind(b, k) == SubSeq(b, k + 1, Len(b))
IsCut(b, k) == b = Append(Before(b, k), b[k]) \o Behind(b, k)

LEMMA CutAround ==
  ASSUME NEW X, NEW b \in Seq(X), NEW k \in 1..Len(b)
  PROVE  Before(b, k) \in Seq(X) /\ Behind(b, k) \in Seq(X) /\ b[k] \in X /\ IsCut(b, k)
<1> DEFINE before == Before(b, k)
           rest == Behind(b, k)
           L == Len(b)
           c == Append(before, b[k])
           d == c \o rest
<1>1. L \in Nat /\ k \in 1..L /\ \A j \in 1..L : b[j] \in X OBVIOUS
<1>2. /\ before \in Seq(X) /\ Len(before) = k - 1 /\ \A j \in 1..(k - 1) : before[j] = b[j]
  <2>1. \A j \in 1..(k - 1) : b[j] \in X BY <1>1
  <2>2. /\ before \in Seq(X) /\ Len(before) = IF 1 <= k - 1 THEN (k - 1) - 1 + 1 ELSE 0
        /\ \A j \in 1..((k - 1) - 1 + 1) : before[j] = b[1 + j - 1]
    BY <1>1, <2>1, SubSeqProperties DEF Before
  <2>3. Len(before) = k - 1 BY <1>1, <2>2
  <2>4. ASSUME NEW j \in 1..(k - 1) PROVE before[j] = b[j]
    <3>1. 1 + j - 1 = j /\ j \in 1..((k - 1) - 1 + 1) BY <1>1
    <3> QED BY <2>2, <3>1
  <2> QED BY <2>2, <2>3, <2>4
<1>3. /\ rest \in Seq(X) /\ Len(rest) = L - k /\ \A j \in 1..(L - k) : rest[j] = b[k + j]
  <2>1. \A j \in (k + 1)..L : b[j] \in X BY <1>1
  <2>2. /\ rest \in Seq(X) /\ Len(rest) = IF k + 1 <= L THEN L - (k + 1) + 1 ELSE 0
        /\ \A j \in 1..(L - (k + 1) + 1) : rest[j] = b[(k + 1) + j - 1]
    BY <1>1, <2>1, SubSeqProperties DEF Behind
  <2>3. Len(rest) = L - k BY <1>1, <2>2
  <2>4. ASSUME NEW j \in 1..(L - k) PROVE rest[j] = b[k + j]
    <3>1. (k + 1) + j - 1 = k + j /\ j \in 1..(L - (k + 1) + 1) BY <1>1
    <3> QED BY <2>2, <3>1
  <2> QED BY <2>2, <2>3, <2>4
<1> HIDE DEF before, rest, L
<1>4. b[k] \in X BY <1>1
<1>5. /\ c \in Seq(X) /\ Len(c) = k /\ c[k] = b[k]
      /\ \A j \in 1..(k - 1) : c[j] = b[j]
  <2>1. /\ c \in Seq(X) /\ Len(c) = Len(before) + 1 /\ c[Len(before) + 1] = b[k]
        /\ \A j \in 1..Len(before) : c[j] = before[j]
    BY <1>2, <1>4, AppendProperties
  <2>2. Len(before) + 1 = k BY <1>1, <1>2
  <2> HIDE DEF c
  <2> QED BY <1>2, <2>1, <2>2
<1> HIDE DEF c
<1>6. /\ d \in Seq(X) /\ Len(d) = k + (L - k)
      /\ \A j \in 1..(k + (L - k)) : d[j] = IF j <= k THEN c[j] ELSE rest[j - k]
  <2>1. /\ d \in Seq(X) /\ Len(d) = Len(c) + Len(rest)
        /\ \A j \in 1..(Len(c) + Len(rest)) : d[j] = IF j <= Len(c) THEN c[j] ELSE rest[j - Len(c)]
    BY <1>3, <1>5, ConcatProperties
  <2> HIDE DEF d
  <2> QED BY <1>3, <1>5, <2>1
<1> HIDE DEF d
<1>7. Len(d) = L BY <1>1, <1>6
<1>8. ASSUME NEW j \in 1..Len(b) PROVE b[j] = d[j]
  <2>0. j \in 1..L /\ j \in 1..(k + (L - k)) BY <1>1 DEF L
  <2>1. CASE j < k
    <3>1. j \in 1..(k - 1) /\ j <= k BY <1>1, <2>0, <2>1
    <3> QED BY <1>5, <1>6, <2>0, <3>1
  <2>2. CASE j = k BY <1>1, <1>5, <1>6, <2>0, <2>2
  <2>3. CASE j > k
    <3>1. j - k \in 1..(L - k) /\ k + (j - k) = j /\ ~(j <= k) BY <1>1, <2>0, <2>3
    <3>2. d[j] = rest[j - k] BY <1>6, <2>0, <3>1
    <3>3. rest[j - k] = b[j] BY <1>3, <3>1
    <3> QED BY <3>2, <3>3
  <2> QED BY <1>1, <2>0, <2>1, <2>2, <2>3
<1>9. b = d
  <2>1. Len(b) = Len(d) BY <1>7 DEF L
  <2> QED BY <1>6, <1>8, <2>1, SeqEqual
<1>10. IsCut(b, k) BY <1>9 DEF before, rest, c, d, IsCut
<1> QED BY <1>2, <1>3, <1>4, <1>10 DEF before, rest

\* What is picked from a message is picked from before and behind a call.
LEMMA PickedAround ==
  ASSUME NEW N \in SUBSET Nat, NEW b \in Seq(Items(N)), NEW k \in 1..Len(b),
         NEW types, b[k].type \notin types
  PROVE  Picked(b, types) = Picked(Before(b, k), types) \o Picked(Behind(b, k), types)
<1> DEFINE I == Items(N)
           before == Before(b, k)
           rest == Behind(b, k)
           x == b[k]
           c == Append(before, x)
<1>1. before \in Seq(I) /\ rest \in Seq(I) /\ x \in I /\ IsCut(b, k) BY CutAround
<1>2. Picked(c, types) = Picked(before, types)
  <2> HIDE DEF x, before
  <2>1. x.type \notin types BY DEF x
  <2> QED BY <1>1, <2>1, PickedAppended
<1>3. b = c \o rest BY <1>1 DEF IsCut
<1> HIDE DEF before, rest, x
<1>4. c \in Seq(I) BY <1>1, AppendProperties
<1> HIDE DEF c
<1>5. PickedJoins(c, rest, types) BY <1>1, <1>4, PickedJoined
<1> QED BY <1>2, <1>3, <1>5 DEF before, rest, PickedJoins

LEMMA FirstToolIs ==
  ASSUME NEW X, NEW b \in Seq(X), Request!Tools(b) # {}
  PROVE  Request!FirstTool(b) \in 1..Len(b) /\ b[Request!FirstTool(b)].type = "tool"
<1> DEFINE L == Len(b)
           Is(k) == b[k].type = "tool"
           First(k) == k \in 1..L /\ Is(k) /\ \A j \in 1..(k - 1) : ~Is(j)
           P(n) == (\E k \in 1..n : k \in 1..L /\ Is(k)) => \E k : First(k)
           S == {n \in Nat : P(n)}
<1>1. L \in Nat /\ DOMAIN b = 1..L OBVIOUS
<1>2. PICK k \in 1..L : Is(k) BY <1>1 DEF Request!Tools
<1>3. P(0) OBVIOUS
<1>4. ASSUME NEW n \in Nat, P(n) PROVE P(n + 1)
  <2> HIDE DEF Is
  <2> SUFFICES ASSUME \E j \in 1..(n + 1) : j \in 1..L /\ Is(j) PROVE \E j : First(j) OBVIOUS
  <2>1. CASE \E j \in 1..n : j \in 1..L /\ Is(j) BY <1>4, <2>1
  <2>2. CASE ~\E j \in 1..n : j \in 1..L /\ Is(j)
    <3>1. PICK j \in 1..(n + 1) : j \in 1..L /\ Is(j) OBVIOUS
    <3>2. j = n + 1 BY <2>2, <3>1
    <3>3. \A i \in 1..(j - 1) : i \in 1..n /\ i \in 1..L BY <1>1, <3>1, <3>2
    <3>4. First(j) BY <2>2, <3>1, <3>3
    <3> QED BY <3>4
  <2> QED BY <2>1, <2>2
<1>5. Nat \subseteq S
  <2>1. 0 \in S /\ \A n \in Nat : n \in S => n + 1 \in S
    <3> HIDE DEF P
    <3> QED BY <1>3, <1>4
  <2> HIDE DEF S
  <2> QED BY <2>1, NP!NatInductionOnSet
<1>6. \E j : First(j)
  <2>1. P(L) BY <1>1, <1>5
  <2> HIDE DEF Is, First
  <2> QED BY <1>2, <2>1
<1>7. First(Request!FirstTool(b))
  <2>1. Request!FirstTool(b) = CHOOSE j : First(j)
    BY <1>1 DEF Request!FirstTool
  <2> HIDE DEF First
  <2> QED BY <1>6, <2>1
<1> QED BY <1>7

-----------------------------------------------------------------------------
(* What the messages say together                                          *)

Speaks(ms, Y) == IsSequence(ms) /\ \A k \in DOMAIN ms : Request!Spoken(ms[k]) \in Seq(Y)
Spokens(ms) == [k \in DOMAIN ms |-> Request!Spoken(ms[k])]

LEMMA SpokensAre ==
  ASSUME NEW Y, NEW ms, Speaks(ms, Y)
  PROVE  /\ Request!Content(ms) = Request!FlattenSeq(Spokens(ms)) /\ Request!Content(ms) \in Seq(Y)
         /\ Spokens(ms) \in Seq(Seq(Y)) /\ Len(Spokens(ms)) = Len(ms)
         /\ Len(ms) \in Nat /\ DOMAIN ms = 1..Len(ms)
         /\ \A k \in 1..Len(ms) : Spokens(ms)[k] = Request!Spoken(ms[k])
<1> DEFINE c == Spokens(ms)
           L == Len(ms)
<1>1. L \in Nat /\ DOMAIN ms = 1..L
  <2> DEFINE T == {ms[k] : k \in DOMAIN ms}
  <2>1. ms \in Seq(T) BY DEF Speaks, IsSequence
  <2> HIDE DEF T
  <2> QED BY <2>1
<1>2. c = [k \in 1..L |-> Request!Spoken(ms[k])] BY <1>1 DEF Spokens
<1>3. \A k \in 1..L : Request!Spoken(ms[k]) \in Seq(Y) BY <1>1 DEF Speaks
<1> HIDE DEF L
<1>4. c \in Seq(Seq(Y)) /\ Len(c) = L /\ \A k \in 1..L : c[k] = Request!Spoken(ms[k])
  <2> HIDE DEF c
  <2> QED BY <1>1, <1>2, <1>3
<1>5. Request!Content(ms) = Request!FlattenSeq(c) BY DEF Request!Content, Spokens
<1> HIDE DEF c
<1>6. <<>> \in Seq(Y) OBVIOUS
<1>7. Request!FlattenSeq(c) \in Seq(Y) BY <1>4, <1>6, FlattenOne
<1> QED BY <1>1, <1>4, <1>5, <1>7 DEF c, L

ContentJoins(s, t) == Request!Content(s \o t) = Request!Content(s) \o Request!Content(t)

LEMMA ContentJoined ==
  ASSUME NEW Y, NEW s, NEW t, Speaks(s, Y), Speaks(t, Y)
  PROVE  Speaks(s \o t, Y) /\ ContentJoins(s, t)
<1> DEFINE u == s \o t
           cs == Spokens(s)
           ct == Spokens(t)
           cu == Spokens(u)
           c == cs \o ct
<1>0. IsSequence(s) /\ IsSequence(t) BY DEF Speaks
<1>1. /\ IsSequence(u) /\ DOMAIN u = 1..(Len(s) + Len(t)) /\ Len(s) \in Nat /\ Len(t) \in Nat
      /\ DOMAIN s = 1..Len(s) /\ DOMAIN t = 1..Len(t)
      /\ \A k \in 1..Len(s) : u[k] = s[k]
      /\ \A k \in 1..Len(t) : u[Len(s) + k] = t[k]
  BY <1>0, Joined
<1> HIDE DEF u
<1>2. Speaks(u, Y)
  <2>1. ASSUME NEW k \in DOMAIN u PROVE Request!Spoken(u[k]) \in Seq(Y)
    <3>1. CASE k <= Len(s)
      <4>1. k \in DOMAIN s /\ u[k] = s[k] BY <1>1, <3>1
      <4> QED BY <4>1 DEF Speaks
    <3>2. CASE k > Len(s)
      <4>1. k - Len(s) \in DOMAIN t /\ Len(s) + (k - Len(s)) = k BY <1>1, <3>2
      <4>2. u[k] = t[k - Len(s)] BY <1>1, <4>1
      <4> QED BY <4>1, <4>2 DEF Speaks
    <3>3. k <= Len(s) \/ k > Len(s) BY <1>1
    <3> QED BY <3>1, <3>2, <3>3
  <2> QED BY <1>1, <2>1 DEF Speaks
<1>3. /\ Request!Content(s) = Request!FlattenSeq(cs) /\ cs \in Seq(Seq(Y)) /\ Len(cs) = Len(s)
      /\ \A k \in 1..Len(s) : cs[k] = Request!Spoken(s[k])
  BY SpokensAre
<1>4. /\ Request!Content(t) = Request!FlattenSeq(ct) /\ ct \in Seq(Seq(Y)) /\ Len(ct) = Len(t)
      /\ \A k \in 1..Len(t) : ct[k] = Request!Spoken(t[k])
  BY SpokensAre
<1>5. /\ Request!Content(u) = Request!FlattenSeq(cu) /\ cu \in Seq(Seq(Y)) /\ Len(cu) = Len(u)
      /\ Len(u) \in Nat /\ DOMAIN u = 1..Len(u)
      /\ \A k \in 1..Len(u) : cu[k] = Request!Spoken(u[k])
  BY <1>2, SpokensAre
<1>6. Len(u) = Len(s) + Len(t) BY <1>1, <1>5
<1>7. /\ c \in Seq(Seq(Y)) /\ Len(c) = Len(cs) + Len(ct)
      /\ \A k \in 1..(Len(cs) + Len(ct)) : c[k] = IF k <= Len(cs) THEN cs[k] ELSE ct[k - Len(cs)]
  <2>1. cs \in Seq(Seq(Y)) /\ ct \in Seq(Seq(Y)) BY <1>3, <1>4
  <2> HIDE DEF cs, ct
  <2> QED BY <2>1, ConcatProperties
<1> HIDE DEF cs, ct, cu, c
<1>8. ASSUME NEW k \in 1..Len(cu) PROVE cu[k] = c[k]
  <2>0. k \in 1..Len(u) /\ k \in 1..(Len(cs) + Len(ct)) BY <1>1, <1>3, <1>4, <1>5, <1>6
  <2>1. CASE k <= Len(s)
    <3>1. k \in 1..Len(s) BY <1>1, <2>0, <2>1
    <3>2. cu[k] = cs[k] BY <1>1, <1>3, <1>5, <2>0, <3>1
    <3>3. k <= Len(cs) BY <1>3, <2>1
    <3> QED BY <1>7, <2>0, <3>2, <3>3
  <2>2. CASE k > Len(s)
    <3> DEFINE j == k - Len(s)
    <3>1. j \in 1..Len(t) /\ k = Len(s) + j BY <1>1, <1>6, <2>0, <2>2
    <3>2. ~(k <= Len(cs)) /\ j = k - Len(cs) BY <1>1, <1>3, <2>0, <2>2
    <3> HIDE DEF j
    <3>3. u[k] = t[j] BY <1>1, <3>1
    <3>4. cu[k] = ct[j] BY <1>4, <1>5, <2>0, <3>1, <3>3
    <3> QED BY <1>7, <2>0, <3>2, <3>4
  <2>3. k <= Len(s) \/ k > Len(s) BY <1>1, <2>0
  <2> QED BY <2>1, <2>2, <2>3
<1>9. Len(cu) = Len(c) BY <1>3, <1>4, <1>5, <1>6, <1>7
<1>10. cu \in Seq(Seq(Y)) /\ c \in Seq(Seq(Y)) BY <1>5, <1>7
<1>11. cu = c BY <1>8, <1>9, <1>10, SeqEqual
<1>12. Request!FlattenSeq(cs \o ct) = Request!FlattenSeq(cs) \o Request!FlattenSeq(ct)
  BY <1>3, <1>4, FlattenJoined
<1>13. ContentJoins(s, t) BY <1>3, <1>4, <1>5, <1>11, <1>12 DEF c, u, ContentJoins
<1> QED BY <1>2, <1>13 DEF u

LEMMA ContentOne ==
  ASSUME NEW Y, NEW x, Request!Spoken(x) \in Seq(Y)
  PROVE  /\ Speaks(<<x>>, Y) /\ Request!Content(<<x>>) = Request!Spoken(x)
         /\ Speaks(<<>>, Y) /\ Request!Content(<<>>) = <<>>
<1>1. IsSequence(<<x>>) /\ DOMAIN <<x>> = {1} /\ <<x>>[1] = x BY OneIsSequence
<1>2. Speaks(<<x>>, Y) BY <1>1 DEF Speaks
<1>3. Speaks(<<>>, Y) BY NoneIsSequence DEF Speaks
<1>4. Spokens(<<>>) = <<>> /\ Spokens(<<x>>) = <<Request!Spoken(x)>> BY DEF Spokens
<1>5. Request!Content(<<>>) = <<>> BY <1>3, <1>4, SpokensAre, FlattenNone
<1> DEFINE e == Request!Spoken(x)
<1>6. Request!Content(<<x>>) = Request!FlattenSeq(Append(<<>>, e))
  <2>1. <<e>> = Append(<<>>, e) OBVIOUS
  <2> QED BY <1>2, <1>4, <2>1, SpokensAre
<1>7. e \in Seq(Y) /\ <<>> \in Seq(Seq(Y)) OBVIOUS
<1> HIDE DEF e
<1>8. Request!FlattenSeq(Append(<<>>, e)) = <<>> \o e BY <1>7, FlattenOne, FlattenNone
<1>9. <<>> \o e = e BY <1>7, ConcatEmptySeq
<1> QED BY <1>2, <1>3, <1>5, <1>6, <1>8, <1>9 DEF e

\* A result of a call tells nothing of what was said.
LEMMA ResultsAreSilent ==
  ASSUME NEW ms, NEW tools, IsSequence(ms), Results(ms, tools)
  PROVE  (\A Y : Speaks(ms, Y)) /\ Request!Content(ms) = <<>>
<1>1. \A k \in DOMAIN ms : Request!Spoken(ms[k]) = <<>> BY DEF Results, Request!Spoken
<1>2. \A Y : <<>> \in Seq(Y) OBVIOUS
<1>3. \A Y : Speaks(ms, Y) BY <1>1, <1>2 DEF Speaks
<1>4. Request!Content(ms) \in Seq({})
  <2>1. Speaks(ms, {}) BY <1>3
  <2> QED BY <2>1, SpokensAre
<1>5. \A z \in Seq({}) : z = <<>> OBVIOUS
<1> QED BY <1>3, <1>4, <1>5

LEMMA SpeaksMore ==
  ASSUME NEW ms, NEW Y, NEW Z, Y \subseteq Z, Speaks(ms, Y)
  PROVE  Speaks(ms, Z)
<1>1. \A p \in Seq(Y) : p \in Seq(Z) OBVIOUS
<1> QED BY <1>1 DEF Speaks

-----------------------------------------------------------------------------
(* More is said                                                            *)

LEMMA JoinedSet ==
  ASSUME NEW X, NEW s \in Seq(X), NEW t \in Seq(X)
  PROVE  Request!ToSet(s \o t) = Request!ToSet(s) \cup Request!ToSet(t)
<1> DEFINE u == s \o t
<1>1. /\ u \in Seq(X) /\ Len(u) = Len(s) + Len(t)
      /\ \A k \in 1..(Len(s) + Len(t)) : u[k] = IF k <= Len(s) THEN s[k] ELSE t[k - Len(s)]
  BY ConcatProperties
<1>2. /\ Len(s) \in Nat /\ Len(t) \in Nat /\ DOMAIN s = 1..Len(s) /\ DOMAIN t = 1..Len(t)
      /\ DOMAIN u = 1..(Len(s) + Len(t))
  <2> HIDE DEF u
  <2> QED BY <1>1
<1> HIDE DEF u
<1>3. ASSUME NEW k \in DOMAIN u PROVE u[k] \in Request!ToSet(s) \cup Request!ToSet(t)
  <2>1. CASE k <= Len(s)
    <3>1. k \in DOMAIN s /\ u[k] = s[k] BY <1>1, <1>2, <2>1
    <3> QED BY <3>1 DEF Request!ToSet
  <2>2. CASE ~(k <= Len(s))
    <3>1. k - Len(s) \in DOMAIN t /\ u[k] = t[k - Len(s)] BY <1>1, <1>2, <2>2
    <3> QED BY <3>1 DEF Request!ToSet
  <2> QED BY <2>1, <2>2
<1>4. ASSUME NEW k \in DOMAIN s PROVE s[k] \in Request!ToSet(u)
  <2>1. k \in DOMAIN u /\ u[k] = s[k] BY <1>1, <1>2
  <2> QED BY <2>1 DEF Request!ToSet
<1>5. ASSUME NEW k \in DOMAIN t PROVE t[k] \in Request!ToSet(u)
  <2>1. Len(s) + k \in DOMAIN u /\ ~(Len(s) + k <= Len(s)) /\ (Len(s) + k) - Len(s) = k BY <1>2
  <2>2. u[Len(s) + k] = t[k] BY <1>1, <1>2, <2>1
  <2> QED BY <2>1, <2>2 DEF Request!ToSet
<1>6. Request!ToSet(u) \subseteq Request!ToSet(s) \cup Request!ToSet(t) BY <1>3 DEF Request!ToSet
<1>7. Request!ToSet(s) \subseteq Request!ToSet(u) /\ Request!ToSet(t) \subseteq Request!ToSet(u)
  BY <1>4, <1>5 DEF Request!ToSet
<1> QED BY <1>6, <1>7 DEF u

Told(written, said) == Request!Only(written, Request!ToSet(said)) = said

\* What is added of later blocks leaves what was told of the earlier ones.
LEMMA ToldMore ==
  ASSUME NEW n \in Nat, NEW m \in Nat, n <= m,
         NEW w \in Seq(0..n), NEW p \in Seq({0} \cup ((n + 1)..m)),
         NEW said \in Seq(1..n), NEW more \in Seq((n + 1)..m), Told(w, said), Told(p, more)
  PROVE  said \o more \in Seq(1..m) /\ Told(w \o p, said \o more)
<1> DEFINE A == Request!ToSet(said)
           B == Request!ToSet(more)
           C == Request!ToSet(said \o more)
           X == 0..m
<1>1. said \in Seq(1..m) /\ more \in Seq(1..m)
  <2>1. (n + 1)..m \subseteq 1..m /\ 1..n \subseteq 1..m OBVIOUS
  <2> QED BY <2>1, SeqMonotonic
<1>2. said \o more \in Seq(1..m) BY <1>1, ConcatProperties
<1>3. C = A \cup B BY <1>1, JoinedSet
<1>4. A \subseteq 1..n /\ B \subseteq (n + 1)..m
  <2>1. \A k \in DOMAIN said : said[k] \in 1..n OBVIOUS
  <2>2. \A k \in DOMAIN more : more[k] \in (n + 1)..m OBVIOUS
  <2> QED BY <2>1, <2>2 DEF Request!ToSet
<1>5. w \in Seq(X) /\ p \in Seq(X)
  <2>1. 0..n \subseteq X /\ {0} \cup ((n + 1)..m) \subseteq X OBVIOUS
  <2> QED BY <2>1, SeqMonotonic
<1> HIDE DEF A, B, C, X
<1>6. Alike(C, A, 0..n) BY <1>3, <1>4 DEF Alike
<1>7. Alike(C, B, {0} \cup ((n + 1)..m)) BY <1>3, <1>4 DEF Alike
<1>8. Request!Only(w, C) = Request!Only(w, A) BY <1>6, OnlySame
<1>9. Request!Only(p, C) = Request!Only(p, B) BY <1>7, OnlySame
<1>10. OnlyJoins(w, p) BY <1>5, OnlyJoined
<1>11. Request!Only(w \o p, C) = said \o more
  BY <1>8, <1>9, <1>10 DEF OnlyJoins, Told, A, B
<1> QED BY <1>2, <1>11 DEF Told, C

-----------------------------------------------------------------------------
(* The conversation is told whole                                          *)

\* What is written and what is put off, and between the two a list's texts
Whole == Request!Content(result) \o Request!Content(Request!PutOff(waiting))
Written == (Request!Content(result) \o list.texts) \o Request!Content(Request!PutOff(waiting))

Spoiled == client.overtaken \/ client.repeated \/ client.ended = "refused"

\* Until the conversation ends, what is put off stands behind what is written.
ToldInOrder ==
  /\ client.texts \in Seq(1..client.blocks) /\ client.thoughts \in Seq(1..client.blocks)
  /\ list.texts \in Seq(0..client.blocks)
  /\ Speaks(result, 0..client.blocks) /\ Speaks(Request!PutOff(waiting), 0..client.blocks)
  /\ Told(Written, client.texts) /\ Told(Written, client.thoughts)
  /\ list.texts # <<>> => waiting = Request!Nothing
  /\ client.ended = "whole" => waiting = Request!Nothing

OrderInv == mode \in Request!Modes /\ (Spoiled \/ ToldInOrder)

\* A message that is one text
LEMMA OneText ==
  ASSUME NEW n \in Nat \ {0}, NEW reasoning,
         NEW p, p = <<n>> \/ p = <<0, n>>
  PROVE  LET b == <<[type |-> "text", n |-> n]>> IN
         /\ b \in Seq(Items({n})) /\ Distinct(b) /\ Len(b) = 1
         /\ p \in Seq({0} \cup {n}) /\ Says(p, b, reasoning)
<1> DEFINE x == [type |-> "text", n |-> n]
           b == <<x>>
           I == Items({n})
           Y == {0} \cup {n}
<1>0. <<0, n>> = <<0>> \o <<n>> OBVIOUS
<1>1. x \in I BY DEF Items, Request!Types
<1>2. x.type = "text" /\ x.n = n OBVIOUS
<1>3. b = Append(<<>>, x) /\ <<>> \in Seq(I) /\ {n} \in SUBSET Nat /\ Len(b) = 1 OBVIOUS
<1> HIDE DEF x, I
<1>4. b \in Seq(I) BY <1>1
<1>5. Distinct(b) BY DEF Distinct
<1>6. ASSUME NEW types
      PROVE  Picked(Append(<<>>, x), types)
               = IF x.type \in types THEN Append(Picked(<<>>, types), x.n) ELSE Picked(<<>>, types)
  <2> DEFINE e == <<>>
             N == {n}
  <2>1. e \in Seq(Items(N)) /\ x \in Items(N) /\ N \in SUBSET Nat BY <1>1, <1>3 DEF I
  <2> HIDE DEF e, b, N
  <2>2. Picked(Append(e, x), types)
          = IF x.type \in types THEN Append(Picked(e, types), x.n) ELSE Picked(e, types)
    BY <2>1, PickedAppended
  <2> QED BY <2>2 DEF e
<1>7. ASSUME NEW types PROVE Picked(<<>>, types) = <<>> BY <1>3, PickedTyped DEF I
<1>8. Picked(b, {"text"}) = <<n>> /\ Picked(b, {"thinking"}) = <<>>
  <2>1. Append(<<>>, n) = <<n>> OBVIOUS
  <2>2. "text" \notin {"thinking"} OBVIOUS
  <2> HIDE DEF b
  <2> QED BY <1>2, <1>3, <1>6, <1>7, <2>1, <2>2 DEF b
<1>9. Request!Kept(b, reasoning) = <<>> BY <1>8, KeptIs
<1>10. Request!ToSet(<<n>>) = {n} /\ Request!ToSet(<<>>) = {} BY DEF Request!ToSet
<1>11. <<n>> \in Seq(Y) /\ <<0>> \in Seq(Y) OBVIOUS
<1>12. p \in Seq(Y)
  <2>1. <<0>> \o <<n>> \in Seq(Y) BY <1>11, ConcatProperties
  <2> QED BY <1>0, <1>11, <2>1
<1>13. Request!Only(p, {n}) = <<n>> /\ Request!Only(p, {}) = <<>>
  <2>1. Request!Only(<<n>>, {n}) = <<n>> /\ Request!Only(<<n>>, {}) = <<>> BY OnlyOne
  <2>2. Request!Only(<<0>>, {n}) = <<>> /\ Request!Only(<<0>>, {}) = <<>> BY OnlyOne
  <2>3. OnlyJoins(<<0>>, <<n>>) BY <1>11, OnlyJoined
  <2>4. <<>> \o <<n>> = <<n>> /\ <<>> \o <<>> = <<>> OBVIOUS
  <2> QED BY <1>0, <2>1, <2>2, <2>3, <2>4 DEF OnlyJoins
<1>14. Says(p, b, reasoning) BY <1>8, <1>9, <1>10, <1>13 DEF Says
<1> QED BY <1>3, <1>4, <1>5, <1>12, <1>14 DEF x, I

\* What is written is a sequence of blocks.
LEMMA WrittenIs ==
  ASSUME ToldInOrder
  PROVE  LET Z == 0..client.blocks IN
         /\ Request!Content(result) \in Seq(Z) /\ Request!Content(Request!PutOff(waiting)) \in Seq(Z)
         /\ list.texts \in Seq(Z) /\ Written \in Seq(Z) /\ Whole \in Seq(Z)
         /\ list.texts = <<>> => Written = Whole
<1> DEFINE Z == 0..client.blocks
           r == Request!Content(result)
           late == Request!Content(Request!PutOff(waiting))
<1>1. /\ Speaks(result, Z) /\ Speaks(Request!PutOff(waiting), Z) /\ list.texts \in Seq(Z)
  BY DEF ToldInOrder
<1> HIDE DEF Z
<1>2. r \in Seq(Z) /\ late \in Seq(Z) BY <1>1, SpokensAre
<1> HIDE DEF r, late
<1>3. r \o list.texts \in Seq(Z) /\ (r \o list.texts) \o late \in Seq(Z) /\ r \o late \in Seq(Z)
  BY <1>1, <1>2, ConcatProperties
<1>4. r \o <<>> = r BY <1>2, ConcatEmptySeq
<1> QED BY <1>1, <1>2, <1>3, <1>4 DEF Written, Whole, r, late, Z

\* A client that has said what it has said
AsBefore(c) ==
  /\ IsClient(c)
  /\ c.blocks = client.blocks /\ c.texts = client.texts /\ c.thoughts = client.thoughts
  /\ c.ended = client.ended

\* One more message is told.
LEMMA OneMoreSaid ==
  ASSUME ToldInOrder, client.ended = Request!None, mode' = mode,
         NEW c, AsBefore(c), NEW blocks, NEW reasoning, Request!Said(c, blocks, reasoning),
         NEW m \in Nat, m = client.blocks + Len(blocks), Len(blocks) \in Nat,
         blocks \in Seq(Items((client.blocks + 1)..m)),
         Speaks(result', 0..m), Speaks(Request!PutOff(waiting'), 0..m),
         list'.texts \in Seq(0..m), list'.texts # <<>> => waiting' = Request!Nothing,
         NEW p \in Seq({0} \cup ((client.blocks + 1)..m)), Says(p, blocks, reasoning),
         (Request!Content(result') \o list'.texts) \o Request!Content(Request!PutOff(waiting'))
           = Written \o p
  PROVE  ToldInOrder'
<1> DEFINE n == client.blocks
           N == (n + 1)..m
           texts == Picked(blocks, {"text"})
           thoughts == Request!Kept(blocks, reasoning)
<1>1. n \in Nat /\ n <= m /\ N \in SUBSET Nat BY DEF AsBefore, IsClient
<1>3. texts \in Seq(N)
  <2>1. blocks \in Seq(Items(N)) OBVIOUS
  <2> HIDE DEF N
  <2> QED BY <2>1, PickedTyped
<1>4. thoughts \in Seq(N)
  <2>1. blocks \in Seq(Items(N)) /\ <<>> \in Seq(N) OBVIOUS
  <2> HIDE DEF N
  <2>2. Picked(blocks, {"thinking"}) \in Seq(N) BY <2>1, PickedTyped
  <2> QED BY <2>1, <2>2, KeptIs
<1>6. /\ client'.blocks = m /\ client'.ended = client.ended
      /\ client'.texts = client.texts \o texts /\ client'.thoughts = client.thoughts \o thoughts
  <2>1. /\ client'.blocks = c.blocks + Len(blocks) /\ client'.ended = c.ended
        /\ client'.texts = c.texts \o texts /\ client'.thoughts = c.thoughts \o thoughts
    BY SaidIs DEF AsBefore, Picked
  <2> HIDE DEF texts, thoughts
  <2> QED BY <2>1 DEF AsBefore
<1> HIDE DEF texts, thoughts
<1>7. Written \in Seq(0..n) BY WrittenIs
<1>8. client.ended # "whole" BY DEF Request!None
<1>9. Told(Written, client.texts) /\ Told(Written, client.thoughts) BY DEF ToldInOrder
<1>10. client.texts \in Seq(1..n) /\ client.thoughts \in Seq(1..n) BY DEF ToldInOrder
<1>11. Told(p, texts) /\ Told(p, thoughts) BY DEF Says, Told, texts, thoughts
<1>12. client.texts \o texts \in Seq(1..m) /\ Told(Written \o p, client.texts \o texts)
  BY <1>1, <1>3, <1>7, <1>9, <1>10, <1>11, ToldMore
<1>13. client.thoughts \o thoughts \in Seq(1..m) /\ Told(Written \o p, client.thoughts \o thoughts)
  BY <1>1, <1>4, <1>7, <1>9, <1>10, <1>11, ToldMore
<1>14. Request!PutOff(waiting)' = Request!PutOff(waiting')
  BY DEF Request!PutOff, Request!AssistantMessage
<1>15. Written' = Written \o p BY <1>14 DEF Written
<1> QED BY <1>6, <1>8, <1>12, <1>13, <1>14, <1>15 DEF ToldInOrder

\* ... or none, and what is written is only arranged otherwise.
LEMMA NoMoreSaid ==
  ASSUME ToldInOrder, mode' = mode, client'.blocks = client.blocks,
         client'.texts = client.texts, client'.thoughts = client.thoughts,
         LET Z == 0..client.blocks IN
           Speaks(result', Z) /\ Speaks(Request!PutOff(waiting'), Z) /\ list'.texts \in Seq(Z),
         list'.texts # <<>> => waiting' = Request!Nothing,
         client'.ended = "whole" => waiting' = Request!Nothing,
         (Request!Content(result') \o list'.texts) \o Request!Content(Request!PutOff(waiting'))
           = Written
  PROVE  ToldInOrder'
<1>1. Request!PutOff(waiting)' = Request!PutOff(waiting')
  BY DEF Request!PutOff, Request!AssistantMessage
<1>2. Written' = Written BY <1>1 DEF Written
<1>3. /\ client.texts \in Seq(1..client.blocks) /\ client.thoughts \in Seq(1..client.blocks)
      /\ Told(Written, client.texts) /\ Told(Written, client.thoughts)
  BY DEF ToldInOrder
<1> QED BY <1>1, <1>2, <1>3 DEF ToldInOrder

\* What a message adds, as it is written and put off
Adds(Y, b, reasoning) ==
  \E ms, p : /\ result' = result \o Request!PutOff(waiting) \o ms
             /\ Speaks(ms, Y) /\ Speaks(Request!PutOff(waiting'), Y)
             /\ Request!Content(ms) \o Request!Content(Request!PutOff(waiting')) = p
             /\ p \in Seq(Y) /\ Says(p, b, reasoning)

\* A message without calls
LEMMA WholeTells ==
  ASSUME mode \in Request!Modes, NEW N \in SUBSET (Nat \ {0}), NEW b \in Seq(Items(N)), Distinct(b),
         NEW reasoning \in BOOLEAN, Request!Assistant(b, reasoning), Request!Tools(b) = {}
  PROVE  Adds({0} \cup N, b, reasoning)
<1> DEFINE x == Request!AssistantMessage(b, reasoning)
           p == Reasoned(b, reasoning) \o Picked(b, Shown)
           Y == {0} \cup N
<1>1. /\ result' = result \o Request!PutOff(waiting) \o <<x>>
      /\ waiting' = Request!Nothing
  BY DEF Request!Assistant
<1>2. b \in Seq(Elements(b))
  <2>1. \A k \in 1..Len(b) : b[k] \in Elements(b) BY DEF Elements
  <2> QED BY <2>1, ElementsIn
<1>3. p \in Seq(Y) /\ Says(p, b, reasoning)
  <2> DEFINE A == Request!ToSet(Picked(b, {"text"}))
             H == Request!ToSet(Request!Kept(b, reasoning))
  <2>1. /\ p \in Seq(Y) /\ Request!Only(p, A) = Picked(b, {"text"})
        /\ Request!Only(p, H) = Request!Kept(b, reasoning)
    <3> DEFINE c == b
    <3>1. c \in Seq(Elements(b)) BY <1>2
    <3> HIDE DEF c
    <3>2. LET q == Reasoned(c, reasoning) \o Picked(c, Shown) IN
          /\ q \in Seq(Y) /\ Request!Only(q, A) = Picked(c, {"text"})
          /\ Request!Only(q, H) = Request!Kept(c, reasoning)
      BY <3>1, WholeSays
    <3> QED BY <3>2 DEF c
  <2> QED BY <2>1 DEF Says
<1>4. Request!Spoken(x) = p BY SpokenIs
<1> HIDE DEF x, p, Y
<1>5. Speaks(<<x>>, Y) /\ Request!Content(<<x>>) = p /\ Speaks(<<>>, Y) /\ Request!Content(<<>>) = <<>>
  BY <1>3, <1>4, ContentOne
<1>6. Request!PutOff(waiting') = <<>> BY <1>1 DEF Request!PutOff
<1>7. p \o <<>> = p BY <1>3, ConcatEmptySeq
<1>8. Request!Content(<<x>>) \o Request!Content(Request!PutOff(waiting')) = p BY <1>5, <1>6, <1>7
<1>9. Adds(Y, b, reasoning) BY <1>1, <1>3, <1>5, <1>6, <1>8 DEF Adds
<1> QED BY <1>9 DEF Y

\* A message with calls: what stands before the first, and what comes behind
LEMMA SplitTells ==
  ASSUME mode \in Request!Modes, NEW N \in SUBSET (Nat \ {0}), NEW b \in Seq(Items(N)), Distinct(b),
         NEW reasoning \in BOOLEAN, Request!Assistant(b, reasoning), Request!Tools(b) # {}
  PROVE  Adds({0} \cup N, b, reasoning)
<1> DEFINE k == Request!FirstTool(b)
           T == Request!Tools(b)
           before == Before(b, k)
           rest == Behind(b, k)
           some == Request!Types \ {"tool"}
           after == Request!OfTypes(rest, some)
           x == [Request!AssistantMessage(before, reasoning) EXCEPT !.calls = T]
           y == Request!AssistantMessage(after, reasoning)
           Y == {0} \cup N
           E == Elements(b)
           p == Reasoned(before, reasoning) \o Picked(before, Shown)
           q == Reasoned(after, reasoning) \o Picked(after, Shown)
           late == IF after = <<>> THEN <<>> ELSE q
           A == Request!ToSet(Picked(b, {"text"}))
           H == Request!ToSet(Request!Kept(b, reasoning))
<1>0. N \in SUBSET Nat OBVIOUS
<1>1. k \in 1..Len(b) /\ b[k].type = "tool" BY FirstToolIs
<1>2. b \in Seq(E)
  <2>1. \A j \in 1..Len(b) : b[j] \in E BY DEF Elements
  <2> QED BY <2>1, ElementsIn
<1>3. /\ result' = result \o Request!PutOff(waiting) \o <<x>>
      /\ waiting' = IF after = <<>> THEN Request!Nothing ELSE Late(T, after, reasoning)
  BY DEF Request!Assistant, Request!Split, Late, Before, Behind
<1>4. Request!Spoken(x) = p /\ Request!Spoken(y) = q BY SpokenIs
<1> HIDE DEF k, x, y, p, q
<1>5. before \in Seq(E) /\ rest \in Seq(E) /\ rest \in Seq(Items(N)) /\ before \in Seq(Items(N))
  <2> HIDE DEF E, before, rest
  <2>1. before \in Seq(E) /\ rest \in Seq(E) BY <1>1, <1>2, CutAround DEF before, rest
  <2>2. before \in Seq(Items(N)) /\ rest \in Seq(Items(N)) BY <1>1, CutAround DEF before, rest
  <2> QED BY <2>1, <2>2
<1>6. after \in Seq(E)
  <2> HIDE DEF E, rest, some
  <2> QED BY <1>5, OnlyTyped DEF Request!OfTypes
<1>7. after \in Seq(Items(N)) BY <1>5, PickedTyped
<1>8. ASSUME NEW types, types = {"text"} \/ types = {"thinking"}
      PROVE  Picked(b, types) = Picked(before, types) \o Picked(after, types)
  <2>1. b[k].type \notin types BY <1>1, <1>8
  <2>2. types \cap some = types BY <1>8 DEF Request!Types
  <2>3. Picked(b, types) = Picked(before, types) \o Picked(rest, types) BY <1>0, <1>1, <2>1, PickedAround
  <2> HIDE DEF some, before, rest
  <2>4. Picked(after, types) = Picked(rest, types \cap some) BY <1>0, <1>5, PickedTwice
  <2> QED BY <2>2, <2>3, <2>4
<1>9. /\ p \in Seq(Y) /\ Request!Only(p, A) = Picked(before, {"text"})
      /\ Request!Only(p, H) = Request!Kept(before, reasoning)
  <2> HIDE DEF before, A, H
  <2> QED BY <1>5, WholeSays DEF p, A, H, E
<1>10. /\ q \in Seq(Y) /\ Request!Only(q, A) = Picked(after, {"text"})
       /\ Request!Only(q, H) = Request!Kept(after, reasoning)
  <2> HIDE DEF after, A, H
  <2> QED BY <1>6, WholeSays DEF q, A, H, E
<1> HIDE DEF A, H, E, before, rest, after, T
<1>11. after = <<>> => Picked(after, {"text"}) = <<>> /\ Request!Kept(after, reasoning) = <<>>
  <2> SUFFICES ASSUME after = <<>>
               PROVE  Picked(after, {"text"}) = <<>> /\ Request!Kept(after, reasoning) = <<>>
    OBVIOUS
  <2>1. ASSUME NEW types PROVE Picked(<<>>, types) = <<>> BY <1>7, PickedTyped
  <2> QED BY <2>1, KeptIs
<1>12. /\ late \in Seq(Y) /\ Request!Only(late, A) = Picked(after, {"text"})
       /\ Request!Only(late, H) = Request!Kept(after, reasoning)
  <2>1. <<>> \in Seq(Y) OBVIOUS
  <2>2. Request!Only(<<>>, A) = <<>> /\ Request!Only(<<>>, H) = <<>> BY OnlyOne
  <2> QED BY <1>10, <1>11, <2>1, <2>2
<1>13. Request!Kept(b, reasoning) = Request!Kept(before, reasoning) \o Request!Kept(after, reasoning)
  <2>1. Picked(b, {"thinking"}) = Picked(before, {"thinking"}) \o Picked(after, {"thinking"}) BY <1>8
  <2>2. <<>> \o <<>> = <<>> OBVIOUS
  <2> QED BY <2>1, <2>2, KeptIs
<1> HIDE DEF late, Y
<1>14. OnlyJoins(p, late) BY <1>9, <1>12, OnlyJoined
<1>15. Says(p \o late, b, reasoning)
  <2>1. Picked(b, {"text"}) = Picked(before, {"text"}) \o Picked(after, {"text"}) BY <1>8
  <2>2. Request!Only(p \o late, A) = Picked(b, {"text"}) BY <1>9, <1>12, <1>14, <2>1 DEF OnlyJoins
  <2>3. Request!Only(p \o late, H) = Request!Kept(b, reasoning) BY <1>9, <1>12, <1>13, <1>14 DEF OnlyJoins
  <2> QED BY <2>2, <2>3 DEF Says, A, H
<1>16. p \o late \in Seq(Y) BY <1>9, <1>12, ConcatProperties
<1>17. Speaks(<<x>>, Y) /\ Request!Content(<<x>>) = p BY <1>4, <1>9, ContentOne
<1>18. Speaks(Request!PutOff(waiting'), Y) /\ Request!Content(Request!PutOff(waiting')) = late
  <2>1. CASE after = <<>>
    <3>1. Request!PutOff(waiting') = <<>> BY <1>3, <2>1 DEF Request!PutOff
    <3>2. Speaks(<<>>, Y) /\ Request!Content(<<>>) = <<>> BY <1>4, <1>9, ContentOne
    <3> QED BY <2>1, <3>1, <3>2 DEF late
  <2>2. CASE after # <<>>
    <3>1. waiting' = Late(T, after, reasoning) BY <1>3, <2>2
    <3>2. waiting' # Request!Nothing BY <3>1 DEF Late, Request!Nothing, T
    <3>3. waiting'.blocks = after /\ waiting'.reasoning = reasoning BY <3>1 DEF Late
    <3>4. Request!PutOff(waiting') = <<y>> BY <3>2, <3>3 DEF Request!PutOff, y
    <3>5. Request!Spoken(y) \in Seq(Y) BY <1>4, <1>10 DEF Y
    <3>6. Speaks(<<y>>, Y) /\ Request!Content(<<y>>) = q BY <1>4, <3>5, ContentOne
    <3> QED BY <2>2, <3>4, <3>6 DEF late
  <2> QED BY <2>1, <2>2
<1>19. Adds(Y, b, reasoning) BY <1>3, <1>15, <1>16, <1>17, <1>18 DEF Adds
<1> QED BY <1>19 DEF Y

LEMMA AddsSaid ==
  ASSUME ToldInOrder, client.ended = Request!None, mode' = mode,
         NEW c, AsBefore(c), NEW blocks, NEW reasoning, Request!Said(c, blocks, reasoning),
         list.texts = <<>>, list'.texts = <<>>,
         NEW m \in Nat, m = client.blocks + Len(blocks), Len(blocks) \in Nat,
         blocks \in Seq(Items((client.blocks + 1)..m)),
         Adds({0} \cup ((client.blocks + 1)..m), blocks, reasoning)
  PROVE  ToldInOrder'
<1> DEFINE n == client.blocks
           Y == {0} \cup ((n + 1)..m)
           Z == 0..m
           late == Request!PutOff(waiting)
           next == Request!PutOff(waiting')
           base == result \o late
<1>1. PICK ms, p : /\ result' = base \o ms
                   /\ Speaks(ms, Y) /\ Speaks(next, Y)
                   /\ Request!Content(ms) \o Request!Content(next) = p
                   /\ p \in Seq(Y) /\ Says(p, blocks, reasoning)
  BY DEF Adds
<1>2. n \in Nat /\ n <= m BY DEF AsBefore, IsClient
<1>3. Y \subseteq Z /\ 0..n \subseteq Z BY <1>2
<1>4. Speaks(result, 0..n) /\ Speaks(late, 0..n) BY DEF ToldInOrder
<1> HIDE DEF late, next, n
<1>5. Speaks(result, Z) /\ Speaks(late, Z) /\ Speaks(ms, Z) /\ Speaks(next, Z)
  <2> HIDE DEF Y, Z
  <2> QED BY <1>1, <1>3, <1>4, SpeaksMore
<1> HIDE DEF Z, Y
<1>6. Speaks(base, Z) /\ ContentJoins(result, late) BY <1>5, ContentJoined
<1> HIDE DEF base
<1>7. Speaks(base \o ms, Z) /\ ContentJoins(base, ms) BY <1>1, <1>5, <1>6, ContentJoined
<1>8. Request!Content(base) = Written
  <2>1. Request!Content(base) = Whole BY <1>6 DEF base, late, ContentJoins, Whole
  <2> QED BY <2>1, WrittenIs
<1>9. Request!Content(result') \o Request!Content(next) = Written \o p
  <2>1. /\ Request!Content(base) \in Seq(Z) /\ Request!Content(ms) \in Seq(Z)
        /\ Request!Content(next) \in Seq(Z)
    BY <1>5, <1>6, SpokensAre
  <2>2. Request!Content(result') = Written \o Request!Content(ms)
    BY <1>1, <1>7, <1>8 DEF ContentJoins
  <2>3. (Written \o Request!Content(ms)) \o Request!Content(next)
          = Written \o (Request!Content(ms) \o Request!Content(next))
    <3>1. Associates(Z) BY JoinsAssociate
    <3> QED BY <1>8, <2>1, <3>1 DEF Associates
  <2> QED BY <1>1, <2>2, <2>3
<1>10. Speaks(result', Z) BY <1>1, <1>7
<1>11. Says(p, blocks, reasoning) /\ p \in Seq(Y) BY <1>1
<1>12. (Request!Content(result') \o list'.texts) \o Request!Content(next) = Written \o p
  <2>1. Request!Content(result') \o <<>> = Request!Content(result')
    <3>1. Request!Content(result') \in Seq(Z) BY <1>10, SpokensAre
    <3> QED BY <3>1, ConcatEmptySeq
  <2> QED BY <1>9, <2>1
<1>13. list'.texts \in Seq(Z)
  <2>1. <<>> \in Seq(Z) OBVIOUS
  <2> QED BY <2>1
<1> QED BY <1>5, <1>10, <1>11, <1>12, <1>13, OneMoreSaid DEF next, n, Z, Y

\* What a list's texts are when they are written
LEMMA JoinedSays ==
  ASSUME NEW Y, NEW texts \in Seq(Y)
  PROVE  Speaks(Request!Joined(texts), Y) /\ Request!Content(Request!Joined(texts)) = texts
<1> DEFINE x == Request!Plain("user", texts)
<1>1. Request!Spoken(x) = <<>> \o texts BY DEF Request!Plain, Request!Spoken
<1>2. <<>> \o texts = texts BY ConcatEmptySeq
<1> HIDE DEF x
<1>3. Request!Spoken(x) \in Seq(Y) BY <1>1, <1>2
<1>4. /\ Speaks(<<x>>, Y) /\ Request!Content(<<x>>) = texts
      /\ Speaks(<<>>, Y) /\ Request!Content(<<>>) = <<>>
  BY <1>1, <1>2, <1>3, ContentOne
<1>5. Request!Joined(texts) = IF texts = <<>> THEN <<>> ELSE <<x>> BY DEF Request!Joined, x
<1> QED BY <1>4, <1>5

\* A result says nothing.
LEMMA ResultSays ==
  ASSUME NEW Y, NEW tool
  PROVE  Speaks(<<Request!ToolMessage(tool)>>, Y) /\ Request!Content(<<Request!ToolMessage(tool)>>) = <<>>
<1> DEFINE m == Request!ToolMessage(tool)
<1>1. m.role = "tool" BY SaidIsNoResult
<1> HIDE DEF m
<1>2. Request!Spoken(m) = <<>> /\ <<>> \in Seq(Y) BY <1>1 DEF Request!Spoken
<1>3. Speaks(<<m>>, Y) /\ Request!Content(<<m>>) = <<>> BY <1>2, ContentOne
<1> QED BY <1>3 DEF m

LEMMA OrderInitially == StreamsInit => OrderInv
<1> SUFFICES ASSUME StreamsInit PROVE OrderInv OBVIOUS
<1>1. /\ result = <<>> /\ waiting = Request!Nothing /\ mode \in Request!Modes /\ list = Request!NoList
      /\ client.blocks = 0 /\ client.texts = <<>> /\ client.thoughts = <<>>
      /\ client.ended = Request!None
  BY DEF StreamsInit, Request!Init
<1>2. list.texts = <<>> BY <1>1 DEF Request!NoList
<1>3. Request!PutOff(waiting) = <<>> BY <1>1 DEF Request!PutOff
<1>4. ASSUME NEW Y PROVE Speaks(<<>>, Y) BY NoneIsSequence DEF Speaks
<1>5. Request!Content(<<>>) = <<>> BY NoneIsSequence, ResultsAreSilent DEF Results
<1>6. Written = <<>>
  <2>1. <<>> \o <<>> = <<>> OBVIOUS
  <2> QED BY <1>1, <1>2, <1>3, <1>5, <2>1 DEF Written
<1>7. Told(<<>>, <<>>) BY OnlyOne DEF Told
<1>8. <<>> \in Seq(1..0) /\ <<>> \in Seq(0..0) OBVIOUS
<1>9. ToldInOrder BY <1>1, <1>2, <1>3, <1>4, <1>6, <1>7, <1>8 DEF ToldInOrder, Request!None
<1> QED BY <1>1, <1>9 DEF OrderInv

\* Nothing is told while the conversation stays as it is.
LEMMA OrderStays == OrderInv /\ UNCHANGED requestVars => OrderInv'
<1> SUFFICES ASSUME OrderInv, UNCHANGED requestVars PROVE OrderInv' OBVIOUS
<1>1. mode' = mode /\ result' = result /\ waiting' = waiting /\ list' = list /\ client' = client
  BY DEF requestVars
<1>2. Request!PutOff(waiting)' = Request!PutOff(waiting)
  BY <1>1 DEF Request!PutOff, Request!AssistantMessage
<1>3. Written' = Written BY <1>1, <1>2 DEF Written
<1> QED BY <1>1, <1>2, <1>3 DEF OrderInv, ToldInOrder, Spoiled

\* What is put off is told when the conversation ends.
LEMMA OrderEnds == ToldInOrder /\ RequestTyped /\ Request!Ends => ToldInOrder'
<1> SUFFICES ASSUME ToldInOrder, RequestTyped, Request!Ends PROVE ToldInOrder' OBVIOUS
<1> DEFINE late == Request!PutOff(waiting)
           Z == 0..client.blocks
<1>1. /\ ~list.reading /\ list' = list /\ mode' = mode /\ waiting' = Request!Nothing
      /\ result' = result \o late /\ client' = [client EXCEPT !.ended = "whole"]
  BY DEF Request!Ends
<1>2. /\ client'.blocks = client.blocks /\ client'.texts = client.texts
      /\ client'.thoughts = client.thoughts
  BY <1>1 DEF RequestTyped, IsClient
<1>3. list.texts = <<>> /\ list'.texts = <<>> BY <1>1, NotReading
<1>4. Speaks(result, Z) /\ Speaks(late, Z) BY DEF ToldInOrder
<1>5. Request!PutOff(waiting') = <<>> BY <1>1 DEF Request!PutOff
<1>a. <<>> \in Seq(Z) OBVIOUS
<1> HIDE DEF late, Z
<1>6. Speaks(result \o late, Z) /\ ContentJoins(result, late) BY <1>4, ContentJoined
<1>7. Speaks(<<>>, Z) /\ Request!Content(<<>>) = <<>>
  BY NoneIsSequence, ResultsAreSilent DEF Results
<1>8. Request!Content(result \o late) = Written
  <2>1. Request!Content(result \o late) = Whole BY <1>6 DEF ContentJoins, Whole, late
  <2> QED BY <1>3, <2>1, WrittenIs
<1>9. Written \o <<>> = Written
  <2>1. Request!Content(result \o late) \in Seq(Z) BY <1>6, SpokensAre
  <2> QED BY <1>8, <2>1, ConcatEmptySeq
<1>10. (Request!Content(result') \o list'.texts) \o Request!Content(Request!PutOff(waiting')) = Written
  BY <1>1, <1>3, <1>5, <1>7, <1>8, <1>9
<1>11. Speaks(result', Z) /\ Speaks(Request!PutOff(waiting'), Z) /\ list'.texts \in Seq(Z)
  BY <1>1, <1>3, <1>5, <1>6, <1>7, <1>a
<1> QED BY <1>1, <1>2, <1>10, <1>11, NoMoreSaid DEF Z

\* The blocks of a message are numbered on from those before it.
LEMMA NumberedAre ==
  ASSUME IsClient(client), NEW types \in Request!Blocks
  PROVE  LET b == Request!Numbered(types) IN
         /\ Len(b) \in Nat /\ Distinct(b)
         /\ b \in Seq(Items((client.blocks + 1)..(client.blocks + Len(b))))
<1> DEFINE n == client.blocks
           b == Request!Numbered(types)
<1>1. MaxBlocks \in Nat /\ n \in Nat BY ConversationIsBounded DEF IsClient
<1>2. PICK k \in 1..(MaxBlocks - n) : types \in [1..k -> Request!Types] BY DEF Request!Blocks
<1>3. k \in Nat BY <1>1
<1>4. b = [j \in 1..k |-> [type |-> types[j], n |-> n + j]] BY <1>2 DEF Request!Numbered
<1> DEFINE N == (n + 1)..(n + k)
<1>5. ASSUME NEW j \in 1..k PROVE [type |-> types[j], n |-> n + j] \in Items(N)
  <2>1. types[j] \in Request!Types BY <1>2
  <2>2. n + j \in N BY <1>1, <1>3
  <2> HIDE DEF N, n
  <2> QED BY <2>1, <2>2 DEF Items
<1>6. \A j \in 1..k : b[j].n = n + j BY <1>4
<1> HIDE DEF b, N
<1>7. b \in Seq(Items(N)) /\ Len(b) = k /\ DOMAIN b = 1..k BY <1>3, <1>4, <1>5
<1>8. Distinct(b)
  <2> SUFFICES ASSUME NEW i \in 1..k, NEW j \in 1..k, b[i].n = b[j].n PROVE i = j
    BY <1>7 DEF Distinct
  <2>1. n + i = n + j BY <1>6
  <2> QED BY <1>1, <2>1
<1> QED BY <1>3, <1>7, <1>8 DEF b, N

LEMMA OrderAssistant == mode \in Request!Modes /\ ToldInOrder /\ RequestTyped /\ Request!AssistantSpeaks => ToldInOrder'
<1> SUFFICES ASSUME mode \in Request!Modes, ToldInOrder, RequestTyped, Request!AssistantSpeaks PROVE ToldInOrder'
  OBVIOUS
<1>1. client.ended = Request!None /\ mode' = mode /\ ~list.reading /\ list' = list
  BY DEF Request!AssistantSpeaks, Request!MayGoOn
<1>2. PICK types \in Request!Blocks, reasoning \in BOOLEAN :
        LET blocks == Request!Numbered(types)
        IN /\ Request!Assistant(blocks, reasoning)
           /\ Request!Said([client EXCEPT !.sent = client.sent + 1, !.open = Request!Tools(blocks),
                                          !.spoke = FALSE], blocks, reasoning)
  BY DEF Request!AssistantSpeaks
<1> DEFINE n == client.blocks
           b == Request!Numbered(types)
           T == Request!Tools(b)
           m == n + Len(b)
           N == (n + 1)..m
<1>c. PICK c : c = [client EXCEPT !.sent = client.sent + 1, !.open = T, !.spoke = FALSE] OBVIOUS
<1>3. Len(b) \in Nat /\ Distinct(b) /\ b \in Seq(Items(N)) BY NumberedAre DEF RequestTyped
<1>4. n \in Nat BY DEF RequestTyped, IsClient
<1>5. N \in SUBSET (Nat \ {0}) BY <1>3, <1>4
<1>7. Request!Assistant(b, reasoning) BY <1>2
<1>8. Request!Said(c, b, reasoning) BY <1>2, <1>c
<1>9. m \in Nat BY <1>3, <1>4
<1>a. AsBefore(c)
  <2> HIDE DEF T
  <2> QED BY <1>c DEF RequestTyped, IsClient, AsBefore
<1> HIDE DEF b, N, n, T
<1>10. Adds({0} \cup N, b, reasoning)
  <2>1. CASE Request!Tools(b) = {} BY <1>3, <1>5, <1>7, <2>1, WholeTells
  <2>2. CASE Request!Tools(b) # {} BY <1>3, <1>5, <1>7, <2>2, SplitTells
  <2> QED BY <2>1, <2>2
<1>11. b \in Seq(Items((client.blocks + 1)..m)) /\ Adds({0} \cup ((client.blocks + 1)..m), b, reasoning)
  BY <1>3, <1>10 DEF N, n
<1>12. m = client.blocks + Len(b) BY DEF n
<1>13. list.texts = <<>> /\ list'.texts = <<>> BY <1>1, NotReading
<1> HIDE DEF m
<1> QED BY <1>1, <1>3, <1>8, <1>9, <1>a, <1>11, <1>12, <1>13, AddsSaid

\* A message that is one text, after what is put off
LEMMA OneAdds ==
  ASSUME NEW n \in Nat \ {0}, NEW reasoning, NEW x,
         Request!Spoken(x) = <<n>> \/ Request!Spoken(x) = <<0, n>>,
         result' = result \o Request!PutOff(waiting) \o <<x>>, waiting' = Request!Nothing
  PROVE  Adds({0} \cup {n}, <<[type |-> "text", n |-> n]>>, reasoning)
<1> DEFINE b == <<[type |-> "text", n |-> n]>>
           p == Request!Spoken(x)
           Y == {0} \cup {n}
<1>1. p \in Seq(Y) /\ Says(p, b, reasoning)
  <2> HIDE DEF p
  <2>1. p = <<n>> \/ p = <<0, n>> BY DEF p
  <2> QED BY <2>1, OneText
<1> HIDE DEF b, Y
<1>2. Speaks(<<x>>, Y) /\ Request!Content(<<x>>) = p /\ Speaks(<<>>, Y) /\ Request!Content(<<>>) = <<>>
  BY <1>1, ContentOne
<1>3. Request!PutOff(waiting') = <<>> BY DEF Request!PutOff
<1> HIDE DEF p
<1>4. p \o <<>> = p BY <1>1, ConcatEmptySeq
<1>5. Request!Content(<<x>>) \o Request!Content(Request!PutOff(waiting')) = p BY <1>2, <1>3, <1>4
<1>6. Speaks(Request!PutOff(waiting'), Y) BY <1>2, <1>3
<1>7. Adds(Y, b, reasoning) BY <1>1, <1>2, <1>5, <1>6 DEF Adds
<1> QED BY <1>7 DEF b, Y

\* A message that is a string
LEMMA OneSaid ==
  ASSUME ToldInOrder, client.ended = Request!None, mode' = mode,
         list.texts = <<>>, list'.texts = <<>>, NEW reasoning,
         NEW c, AsBefore(c), Request!Said(c, Request!OneText, reasoning),
         NEW x, LET n == client.blocks + 1 IN
                Request!Spoken(x) = <<n>> \/ Request!Spoken(x) = <<0, n>>,
         result' = result \o Request!PutOff(waiting) \o <<x>>, waiting' = Request!Nothing
  PROVE  ToldInOrder'
<1> DEFINE m == client.blocks + 1
           b == <<[type |-> "text", n |-> m]>>
           p == <<m>>
<1>1. client.blocks \in Nat /\ m \in Nat \ {0} BY DEF AsBefore, IsClient
<1>2. {m} = (client.blocks + 1)..m BY <1>1
<1>3. Adds({0} \cup {m}, b, reasoning)
  <2> HIDE DEF m
  <2>1. Request!Spoken(x) = <<m>> \/ Request!Spoken(x) = <<0, m>> BY DEF m
  <2> QED BY <1>1, <2>1, OneAdds
<1>4. b \in Seq(Items({m})) /\ Len(b) = 1
  <2> HIDE DEF m
  <2> QED BY <1>1, OneText
<1>5. Request!Said(c, b, reasoning) BY DEF Request!OneText
<1> HIDE DEF b
<1>6. m = client.blocks + Len(b) /\ Len(b) \in Nat /\ m \in Nat BY <1>1, <1>4
<1>7. b \in Seq(Items((client.blocks + 1)..m)) /\ Adds({0} \cup ((client.blocks + 1)..m), b, reasoning)
  BY <1>2, <1>3, <1>4
<1> HIDE DEF m
<1> QED BY <1>5, <1>6, <1>7, AddsSaid

LEMMA OrderUserString == ToldInOrder /\ RequestTyped /\ Request!UserSpeaksString => ToldInOrder'
<1> SUFFICES ASSUME ToldInOrder, RequestTyped, Request!UserSpeaksString PROVE ToldInOrder' OBVIOUS
<1> DEFINE n == client.blocks + 1
           x == Request!Plain("user", <<n>>)
<1>c. PICK c : c = [client EXCEPT !.sent = client.sent + 1, !.open = {}] OBVIOUS
<1>1. /\ client.ended = Request!None /\ mode' = mode /\ ~list.reading /\ list' = list
      /\ Request!Said(c, Request!OneText, FALSE) /\ Request!UserString(n)
  BY <1>c DEF Request!UserSpeaksString, Request!MayGoOn
<1>2. result' = result \o Request!PutOff(waiting) \o <<x>> /\ waiting' = Request!Nothing
  BY <1>1 DEF Request!UserString
<1>3. Request!Spoken(x) = <<n>>
  <2>1. Request!Spoken(x) = <<>> \o <<n>> BY DEF Request!Plain, Request!Spoken
  <2>2. <<>> \o <<n>> = <<n>> OBVIOUS
  <2> QED BY <2>1, <2>2
<1>4. AsBefore(c) BY <1>c DEF RequestTyped, IsClient, AsBefore
<1>5. list.texts = <<>> /\ list'.texts = <<>> BY <1>1, NotReading
<1> HIDE DEF x
<1> QED BY <1>1, <1>2, <1>3, <1>4, <1>5, OneSaid

\* A string of an assistant's overtakes what is put off, if anything is.
LEMMA OrderAssistantString ==
  ToldInOrder /\ RequestTyped /\ Request!AssistantSpeaksString => Spoiled' \/ ToldInOrder'
<1> SUFFICES ASSUME ToldInOrder, RequestTyped, Request!AssistantSpeaksString, ~Spoiled' PROVE ToldInOrder'
  OBVIOUS
<1> DEFINE n == client.blocks + 1
           o == client.overtaken \/ waiting # Request!Nothing
<1>c. PICK c : c = [client EXCEPT !.sent = client.sent + 1, !.open = {}, !.overtaken = o] OBVIOUS
<1>1. client.ended = Request!None /\ mode' = mode /\ ~list.reading /\ list' = list
  BY DEF Request!AssistantSpeaksString, Request!MayGoOn
<1>2. PICK reasoning \in BOOLEAN :
        /\ Request!AssistantString(n, reasoning)
        /\ Request!Said(c, Request!OneText, reasoning)
  BY <1>c DEF Request!AssistantSpeaksString
<1>3. IsSequence(result) BY DEF ToldInOrder, Speaks
<1>9. AsBefore(c) /\ c.overtaken = o
  <2> HIDE DEF o
  <2> QED BY <1>c DEF RequestTyped, IsClient, AsBefore
<1>10. list.texts = <<>> /\ list'.texts = <<>> BY <1>1, NotReading
<1>4. waiting = Request!Nothing
  <2>1. Len(Request!OneText) \in Nat BY DEF Request!OneText
  <2>2. client'.overtaken = c.overtaken BY <1>2, <1>9, <2>1, SaidIs DEF AsBefore
  <2> QED BY <1>9, <2>2 DEF Spoiled
<1> DEFINE w == IF reasoning /\ mode = "think_tags" THEN <<0, n>> ELSE <<n>>
           r == IF reasoning /\ mode = "reasoning_content" THEN <<0>> ELSE <<>>
           x == [Request!Plain("assistant", w) EXCEPT !.reasoning = r]
<1>5. result' = Append(result, x) /\ waiting' = waiting BY <1>2 DEF Request!AssistantString
<1>6. Request!Spoken(x) = r \o w
  <2> HIDE DEF r, w
  <2> QED BY DEF Request!Plain, Request!Spoken
<1>7. Request!Spoken(x) = <<n>> \/ Request!Spoken(x) = <<0, n>>
  <2>1. <<>> \o <<n>> = <<n>> OBVIOUS
  <2>2. <<0, n>> = <<0>> \o <<n>> OBVIOUS
  <2>3. <<>> \o (<<0>> \o <<n>>) = <<0>> \o <<n>>
    <3>1. <<0>> \in Seq({0, n}) /\ <<n>> \in Seq({0, n}) OBVIOUS
    <3>2. <<0>> \o <<n>> \in Seq({0, n}) BY <3>1, ConcatProperties
    <3> QED BY <3>2, ConcatEmptySeq
  <2>4. CASE reasoning /\ mode = "think_tags"
    <3>1. r = <<>> /\ w = <<0, n>> BY <2>4
    <3> HIDE DEF r, w, x, n
    <3> QED BY <1>6, <2>2, <2>3, <3>1
  <2>5. CASE ~(reasoning /\ mode = "think_tags")
    <3>1. w = <<n>> /\ (r = <<>> \/ r = <<0>>) BY <2>5
    <3> HIDE DEF r, w, x, n
    <3> QED BY <1>6, <2>1, <2>2, <3>1
  <2> QED BY <2>4, <2>5
<1> HIDE DEF x
<1>8. result' = result \o Request!PutOff(waiting) \o <<x>>
  <2>1. Request!PutOff(waiting) = <<>> BY <1>4 DEF Request!PutOff
  <2>2. result \o <<>> = result BY <1>3, JoinedThree
  <2> DEFINE X == {result[k] : k \in DOMAIN result} \cup {x}
  <2>3. result \in Seq(X) /\ x \in X
    <3>1. result \in Seq({result[k] : k \in DOMAIN result}) BY <1>3 DEF IsSequence
    <3>2. {result[k] : k \in DOMAIN result} \subseteq X /\ x \in X OBVIOUS
    <3> HIDE DEF X
    <3> QED BY <3>1, <3>2, SeqMonotonic
  <2> HIDE DEF X
  <2>4. Append(result, x) = result \o <<x>> BY <2>3, Appended
  <2> QED BY <1>5, <2>1, <2>2, <2>4
<1> QED BY <1>1, <1>2, <1>4, <1>5, <1>7, <1>8, <1>9, <1>10, OneSaid

\* So does a text in a list.
LEMMA OrderText == ToldInOrder /\ RequestTyped /\ Request!UserText => Spoiled' \/ ToldInOrder'
<1> SUFFICES ASSUME ToldInOrder, RequestTyped, Request!UserText, ~Spoiled' PROVE ToldInOrder' OBVIOUS
<1> DEFINE m == client.blocks + 1
           o == client.overtaken \/ waiting # Request!Nothing
           Z == 0..m
           texts == list.texts
           late == Request!PutOff(waiting)
           r == Request!Content(result)
<1>c. PICK c : c = [client EXCEPT !.spoke = TRUE, !.overtaken = o] OBVIOUS
<1>1. /\ list.reading /\ mode' = mode /\ result' = result /\ waiting' = waiting
      /\ list' = [list EXCEPT !.texts = Append(list.texts, m)]
      /\ Request!Said(c, Request!OneText, FALSE)
  BY <1>c DEF Request!UserText
<1>2. client.ended = Request!None /\ list'.texts = Append(texts, m)
  BY <1>1 DEF RequestTyped, ListTyped
<1>3. AsBefore(c) /\ c.overtaken = o
  <2> HIDE DEF o
  <2> QED BY <1>c DEF RequestTyped, IsClient, AsBefore
<1>4. client.blocks \in Nat /\ m \in Nat \ {0} BY <1>3 DEF AsBefore, IsClient
<1>5. waiting = Request!Nothing
  <2>1. Len(Request!OneText) \in Nat BY DEF Request!OneText
  <2>2. client'.overtaken = c.overtaken BY <1>1, <1>3, <2>1, SaidIs DEF AsBefore
  <2> QED BY <1>3, <2>2 DEF Spoiled
<1>6. late = <<>> BY <1>5 DEF Request!PutOff
<1>7. Speaks(result, Z) /\ Speaks(late, Z) /\ r \in Seq(Z) /\ texts \in Seq(Z) /\ Written \in Seq(Z)
  <2>1. Speaks(result, 0..client.blocks) /\ Speaks(late, 0..client.blocks) BY DEF ToldInOrder
  <2>2. 0..client.blocks \subseteq Z BY <1>4
  <2>3. /\ r \in Seq(0..client.blocks) /\ texts \in Seq(0..client.blocks)
        /\ Written \in Seq(0..client.blocks)
    BY WrittenIs
  <2> HIDE DEF Z, late, r, texts
  <2> QED BY <2>1, <2>2, <2>3, SpeaksMore, SeqMonotonic
<1>8. m \in Z BY <1>4
<1>9. LET b == Request!OneText IN
      /\ b \in Seq(Items({m})) /\ Len(b) = 1
      /\ <<m>> \in Seq({0} \cup {m}) /\ Says(<<m>>, b, FALSE)
  <2> DEFINE p == <<m>>
             k == m
  <2> HIDE DEF p, m
  <2>1. p = <<m>> \/ p = <<0, m>> BY DEF p
  <2>2. LET b == <<[type |-> "text", n |-> m]>> IN
        /\ b \in Seq(Items({m})) /\ Len(b) = 1
        /\ p \in Seq({0} \cup {m}) /\ Says(p, b, FALSE)
    BY <1>4, <2>1, OneText
  <2>3. Request!OneText = <<[type |-> "text", n |-> m]>> BY DEF Request!OneText, m
  <2> QED BY <2>2, <2>3 DEF p
<1>10. {m} = (client.blocks + 1)..m BY <1>4
<1> HIDE DEF Z, o, r, late, texts
<1>11. (r \o Append(texts, m)) \o <<>> = Written \o <<m>> /\ Append(texts, m) \in Seq(Z)
  <2> HIDE DEF m
  <2>1. Append(texts, m) = texts \o <<m>> /\ <<m>> \in Seq(Z) BY <1>7, <1>8, Appended
  <2>2. r \o (texts \o <<m>>) = (r \o texts) \o <<m>>
    <3>1. Associates(Z) BY JoinsAssociate
    <3> QED BY <1>7, <2>1, <3>1 DEF Associates
  <2>3. r \o texts \in Seq(Z) /\ texts \o <<m>> \in Seq(Z) BY <1>7, <2>1, ConcatProperties
  <2>4. (r \o texts) \o <<m>> \in Seq(Z) BY <2>1, <2>3, ConcatProperties
  <2>5. ((r \o texts) \o <<m>>) \o <<>> = (r \o texts) \o <<m>> /\ (r \o texts) \o <<>> = r \o texts
    BY <2>3, <2>4, ConcatEmptySeq
  <2>6. Request!Content(<<>>) = <<>> BY NoneIsSequence, ResultsAreSilent DEF Results
  <2>7. Written = r \o texts BY <1>6, <2>5, <2>6 DEF Written, r, texts, late
  <2> QED BY <2>1, <2>2, <2>3, <2>5, <2>7
<1>12. (Request!Content(result') \o list'.texts) \o Request!Content(Request!PutOff(waiting'))
         = Written \o <<m>>
  <2>1. Request!PutOff(waiting') = <<>> BY <1>1, <1>6 DEF late
  <2>2. Request!Content(<<>>) = <<>> BY NoneIsSequence, ResultsAreSilent DEF Results
  <2> QED BY <1>1, <1>2, <1>11, <2>1, <2>2 DEF r
<1>13. Speaks(result', Z) /\ Speaks(Request!PutOff(waiting'), Z) BY <1>1, <1>7 DEF late
<1>14. waiting' = Request!Nothing BY <1>1, <1>5
<1>15. list'.texts \in Seq(Z) BY <1>2, <1>11
<1> DEFINE b == Request!OneText
<1>16. /\ b \in Seq(Items((client.blocks + 1)..m)) /\ m = client.blocks + Len(b) /\ Len(b) \in Nat
       /\ <<m>> \in Seq({0} \cup ((client.blocks + 1)..m)) /\ Says(<<m>>, b, FALSE)
  <2> DEFINE p == <<m>>
  <2>1. /\ b \in Seq(Items({m})) /\ Len(b) = 1
        /\ p \in Seq({0} \cup {m}) /\ Says(p, b, FALSE)
    BY <1>9
  <2>2. m = client.blocks + 1 OBVIOUS
  <2> HIDE DEF b, p, m
  <2>3. m = client.blocks + Len(b) /\ Len(b) \in Nat BY <2>1, <2>2
  <2>4. /\ b \in Seq(Items((client.blocks + 1)..m))
        /\ p \in Seq({0} \cup ((client.blocks + 1)..m)) /\ Says(p, b, FALSE)
    BY <1>10, <2>1, Zenon
  <2> QED BY <2>3, <2>4 DEF p
<1>17. Request!Said(c, b, FALSE) BY <1>1
<1> DEFINE p == <<m>>
<1> HIDE DEF b, p
<1>18. p \in Seq({0} \cup ((client.blocks + 1)..m)) /\ Says(p, b, FALSE) BY <1>16 DEF p
<1>19. (Request!Content(result') \o list'.texts) \o Request!Content(Request!PutOff(waiting'))
         = Written \o p
  BY <1>12 DEF p
<1>20. m \in Nat /\ m = client.blocks + Len(b) /\ Len(b) \in Nat
       /\ b \in Seq(Items((client.blocks + 1)..m))
  BY <1>4, <1>16
<1>21. /\ Speaks(result', 0..m) /\ Speaks(Request!PutOff(waiting'), 0..m)
       /\ list'.texts \in Seq(0..m)
  BY <1>13, <1>15 DEF Z
<1> HIDE DEF m
<1> QED BY <1>1, <1>2, <1>3, <1>14, <1>17, <1>18, <1>19, <1>20, <1>21, OneMoreSaid

LEMMA OrderListBegins == ToldInOrder /\ RequestTyped /\ Request!UserListBegins => ToldInOrder'
<1> SUFFICES ASSUME ToldInOrder, RequestTyped, Request!UserListBegins PROVE ToldInOrder' OBVIOUS
<1>1. /\ ~list.reading /\ mode' = mode /\ result' = result /\ waiting' = waiting
      /\ list' = [Request!NoList EXCEPT !.reading = TRUE]
      /\ client' = [client EXCEPT !.sent = client.sent + 1]
  BY DEF Request!UserListBegins, Request!MayGoOn
<1>2. /\ client'.blocks = client.blocks /\ client'.texts = client.texts
      /\ client'.thoughts = client.thoughts /\ client'.ended = client.ended
  BY <1>1 DEF RequestTyped, IsClient
<1>3. list.texts = <<>> /\ list'.texts = <<>>
  <2>1. list = Request!NoList BY <1>1 DEF RequestTyped, ListTyped
  <2> QED BY <1>1, <2>1 DEF Request!NoList
<1>4. /\ Speaks(result, 0..client.blocks) /\ Speaks(Request!PutOff(waiting), 0..client.blocks)
      /\ list.texts \in Seq(0..client.blocks)
      /\ client.ended = "whole" => waiting = Request!Nothing
  BY DEF ToldInOrder
<1>5. (Request!Content(result') \o list'.texts) \o Request!Content(Request!PutOff(waiting')) = Written
  BY <1>1, <1>3 DEF Written
<1> QED BY <1>1, <1>2, <1>3, <1>4, <1>5, NoMoreSaid

\* A result writes the texts before it and, if it is the last that was missing,
\* what was put off; a further one brings that out again.
LEMMA OrderResult == ToldInOrder /\ RequestTyped /\ Request!UserResult => Spoiled' \/ ToldInOrder'
<1> SUFFICES ASSUME ToldInOrder, RequestTyped, Request!UserResult, ~Spoiled' PROVE ToldInOrder' OBVIOUS
<1>1. PICK tool :
        /\ list.reading /\ mode' = mode
        /\ Request!Result(tool)
        /\ client' = [client EXCEPT !.results = client.results + 1, !.open = client.open \ {tool},
                                    !.stray = client.stray \/ tool \notin client.open,
                                    !.early = client.early \/ client.spoke,
                                    !.repeated = client.repeated \/ list.brought # Request!Nothing]
  BY DEF Request!UserResult
<1> DEFINE again == client.repeated \/ list.brought # Request!Nothing
<1>2. /\ client'.blocks = client.blocks /\ client'.texts = client.texts
      /\ client'.thoughts = client.thoughts /\ client'.ended = client.ended
      /\ client'.repeated = again
  <2> DEFINE s == client.stray \/ tool \notin client.open
             e == client.early \/ client.spoke
  <2>1. client' = [client EXCEPT !.results = client.results + 1, !.open = client.open \ {tool},
                                 !.stray = s, !.early = e, !.repeated = again]
    BY <1>1
  <2> HIDE DEF s, e, again
  <2> QED BY <2>1 DEF RequestTyped, IsClient
<1>3. list.brought = Request!Nothing BY <1>2 DEF Spoiled
<1>4. client.ended = Request!None BY <1>1 DEF RequestTyped, ListTyped
<1> DEFINE rest == waiting.tools \ {tool}
           last == waiting # Request!Nothing /\ rest = {}
           brought == IF last THEN waiting ELSE list.brought
           texts == list.texts
           joined == Request!Joined(texts)
           one == <<Request!ToolMessage(tool)>>
           out == Request!PutOff(brought)
           late == Request!PutOff(waiting)
           next == Request!PutOff(waiting')
           C(ms) == Request!Content(ms)
           Z == 0..client.blocks
<1>5. /\ result' = result \o joined \o one \o out
      /\ waiting' = IF waiting = Request!Nothing \/ last THEN Request!Nothing
                    ELSE [waiting EXCEPT !.tools = rest]
      /\ list' = [list EXCEPT !.texts = <<>>, !.brought = brought]
  BY <1>1 DEF Request!Result
<1>6. list'.texts = <<>>
  <2> HIDE DEF brought
  <2> QED BY <1>5 DEF RequestTyped, ListTyped
<1>7. /\ Speaks(result, Z) /\ Speaks(late, Z) /\ texts \in Seq(Z) /\ C(result) \in Seq(Z) /\ C(late) \in Seq(Z)
      /\ (texts # <<>> => waiting = Request!Nothing)
  BY WrittenIs DEF ToldInOrder
<1>8. Speaks(<<>>, Z) /\ C(<<>>) = <<>> BY NoneIsSequence, ResultsAreSilent DEF Results, Speaks
<1>a. <<>> \in Seq(Z) OBVIOUS
<1> HIDE DEF Z
<1>9. Speaks(joined, Z) /\ C(joined) = texts BY <1>7, JoinedSays
<1>10. Speaks(one, Z) /\ C(one) = <<>> BY ResultSays
<1>11. \/ waiting = Request!Nothing /\ late = <<>> /\ out = <<>> /\ next = <<>>
       \/ waiting # Request!Nothing /\ out = late /\ next = <<>>
       \/ waiting # Request!Nothing /\ out = <<>> /\ next = late
  <2>1. CASE waiting = Request!Nothing BY <1>3, <1>5, <2>1 DEF Request!PutOff
  <2>2. CASE last BY <1>5, <2>2 DEF Request!PutOff
  <2>3. CASE waiting # Request!Nothing /\ rest # {}
    <3>1. waiting = Late(waiting.tools, waiting.blocks, waiting.reasoning) BY DEF RequestTyped
    <3>2. waiting' = [waiting EXCEPT !.tools = rest] BY <1>5, <2>3
    <3> HIDE DEF rest
    <3>3. waiting' = Late(rest, waiting.blocks, waiting.reasoning) BY <3>1, <3>2 DEF Late
    <3>4. waiting' # Request!Nothing BY <2>3, <3>3 DEF Late, Request!Nothing
    <3>5. waiting'.blocks = waiting.blocks /\ waiting'.reasoning = waiting.reasoning BY <3>3 DEF Late
    <3>6. next = late BY <2>3, <3>4, <3>5 DEF Request!PutOff
    <3>7. out = <<>>
      <4>1. brought = Request!Nothing BY <1>3, <2>3
      <4> QED BY <4>1 DEF Request!PutOff
    <3> QED BY <2>3, <3>6, <3>7
  <2> QED BY <2>1, <2>2, <2>3
<1> HIDE DEF rest, last, brought, joined, one, out, late, next, again
<1>12. Speaks(out, Z) /\ Speaks(next, Z) BY <1>7, <1>8, <1>11
<1>b. ASSUME NEW s, NEW t, Speaks(s, Z), Speaks(t, Z)
      PROVE  Speaks(s \o t, Z) /\ C(s \o t) = C(s) \o C(t)
  <2>1. Speaks(s \o t, Z) /\ ContentJoins(s, t) BY <1>b, ContentJoined
  <2> QED BY <2>1 DEF ContentJoins
<1>13. /\ Speaks(result', Z)
       /\ C(result') = (C(result) \o texts) \o C(out)
  <2>1. Speaks(result \o joined, Z) /\ C(result \o joined) = C(result) \o texts BY <1>7, <1>9, <1>b
  <2>2. Speaks(result \o joined \o one, Z) /\ C(result \o joined \o one) = (C(result) \o texts) \o <<>>
    BY <1>10, <1>b, <2>1
  <2>3. (C(result) \o texts) \o <<>> = C(result) \o texts
    <3>1. C(result) \o texts \in Seq(Z) BY <1>7, ConcatProperties
    <3> QED BY <3>1, ConcatEmptySeq
  <2>4. /\ Speaks(result \o joined \o one \o out, Z)
        /\ C(result \o joined \o one \o out) = (C(result) \o texts) \o C(out)
    BY <1>12, <1>b, <2>2, <2>3
  <2> QED BY <1>5, <2>4
<1> HIDE DEF C
<1>14. (C(result') \o <<>>) \o C(next) = (C(result) \o texts) \o C(late)
  <2>1. C(result) \o texts \in Seq(Z) BY <1>7, ConcatProperties
  <2>2. C(out) \in Seq(Z) BY <1>12, SpokensAre DEF C
  <2>3. C(result') \in Seq(Z) BY <1>13, <2>1, <2>2, ConcatProperties
  <2>4. C(result') \o <<>> = C(result') BY <2>3, ConcatEmptySeq
  <2>5. (C(result) \o texts) \o <<>> = C(result) \o texts BY <2>1, ConcatEmptySeq
  <2>6. CASE next = <<>> /\ out = late BY <1>8, <1>13, <2>3, <2>4, <2>6
  <2>7. CASE out = <<>> /\ next = late BY <1>8, <1>13, <2>4, <2>5, <2>7
  <2> QED BY <1>11, <2>6, <2>7
<1>15. (Request!Content(result') \o list'.texts) \o Request!Content(Request!PutOff(waiting')) = Written
  BY <1>6, <1>14 DEF C, next, late, Written
<1>16. Speaks(result', Z) /\ Speaks(Request!PutOff(waiting'), Z) /\ list'.texts \in Seq(Z)
  BY <1>6, <1>12, <1>13, <1>a DEF next
<1>17. client'.ended # "whole" BY <1>2, <1>4 DEF Request!None
<1> QED BY <1>1, <1>2, <1>6, <1>15, <1>16, <1>17, NoMoreSaid DEF Z

LEMMA OrderListEnds == ToldInOrder /\ RequestTyped /\ Request!UserListEnds => ToldInOrder'
<1> SUFFICES ASSUME ToldInOrder, RequestTyped, Request!UserListEnds PROVE ToldInOrder' OBVIOUS
<1> DEFINE texts == list.texts
           joined == Request!Joined(texts)
           late == Request!PutOff(waiting)
           C(ms) == Request!Content(ms)
           Z == 0..client.blocks
<1>1. /\ mode' = mode /\ waiting' = waiting /\ client' = client
      /\ result' = result \o joined /\ list' = Request!NoList
  BY DEF Request!UserListEnds
<1>2. list'.texts = <<>> BY <1>1 DEF Request!NoList
<1>3. /\ Speaks(result, Z) /\ Speaks(late, Z) /\ texts \in Seq(Z) /\ C(result) \in Seq(Z)
      /\ client.ended = "whole" => waiting = Request!Nothing
  BY WrittenIs DEF ToldInOrder
<1>a. <<>> \in Seq(Z) OBVIOUS
<1> HIDE DEF Z
<1>4. Speaks(joined, Z) /\ C(joined) = texts BY <1>3, JoinedSays
<1> HIDE DEF joined, late
<1>5. Speaks(result', Z) /\ C(result') = C(result) \o texts
  <2>1. Speaks(result \o joined, Z) /\ ContentJoins(result, joined) BY <1>3, <1>4, ContentJoined
  <2> QED BY <1>1, <1>4, <2>1 DEF ContentJoins
<1>6. C(result') \o <<>> = C(result) \o texts
  <2>1. C(result) \o texts \in Seq(Z) BY <1>3, ConcatProperties
  <2> QED BY <1>5, <2>1, ConcatEmptySeq
<1>7. (Request!Content(result') \o list'.texts) \o Request!Content(Request!PutOff(waiting')) = Written
  BY <1>1, <1>2, <1>6 DEF Written
<1>8. Speaks(result', Z) /\ Speaks(Request!PutOff(waiting'), Z) /\ list'.texts \in Seq(Z)
  BY <1>1, <1>2, <1>3, <1>5, <1>a DEF late
<1> QED BY <1>1, <1>2, <1>3, <1>7, <1>8, NoMoreSaid DEF Z

LEMMA OrderSteps == OrderInv /\ ConversionInv /\ [StreamsNext]_allVars => OrderInv'
<1> SUFFICES ASSUME OrderInv, ConversionInv, [StreamsNext]_allVars PROVE OrderInv' OBVIOUS
<1>1. Request!Next \/ UNCHANGED requestVars
  BY DEF StreamsNext, RequestStep, OpenAiStep, NativeStep, ServiceStep, StatusStep, allVars
<1>2. CASE UNCHANGED requestVars BY <1>2, OrderStays
<1>3. CASE Request!Next
  <2>1. RequestTyped BY DEF ConversionInv
  <2>2. mode \in Request!Modes BY DEF OrderInv
  <2>3. mode' = mode
    BY <1>3 DEF Request!Next, Request!AssistantSpeaks, Request!AssistantSpeaksString,
                Request!UserSpeaksString, Request!UserListBegins, Request!UserText,
                Request!UserResult, Request!UserListEnds, Request!Refused, Request!Ends
  <2>4. CASE Request!Refused
    <3>1. client' = [client EXCEPT !.ended = "refused"] BY <2>4 DEF Request!Refused
    <3>2. client'.ended = "refused" BY <2>1, <3>1 DEF RequestTyped, IsClient
    <3> QED BY <2>2, <2>3, <3>2 DEF OrderInv, Spoiled
  <2>5. CASE client.overtaken \/ client.repeated
    <3>1. Carried
      BY <1>3, <2>1, AssistantCarries, AssistantStringCarries, UserStringCarries, ListBeginsCarries,
         TextCarries, ResultCarries, ListEndsCarries, EndCarries DEF Request!Next
    <3> QED BY <2>2, <2>3, <2>5, <3>1 DEF Carried, OrderInv, Spoiled
  <2>6. CASE client.ended = "refused"
    <3>1. client.ended # Request!None /\ ~list.reading
      <4>1. client.ended # Request!None BY <2>6 DEF Request!None
      <4> QED BY <2>1, <4>1 DEF RequestTyped, ListTyped
    <3> QED BY <1>3, <3>1
      DEF Request!Next, Request!AssistantSpeaks, Request!AssistantSpeaksString,
          Request!UserSpeaksString, Request!UserListBegins, Request!UserText, Request!UserResult,
          Request!UserListEnds, Request!Refused, Request!Ends, Request!MayGoOn
  <2>7. CASE ToldInOrder /\ ~Request!Refused
    <3>1. Spoiled' \/ ToldInOrder'
      BY <1>3, <2>1, <2>2, <2>7, OrderAssistant, OrderAssistantString, OrderUserString, OrderListBegins,
         OrderText, OrderResult, OrderListEnds, OrderEnds DEF Request!Next
    <3> QED BY <2>2, <2>3, <3>1 DEF OrderInv
  <2> QED BY <2>4, <2>5, <2>6, <2>7 DEF OrderInv, Spoiled
<1> QED BY <1>1, <1>2, <1>3

\* An OpenAI provider is told every text, and every thought that the mode
\* keeps, once and in the order in which they were said, whatever an assistant
\* says before, between and behind its calls, however results and texts share
\* the user's lists and wherever the conversation ends, with two exceptions:
\* where a user's list has a text, or an assistant's message is a string, while
\* something is put off, and where a list has a further result behind the one
\* that brought it out (core/anthropic/conversion.py).
THEOREM EverythingSaidOnce == StreamsSpec => []SaidOnceInOrder
<1>1. OrderInv /\ ConversionInv => SaidOnceInOrder
  <2> SUFFICES ASSUME OrderInv, ConversionInv, client.ended = "whole", ~client.overtaken, ~client.repeated
               PROVE  /\ Told(Request!Content(result), client.texts)
                      /\ Told(Request!Content(result), client.thoughts)
    BY DEF SaidOnceInOrder, Request!SaidOnceInOrder, Told
  <2>1. ToldInOrder BY DEF OrderInv, Spoiled
  <2>2. waiting = Request!Nothing BY <2>1 DEF ToldInOrder
  <2>3. list.texts = <<>>
    <3>1. client.ended # Request!None BY DEF Request!None
    <3>2. list = Request!NoList BY <3>1 DEF ConversionInv, RequestTyped, ListTyped
    <3> QED BY <3>2 DEF Request!NoList
  <2>4. Request!PutOff(waiting) = <<>> BY <2>2 DEF Request!PutOff
  <2> DEFINE Z == 0..client.blocks
  <2>5. Request!Content(result) \in Seq(Z) /\ Written = Whole BY <2>1, <2>3, WrittenIs
  <2> HIDE DEF Z
  <2>6. Request!Content(<<>>) = <<>> BY NoneIsSequence, ResultsAreSilent DEF Results
  <2>7. Written = Request!Content(result) BY <2>4, <2>5, <2>6, ConcatEmptySeq DEF Whole
  <2> QED BY <2>1, <2>7 DEF ToldInOrder
<1> QED BY <1>1, OrderInitially, OrderSteps, ConversionInitially, ConversionSteps, PTL DEF StreamsSpec

-----------------------------------------------------------------------------
\* A behaviour of the pieces together is one of the transcript: what is proved
\* of the transcript alone (messaging/transcript.py) holds of it.
THEOREM StreamsHaveTranscript == StreamsSpec => Spec
<1>1. StreamsInit => Init BY DEF StreamsInit
<1>2. [StreamsNext]_allVars => [Next]_vars
  BY DEF StreamsNext, RequestStep, OpenAiStep, NativeStep, ServiceStep, StatusStep, allVars
<1> QED BY <1>1, <1>2, PTL DEF StreamsSpec, Spec
=============================================================================

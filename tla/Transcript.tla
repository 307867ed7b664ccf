------------------------------ MODULE Transcript ------------------------------
(***************************************************************************)
(* What a prompt's status message shows while its CLI works.  Events of    *)
(* the CLI (parse_cli_event) are applied to a TranscriptBuffer             *)
(* (messaging/transcript.py), and a ThrottledTranscriptEditor              *)
(* (messaging/ui_updates.py) edits the message at most once a second.      *)
(*                                                                         *)
(* The CLI restarts the numbering of its blocks with every message, so an  *)
(* index says which block is meant only together with what came before.    *)
(* Here each block has a number of its own as well, and a piece of text is *)
(* known by the number of the block it belongs to.                         *)
(***************************************************************************)
EXTENDS Integers, FiniteSets, Sequences, SequencesExt

CONSTANTS
  Index,      \* content block indices
  Tasks,      \* ids of Task calls, as sequences: one may begin with another
  Answers,    \* ids that results carry: those of calls, variants, none, others
  MaxEvents,  \* bound: events of the CLI
  Fits        \* how many segments a message has room for

ASSUME IdsAreNotEmpty == \A task \in Tasks : task \in Seq(STRING) /\ task # <<>>

Prose == {"thinking", "text"}
Synthetic == <<"__task_">>

VARIABLES
  named,    \* the provider gives Task calls an id
  buffer,   \* TranscriptBuffer: segments, open blocks, subagent stack
  editor,   \* ThrottledTranscriptEditor: edited within the last second, last text
  shown,    \* the text last handed to the platform for the status message
  cli,      \* the CLI: block and kind last begun at an index, those not
            \* stopped, Task calls without a result and those ever made, ids of
            \* calls and of answers to them; whether a result was no answer, and
            \* whether prose began in a subagent at an index still open
  edited,   \* a stop has edited the message past the editor
  events,   \* events so far
  outcome   \* the status of the task's last update so far

vars == <<named, buffer, editor, shown, cli, events, edited, outcome>>

Init ==
  /\ named \in BOOLEAN
  /\ buffer = [segments |-> <<>>, stack |-> <<>>,
               open |-> [kind \in Prose \cup {"tool"} |-> [i \in Index |-> 0]]]
  /\ editor = [throttled |-> FALSE, displayed |-> <<>>]
  /\ shown = <<>>
  /\ cli = [at |-> [i \in Index |-> [kind |-> "none", block |-> 0]], live |-> {}, blocks |-> 0,
            waiting |-> {}, made |-> {}, seen |-> {}, strange |-> FALSE, crossed |-> FALSE]
  /\ edited = FALSE
  /\ events = 0
  /\ outcome = "none"

-----------------------------------------------------------------------------
(* The buffer                                                              *)

\* Names that begin with one another count as the same task
RoughlyMatch(a, b) == IsPrefix(a, b) \/ IsPrefix(b, a)

InSubagent(t) == t.stack # <<>>

\* of: the blocks whose text a segment holds
Segment(kind, block) == [kind |-> kind, of |-> {block}]
Added(t, kind, block) == [t EXCEPT !.segments = Append(@, Segment(kind, block))]

Opened(t, kind, i, block) ==
  LET c == Added(t, kind, block) IN [c EXCEPT !.open[kind][i] = Len(c.segments)]

\* Tools first, then thinking, then text
StopBlock(t, i) ==
  IF t.open["tool"][i] # 0 THEN [t EXCEPT !.open["tool"][i] = 0]
  ELSE IF t.open["thinking"][i] # 0 THEN [t EXCEPT !.open["thinking"][i] = 0]
  ELSE [t EXCEPT !.open["text"][i] = 0]

\* A slip: an index that is used again does not close what it stood for
StartProseKeepsOpen(t, kind, i, block) ==
  IF InSubagent(t) THEN t
  ELSE IF t.open[kind][i] # 0 THEN t ELSE Opened(t, kind, i, block)
StartProse(t, kind, i, block) ==
  IF InSubagent(t) THEN t ELSE Opened(StopBlock(t, i), kind, i, block)

DeltaProse(t, kind, i, block) ==
  CASE InSubagent(t) -> t
    [] ~InSubagent(t) /\ t.open[kind][i] = 0 -> Opened(t, kind, i, block)
    [] OTHER -> [t EXCEPT !.segments[t.open[kind][i]].of = @ \cup {block}]

\* Pieces of a full message have no index and a segment each
ChunkProse(t, kind, block) == IF InSubagent(t) THEN t ELSE Added(t, kind, block)

\* The call of a subagent stands in the subagent's own segment
StartTool(t, i, block) ==
  LET c == StopBlock(t, i)
  IN IF InSubagent(c) THEN [c EXCEPT !.open["tool"][i] = Len(c.segments)] ELSE Opened(c, "tool", i, block)

StartTask(t, id, block) ==
  [Added(t, "subagent", block) EXCEPT !.stack = Append(@, IF id = <<>> THEN Synthetic ELSE id)]

SyntheticTop(t) == t.stack # <<>> /\ Last(t.stack) = Synthetic

\* A slip in _subagent_pop: only the top of the stack is looked at
PopTop(t, id) ==
  IF t.stack # <<>> /\ RoughlyMatch(Last(t.stack), id) THEN [t EXCEPT !.stack = Front(@)] ELSE t
\* A result closes the innermost task that matches it and all above it; one
\* without an id closes a task without one
Pop(t, id) ==
  LET matching == {k \in DOMAIN t.stack : RoughlyMatch(t.stack[k], id)}
      top == CHOOSE k \in matching : \A j \in matching : j <= k
  IN CASE id = <<>> /\ SyntheticTop(t) -> [t EXCEPT !.stack = Front(@)]
       [] id # <<>> /\ matching # {}   -> [t EXCEPT !.stack = SubSeq(@, 1, top - 1)]
       [] OTHER                        -> t

LooksLikeTask(id) == \E k \in DOMAIN id : id[k] = "Task"

\* Results are not shown; one whose id is unknown but looks like a Task's closes
\* a task without an id
ToolResult(t, id) ==
  LET c == Pop(t, id)
  IN IF c = t /\ SyntheticTop(t) /\ LooksLikeTask(id) THEN Pop(t, <<>>) ELSE c

ErrorSegment(t) == Added(t, "error", 0)

-----------------------------------------------------------------------------
(* The editor.  The newest segments and the status are kept.               *)

Rendered(t, status) ==
  LET n == Len(t.segments)
  IN <<SubSeq(t.segments, IF n > Fits THEN n - Fits + 1 ELSE 1, n), status>>

Edit(text) ==
  /\ editor' = [throttled |-> TRUE, displayed |-> text]
  /\ shown' = IF text = editor.displayed THEN shown ELSE text

\* A slip: the last update of a second is lost, be it forced or not
UpdateNeverForced(t, status, force) ==
  IF editor.throttled THEN UNCHANGED <<editor, shown>> ELSE Edit(Rendered(t, status))
\* An edit that fails is only logged: its text counts as displayed
Update(t, status, force) ==
  IF editor.throttled /\ ~force THEN UNCHANGED <<editor, shown>> ELSE Edit(Rendered(t, status))

SecondPasses ==
  /\ editor.throttled /\ outcome = "none"
  /\ editor' = [editor EXCEPT !.throttled = FALSE]
  /\ UNCHANGED <<named, buffer, shown, cli, events, edited, outcome>>

-----------------------------------------------------------------------------
(* The CLI's events: process_parsed_cli_event applies one and updates.     *)

Apply(t, status, force) == buffer' = t /\ Update(t, status, force)

\* An index may be used again before its block was stopped
Begun(i, kind) ==
  [cli EXCEPT !.blocks = @ + 1, !.at[i] = [kind |-> kind, block |-> cli.blocks + 1],
              !.live = @ \cup {i}]

\* Nothing is applied inside a subagent: what is open at the index stays open
Covers(i) == InSubagent(buffer) /\ \E kind \in Prose \cup {"tool"} : buffer.open[kind][i] # 0

BlockStart(i) ==
  \/ \E kind \in Prose :
       /\ cli' = [Begun(i, kind) EXCEPT !.crossed = @ \/ Covers(i)]
       /\ Apply(StartProse(buffer, kind, i, cli.blocks + 1), "working", FALSE)
  \/ cli' = Begun(i, "tool") /\ Apply(StartTool(buffer, i, cli.blocks + 1), "working", FALSE)

BlockDelta(i) ==
  /\ i \in cli.live
  /\ UNCHANGED cli
  /\ IF cli.at[i].kind = "tool" THEN Apply(buffer, "working", FALSE)
     ELSE Apply(DeltaProse(buffer, cli.at[i].kind, i, cli.at[i].block), "working", FALSE)

BlockStop(i) ==
  /\ i \in cli.live
  /\ cli' = [cli EXCEPT !.live = @ \ {i}]
  /\ Apply(StopBlock(buffer, i), "working", TRUE)

Chunk(kind) ==
  /\ cli' = [cli EXCEPT !.blocks = @ + 1]
  /\ Apply(ChunkProse(buffer, kind, cli.blocks + 1), "working", FALSE)

\* A call comes as a block that begins or in a full message
TaskCall(task) ==
  /\ task \notin cli.made
  /\ LET called(c, live) == [c EXCEPT !.live = live, !.waiting = @ \cup {task},
                                      !.made = @ \cup {task}, !.seen = @ \cup {task}]
         pushed(t) == StartTask(t, IF named THEN task ELSE <<>>, cli.blocks + 1)
     IN \/ \E i \in Index : /\ cli' = called(Begun(i, "task"), cli.live \ {i})
                            /\ Apply(pushed(StopBlock(buffer, i)), "working", FALSE)
        \/ /\ cli' = called([cli EXCEPT !.blocks = @ + 1], cli.live)
           /\ Apply(pushed(buffer), "working", FALSE)

\* What the code takes for the answer to a call: an id that begins like the
\* call's, or for a call without an id none or one that looks like a Task's
Answered(task, id) ==
  IF named THEN id # <<>> /\ RoughlyMatch(id, task) ELSE id = <<>> \/ LooksLikeTask(id)

TaskResult(task, id) ==
  /\ task \in cli.waiting
  /\ cli' = [cli EXCEPT !.waiting = @ \ {task}, !.seen = IF Answered(task, id) THEN @ \cup {id} ELSE @,
                        !.strange = @ \/ ~Answered(task, id)]
  /\ Apply(ToolResult(buffer, id), "working", FALSE)

\* The result of another tool, whose name the id gives away
OtherResult(id) == UNCHANGED cli /\ Apply(Pop(buffer, id), "working", FALSE)

\* An error event does not end the stream; a process that fails sends one more
ErrorEvent == UNCHANGED cli /\ Apply(ErrorSegment(buffer), "error", TRUE)

Event ==
  /\ outcome = "none" /\ events < MaxEvents
  /\ events' = events + 1
  /\ \/ \E i \in Index : BlockStart(i) \/ BlockDelta(i) \/ BlockStop(i)
     \/ \E kind \in Prose : Chunk(kind)
     \/ \E task \in Tasks : TaskCall(task)
     \/ \E task \in Tasks, id \in Answers : TaskResult(task, id)
     \/ \E id \in Answers : OtherResult(id)
     \/ ErrorEvent
  /\ UNCHANGED <<named, edited, outcome>>

-----------------------------------------------------------------------------
(* The end of the task, and the stops: _process_node_impl, stop_task,      *)
(* stop_all_tasks                                                          *)

Final(t, status) == outcome' = status /\ Apply(t, status, TRUE)

\* The process has exited: with 0, or after the error event of a failing exit
Complete ==
  /\ outcome = "none"
  /\ Final(IF events = 0 THEN ChunkProse(buffer, "text", 0) ELSE buffer, "complete")

\* An exception
Fails == \E status \in {"failed"} \cup (IF events = 0 THEN {"limit"} ELSE {}) :
           Final(ErrorSegment(buffer), status)

\* A cancellation: with the reason that a stop of this prompt leaves, or without
Cancelled == Final(buffer, "stopped") \/ Final(ErrorSegment(buffer), "cancelled")

\* A task that has completed has awaits before it, at which it may yet fail
End ==
  /\ outcome \in {"none", "complete"}
  /\ Complete \/ Fails \/ Cancelled
  /\ UNCHANGED <<named, cli, events, edited>>

\* A stop that was asked for while the task ran edits the message itself
\* (update_cancelled_nodes_ui), before the task sees its cancellation or after
Bare == << <<>>, "stopped" >>
StopShown ==
  /\ shown' = Bare
  /\ edited' = TRUE
  /\ UNCHANGED <<named, buffer, editor, cli, events, outcome>>

Next == Event \/ End \/ StopShown \/ SecondPasses

Spec == Init /\ [][Next]_vars

-----------------------------------------------------------------------------
(* Properties                                                              *)

\* Ids that count as the same task as a third count as the same.  Nothing in
\* the code sees to it: the result of 10 takes a later 1 off the stack, that of
\* 1 a later 12, and the result of 12 leaves 10 there for good; a result 1x that
\* is a variant of 1 takes off a 1xy as well.
IdsTellTasksApart ==
  named => \A a, b, c \in cli.seen : RoughlyMatch(a, b) /\ RoughlyMatch(b, c) => RoughlyMatch(a, c)

\* Once every Task call has its result, in whatever order the results came and
\* with whatever variant of the id, nothing is suppressed any more: what the
\* agent says from then on is shown.  Two things spoil it: ids of which one
\* counts as two others that do not count as one another, and a result whose id
\* is no answer to its call for the code, such as an ordinary id where the call
\* had none.
AnsweredTasksRelease ==
  IdsTellTasksApart /\ ~cli.strange /\ cli.waiting = {} => ~InSubagent(buffer)

\* Text of different blocks is never run together, even when a provider uses an
\* index again without a stop, inside a subagent or outside, with one exception
\* that the code does not handle: text that begins inside a subagent at an index
\* where a block from before is still open.  It does not close that block, and
\* what follows the subagent goes into the old segment.
SegmentsUnmixed ==
  ~cli.crossed => \A k \in DOMAIN buffer.segments : Cardinality(buffer.segments[k].of) = 1

\* However soon the last update follows the one before, the message is left with
\* the newest segments and that update's status, or, if a stop was asked for, with
\* no more than Stopped where the stop's own edit came last.  (A process that
\* exits with an error is shown as complete, under a segment with the error.)
FinalTextShown ==
  outcome # "none" => \/ shown = Rendered(buffer, outcome)
                      \/ edited /\ shown = Bare
=============================================================================

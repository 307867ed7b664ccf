---------------------------- MODULE NativeStream ----------------------------
(***************************************************************************)
(* AnthropicMessagesTransport (providers/anthropic_messages.py): a stream  *)
(* that is in Anthropic form already.  Every event goes through            *)
(* transform_native_sse_block_event, which renumbers the blocks, closes    *)
(* those that overlap and drops hidden thinking; a tracker remembers what  *)
(* was passed on, to end the message when the provider fails in the middle.*)
(*                                                                         *)
(* The provider begins with message_start and sends no block after         *)
(* message_stop; between the two it may send any start, delta or stop at   *)
(* any index.  Two things the policy does not repair are noted as they     *)
(* happen: an index started again before it is stopped, or after it held   *)
(* hidden thinking (again), and an event that no block it knows answers to *)
(* (stray), which is passed on raw or to a block of another kind.          *)
(***************************************************************************)
EXTENDS StreamContract, Integers, Sequences, SequencesExt

CONSTANTS
  Indices,          \* upstream block indices
  MaxEvents         \* bound on the upstream events of a stream

VARIABLES
  enabled,   \* _is_thinking_enabled for this request
  eventMode, \* OpenRouter: [DONE] and what follows message_stop is noise
  phase,    \* "request", "stream", "done" or "cancelled"
  policy,   \* NativeSseBlockPolicyState
  tracker,  \* EmittedNativeSseTracker: open_stack and max_index
  reader,   \* the client
  upstream, \* kinds of the blocks the provider has used, those it has left open,
            \* and whether it has sent what the policy does not repair
  events    \* upstream events so far

vars == <<enabled, eventMode, phase, policy, tracker, reader, upstream, events>>

Kinds == {"text", "thinking", "tool_use"}

Init ==
  /\ enabled \in BOOLEAN
  /\ eventMode \in BOOLEAN
  /\ phase = "request"
  /\ policy = [next |-> 0, segs |-> <<>>, dropped |-> {}, suppressed |-> {}, stopped |-> FALSE]
  /\ tracker = [stack |-> <<>>, max |-> -1]
  /\ reader = NewReader
  /\ upstream = [kind |-> <<>>, open |-> {}, again |-> FALSE, stray |-> FALSE]
  /\ events = 0

-----------------------------------------------------------------------------
(* The tracker, fed with what is yielded                                   *)

Without(stack, i) ==
  IF stack # <<>> /\ Last(stack) = i THEN Front(stack) ELSE RemoveFirst(stack, i)

Track(t, ev) ==
  CASE ev.type = "content_block_start" ->
         [stack |-> Append(t.stack, ev.index), max |-> IF ev.index > t.max THEN ev.index ELSE t.max]
    [] ev.type = "content_block_stop" -> [t EXCEPT !.stack = Without(@, ev.index)]
    [] OTHER -> t

Yield(evs) ==
  /\ reader' = FoldLeft(Observe, reader, evs)
  /\ tracker' = FoldLeft(Track, tracker, evs)

-----------------------------------------------------------------------------
(* The policy.  A segment is [down, kind, open], filed by upstream index.  *)

Dropped(kind) == ~enabled /\ kind = "thinking"

OpenOthers(i) == {j \in DOMAIN policy.segs : j # i /\ policy.segs[j].open}

\* _synthetic_close_other_open_blocks: the provider's own stop for these is
\* still to come
CloseEvents(js) == SetToSeq({Stop(policy.segs[j].down) : j \in js})
Closed(p, js) ==
  [p EXCEPT !.segs = [j \in DOMAIN @ |-> IF j \in js THEN [@[j] EXCEPT !.open = FALSE] ELSE @[j]],
            !.suppressed = @ \cup js]

\* _allocate_new_segment
Allocated(p, i, kind) ==
  [p EXCEPT !.next = @ + 1,
            !.segs = [j \in DOMAIN @ \cup {i} |->
                        IF j = i THEN [down |-> p.next, kind |-> kind, open |-> TRUE] ELSE @[j]]]

\* Events passed on as they are, with the index they are renumbered to
BlockStart(i, kind) ==
  IF Dropped(kind)
    THEN policy' = [policy EXCEPT !.dropped = @ \cup {i}] /\ Yield(<<>>)
    ELSE /\ policy' = Allocated(Closed(policy, OpenOthers(i)), i, kind)
         /\ Yield(Append(CloseEvents(OpenOthers(i)), Start(policy.next, kind)))

\* A slip: a block that is resumed keeps the mark that its stop is to be
\* swallowed
ResumedKeepsMark(i, kind) == Allocated(policy, i, kind)
\* A delta for a block that is closed, or that never started, opens a new one
Resumed(i, kind) == Allocated([policy EXCEPT !.suppressed = @ \ {i}], i, kind)

BlockDelta(i, kind) ==
  IF i \in policy.dropped \/ Dropped(kind)
    THEN UNCHANGED policy /\ Yield(<<>>)
  ELSE IF i \in DOMAIN policy.segs /\ policy.segs[i].open
    THEN UNCHANGED policy /\ Yield(<<Delta(policy.segs[i].down, kind)>>)
  ELSE IF i \notin DOMAIN policy.segs /\ kind = "thinking"
    THEN UNCHANGED policy /\ Yield(<<Delta(i, kind)>>)
    ELSE policy' = Resumed(i, kind) /\ Yield(<<Start(policy.next, kind), Delta(policy.next, kind)>>)

BlockStop(i) ==
  IF i \in policy.dropped
    THEN UNCHANGED policy /\ Yield(<<>>)
  ELSE IF i \in policy.suppressed
    THEN policy' = [policy EXCEPT !.suppressed = @ \ {i}] /\ Yield(<<>>)
  ELSE IF i \in DOMAIN policy.segs /\ policy.segs[i].open
    THEN policy' = [policy EXCEPT !.segs[i].open = FALSE] /\ Yield(<<Stop(policy.segs[i].down)>>)
    ELSE UNCHANGED policy /\ Yield(IF i \in DOMAIN policy.segs \/ ~enabled THEN <<>> ELSE <<Stop(i)>>)

-----------------------------------------------------------------------------
(* The stream                                                              *)

Used(i, kind) ==
  [upstream EXCEPT !.kind = [j \in DOMAIN @ \cup {i} |-> IF j = i THEN kind ELSE @[j]],
                   !.open = @ \cup {i}]

\* The kind of the block a delta at an index belongs to
Known(i, kind) == IF i \in DOMAIN upstream.kind THEN upstream.kind[i] ELSE kind

StartsAgain(i) == i \in upstream.open \cup policy.dropped
StrayDelta(i, kind) ==
  /\ i \notin policy.dropped /\ ~Dropped(kind)
  /\ kind # Known(i, kind) \/ (kind = "thinking" /\ i \notin DOMAIN upstream.kind)
StrayStop(i) == enabled /\ i \notin DOMAIN upstream.kind

\* The request is answered with a stream; its first event is message_start
StreamOpens ==
  /\ phase = "request"
  /\ phase' = "stream"
  /\ Yield(<<Message("message_start")>>)
  /\ UNCHANGED <<enabled, eventMode, policy, upstream, events>>

ProviderEvent ==
  /\ phase = "stream" /\ events < MaxEvents
  /\ reader.last # "message_stop"
  /\ events' = events + 1
  /\ \E i \in Indices :
       \/ \E kind \in Kinds :
            \/ /\ upstream' = [Used(i, kind) EXCEPT !.again = @ \/ StartsAgain(i)]
               /\ BlockStart(i, kind)
            \/ /\ upstream' = [Used(i, Known(i, kind)) EXCEPT !.stray = @ \/ StrayDelta(i, kind)]
               /\ BlockDelta(i, kind)
       \/ /\ upstream' = [upstream EXCEPT !.open = @ \ {i}, !.stray = @ \/ StrayStop(i)]
          /\ BlockStop(i)
  /\ UNCHANGED <<enabled, eventMode, phase>>

\* What OpenRouter sends after message_stop is dropped unread, as [DONE] is
\* anywhere
Noise ==
  /\ phase = "stream" /\ eventMode /\ policy.stopped /\ events < MaxEvents
  /\ events' = events + 1
  /\ UNCHANGED <<enabled, eventMode, phase, policy, tracker, reader, upstream>>

MessageStops ==
  /\ phase = "stream" /\ reader.last # "message_stop"
  /\ policy' = [policy EXCEPT !.stopped = eventMode]
  /\ Yield(<<Message("message_delta"), Message("message_stop")>>)
  /\ UNCHANGED <<enabled, eventMode, phase, upstream, events>>

StreamEnds ==
  /\ phase = "stream"
  /\ phase' = "done"
  /\ UNCHANGED <<enabled, eventMode, policy, tracker, reader, upstream, events>>

\* iter_midstream_error_tail: the error is told in a text block of its own
ErrorTail(index) ==
  <<Start(index, "text"), Delta(index, "text"), Stop(index),
    Message("message_delta"), Message("message_stop")>>

\* iter_provider_stream_error_sse_events: a message of the error alone
ErrorMessage == <<Message("message_start")>> \o ErrorTail(0)

\* A slip in next_content_index: the last index, not the one after it
LastIndex == tracker.max
FreshIndex == tracker.max + 1

\* iter_close_unclosed_blocks, innermost first
CloseUnclosed == [k \in DOMAIN tracker.stack |-> Stop(Reverse(tracker.stack)[k])]

StreamFails ==
  /\ \/ phase = "request" /\ Yield(ErrorMessage)
     \/ phase = "stream" /\ Yield(CloseUnclosed \o ErrorTail(FreshIndex))
  /\ phase' = "done"
  /\ UNCHANGED <<enabled, eventMode, policy, upstream, events>>

Cancelled ==
  /\ phase \in {"request", "stream"}
  /\ phase' = "cancelled"
  /\ UNCHANGED <<enabled, eventMode, policy, tracker, reader, upstream, events>>

Next == StreamOpens \/ ProviderEvent \/ Noise \/ MessageStops \/ StreamEnds \/ StreamFails \/ Cancelled

Spec == Init /\ [][Next]_vars

-----------------------------------------------------------------------------
(* Properties                                                              *)

\* Overlapping, resumed, late, hidden and restarted blocks reach the client as
\* blocks that are started once each, and filled and stopped while they are
\* open, as long as the provider sends nothing stray.
NeverWrong == upstream.stray \/ ~reader.wrong

\* A message the provider ended with its blocks stopped is whole for the client,
\* unless an index was started again.
EndsWhole ==
  phase = "done" /\ reader.last = "message_stop" /\ upstream.open = {} /\ reader.seen # {}
    => reader.open = {} \/ upstream.again \/ upstream.stray

\* Every message that ended in an error is whole, whatever was open.
FailureIsWhole ==
  [][StreamFails => upstream.stray \/ (Complete(reader') /\ ~reader'.wrong)]_vars
=============================================================================

---------------------------- MODULE OpenAiStream ----------------------------
(***************************************************************************)
(* OpenAIChatTransport (providers/openai_compat.py): the chunks of an      *)
(* OpenAI chat stream are turned into the events of an Anthropic message   *)
(* by an SSEBuilder, with two parsers on the text in between, one for      *)
(* <think> tags and one for tool calls written as text.                    *)
(*                                                                         *)
(* Text arrives as tokens, one per chunk: what the parsers can tell apart  *)
(* in a piece of text and nothing more of it.                              *)
(***************************************************************************)
EXTENDS StreamContract, Integers, Sequences, SequencesExt

CONSTANTS
  ToolDeltas,       \* the tool call deltas a chunk may carry
  Tokens,           \* the text a chunk may carry
  MaxChunks         \* bound on the chunks of a stream

VARIABLES
  enabled,  \* _is_thinking_enabled for this request
  phase,    \* "request", "stream", "done" or "cancelled"
  retried,  \* _create_stream has sent the changed body
  think,    \* ThinkTagParser: in_think_tag and whether a "<" is held
  heur,     \* HeuristicToolParser: its state and what its buffer holds
  sse,      \* SSEBuilder, its ContentBlockManager and the reader behind it
  chunks    \* chunks read so far

vars == <<enabled, phase, retried, think, heur, sse, chunks>>

-----------------------------------------------------------------------------
(* ContentBlockManager and SSEBuilder.  reader: what the client has seen;  *)
(* written: the text and the reasoning accumulated are more than blanks;   *)
(* called: the name a tool's block was started under, all that the client  *)
(* is ever told of it.  raw (a ghost): some argument was passed on as it   *)
(* came.                                                                   *)

TaskName == <<"Ta", "sk">>

NewTool == [started |-> FALSE, block |-> -1, called |-> <<>>, name |-> <<>>, pre |-> <<>>,
            buffer |-> <<>>, emitted |-> FALSE, raw |-> FALSE]

NewBuilder == [next |-> 0, thinking |-> -1, thinkingOn |-> FALSE, text |-> -1, textOn |-> FALSE,
               tools |-> <<>>, written |-> {},
               failed |-> FALSE, reader |-> NewReader]

Emit(s, ev) == [s EXCEPT !.reader = Observe(@, ev)]

StartThinking(s) ==
  Emit([s EXCEPT !.next = @ + 1, !.thinking = s.next, !.thinkingOn = TRUE], Start(s.next, "thinking"))
StartText(s) ==
  Emit([s EXCEPT !.next = @ + 1, !.text = s.next, !.textOn = TRUE], Start(s.next, "text"))

StopThinking(s) ==
  IF s.thinkingOn THEN Emit([s EXCEPT !.thinkingOn = FALSE], Stop(s.thinking)) ELSE s
\* A slip in stop_text_block: the flag is left up
StopTextKeepsFlag(s) == IF s.textOn THEN Emit(s, Stop(s.text)) ELSE s
StopText(s) == IF s.textOn THEN Emit([s EXCEPT !.textOn = FALSE], Stop(s.text)) ELSE s

EnsureThinking(s) == LET c == StopText(s) IN IF c.thinkingOn THEN c ELSE StartThinking(c)
EnsureText(s)     == LET c == StopThinking(s) IN IF c.textOn THEN c ELSE StartText(c)

CloseContent(s) == StopText(StopThinking(s))

EmitThinking(s) ==
  LET c == EnsureThinking(s) IN [Emit(c, Delta(c.thinking, "thinking")) EXCEPT !.written = @ \cup {"thinking"}]
EmitText(s, blank) ==
  LET c == EnsureText(s)
  IN [Emit(c, Delta(c.text, "text")) EXCEPT !.written = IF blank THEN @ ELSE @ \cup {"text"}]

\* A block that is opened, filled and closed at once
WholeBlock(s, kind) ==
  Emit(Emit(Emit([s EXCEPT !.next = @ + 1], Start(s.next, kind)), Delta(s.next, kind)), Stop(s.next))

\* Some tool started by tool call deltas; a tool_use block made from text is
\* not among the tool states
HasEmittedToolBlock(s) == \E i \in DOMAIN s.tools : s.tools[i].started

StopTools(s) ==
  FoldSet(LAMBDA i, acc : IF s.tools[i].started THEN Emit(acc, Stop(s.tools[i].block)) ELSE acc,
          s, DOMAIN s.tools)
CloseAll(s) == StopTools(CloseContent(s))

-----------------------------------------------------------------------------
(* Tool call deltas: [index, name, args], name a sequence of fragments,    *)
(* args a sequence of pieces of JSON.                                      *)

EnsureToolState(s, i) ==
  IF i \in DOMAIN s.tools THEN s
  ELSE [s EXCEPT !.tools = [j \in DOMAIN @ \cup {i} |-> IF j = i THEN NewTool ELSE @[j]]]

\* Names may be split: a later piece extends the name or repeats its start
MergedName(prev, name) ==
  IF IsPrefix(prev, name) THEN name ELSE IF IsPrefix(name, prev) THEN prev ELSE prev \o name

RegisterToolName(s, i, name) ==
  LET c == EnsureToolState(s, i) IN [c EXCEPT !.tools[i].name = MergedName(@, name)]

StartToolBlock(s, i) ==
  Emit([s EXCEPT !.next = @ + 1, !.tools[i].block = s.next, !.tools[i].started = TRUE,
                 !.tools[i].called = s.tools[i].name],
       Start(s.next, "tool_use"))

EmitToolDelta(s, i) == Emit(s, Delta(s.tools[i].block, "tool_use"))

\* What json.loads finds in the pieces buffered so far: an object, a number
\* (which has no "get"), or nothing it can read
Parsed(buffer) ==
  CASE buffer \in {<<"{}">>, <<"{", "}">>} -> "object"
    [] buffer = <<"1">> -> "number"
    [] OTHER -> "incomplete"

BufferTaskArgs(s, i, args) ==
  LET buffer == s.tools[i].buffer \o args
      c == [s EXCEPT !.tools[i].buffer = buffer]
  IN IF s.tools[i].emitted THEN s
     ELSE CASE Parsed(buffer) = "object" ->
                 EmitToolDelta([s EXCEPT !.tools[i].buffer = <<>>, !.tools[i].emitted = TRUE], i)
            [] Parsed(buffer) = "number" -> [c EXCEPT !.failed = TRUE]
            [] OTHER -> c

\* A slip in _emit_tool_arg_delta: Task arguments are passed on as they come
EmitToolArgsUnbuffered(s, i, args) ==
  IF args = <<>> THEN s ELSE EmitToolDelta([s EXCEPT !.tools[i].raw = TRUE], i)
EmitToolArgs(s, i, args) ==
  IF args = <<>> THEN s
  ELSE IF s.tools[i].name = TaskName THEN BufferTaskArgs(s, i, args)
  ELSE EmitToolDelta([s EXCEPT !.tools[i].raw = TRUE], i)

\* A block is started by the first delta after which the tool has a name;
\* arguments that came earlier follow it
StartNamedTool(s, i) ==
  IF s.tools[i].started \/ s.tools[i].name = <<>> THEN s
  ELSE LET c == StartToolBlock(s, i)
       IN EmitToolArgs([c EXCEPT !.tools[i].pre = <<>>], i, s.tools[i].pre)

ProcessToolCall(s, tc) ==
  LET i == IF tc.index < 0 THEN Cardinality(DOMAIN s.tools) ELSE tc.index
      c == StartNamedTool(RegisterToolName(s, i, tc.name), i)
  IN IF c.failed THEN c
     ELSE IF c.tools[i].started THEN EmitToolArgs(c, i, tc.args)
     ELSE [c EXCEPT !.tools[i].pre = @ \o tc.args]

\* Arguments of Task that never became an object are given up as {}
FlushTaskArgs(s) ==
  FoldSet(LAMBDA i, acc : IF s.tools[i].buffer = <<>> \/ s.tools[i].emitted THEN acc
                          ELSE EmitToolDelta([acc EXCEPT !.tools[i].buffer = <<>>,
                                                         !.tools[i].emitted = TRUE], i),
          s, DOMAIN s.tools)

-----------------------------------------------------------------------------
(* ThinkTagParser: "<" may be the start of either tag and is held until    *)
(* the next piece; tag ends are "think>" and "/think>".                    *)

Opens(p, t)  == t = "<think>" \/ (p.held /\ t = "think>")
Closes(p, t) == t = "</think>" \/ (p.held /\ t = "/think>")
IsTag(p, t) == IF p.inThink THEN Closes(p, t) ELSE Opens(p, t) \/ Closes(p, t)

\* What is left of the pieces outside the tags: a held "<" that began no tag
\* (a web call takes it with it), and the token itself when it is no tag and
\* no "<"
ThinkOutput(p, t) ==
  (IF p.held /\ t # "WebFetch{}" /\ ~(IsTag(p, t) /\ t \in {"think>", "/think>"}) THEN <<"<">> ELSE <<>>)
    \o (IF IsTag(p, t) \/ t = "<" THEN <<>> ELSE <<t>>)
ThinkNext(p, t) ==
  [inThink |-> IF IsTag(p, t) THEN ~p.inThink /\ Opens(p, t) ELSE p.inThink, held |-> t = "<"]

-----------------------------------------------------------------------------
(* HeuristicToolParser.  buffer is what is kept for the next piece: "●..." *)
(* is a bullet with no function yet, "..." text behind a state that waits  *)
(* for one, "<..." markup inside a call, "<|" half a control token.  A     *)
(* result is the parser's next state, the text let through and the number  *)
(* of tool calls found.                                                    *)

NewHeuristic == [state |-> "TEXT", buffer |-> ""]
Heard(state, buffer, out, tools) ==
  [state |-> state, buffer |-> buffer, out |-> out, tools |-> tools]

\* A call to a web tool in JSON takes the whole buffer with it
FeedWebCall(h) == Heard(h.state, "", {}, 1)

FeedText(h, t) ==
  LET held == IF h.buffer = "" THEN {} ELSE {h.buffer}
  IN CASE t = "●"           -> Heard("MATCHING_FUNCTION", "●...", held, 0)
       [] t = "●<function>" -> Heard("PARSING_PARAMETERS", "", held, 0)
       [] t = "text<|"      -> Heard("TEXT", "<|", {"text"} \cup held, 0)
       [] t = "|>"          -> Heard("TEXT", "", IF h.buffer = "<|" THEN {} ELSE {t}, 0)
       [] OTHER             -> Heard("TEXT", "", {t} \cup held, 0)

FeedMatching(h, t) ==
  CASE t = "●<function>" \/ (t = "<function>" /\ h.buffer = "●...") ->
         Heard("PARSING_PARAMETERS", "", {}, 0)
    [] t = "long" -> Heard("TEXT", "", {t}, 0)
    [] OTHER -> Heard("MATCHING_FUNCTION", IF t = "●" THEN "●..."
                                           ELSE IF h.buffer = "" THEN "..." ELSE h.buffer, {}, 0)

FeedParsing(h, t) ==
  LET held == IF h.buffer = "" THEN {} ELSE {"text"}
  IN IF t = "●" THEN Heard("MATCHING_FUNCTION", "●...", held, 1)
     ELSE IF t = "●<function>" THEN Heard("PARSING_PARAMETERS", "", held, 1)
     ELSE IF t = "<parameter>" THEN Heard("PARSING_PARAMETERS", "", held, 0)
     ELSE IF h.buffer = "<..." \/ t \in {"<", "<function>"} THEN Heard("PARSING_PARAMETERS", "<...", {}, 0)
     ELSE Heard("TEXT", "", {t}, 1)

Feed(h, t) ==
  IF t = "WebFetch{}" THEN FeedWebCall(h)
  ELSE IF h.state = "TEXT" THEN FeedText(h, t)
  ELSE IF h.state = "MATCHING_FUNCTION" THEN FeedMatching(h, t)
  ELSE FeedParsing(h, t)

\* _iter_heuristic_tool_use_sse for each call found
HeuristicTools(s, n) ==
  IF n = 0 THEN s ELSE WholeBlock(CloseContent(s), "tool_use")

-----------------------------------------------------------------------------
(* One chunk: [reasoning, content, tools]                                  *)

Init ==
  /\ enabled \in BOOLEAN
  /\ phase = "request" /\ retried = FALSE
  /\ think = [inThink |-> FALSE, held |-> FALSE]
  /\ heur = NewHeuristic
  /\ sse = Emit(NewBuilder, Message("message_start"))
  /\ chunks = 0

\* A piece of text that is not thinking goes through the tool parser
Show(b, t) ==
  LET f == Feed(b.heur, t)
      c == IF f.out = {} THEN b.sse ELSE EmitText(b.sse, f.out \subseteq {"blank"})
  IN [heur |-> [state |-> f.state, buffer |-> f.buffer], sse |-> HeuristicTools(c, f.tools)]

Content(b, inThink, t) ==
  CASE ~inThink -> Show(b, t)
    [] inThink /\ enabled -> [b EXCEPT !.sse = EmitThinking(@)]
    [] OTHER -> b

\* Pieces that come before a tag belong to the side of the tag they are on
FeedContent(b, t) ==
  FoldLeft(LAMBDA acc, piece : Content(acc, think.inThink, piece), b, ThinkOutput(think, t))

Reasoning(s) == IF enabled THEN EmitThinking(s) ELSE s

ToolCall(s, tc) == ProcessToolCall(CloseContent(s), tc)

\* The request is answered, or fails with an error for which a changed body
\* is tried once
OpenStream ==
  /\ phase = "request"
  /\ \/ phase' = "stream" /\ UNCHANGED retried
     \/ ~retried /\ retried' = TRUE /\ UNCHANGED phase
  /\ UNCHANGED <<enabled, think, heur, sse, chunks>>

\* Chunks with more than one kind of content are read as if one came after
\* the other
ReadReasoning ==
  /\ sse' = Reasoning(sse)
  /\ UNCHANGED <<think, heur>>
ReadContent(t) ==
  LET b == FeedContent([heur |-> heur, sse |-> sse], t)
  IN think' = ThinkNext(think, t) /\ heur' = b.heur /\ sse' = b.sse
ReadToolCall(tc) ==
  /\ sse' = ToolCall(sse, tc)
  /\ UNCHANGED <<think, heur>>

ReadChunk ==
  /\ phase = "stream" /\ chunks < MaxChunks /\ ~sse.failed
  /\ chunks' = chunks + 1
  /\ \/ ReadReasoning
     \/ \E t \in Tokens : ReadContent(t)
     \/ \E tc \in ToolDeltas : ReadToolCall(tc)
  /\ UNCHANGED <<enabled, phase, retried>>

\* The last events of every message
Finish(s) == Emit(Emit(s, Message("message_delta")), Message("message_stop"))

\* An error closes what is open and is told as text, or beside the message
\* when a tool block has been started
FailEvents(s) ==
  LET c == CloseAll(s)
  IN Finish(IF HasEmittedToolBlock(c) THEN Emit(c, Message("error")) ELSE WholeBlock(c, "text"))

StreamFails ==
  /\ phase \in {"request", "stream"}
  /\ phase' = "done"
  /\ sse' = FailEvents(sse)
  /\ UNCHANGED <<enabled, retried, think, heur, chunks>>

\* The client goes away: nothing more is sent
Cancelled ==
  /\ phase \in {"request", "stream"}
  /\ phase' = "cancelled"
  /\ UNCHANGED <<enabled, retried, think, heur, sse, chunks>>

\* What the parsers still hold is let out; only the tool parser's text is
\* not, and the "<" of the tag parser does not go through it
FlushThink(s) ==
  CASE ~think.held -> s
    [] think.held /\ think.inThink -> Reasoning(s)
    [] OTHER -> EmitText(s, FALSE)
FlushHeuristic(s) == HeuristicTools(s, IF heur.state = "PARSING_PARAMETERS" THEN 1 ELSE 0)

\* A message with no block, or with nothing but thinking, gets a blank text
FillEmpty(s) ==
  LET tool == HasEmittedToolBlock(s)
      hasBlocks == s.text # -1 \/ s.thinking # -1 \/ tool
  IN IF ~hasBlocks \/ (~tool /\ "text" \notin s.written /\ "thinking" \in s.written)
       THEN EmitText(s, TRUE) ELSE s

StreamEnds ==
  /\ phase = "stream" /\ ~sse.failed
  /\ phase' = "done"
  /\ sse' = Finish(CloseAll(FlushTaskArgs(FillEmpty(FlushHeuristic(FlushThink(sse))))))
  /\ UNCHANGED <<enabled, retried, think, heur, chunks>>

Next == OpenStream \/ ReadChunk \/ StreamFails \/ Cancelled \/ StreamEnds

Spec == Init /\ [][Next]_vars

-----------------------------------------------------------------------------
(* Properties                                                              *)

\* Whatever the provider sends, the events obey the contract at each point,
\* and a message that is finished, well or by an error, is a whole one.
WellFormed ==
  /\ ~sse.reader.wrong
  /\ phase = "done" => Complete(sse.reader)

\* Subagents run in the foreground: of a call the client was told is a Task,
\* no argument reaches it as it came, for all that it gets is an object made
\* by the proxy (_normalize_task_run_in_background).  Two kinds of split
\* names are outside this.  A block is started under the first piece of a
\* name, and a call begun as less than Task, whose arguments pass as they
\* come until the name is whole, is never shown to the client as a Task; and
\* a name that grows beyond Task is another tool's by then.
TaskArgsNormalised ==
  \A i \in DOMAIN sse.tools :
    LET tool == sse.tools[i]
    IN tool.started /\ tool.called = TaskName /\ tool.name = TaskName => ~tool.raw
=============================================================================

------------------------------ MODULE Conversion ------------------------------
(***************************************************************************)
(* How a conversation in Anthropic's format becomes one for an             *)
(* OpenAI-compatible provider (core/anthropic/conversion.py).  An OpenAI   *)
(* message cannot have text after its tool calls, so what an assistant     *)
(* says after a tool_use is put off until the tools' results have been     *)
(* replayed.                                                               *)
(*                                                                         *)
(* The client's messages are converted one at a time, and a user's list    *)
(* of texts and results one block at a time, as the converter's loops do.  *)
(* Each text or thinking block is a number, in the order of the            *)
(* conversation; tool calls are numbered too.                              *)
(***************************************************************************)
EXTENDS Integers, FiniteSets, Sequences, SequencesExt

CONSTANTS
  MaxMessages,  \* bound: messages of the conversation
  MaxBlocks,    \* bound: its blocks, apart from the results
  MaxResults    \* bound: its results

None == "none"
Nothing == [tools |-> {}, blocks |-> <<>>, reasoning |-> FALSE]
NoList == [reading |-> FALSE, texts |-> <<>>, brought |-> Nothing]
Modes == {"disabled", "think_tags", "reasoning_content"}

VARIABLES
  mode,      \* ReasoningReplayMode
  result,    \* the OpenAI messages so far
  waiting,   \* _PendingAfterTools: what is put off, and the tools it waits for
  list,      \* a user's list that is being read: its texts that are not written
             \* yet, and what its results have brought out
  client     \* what the client has said: number of messages, blocks and results,
             \* texts and thoughts, and how it ended; and ghosts:
             \*   open: calls of the latest assistant's message whose result is due
             \*   spoke: the user has said something since
             \*   stray: a result has come that was not due
             \*   early: something was said between a call and its result
             \*   overtaken: something was said while what was put off was kept
             \*   repeated: what was put off has been brought out again

vars == <<mode, result, waiting, list, client>>

Init ==
  /\ mode \in Modes
  /\ result = <<>>
  /\ waiting = Nothing /\ list = NoList
  /\ client = [sent |-> 0, blocks |-> 0, results |-> 0, texts |-> <<>>, thoughts |-> <<>>,
               ended |-> None, open |-> {}, spoke |-> FALSE,
               stray |-> FALSE, early |-> FALSE, overtaken |-> FALSE, repeated |-> FALSE]

-----------------------------------------------------------------------------
(* The converter                                                           *)

\* The elements of s that are in S, in their order.  (SelectSeq would say the
\* same; its recursive definition is out of the provers' reach.)
Only(s, S) == FlattenSeq([k \in DOMAIN s |-> IF s[k] \in S THEN <<s[k]>> ELSE <<>>])

Types == {"text", "thinking", "redacted", "tool"}
OfTypes(blocks, types) == Only(blocks, [type : types, n : Nat])
Numbers(blocks) == [k \in DOMAIN blocks |-> blocks[k].n]

Plain(role, content) == [role |-> role, content |-> content, calls |-> {}, reasoning |-> <<>>]
ToolMessage(tool) == [role |-> "tool", content |-> <<tool>>, calls |-> {}, reasoning |-> <<>>]

\* reasoning: whether the message has reasoning_content of its own, which then
\* stands for its thinking blocks
AssistantMessage(blocks, reasoning) ==
  LET shown == {"text"} \cup (IF mode = "think_tags" THEN {"thinking"} ELSE {})
  IN [Plain("assistant", Numbers(OfTypes(blocks, shown)))
        EXCEPT !.reasoning = IF mode # "reasoning_content" THEN <<>>
                             ELSE IF reasoning THEN <<0>> ELSE Numbers(OfTypes(blocks, {"thinking"}))]

FirstTool(blocks) == CHOOSE k \in DOMAIN blocks :
  blocks[k].type = "tool" /\ \A j \in 1..(k - 1) : blocks[j].type # "tool"
Tools(blocks) == {blocks[k].n : k \in {j \in DOMAIN blocks : blocks[j].type = "tool"}}

\* A slip: what follows the calls is not put off
SplitAtOnce(blocks, reasoning) ==
  [messages |-> <<[AssistantMessage(blocks, reasoning) EXCEPT !.calls = Tools(blocks)],
                  AssistantMessage(SubSeq(blocks, FirstTool(blocks) + 1, Len(blocks)), reasoning)>>,
   waiting |-> Nothing]
\* With no block before the first call the message has no thinking of its own
Split(blocks, reasoning) ==
  LET first == FirstTool(blocks)
      before == SubSeq(blocks, 1, first - 1)
      after == OfTypes(SubSeq(blocks, first + 1, Len(blocks)), Types \ {"tool"})
  IN [messages |-> <<[AssistantMessage(before, reasoning) EXCEPT !.calls = Tools(blocks)]>>,
      waiting |-> IF after = <<>> THEN Nothing
                  ELSE [tools |-> Tools(blocks), blocks |-> after, reasoning |-> reasoning]]

PutOff(w) == IF w = Nothing THEN <<>> ELSE <<AssistantMessage(w.blocks, w.reasoning)>>

Assistant(blocks, reasoning) ==
  LET s == IF Tools(blocks) # {} THEN Split(blocks, reasoning)
           ELSE [messages |-> <<AssistantMessage(blocks, reasoning)>>, waiting |-> Nothing]
  IN result' = result \o PutOff(waiting) \o s.messages /\ waiting' = s.waiting

\* A message that is a string: an assistant's does not bring out what waits
AssistantString(n, reasoning) ==
  /\ result' = Append(result,
       [Plain("assistant", IF reasoning /\ mode = "think_tags" THEN <<0, n>> ELSE <<n>>)
          EXCEPT !.reasoning = IF reasoning /\ mode = "reasoning_content" THEN <<0>> ELSE <<>>])
  /\ UNCHANGED waiting
\* A slip: nor does a user's
UserStringPasses(n) == result' = Append(result, Plain("user", <<n>>)) /\ UNCHANGED waiting
UserString(n) ==
  result' = result \o PutOff(waiting) \o <<Plain("user", <<n>>)>> /\ waiting' = Nothing

\* Texts of a list that stand together are one message
Joined(texts) == IF texts = <<>> THEN <<>> ELSE <<Plain("user", texts)>>

\* The last result that is missing brings out what waits, and so does each
\* further one in the same list
Result(tool) ==
  LET rest == waiting.tools \ {tool}
      last == waiting # Nothing /\ rest = {}
      brought == IF last THEN waiting ELSE list.brought
  IN /\ result' = result \o Joined(list.texts) \o <<ToolMessage(tool)>> \o PutOff(brought)
     /\ waiting' = IF waiting = Nothing \/ last THEN Nothing ELSE [waiting EXCEPT !.tools = rest]
     /\ list' = [list EXCEPT !.texts = <<>>, !.brought = brought]

-----------------------------------------------------------------------------
(* The client                                                              *)

Blocks == UNION {[1..n -> Types] : n \in 1..(MaxBlocks - client.blocks)}
Numbered(types) == [k \in DOMAIN types |-> [type |-> types[k], n |-> client.blocks + k]]

\* The thinking blocks that the mode keeps
Kept(blocks, reasoning) ==
  IF mode = "disabled" \/ (mode = "reasoning_content" /\ reasoning) THEN <<>>
  ELSE Numbers(OfTypes(blocks, {"thinking"}))

\* c: the client, as far as it changes otherwise
Said(c, blocks, reasoning) ==
  client' = [c EXCEPT !.blocks = @ + Len(blocks),
                      !.texts = @ \o Numbers(OfTypes(blocks, {"text"})),
                      !.thoughts = @ \o Kept(blocks, reasoning)]
OneText == <<[type |-> "text", n |-> client.blocks + 1]>>

MayGoOn == client.ended = None /\ ~list.reading /\ client.sent < MaxMessages

\* Calls may be left without their results, when the user interrupted them
AssistantSpeaks ==
  /\ MayGoOn
  /\ \E types \in Blocks, reasoning \in BOOLEAN :
       LET blocks == Numbered(types)
       IN /\ Assistant(blocks, reasoning)
          /\ Said([client EXCEPT !.sent = @ + 1, !.open = Tools(blocks), !.spoke = FALSE],
                  blocks, reasoning)
  /\ UNCHANGED <<mode, list>>

\* An image or a server tool's block: the whole conversation is refused
Refused ==
  /\ client.ended = None
  /\ client' = [client EXCEPT !.ended = "refused"]
  /\ result' = <<>> /\ waiting' = Nothing /\ list' = NoList
  /\ UNCHANGED mode

AssistantSpeaksString ==
  /\ MayGoOn /\ client.blocks < MaxBlocks
  /\ \E reasoning \in BOOLEAN :
       /\ AssistantString(client.blocks + 1, reasoning)
       /\ Said([client EXCEPT !.sent = @ + 1, !.open = {},
                              !.overtaken = @ \/ waiting # Nothing], OneText, reasoning)
  /\ UNCHANGED <<mode, list>>

UserSpeaksString ==
  /\ MayGoOn /\ client.blocks < MaxBlocks
  /\ UserString(client.blocks + 1)
  /\ Said([client EXCEPT !.sent = @ + 1, !.open = {}], OneText, FALSE)
  /\ UNCHANGED <<mode, list>>

\* A user's message that is a list: texts and results, as the client mixes them
UserListBegins ==
  /\ MayGoOn
  /\ list' = [NoList EXCEPT !.reading = TRUE]
  /\ client' = [client EXCEPT !.sent = @ + 1]
  /\ UNCHANGED <<mode, result, waiting>>

UserText ==
  /\ list.reading /\ client.blocks < MaxBlocks
  /\ list' = [list EXCEPT !.texts = Append(@, client.blocks + 1)]
  /\ Said([client EXCEPT !.spoke = TRUE, !.overtaken = @ \/ waiting # Nothing], OneText, FALSE)
  /\ UNCHANGED <<mode, result, waiting>>

\* A result of any call so far, whether or not it has one, or of none
Called == UNION {result[k].calls : k \in DOMAIN result}
UserResult ==
  /\ list.reading /\ client.results < MaxResults
  /\ \E tool \in Called \cup {0} :
       /\ Result(tool)
       /\ client' = [client EXCEPT !.results = @ + 1, !.open = @ \ {tool},
                                   !.stray = @ \/ tool \notin client.open,
                                   !.early = @ \/ client.spoke,
                                   !.repeated = @ \/ list.brought # Nothing]
  /\ UNCHANGED mode

UserListEnds ==
  /\ list.reading
  /\ result' = result \o Joined(list.texts)
  /\ list' = NoList
  /\ UNCHANGED <<mode, waiting, client>>

\* What still waits when there are no more messages comes last
Ends ==
  /\ client.ended = None /\ client.sent > 0 /\ ~list.reading
  /\ client' = [client EXCEPT !.ended = "whole"]
  /\ result' = result \o PutOff(waiting)
  /\ waiting' = Nothing
  /\ UNCHANGED <<mode, list>>

Next ==
  \/ AssistantSpeaks \/ AssistantSpeaksString \/ UserSpeaksString
  \/ UserListBegins \/ UserText \/ UserResult \/ UserListEnds
  \/ Refused \/ Ends

Spec == Init /\ [][Next]_vars

-----------------------------------------------------------------------------
(* Properties                                                              *)

\* A provider refuses a tool message that does not follow its call.  While
\* each result the client gives is due, which is once and with nothing since
\* its call but lists of the user's, no message of an assistant's, and so
\* nothing that was put off, stands between the two.  What the user said
\* before a result stays before it, so between the two there are only other
\* results unless a user said something between a call and a result.
ResultsFollowCalls ==
  ~client.stray =>
    \A k \in DOMAIN result : result[k].role = "tool" =>
      \E j \in 1..(k - 1) :
        /\ result[k].content[1] \in result[j].calls
        /\ \A i \in (j + 1)..(k - 1) :
             result[i].role = "tool" \/ (client.early /\ result[i].role = "user")

Spoken(message) ==
  IF message.role = "tool" THEN <<>> ELSE message.reasoning \o message.content
Content(messages) == FlattenSeq([k \in DOMAIN messages |-> Spoken(messages[k])])

\* Nothing that was said is lost, repeated or moved past something else that
\* was said, in whichever message it ended up.  Two things move what was put
\* off: a text in a list and a string of an assistant's are written before it
\* while it is kept, and a result that comes in the same list as the last one
\* that was missing, and behind it, brings it out again.
SaidOnceInOrder ==
  client.ended = "whole" /\ ~client.overtaken /\ ~client.repeated =>
    /\ Only(Content(result), ToSet(client.texts)) = client.texts
    /\ Only(Content(result), ToSet(client.thoughts)) = client.thoughts
=============================================================================

--------------------------- MODULE ProviderStreams ---------------------------
(***************************************************************************)
(* What passes between a provider and the user as a sequence of pieces:    *)
(* the conversation as it is sent to a provider that speaks OpenAI's       *)
(* format, the stream of content blocks that comes back from a provider of *)
(* either transport (BaseProvider.stream_response), or from the proxy for  *)
(* a web tool, and is a client's, the CLI's, to read, and the transcript   *)
(* the chat is shown of what the CLI then reports (Transcript).  They      *)
(* share no state, so a behaviour follows one of the five and the others   *)
(* stay where they began.                                                  *)
(***************************************************************************)
EXTENDS Transcript

CONSTANTS
  ToolDeltas, Tokens, MaxChunks,                              \* OpenAiStream
  Indices, MaxStreamEvents,                                   \* NativeStream
  MaxRedirects,                                               \* MessageService
  MaxMessages, MaxBlocks, MaxResults                          \* Conversion

VARIABLES
  follows,
  enabled, phase,
  retried, think, heur, sse, chunks,                          \* OpenAiStream
  eventMode, policy, tracker, reader, upstream, sent,         \* NativeStream
  message, hops,                                              \* MessageService
  mode, result, waiting, list, client                         \* Conversion

openaiVars == <<retried, think, heur, sse, chunks>>
nativeVars == <<eventMode, policy, tracker, reader, upstream, sent>>
serviceVars == <<message, hops>>
streamVars == <<enabled, phase, openaiVars, nativeVars, serviceVars>>
requestVars == <<mode, result, waiting, list, client>>
allVars == <<follows, streamVars, requestVars, vars>>

ASSUME ConversationIsBounded == MaxMessages \in Nat /\ MaxBlocks \in Nat
ASSUME ToolDeltasAreDeltas ==
  \A tc \in ToolDeltas : tc.index \in Int /\ tc.name \in Seq(STRING) /\ tc.args \in Seq(STRING)

OpenAi == INSTANCE OpenAiStream
Native == INSTANCE NativeStream WITH MaxEvents <- MaxStreamEvents, events <- sent
Service == INSTANCE MessageService WITH request <- message
Request == INSTANCE Conversion

StreamsInit ==
  /\ follows \in {"request", "openai", "native", "service", "status"}
  /\ OpenAi!Init /\ Native!Init /\ Service!Init /\ Request!Init /\ Init
  /\ follows # "request" => mode = "disabled"
  /\ follows # "native" => ~eventMode
  /\ follows # "service" => message = CHOOSE m \in Service!Requests : TRUE
  /\ follows # "status" => named
  /\ follows \in {"request", "service", "status"} => ~enabled

RequestStep == follows = "request" /\ Request!Next /\ UNCHANGED <<follows, streamVars, vars>>
OpenAiStep == /\ follows = "openai" /\ OpenAi!Next
              /\ UNCHANGED <<follows, nativeVars, serviceVars, requestVars, vars>>
NativeStep == /\ follows = "native" /\ Native!Next
              /\ UNCHANGED <<follows, openaiVars, serviceVars, requestVars, vars>>
ServiceStep == /\ follows = "service" /\ Service!Next
               /\ UNCHANGED <<follows, enabled, openaiVars, eventMode, policy, tracker, upstream, sent,
                              requestVars, vars>>
StatusStep == follows = "status" /\ Next /\ UNCHANGED <<follows, streamVars, requestVars>>

StreamsNext == RequestStep \/ OpenAiStep \/ NativeStep \/ ServiceStep \/ StatusStep

StreamsSpec == StreamsInit /\ [][StreamsNext]_allVars

-----------------------------------------------------------------------------
\* As long as the client gives each result once and before anything but
\* lists of the user's, a result that is sent to an OpenAI provider is parted
\* from its call by nothing but results and what the user said before it,
\* although what the assistant said after the call stood between them.
ResultsFollowCalls == Request!ResultsFollowCalls

\* Whatever of a message is put off, the provider is told everything once and
\* in order, unless a list's text or an assistant's string came while it was
\* put off, or a further result in the list that brought it out.
SaidOnceInOrder == Request!SaidOnceInOrder

\* OpenAI chunks of any kind and order become events that obey the stream
\* contract, and a whole message at the end, by an error or not.
OpenAiWellFormed == follows = "openai" => OpenAi!WellFormed

\* No argument of a call that began under Task's whole name reaches the
\* client before it is an object in which the proxy has turned
\* run_in_background off.
TaskArgsNormalised == OpenAi!TaskArgsNormalised

\* Whatever upstream blocks overlap, resume, restart, hide or come late, the
\* client reads blocks that are started once each, filled and stopped, as long
\* as every event answers to some block; if the provider leaves none open,
\* neither does the proxy, unless an index was started again before its stop or
\* after hidden thinking.
NativeWellFormed == Native!NeverWrong /\ Native!EndsWhole

\* A native stream that breaks off at any point ends in a whole message, if
\* nothing stray was passed on before, and so does the turn of a web tool,
\* whatever became of the tool.
FailureIsWhole == Native!FailureIsWhole /\ Service!TurnIsWhole
=============================================================================

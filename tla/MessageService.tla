---------------------------- MODULE MessageService ----------------------------
(***************************************************************************)
(* ClaudeProxyService.create_message (api/services.py): who answers a      *)
(* request, and the turn of a forced web_search or web_fetch that the      *)
(* proxy answers by itself (api/web_tools).  The request that goes on to a *)
(* provider is followed no further here.                                   *)
(***************************************************************************)
EXTENDS StreamContract, Integers, Sequences, SequencesExt

CONSTANT MaxRedirects   \* _MAX_WEB_FETCH_REDIRECTS

VARIABLES
  request,  \* what create_message looks at
  phase,    \* "request", "turn", who answered, "done" or "cancelled"
  hops,     \* redirects that a web_fetch has followed
  reader    \* the client

vars == <<request, phase, hops, reader>>

WebTools == {"web_search", "web_fetch"}

\* messages: there are some; forced: the server tool tool_choice names; named:
\* a tool of that name is listed; listed: some server tool is; openai: the
\* model is routed to an OpenAI chat provider; local: ENABLE_WEB_SERVER_TOOLS
Requests ==
  {r \in [messages : BOOLEAN, forced : WebTools \cup {"none"}, named : BOOLEAN,
          listed : BOOLEAN, openai : BOOLEAN, local : BOOLEAN] :
     r.named => r.forced # "none" /\ r.listed}

Init ==
  /\ request \in Requests
  /\ phase = "request"
  /\ hops = 0
  /\ reader = NewReader

Yield(evs) == reader' = FoldLeft(Observe, reader, evs)

-----------------------------------------------------------------------------
(* The answer                                                              *)

\* openai_chat_upstream_server_tool_error
Unsupported == request.openai /\ IF request.forced = "none" THEN request.listed ELSE ~request.local

\* is_web_server_tool_request
AnsweredHere == request.local /\ request.named

\* InvalidRequestError, before anything else is tried
Refuse ==
  /\ phase = "request"
  /\ ~request.messages \/ Unsupported
  /\ phase' = "refused"
  /\ UNCHANGED <<request, hops, reader>>

\* The turn begins with the call of the tool
Begin ==
  /\ phase = "request" /\ request.messages /\ ~Unsupported /\ AnsweredHere
  /\ phase' = "turn"
  /\ Yield(<<Message("message_start"), Start(0, "server_tool_use"), Stop(0)>>)
  /\ UNCHANGED <<request, hops>>

\* A canned answer, or the provider's once it exists and could build its
\* request; what either of them raises becomes an HTTP error
Forward ==
  /\ phase = "request" /\ request.messages /\ ~Unsupported /\ ~AnsweredHere
  /\ phase' \in {"optimised", "provider", "error"}
  /\ UNCHANGED <<request, hops, reader>>

-----------------------------------------------------------------------------
(* The tool                                                                *)

\* A redirect that says where to
Redirected ==
  /\ phase = "turn" /\ request.forced = "web_fetch"
  /\ hops < MaxRedirects
  /\ hops' = hops + 1
  /\ UNCHANGED <<request, phase, reader>>

ResultKind == IF request.forced = "web_search" THEN "web_search_tool_result" ELSE "web_fetch_tool_result"

\* The result, or "unavailable" when anything was raised: a refused address, a
\* redirect too many or to nowhere, a bad status, a timeout
ToolAnswers ==
  /\ phase = "turn"
  /\ phase' = "done"
  /\ Yield(<<Start(1, ResultKind), Stop(1), Start(2, "text"), Delta(2, "text"), Stop(2),
             Message("message_delta"), Message("message_stop")>>)
  /\ UNCHANGED <<request, hops>>

\* The client has gone away
Cancelled ==
  /\ phase = "turn"
  /\ phase' = "cancelled"
  /\ UNCHANGED <<request, hops, reader>>

Next == Refuse \/ Begin \/ Forward \/ Redirected \/ ToolAnswers \/ Cancelled

Spec == Init /\ [][Next]_vars

-----------------------------------------------------------------------------
(* Property                                                                *)

\* Whatever became of the tool, its turn is a whole message for the client.
TurnIsWhole == [][ToolAnswers => Complete(reader') /\ ~reader'.wrong]_vars
=============================================================================

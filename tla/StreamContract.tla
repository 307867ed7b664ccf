---------------------------- MODULE StreamContract ----------------------------
(***************************************************************************)
(* What the reader of an Anthropic event stream may rely on:               *)
(* assert_anthropic_stream_contract (core/anthropic/stream_contracts.py)   *)
(* as a reader that looks at one event at a time.  The modules that        *)
(* produce a stream give every event they yield to Observe.                *)
(***************************************************************************)
EXTENDS Naturals, FiniteSets

\* Blocks that have a start and a stop and nothing in between
NoDeltaKinds == {"server_tool_use", "web_search_tool_result", "web_fetch_tool_result",
                 "text_eager", "redacted_thinking"}

\* The events; a delta carries the kind of block its type belongs to
Start(i, kind) == [type |-> "content_block_start", index |-> i, kind |-> kind]
Delta(i, kind) == [type |-> "content_block_delta", index |-> i, kind |-> kind]
Stop(i)        == [type |-> "content_block_stop", index |-> i]
Message(type)  == [type |-> type]

\* open: <<index, kind>> of the blocks started and not stopped; seen: every
\* index ever started; wrong: some assertion has failed
NewReader == [open |-> {}, seen |-> {}, last |-> "", began |-> FALSE, wrong |-> FALSE]

OpenIndices(r) == {b[1] : b \in r.open}
KindsAt(r, i) == {b[2] : b \in {c \in r.open : c[1] = i}}

\* The assertions about one event
Obeys(r, ev) ==
  CASE ev.type = "content_block_start" -> ev.index \notin OpenIndices(r) \cup r.seen
    [] ev.type = "content_block_delta" -> KindsAt(r, ev.index) = {ev.kind} /\ ev.kind \notin NoDeltaKinds
    [] ev.type = "content_block_stop"  -> ev.index \in OpenIndices(r)
    [] OTHER -> TRUE

Observe(r, ev) ==
  [r EXCEPT !.open  = CASE ev.type = "content_block_start" -> @ \cup {<<ev.index, ev.kind>>}
                        [] ev.type = "content_block_stop"  -> {b \in @ : b[1] # ev.index}
                        [] OTHER -> @,
            !.seen  = IF ev.type = "content_block_start" THEN @ \cup {ev.index} ELSE @,
            !.last  = ev.type,
            !.began = @ \/ ev.type = "message_start",
            !.wrong = @ \/ ~Obeys(r, ev)]

\* What the assertion asks of the whole stream
Complete(r) == r.began /\ r.last = "message_stop" /\ r.open = {} /\ r.seen # {}
=============================================================================

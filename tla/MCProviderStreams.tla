-------------------------- MODULE MCProviderStreams --------------------------
(* The tokens the text parsers tell apart, tool call deltas and ids of Task *)
(* calls for a small instance of ProviderStreams.                           *)
EXTENDS ProviderStreams

MCTokens ==
  {"text", "blank", "long", "<", "<think>", "</think>", "think>", "/think>",
   "●", "●<function>", "<function>", "<parameter>", "WebFetch{}", "text<|", "|>"}

Task == <<"Ta", "sk">>
ToolDelta(i, name, args) == [index |-> i, name |-> name, args |-> args]

\* Task calls whose arguments come whole, in halves, before the name, or as
\* no object at all; one whose name comes in two pieces; a call of another
\* tool
MCToolDeltas ==
  {ToolDelta(i, name, args) : i \in {0, 1, -1}, name \in {<<>>, Task},
                              args \in {<<"{">>, <<"}">>, <<"{}">>, <<"1">>}}
    \cup {ToolDelta(0, <<piece>>, args) : piece \in {"Ta", "sk"}, args \in {<<>>, <<"{">>, <<"{}">>}}
    \cup {ToolDelta(0, Task, <<>>), ToolDelta(-1, <<"Read">>, <<>>), ToolDelta(0, <<"Read">>, <<>>)}

\* Three Task calls, two with ids that begin alike
MCTasks == {<<"1">>, <<"1", "0">>, <<"2">>}

\* Their ids, a variant of one, the one shown for a Task without an id, none
MCAnswers == MCTasks \cup {<<"2", "x">>, <<"functions.", "Task">>, <<>>}
=============================================================================

--------------------------- MODULE TreeQueueSerial ---------------------------
(***************************************************************************)
(* What the message trees promise while nobody cancels a whole tree: the   *)
(* only command is "/stop" as a reply.  Under that condition every tree is *)
(* a serial queue in the sense of SerialQueue.                             *)
(***************************************************************************)
EXTENDS TreeQueue

\* A task that holds its tree: live, or cancelled before its first step, which
\* leaves the tree marked as processing for good.
Holding(r) == {n \in Node : home[n] = r /\ task[n] \in Live \cup {"aborted"}}

Accepted == {n \in Node : pc[n] = "placed"}

Active == [r \in Node |-> IF Holding(r) = {} THEN None
                          ELSE CHOOSE n \in Holding(r) : TRUE]

Abstract == INSTANCE SerialQueue WITH
  Lane <- Node,
  Job <- Node,
  accepted <- Accepted,
  waiting <- queue,
  active <- Active

\* Every tree takes its prompts one at a time, in order, each at most once,
\* and does not idle while prompts wait.
\* (handler.py: "Per-tree queue ensures ordered processing")
SerialQueueSpec == Abstract!Spec

\* A tree has at most one task that is not over, be it starting, running,
\* cleaning up after a cancellation or freeing its session, and that task's
\* node is the tree's current node.
\* (process_node, _process_next, enqueue_and_start, cancel_node)
OneTaskPerTree ==
  \A r \in Node : Holding(r) = IF isProcessing[r] THEN {current[r]} ELSE {}

\* "/stop" on a prompt whose task is live cancels that task: no CLI keeps
\* running for a prompt that is shown as stopped. (cancel_node)
StopReachesTask ==
  [][\A n \in Node : StopNode(n) /\ task[n] \in Live => n \in cancelReq']_vars

Settled(n) ==
  \/ task[n] = "done"
  \/ task[n] = "none" /\ state[n] = "error"

\* Every prompt that was placed is processed to its end or stopped, unless a
\* "/stop" in its tree hit a task that had not taken its first step.
\* (process_node's finally and _process_next keep the queue moving)
EveryPromptSettles ==
  \A n \in Node : pc[n] = "placed" ~> \/ Settled(n)
                                      \/ \E m \in Holding(home[n]) : task[m] = "aborted"
=============================================================================

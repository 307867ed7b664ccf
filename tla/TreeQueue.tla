------------------------------ MODULE TreeQueue ------------------------------
(***************************************************************************)
(* The message trees of the messaging bot: TreeRepository, MessageTree,    *)
(* TreeQueueProcessor and TreeQueueManager (messaging/trees), driven by    *)
(* ClaudeMessageHandler (messaging/handler.py) and by the /stop and /clear *)
(* commands (messaging/commands.py).                                       *)
(*                                                                         *)
(* The program is one asyncio event loop.  No body of `tree.with_lock()`   *)
(* or of the manager's lock contains a real suspension, so each of them,   *)
(* and each run of consecutive ones, is one step here.  The steps of a     *)
(* handler end where it really suspends: sending the status message,       *)
(* reading the CLI's output, editing the message, freeing the CLI session, *)
(* deleting chat messages.  A task created with asyncio.create_task takes  *)
(* its first step later, and a task cancelled before that never runs.      *)
(*                                                                         *)
(* A Node is the id of a user's prompt message.  The status message sent   *)
(* for it is resolved to the same node (find_node_by_status_message), so   *)
(* one id stands for both.  A MessageTree object is named by its root; it  *)
(* outlives its entry in the repository while a task still refers to it.   *)
(***************************************************************************)
EXTENDS Naturals, Sequences, FiniteSets

CONSTANTS
  Node,       \* ids of the prompt messages the users may send
  None,       \* Python's None
  Commands,   \* which commands the users may give
  MaxClears   \* bound: how many /clear may be deleting messages at once

ASSUME NoneIsNoNode == None \notin Node
ASSUME MaxClearsIsNat == MaxClears \in Nat
ASSUME CommandsAreKnown ==
  Commands \subseteq {"stop_node", "stop_all", "clear_branch", "clear_all"}

VARIABLES
  pc,            \* handle_message of each prompt
  trees,         \* TreeRepository._trees: the roots the manager knows
  nodeToTree,    \* TreeRepository._node_to_tree
  treeNodes,     \* MessageTree._nodes, by root
  parent,        \* MessageNode.parent_id
  home,          \* the tree object process_node was given
  state,         \* MessageNode.state
  queue,         \* MessageTree._queue, by root
  isProcessing,  \* MessageTree._is_processing
  current,       \* MessageTree._current_node_id
  currentTask,   \* MessageTree._current_task, named by its node
  task,          \* how far the asyncio task of each node is
  cancelReq,     \* tasks with a cancellation not yet delivered
  tracked,       \* tasks whose local `tree` is not None
  captured,      \* tasks whose local captured_session_id is set
  clearing,      \* branch roots whose /clear is deleting chat messages
  clearingAll    \* a standalone /clear is deleting chat messages

repoVars == <<trees, nodeToTree, treeNodes>>
procVars == <<queue, isProcessing, current, currentTask>>
taskVars == <<task, cancelReq, tracked, captured>>
msgVars  == <<pc, parent, home>>
clearVars == <<clearing, clearingAll>>
vars == <<repoVars, procVars, taskVars, msgVars, clearVars, state>>

MessageState == {"pending", "in_progress", "completed", "error"}
Terminal == {"completed", "error"}

\* The task of a node: not created; created but not yet stepped; reading the
\* CLI's events; past the exit event; in the except-CancelledError clause;
\* in the handler's finally; over; cancelled before its first step.
TaskPhase == {"none", "created", "running", "exited", "cancelling", "closing",
              "done", "aborted"}
\* asyncio.Task.done() is False
Live == {"created", "running", "exited", "cancelling", "closing"}

TypeOK ==
  /\ pc \in [Node -> {"new", "sending", "placed", "dropped"}]
  /\ trees \in SUBSET Node
  /\ nodeToTree \in [Node -> Node \cup {None}]
  /\ treeNodes \in [Node -> SUBSET Node]
  /\ parent \in [Node -> Node \cup {None}]
  /\ home \in [Node -> Node \cup {None}]
  /\ state \in [Node -> MessageState]
  /\ queue \in [Node -> Seq(Node)]
  /\ isProcessing \in [Node -> BOOLEAN]
  /\ current \in [Node -> Node \cup {None}]
  /\ currentTask \in [Node -> Node \cup {None}]
  /\ task \in [Node -> TaskPhase]
  /\ cancelReq \in SUBSET Node
  /\ tracked \in SUBSET Node
  /\ captured \in SUBSET Node
  /\ clearing \in SUBSET Node
  /\ clearingAll \in BOOLEAN

Init ==
  /\ pc = [n \in Node |-> "new"]
  /\ trees = {}
  /\ nodeToTree = [n \in Node |-> None]
  /\ treeNodes = [n \in Node |-> {}]
  /\ parent = [n \in Node |-> None]
  /\ home = [n \in Node |-> None]
  /\ state = [n \in Node |-> "pending"]
  /\ queue = [n \in Node |-> <<>>]
  /\ isProcessing = [n \in Node |-> FALSE]
  /\ current = [n \in Node |-> None]
  /\ currentTask = [n \in Node |-> None]
  /\ task = [n \in Node |-> "none"]
  /\ cancelReq = {}
  /\ tracked = {}
  /\ captured = {}
  /\ clearing = {}
  /\ clearingAll = FALSE

-----------------------------------------------------------------------------
(* The tree's own operations *)

\* remove_from_queue for every id in S: the others keep their order, so the
\* j-th of the result is the j-th one kept.  (SelectSeq would say the same; its
\* recursive definition is out of the provers' reach.)
Kept(q, S) == {i \in DOMAIN q : q[i] \notin S}
RankIn(K, i) == Cardinality({k \in K : k <= i})
Without(q, S) ==
  [j \in 1..Cardinality(Kept(q, S)) |->
     q[CHOOSE i \in Kept(q, S) : RankIn(Kept(q, S), i) = j]]

\* get_tree_for_node and has_node: the manager finds n in one of its trees
Known(n) == nodeToTree[n] # None

\* A slip in get_descendants: the children are never pushed on the stack
DescendantsWithoutChildren(r, n) == {n} \cap treeNodes[r]

\* get_descendants: n and everything below it, the least set with n that is
\* closed under children
Descendants(r, n) ==
  {m \in treeNodes[r] :
     \A S \in SUBSET treeNodes[r] :
       (n \in S /\ \A c \in treeNodes[r] : parent[c] \in S => c \in S) => m \in S}

\* get_pending_children: the PENDING nodes reached from n through PENDING ones
PendingChildren(r, n) ==
  LET P == {m \in treeNodes[r] : state[m] = "pending"}
  IN  {m \in P : \A S \in SUBSET P :
                   (\A c \in P : parent[c] \in S \cup {n} => c \in S) => m \in S}

\* update_state, through the `tree` the task looked up when it started
UpdateState(n, s) ==
  state' = IF n \in tracked /\ n \in treeNodes[home[n]]
           THEN [state EXCEPT ![n] = s]
           ELSE state

\* mark_node_error with propagate_to_children: the tree is looked up again
MarkNodeError(n) ==
  state' = IF Known(n)
           THEN [m \in Node |->
                   IF m = n \/ m \in PendingChildren(nodeToTree[n], n)
                   THEN "error" ELSE state[m]]
           ELSE state

\* cancel_current_task of each tree in R: only a task that is not done
CancelCurrentTasks(R) ==
  cancelReq' = cancelReq \cup
    {t \in Node : task[t] \in Live /\ \E r \in R : currentTask[r] = t}

StartNow(r, n) ==
  /\ isProcessing' = [isProcessing EXCEPT ![r] = TRUE]
  /\ current' = [current EXCEPT ![r] = n]
  /\ currentTask' = [currentTask EXCEPT ![r] = n]
  /\ task' = [task EXCEPT ![n] = "created"]

\* Slips in enqueue_and_start: the is_processing test dropped; the early return
\* dropped.
EnqueueIgnoresBusy(r, n) == StartNow(r, n) /\ UNCHANGED queue
EnqueueFallsThrough(r, n) ==
  /\ queue' = [queue EXCEPT ![r] = IF isProcessing[r] THEN Append(@, n) ELSE @]
  /\ StartNow(r, n)

\* enqueue_and_start
EnqueueAndStart(r, n) ==
  \/ /\ isProcessing[r]
     /\ queue' = [queue EXCEPT ![r] = Append(@, n)]
     /\ UNCHANGED <<isProcessing, current, currentTask, task>>
  \/ /\ ~isProcessing[r]
     /\ StartNow(r, n)
     /\ UNCHANGED queue

\* Slips in what follows a dequeue: the current node is not recorded; a node
\* already in ERROR gets no task that would move on past it.
TakeForgetsCurrent(r, n, next, rest) ==
  /\ queue' = [queue EXCEPT ![r] = rest]
  /\ isProcessing' = [isProcessing EXCEPT ![r] = TRUE]
  /\ current' = [current EXCEPT ![r] = None]
  /\ currentTask' = [currentTask EXCEPT ![r] = next]
  /\ task' = [task EXCEPT ![n] = "done", ![next] = "created"]
TakeDropsFailed(r, n, next, rest) ==
  /\ queue' = [queue EXCEPT ![r] = rest]
  /\ isProcessing' = [isProcessing EXCEPT ![r] = TRUE]
  /\ current' = [current EXCEPT ![r] = next]
  /\ IF next \in treeNodes[r] /\ state[next] # "error"
     THEN /\ currentTask' = [currentTask EXCEPT ![r] = next]
          /\ task' = [task EXCEPT ![n] = "done", ![next] = "created"]
     ELSE /\ task' = [task EXCEPT ![n] = "done"]
          /\ UNCHANGED currentTask

\* The task of n ends and hands the tree to the dequeued id `next`; an id that
\* is no longer a node of the tree gets no task, and the tree stays busy.
TakeNext(r, n, next, rest) ==
  /\ queue' = [queue EXCEPT ![r] = rest]
  /\ isProcessing' = [isProcessing EXCEPT ![r] = TRUE]
  /\ current' = [current EXCEPT ![r] = next]
  /\ IF next \in treeNodes[r]
     THEN /\ currentTask' = [currentTask EXCEPT ![r] = next]
          /\ task' = [task EXCEPT ![n] = "done", ![next] = "created"]
     ELSE /\ task' = [task EXCEPT ![n] = "done"]
          /\ UNCHANGED currentTask

FreeTree(r, n) ==
  /\ isProcessing' = [isProcessing EXCEPT ![r] = FALSE]
  /\ current' = [current EXCEPT ![r] = None]
  /\ task' = [task EXCEPT ![n] = "done"]
  /\ UNCHANGED <<queue, currentTask>>

\* Slips in _process_next: the head is read but not removed; the newest entry
\* is taken.
ProcessNextPeeks(r, n) ==
  \/ queue[r] = <<>> /\ FreeTree(r, n)
  \/ queue[r] # <<>> /\ TakeNext(r, n, Head(queue[r]), queue[r])
ProcessNextTakesNewest(r, n) ==
  \/ queue[r] = <<>> /\ FreeTree(r, n)
  \/ /\ queue[r] # <<>>
     /\ TakeNext(r, n, queue[r][Len(queue[r])],
                 SubSeq(queue[r], 1, Len(queue[r]) - 1))

\* _process_next, as the last thing the task of n does
ProcessNext(r, n) ==
  \/ queue[r] = <<>> /\ FreeTree(r, n)
  \/ queue[r] # <<>> /\ TakeNext(r, n, Head(queue[r]), Tail(queue[r]))

\* cancel_tree for every tree in R, up to draining the queues
CancelNodes(R) ==
  /\ CancelCurrentTasks(R)
  /\ state' = [n \in Node |->
                 IF \E r \in R : /\ n \in treeNodes[r]
                                 /\ \/ state[n] \notin Terminal
                                    \/ \E i \in DOMAIN queue[r] : queue[r][i] = n
                 THEN "error" ELSE state[n]]
  /\ isProcessing' = [r \in Node |-> IF r \in R THEN FALSE ELSE isProcessing[r]]
  /\ current' = [r \in Node |-> IF r \in R THEN None ELSE current[r]]

\* A slip in cancel_tree: the queue is read but not drained
CancelTreesKeepsQueue(R) == CancelNodes(R) /\ UNCHANGED queue

\* cancel_tree for every tree in R
CancelTrees(R) ==
  /\ CancelNodes(R)
  /\ queue' = [r \in Node |-> IF r \in R THEN <<>> ELSE queue[r]]

-----------------------------------------------------------------------------
(* handle_message *)

\* A prompt arrives, as a reply to p or on its own; the replied-to message is
\* resolved now, and the handler suspends to send the status message.
HandleMessage(n, p) ==
  /\ pc[n] = "new"
  /\ p # None => Known(p)
  /\ pc' = [pc EXCEPT ![n] = "sending"]
  /\ parent' = [parent EXCEPT ![n] = p]
  /\ UNCHANGED <<repoVars, procVars, taskVars, clearVars, home, state>>

\* A slip in add_to_tree: the node is not registered with the manager
PlaceUnregistered(r, n) ==
  /\ pc' = [pc EXCEPT ![n] = "placed"]
  /\ home' = [home EXCEPT ![n] = r]
  /\ treeNodes' = [treeNodes EXCEPT ![r] = @ \cup {n}]
  /\ UNCHANGED nodeToTree
  /\ EnqueueAndStart(r, n)

\* create_tree or add_to_tree, registration, and enqueue
PlaceIn(r, n) ==
  /\ pc' = [pc EXCEPT ![n] = "placed"]
  /\ home' = [home EXCEPT ![n] = r]
  /\ treeNodes' = [treeNodes EXCEPT ![r] = @ \cup {n}]
  /\ nodeToTree' = [nodeToTree EXCEPT ![n] = r]
  /\ EnqueueAndStart(r, n)

StatusSent(n) ==
  /\ pc[n] = "sending"
  /\ \/ /\ parent[n] = None
        /\ trees' = trees \cup {n}
        /\ PlaceIn(n, n)
     \/ /\ parent[n] # None
        /\ Known(parent[n])
        /\ UNCHANGED trees
        /\ PlaceIn(nodeToTree[parent[n]], n)
     \/ /\ parent[n] # None       \* add_to_tree raises: the parent is gone
        /\ ~Known(parent[n])
        /\ pc' = [pc EXCEPT ![n] = "dropped"]
        /\ UNCHANGED <<repoVars, procVars, task, home>>
  /\ UNCHANGED <<cancelReq, tracked, captured, clearVars, parent, state>>

\* The platform call raises or returns no message id: nothing is enqueued.
StatusSendFails(n) ==
  /\ pc[n] = "sending"
  /\ pc' = [pc EXCEPT ![n] = "dropped"]
  /\ UNCHANGED <<repoVars, procVars, taskVars, clearVars, parent, home, state>>

-----------------------------------------------------------------------------
(* process_node and _process_node_impl *)

\* The first step of a task.  A cancelled one never enters its body; a node
\* already in ERROR is skipped; the others enter the handler.
StartTask(n) ==
  /\ task[n] = "created"
  /\ \/ /\ n \in cancelReq
        /\ task' = [task EXCEPT ![n] = "aborted"]
        /\ cancelReq' = cancelReq \ {n}
        /\ UNCHANGED <<procVars, tracked, state>>
     \/ /\ n \notin cancelReq
        /\ state[n] = "error"
        /\ ProcessNext(home[n], n)
        /\ UNCHANGED <<cancelReq, tracked, state>>
     \/ /\ n \notin cancelReq
        /\ state[n] # "error"
        /\ task' = [task EXCEPT ![n] = "running"]
        /\ tracked' = IF Known(n) THEN tracked \cup {n} ELSE tracked
        /\ state' = IF Known(n) THEN [state EXCEPT ![n] = "in_progress"] ELSE state
        /\ UNCHANGED <<procVars, cancelReq>>
  /\ UNCHANGED <<repoVars, captured, msgVars, clearVars>>

\* Another task already runs the CLI session the parent left behind, so
\* get_or_create_session may hand out that one, with its id already known.
SharesSession(n) ==
  \E m \in captured : home[m] = home[n] /\ m \in {parent[n]} \cup {c \in Node : parent[c] = parent[n]}

\* session_info, or the id of a session that is already registered
SessionInfo(n) ==
  /\ task[n] = "running"
  /\ n \notin cancelReq
  /\ n \notin captured
  /\ captured' = captured \cup {n}
  /\ \/ UpdateState(n, "in_progress")
     \/ SharesSession(n) /\ UNCHANGED state
  /\ UNCHANGED <<repoVars, procVars, task, cancelReq, tracked, msgVars, clearVars>>

\* An error event: a line of the CLI's output, or its stderr
ErrorEvent(n) ==
  /\ task[n] = "running"
  /\ n \notin cancelReq
  /\ n \in tracked
  /\ MarkNodeError(n)
  /\ UNCHANGED <<repoVars, procVars, taskVars, msgVars, clearVars>>

\* The exit event, parsed to [complete] or, for a non-zero code, to
\* [error, complete]; the complete half is CompleteEvent.
ExitEvent(n, failed) ==
  /\ task[n] = "running"
  /\ n \notin cancelReq
  /\ task' = [task EXCEPT ![n] = "exited"]
  /\ IF failed /\ n \in tracked THEN MarkNodeError(n) ELSE UNCHANGED state
  /\ UNCHANGED <<repoVars, procVars, cancelReq, tracked, captured, msgVars, clearVars>>

\* A slip in the handler: the cancellation is swallowed at the last event
CompleteEventSwallowsCancel(n) ==
  /\ task[n] = "exited"
  /\ task' = [task EXCEPT ![n] = "closing"]
  /\ IF n \in captured THEN UpdateState(n, "completed") ELSE UNCHANGED state
  /\ UNCHANGED <<repoVars, procVars, cancelReq, tracked, captured, msgVars, clearVars>>

CompleteEvent(n) ==
  /\ task[n] = "exited"
  /\ n \notin cancelReq
  /\ task' = [task EXCEPT ![n] = "closing"]
  /\ IF n \in captured THEN UpdateState(n, "completed") ELSE UNCHANGED state
  /\ UNCHANGED <<repoVars, procVars, cancelReq, tracked, captured, msgVars, clearVars>>

\* The CLI cannot be started or its output cannot be read
TaskFails(n) ==
  /\ task[n] = "running"
  /\ n \notin cancelReq
  /\ task' = [task EXCEPT ![n] = "closing"]
  /\ IF n \in tracked THEN MarkNodeError(n) ELSE UNCHANGED state
  /\ UNCHANGED <<repoVars, procVars, cancelReq, tracked, captured, msgVars, clearVars>>

\* CancelledError arrives at the await the task is suspended in.  The except
\* clause may suspend again to edit the message, and a second cancellation
\* there skips what the clause still had to do.
DeliverCancel(n) ==
  /\ n \in cancelReq
  /\ cancelReq' = cancelReq \ {n}
  /\ \/ /\ task[n] \in {"running", "exited"}
        /\ task' = [task EXCEPT ![n] = "cancelling"]
     \/ /\ task[n] = "cancelling"
        /\ task' = [task EXCEPT ![n] = "closing"]
  /\ UNCHANGED <<repoVars, procVars, tracked, captured, msgVars, clearVars, state>>

CancelHandled(n) ==
  /\ task[n] = "cancelling"
  /\ n \notin cancelReq
  /\ task' = [task EXCEPT ![n] = "closing"]
  /\ UpdateState(n, "error")
  /\ UNCHANGED <<repoVars, procVars, cancelReq, tracked, captured, msgVars, clearVars>>

\* remove_session returns, or is itself cancelled; then process_node's finally
EndTask(n) ==
  /\ task[n] = "closing"
  /\ cancelReq' = cancelReq \ {n}
  /\ tracked' = tracked \ {n}
  /\ captured' = captured \ {n}
  /\ ProcessNext(home[n], n)
  /\ UNCHANGED <<repoVars, msgVars, clearVars, state>>

-----------------------------------------------------------------------------
(* /stop and /clear *)

MayClear == Cardinality(clearing) + (IF clearingAll THEN 1 ELSE 0) < MaxClears

\* "/stop" as a reply: stop_task and cancel_node
StopNode(n) ==
  /\ "stop_node" \in Commands
  /\ Known(n)
  /\ state[n] \notin Terminal
  /\ LET r == nodeToTree[n]
     IN  /\ IF current[r] = n THEN CancelCurrentTasks({r}) ELSE UNCHANGED cancelReq
         /\ queue' = [queue EXCEPT ![r] = Without(@, {n})]
  /\ state' = [state EXCEPT ![n] = "error"]
  /\ UNCHANGED <<repoVars, isProcessing, current, currentTask, task, tracked,
                 captured, msgVars, clearVars>>

\* "/stop" on its own: stop_all_tasks and cancel_all
StopAll ==
  /\ "stop_all" \in Commands
  /\ CancelTrees(trees)
  /\ UNCHANGED <<repoVars, currentTask, task, tracked, captured, msgVars, clearVars>>

\* "/clear" as a reply, before its messages are deleted: cancel_branch
ClearBranch(n) ==
  /\ "clear_branch" \in Commands
  /\ MayClear
  /\ Known(n)
  /\ LET r == nodeToTree[n]
         hit == {m \in Descendants(r, n) : state[m] \notin Terminal}
     IN  /\ IF current[r] \in hit THEN CancelCurrentTasks({r}) ELSE UNCHANGED cancelReq
         /\ queue' = [queue EXCEPT
                        ![r] = Without(@, hit \ {current[r]})]
         /\ state' = [m \in Node |-> IF m \in hit THEN "error" ELSE state[m]]
  /\ clearing' = clearing \cup {n}
  /\ UNCHANGED <<repoVars, isProcessing, current, currentTask, task, tracked,
                 captured, msgVars, clearingAll>>

\* and after: remove_branch, which takes the nodes that are there by now
RemoveBranch(n) ==
  /\ n \in clearing
  /\ clearing' = clearing \ {n}
  /\ \/ /\ ~Known(n)
        /\ UNCHANGED <<repoVars, procVars, cancelReq, state>>
     \/ /\ nodeToTree[n] = n
        /\ CancelTrees({n})
        /\ trees' = trees \ {n}
        /\ nodeToTree' = [m \in Node |-> IF m \in treeNodes[n] THEN None ELSE nodeToTree[m]]
        /\ UNCHANGED <<treeNodes, currentTask>>
     \/ /\ Known(n)
        /\ nodeToTree[n] # n
        /\ LET r == nodeToTree[n]
               gone == Descendants(r, n)
           IN  /\ treeNodes' = [treeNodes EXCEPT ![r] = @ \ gone]
               /\ nodeToTree' = [m \in Node |-> IF m \in gone THEN None ELSE nodeToTree[m]]
        /\ UNCHANGED <<trees, procVars, cancelReq, state>>
  /\ UNCHANGED <<task, tracked, captured, msgVars, clearingAll>>

\* "/clear" on its own: stop_all_tasks, then deletions, then a new manager
ClearAll ==
  /\ "clear_all" \in Commands
  /\ MayClear
  /\ ~clearingAll
  /\ clearingAll' = TRUE
  /\ CancelTrees(trees)
  /\ UNCHANGED <<repoVars, currentTask, task, tracked, captured, msgVars, clearing>>

ReplaceTreeQueue ==
  /\ clearingAll
  /\ clearingAll' = FALSE
  /\ trees' = {}
  /\ nodeToTree' = [n \in Node |-> None]
  /\ UNCHANGED <<treeNodes, procVars, taskVars, msgVars, clearing, state>>

-----------------------------------------------------------------------------
Messages ==
  \E n \in Node : \/ \E p \in Node \cup {None} : HandleMessage(n, p)
                  \/ StatusSent(n)
                  \/ StatusSendFails(n)

Tasks ==
  \E n \in Node : \/ StartTask(n)
                  \/ SessionInfo(n)
                  \/ ErrorEvent(n)
                  \/ \E failed \in BOOLEAN : ExitEvent(n, failed)
                  \/ CompleteEvent(n)
                  \/ TaskFails(n)
                  \/ DeliverCancel(n)
                  \/ CancelHandled(n)
                  \/ EndTask(n)

UserCommands ==
  \/ \E n \in Node : StopNode(n) \/ ClearBranch(n) \/ RemoveBranch(n)
  \/ StopAll
  \/ ClearAll
  \/ ReplaceTreeQueue

Next == Messages \/ Tasks \/ UserCommands

Spec == Init /\ [][Next]_vars

(***************************************************************************)
(* What the event loop, the platform and the CLI owe each other: a created *)
(* or cancelled task is stepped, a platform call returns or raises, and    *)
(* the CLI process of a task that is not cancelled exits.  Users owe       *)
(* nothing.                                                                *)
(***************************************************************************)
Fairness ==
  \A n \in Node : /\ WF_vars(StatusSent(n) \/ StatusSendFails(n))
                  /\ WF_vars(StartTask(n))
                  /\ WF_vars(\E failed \in BOOLEAN : ExitEvent(n, failed))
                  /\ WF_vars(CompleteEvent(n))
                  /\ WF_vars(DeliverCancel(n))
                  /\ WF_vars(CancelHandled(n))
                  /\ WF_vars(EndTask(n))

FairSpec == Spec /\ Fairness

-----------------------------------------------------------------------------
(* Properties *)

\* No prompt waits in the queue of a tree that is free: a free tree is only
\* ever woken by the next prompt, so such an entry would be forgotten.
\* (TreeQueueProcessor, cancel_tree)
FreeTreeHasEmptyQueue == \A r \in Node : ~isProcessing[r] => queue[r] = <<>>

\* The manager's index and the trees' node tables name the same nodes, over
\* every order of replies, branch removals and manager replacements.
\* (TreeRepository._node_to_tree against MessageTree._nodes)
IndexMatchesTrees ==
  \A n, r \in Node : nodeToTree[n] = r <=> r \in trees /\ n \in treeNodes[r]

\* Every reply the manager knows hangs under a node of the same tree, also
\* when its parent's branch was being cleared while it was added.
\* (add_to_tree, remove_branch)
ParentsAreKnown ==
  \A n \in Node : Known(n) => \/ /\ parent[n] = None
                                /\ nodeToTree[n] = n
                             \/ /\ parent[n] # None
                                /\ nodeToTree[parent[n]] = nodeToTree[n]

\* A queued prompt is queued once, in the tree it was placed in, and has no
\* task yet. (enqueue_and_start, _process_next)
QueuedIsUnstarted ==
  \A r \in Node : \A i \in DOMAIN queue[r] :
    /\ home[queue[r][i]] = r
    /\ task[queue[r][i]] = "none"
    /\ \A j \in DOMAIN queue[r] : queue[r][j] = queue[r][i] => j = i

StartedOnce ==
  \A n \in Node : task[n] # "none" =>
    task'[n] # "none" /\ (task'[n] = "created" => task[n] = "created")

\* A prompt gets at most one task in its life. (asyncio.create_task in
\* enqueue_and_start and _process_next)
StartedAtMostOnce == [][StartedOnce]_vars

\* A prompt shown as stopped or failed stays so, unless its task is still
\* reading the CLI's output without a cancellation on its way.
\* (cancel_node, cancel_branch, cancel_tree against the handler's steps)
StoppedStaysStopped ==
  [][\A n \in Node :
       /\ state[n] = "error"
       /\ task[n] \in {"running", "exited"} => n \in cancelReq
       => state'[n] = "error"]_vars

\* At most one task of a tree is reading its CLI's output, not counting tasks
\* with a cancellation on its way.
\* (handler.py: "Per-tree queue ensures ordered processing")
OneRunningTaskPerTree ==
  LET Running == {n \in Node : task[n] = "running" /\ n \notin cancelReq}
  IN  \A m, n \in Running : home[m] = home[n] => m = n

\* A tree is marked as processing only while there is a task that was started
\* for it. (MessageTree.is_processing: "currently processing a message")
BusyTreeHasTask ==
  \A r \in trees : isProcessing[r] =>
    \E n \in Node : home[n] = r /\ task[n] \in Live \cup {"aborted"}
=============================================================================

-------------------------- MODULE TreeQueueProofs ---------------------------
(***************************************************************************)
(* Safety of the message trees for every set of prompts, every choice of   *)
(* commands and any number of pending /clear commands.  The inductive      *)
(* invariant joins the properties of TreeQueue with Placed, which says     *)
(* where a prompt can be found at each stage of handle_message.  While the *)
(* only command is "/stop" as a reply, a tree has one task at a time and   *)
(* implements SerialQueue.                                                 *)
(***************************************************************************)
EXTENDS TreeQueueSerial, FiniteSetTheorems, FunctionTheorems, TLAPS

-----------------------------------------------------------------------------
(* Removing entries from a queue *)

LEMMA RankBijection ==
  ASSUME NEW n \in Nat, NEW K \in SUBSET (1..n)
  PROVE  /\ Cardinality(K) \in Nat
         /\ \A j \in 1..Cardinality(K) : \E i \in K : RankIn(K, i) = j
<1> DEFINE below(i) == {k \in K : k <= i}
           rank == [i \in K |-> Cardinality(below(i))]
<1>1. IsFiniteSet(K) /\ Cardinality(K) \in Nat
  <2>1. IsFiniteSet(1..n)
    BY FS_Interval
  <2>2. IsFiniteSet(K)
    BY <2>1, FS_Subset
  <2> QED BY <2>2, FS_CardinalityType
<1>2. \A i \in K : /\ IsFiniteSet(below(i))
                   /\ Cardinality(below(i)) \in 1..Cardinality(K)
  <2> TAKE i \in K
  <2>1. below(i) \in SUBSET K /\ i \in below(i)
    OBVIOUS
  <2>2. IsFiniteSet(below(i)) /\ Cardinality(below(i)) <= Cardinality(K)
    BY <1>1, <2>1, FS_Subset
  <2>3. Cardinality(below(i)) \in Nat /\ Cardinality(below(i)) # 0
    BY <2>1, <2>2, FS_CardinalityType, FS_EmptySet
  <2> QED BY <1>1, <2>2, <2>3
<1>3. \A i, k \in K : i < k => rank[i] # rank[k]
  <2> SUFFICES ASSUME NEW i \in K, NEW k \in K, i < k, rank[i] = rank[k]
               PROVE  FALSE
    OBVIOUS
  <2>1. below(i) \in SUBSET below(k) /\ k \in below(k) /\ k \notin below(i)
    <3>1. K \subseteq Int /\ i \in Int /\ k \in Int
      OBVIOUS
    <3>2. \A m \in K : m <= i => m <= k
      BY <3>1
    <3>3. below(i) \subseteq below(k)
      BY <3>2
    <3>4. k \in below(k) /\ k \notin below(i)
      BY <3>1
    <3> QED BY <3>3, <3>4
  <2>2. Cardinality(below(i)) = Cardinality(below(k))
    OBVIOUS
  <2> HIDE DEF below
  <2> QED BY <1>2, <2>1, <2>2, FS_Subset
<1>4. rank \in Injection(K, 1..Cardinality(K))
  <2>1. rank \in [K -> 1..Cardinality(K)]
    BY <1>2
  <2>2. \A i, k \in K : rank[i] = rank[k] => i = k
    <3> HIDE DEF rank
    <3> QED BY <1>3
  <2> HIDE DEF rank
  <2> QED BY <2>1, <2>2, Fun_IsInj
<1>5. IsFiniteSet(1..Cardinality(K)) /\ Cardinality(1..Cardinality(K)) = Cardinality(K)
  BY <1>1, FS_Interval
<1>6. rank \in Surjection(K, 1..Cardinality(K))
  <2> HIDE DEF rank
  <2> QED BY <1>4, <1>5, FS_Injection
<1> QED BY <1>1, <1>6 DEF Surjection, RankIn

\* What is left of a queue is a queue whose entries come from distinct places
\* of the old one. (_SnapshotQueue.remove_if_present)
LEMMA WithoutProperties ==
  ASSUME NEW T, NEW q \in Seq(T), NEW S
  PROVE  /\ Without(q, S) \in Seq(T)
         /\ \A j \in DOMAIN Without(q, S) :
              \E i \in Kept(q, S) : /\ Without(q, S)[j] = q[i]
                                    /\ RankIn(Kept(q, S), i) = j
         /\ q = <<>> => Without(q, S) = <<>>
<1> DEFINE K == Kept(q, S)
           at(j) == CHOOSE i \in K : RankIn(K, i) = j
<1>1. Len(q) \in Nat /\ K \in SUBSET (1..Len(q))
  BY DEF Kept
<1>2. /\ Cardinality(K) \in Nat
      /\ \A j \in 1..Cardinality(K) : \E i \in K : RankIn(K, i) = j
  <2> HIDE DEF K
  <2> QED BY <1>1, RankBijection
<1>3. \A j \in 1..Cardinality(K) : at(j) \in K /\ RankIn(K, at(j)) = j
  <2> HIDE DEF K
  <2> QED BY <1>2
<1>4. Without(q, S) = [j \in 1..Cardinality(K) |-> q[at(j)]]
  BY DEF Without
<1>5. \A i \in K : q[i] \in T
  BY DEF Kept
<1>6. Without(q, S) \in Seq(T)
  <2> HIDE DEF K, at
  <2>1. Without(q, S) \in [1..Cardinality(K) -> T]
    BY <1>3, <1>4, <1>5
  <2> QED BY <1>2, <2>1
<1>7. q = <<>> => Without(q, S) = <<>>
  <2> SUFFICES ASSUME q = <<>> PROVE Without(q, S) = <<>>
    OBVIOUS
  <2>1. K = {} /\ Cardinality(K) = 0
    BY <1>1, FS_EmptySet
  <2> HIDE DEF K, at
  <2>2. DOMAIN Without(q, S) = {}
    BY <1>4, <2>1
  <2>3. Len(Without(q, S)) = 0
    BY <1>6, <2>2
  <2> QED BY <1>6, <2>3
<1>8. \A j \in DOMAIN Without(q, S) : at(j) \in K /\ Without(q, S)[j] = q[at(j)] /\ RankIn(K, at(j)) = j
  <2> HIDE DEF K, at
  <2> QED BY <1>3, <1>4
<1>9. \A j \in DOMAIN Without(q, S) : \E i \in K : Without(q, S)[j] = q[i] /\ RankIn(K, i) = j
  <2> HIDE DEF K, at
  <2> QED BY <1>8
<1> QED BY <1>6, <1>7, <1>9

LEMMA WithoutDistinct ==
  ASSUME NEW T, NEW q \in Seq(T), NEW S,
         \A i, j \in DOMAIN q : q[i] = q[j] => i = j
  PROVE  /\ \A j \in DOMAIN Without(q, S) :
              \E i \in DOMAIN q : Without(q, S)[j] = q[i]
         /\ \A i, j \in DOMAIN Without(q, S) :
              Without(q, S)[i] = Without(q, S)[j] => i = j
<1>1. Kept(q, S) \subseteq DOMAIN q
  BY DEF Kept
<1>2. \A j \in DOMAIN Without(q, S) :
        \E i \in Kept(q, S) : Without(q, S)[j] = q[i] /\ RankIn(Kept(q, S), i) = j
  BY WithoutProperties
<1> QED BY <1>1, <1>2

-----------------------------------------------------------------------------
(* The inductive invariant *)

\* A prompt that handle_message has not placed is nowhere: it has no tree and
\* no task.  The nodes of a tree are prompts that were given that tree, and a
\* tree is named by a prompt that was placed.
Placed ==
  /\ \A n \in Node : pc[n] # "placed" => home[n] = None /\ task[n] = "none"
  /\ \A n \in Node : pc[n] = "placed" => home[n] \in Node
  /\ \A r \in Node : \A n \in treeNodes[r] : home[n] = r /\ pc[r] = "placed"
  /\ \A r \in trees : pc[r] = "placed"

Inv ==
  /\ TypeOK
  /\ Placed
  /\ QueuedIsUnstarted
  /\ FreeTreeHasEmptyQueue
  /\ IndexMatchesTrees
  /\ ParentsAreKnown

LEMMA InitInv == Init => Inv
<1> SUFFICES ASSUME Init PROVE Inv
  OBVIOUS
<1>1. TypeOK
  <2>1. queue \in [Node -> Seq(Node)]
    BY DEF Init
  <2>2. state \in [Node -> MessageState] /\ task \in [Node -> TaskPhase]
    BY DEF Init, MessageState, TaskPhase
  <2>3. /\ pc \in [Node -> {"new", "sending", "placed", "dropped"}]
        /\ treeNodes \in [Node -> SUBSET Node]
        /\ isProcessing \in [Node -> BOOLEAN]
    BY DEF Init
  <2> QED BY <2>1, <2>2, <2>3 DEF Init, TypeOK
<1>2. Placed
  BY DEF Init, Placed
<1>3. QueuedIsUnstarted /\ FreeTreeHasEmptyQueue
  BY DEF Init, QueuedIsUnstarted, FreeTreeHasEmptyQueue
<1>4. IndexMatchesTrees /\ ParentsAreKnown
  BY NoneIsNoNode DEF Init, IndexMatchesTrees, ParentsAreKnown, Known
<1> QED BY <1>1, <1>2, <1>3, <1>4 DEF Inv

-----------------------------------------------------------------------------
(* What the operations on a tree's queue preserve *)

QueueTypes ==
  /\ queue \in [Node -> Seq(Node)]
  /\ isProcessing \in [Node -> BOOLEAN]
  /\ current \in [Node -> Node \cup {None}]
  /\ currentTask \in [Node -> Node \cup {None}]
  /\ task \in [Node -> TaskPhase]

\* enqueue_and_start
LEMMA EnqueueStep ==
  ASSUME QueueTypes, NEW r \in Node, NEW n \in Node, EnqueueAndStart(r, n)
  PROVE  /\ QueueTypes'
         /\ FreeTreeHasEmptyQueue => FreeTreeHasEmptyQueue'
         /\ \A m \in Node : task'[m] # task[m] => m = n
<1>1. CASE isProcessing[r]
  <2>1. /\ queue' = [queue EXCEPT ![r] = Append(@, n)]
        /\ UNCHANGED <<isProcessing, current, currentTask, task>>
    BY <1>1 DEF EnqueueAndStart
  <2>2. QueueTypes'
    BY <2>1 DEF QueueTypes
  <2>3. FreeTreeHasEmptyQueue => FreeTreeHasEmptyQueue'
    BY <1>1, <2>1 DEF QueueTypes, FreeTreeHasEmptyQueue
  <2> QED BY <2>1, <2>2, <2>3
<1>2. CASE ~isProcessing[r]
  <2>1. StartNow(r, n) /\ UNCHANGED queue
    BY <1>2 DEF EnqueueAndStart
  <2>2. QueueTypes'
    BY <2>1 DEF StartNow, QueueTypes, TaskPhase
  <2>3. FreeTreeHasEmptyQueue => FreeTreeHasEmptyQueue'
    BY <2>1 DEF StartNow, QueueTypes, FreeTreeHasEmptyQueue
  <2>4. \A m \in Node : task'[m] # task[m] => m = n
    BY <2>1 DEF StartNow, QueueTypes
  <2> QED BY <2>2, <2>3, <2>4
<1> QED BY <1>1, <1>2

\* What ProcessNext does, without the distinction TakeNext makes: at most the
\* head of the queue gets a task, and the task of n is over.
LEMMA ProcessNextStep ==
  ASSUME QueueTypes, NEW r \in Node, NEW n \in Node, ProcessNext(r, n)
  PROVE  /\ QueueTypes'
         /\ FreeTreeHasEmptyQueue => FreeTreeHasEmptyQueue'
         /\ queue[r] = <<>> => /\ queue' = queue
                               /\ task' = [task EXCEPT ![n] = "done"]
         /\ queue[r] # <<>> =>
              /\ queue' = [queue EXCEPT ![r] = Tail(@)]
              /\ \/ task' = [task EXCEPT ![n] = "done"]
                 \/ task' = [task EXCEPT ![n] = "done", ![Head(queue[r])] = "created"]
<1>1. CASE queue[r] = <<>>
  <2>1. FreeTree(r, n)
    BY <1>1 DEF ProcessNext
  <2>2. QueueTypes'
    BY <2>1 DEF FreeTree, QueueTypes, TaskPhase
  <2>3. FreeTreeHasEmptyQueue => FreeTreeHasEmptyQueue'
    BY <1>1, <2>1 DEF FreeTree, QueueTypes, FreeTreeHasEmptyQueue
  <2> QED BY <1>1, <2>1, <2>2, <2>3 DEF FreeTree
<1>2. CASE queue[r] # <<>>
  <2>1. TakeNext(r, n, Head(queue[r]), Tail(queue[r]))
    BY <1>2 DEF ProcessNext
  <2>2. Head(queue[r]) \in Node /\ Tail(queue[r]) \in Seq(Node)
    BY <1>2 DEF QueueTypes
  <2>3. QueueTypes'
    <3>1. queue' \in [Node -> Seq(Node)] /\ isProcessing' \in [Node -> BOOLEAN]
      BY <2>1, <2>2 DEF TakeNext, QueueTypes
    <3>2. /\ current' \in [Node -> Node \cup {None}]
          /\ currentTask' \in [Node -> Node \cup {None}]
      BY <2>1, <2>2 DEF TakeNext, QueueTypes
    <3>3. task' \in [Node -> TaskPhase]
      BY <2>1, <2>2 DEF TakeNext, QueueTypes, TaskPhase
    <3> QED BY <3>1, <3>2, <3>3 DEF QueueTypes
  <2>4. FreeTreeHasEmptyQueue => FreeTreeHasEmptyQueue'
    BY <2>1 DEF TakeNext, QueueTypes, FreeTreeHasEmptyQueue
  <2> QED BY <1>2, <2>1, <2>3, <2>4 DEF TakeNext
<1> QED BY <1>1, <1>2

\* cancel_tree
LEMMA CancelTreesStep ==
  ASSUME QueueTypes, NEW R \in SUBSET Node, CancelTrees(R)
  PROVE  /\ queue' \in [Node -> Seq(Node)]
         /\ isProcessing' \in [Node -> BOOLEAN]
         /\ current' \in [Node -> Node \cup {None}]
         /\ FreeTreeHasEmptyQueue => FreeTreeHasEmptyQueue'
         /\ \A r \in Node : queue'[r] = queue[r] \/ queue'[r] = <<>>
<1>1. /\ queue' = [r \in Node |-> IF r \in R THEN <<>> ELSE queue[r]]
      /\ isProcessing' = [r \in Node |-> IF r \in R THEN FALSE ELSE isProcessing[r]]
      /\ current' = [r \in Node |-> IF r \in R THEN None ELSE current[r]]
  BY DEF CancelTrees, CancelNodes
<1>2. queue' \in [Node -> Seq(Node)]
  BY <1>1 DEF QueueTypes
<1>3. isProcessing' \in [Node -> BOOLEAN] /\ current' \in [Node -> Node \cup {None}]
  BY <1>1 DEF QueueTypes
<1>4. FreeTreeHasEmptyQueue => FreeTreeHasEmptyQueue'
  BY <1>1 DEF QueueTypes, FreeTreeHasEmptyQueue
<1> QED BY <1>1, <1>2, <1>3, <1>4

LEMMA CancelTypes ==
  ASSUME TypeOK, NEW R \in SUBSET Node, CancelTrees(R)
  PROVE  cancelReq' \in SUBSET Node /\ state' \in [Node -> MessageState]
  BY DEF CancelTrees, CancelNodes, CancelCurrentTasks, TypeOK, MessageState

\* update_state and mark_node_error
LEMMA StateTypes ==
  ASSUME TypeOK, NEW n \in Node, NEW s \in MessageState
  PROVE  /\ UpdateState(n, s) => state' \in [Node -> MessageState]
         /\ MarkNodeError(n) => state' \in [Node -> MessageState]
  BY DEF UpdateState, MarkNodeError, TypeOK, MessageState

-----------------------------------------------------------------------------
(* Type correctness *)

\* A task that exists belongs to a prompt that was given a tree.
LEMMA HomeOfTask ==
  ASSUME TypeOK, Placed, NEW n \in Node, task[n] # "none"
  PROVE  home[n] \in Node /\ pc[n] = "placed"
  BY DEF Placed

LEMMA MessageTypes ==
  ASSUME TypeOK, Messages
  PROVE  TypeOK'
<1>1. ASSUME NEW n \in Node, NEW p \in Node \cup {None}, HandleMessage(n, p)
      PROVE  TypeOK'
  BY <1>1 DEF HandleMessage, TypeOK, repoVars, procVars, taskVars, clearVars
<1>2. ASSUME NEW n \in Node, StatusSent(n)
      PROVE  TypeOK'
  <2>1. UNCHANGED <<cancelReq, tracked, captured, clearVars, parent, state>>
    BY <1>2 DEF StatusSent
  <2>2. ASSUME NEW r \in Node, trees' \in SUBSET Node, PlaceIn(r, n)
        PROVE  TypeOK'
    <3>1. QueueTypes'
      BY <2>2, EnqueueStep DEF PlaceIn, TypeOK, QueueTypes
    <3>2. /\ pc' \in [Node -> {"new", "sending", "placed", "dropped"}]
          /\ home' \in [Node -> Node \cup {None}]
          /\ treeNodes' \in [Node -> SUBSET Node]
          /\ nodeToTree' \in [Node -> Node \cup {None}]
      BY <2>2 DEF PlaceIn, TypeOK
    <3> QED BY <2>1, <2>2, <3>1, <3>2 DEF QueueTypes, TypeOK, clearVars
  <2>3. CASE parent[n] = None /\ trees' = trees \cup {n} /\ PlaceIn(n, n)
    BY <2>2, <2>3 DEF TypeOK
  <2>4. CASE /\ parent[n] # None
             /\ Known(parent[n])
             /\ UNCHANGED trees
             /\ PlaceIn(nodeToTree[parent[n]], n)
    <3>1. nodeToTree[parent[n]] \in Node
      BY <2>4 DEF TypeOK, Known
    <3> QED BY <2>2, <2>4, <3>1 DEF TypeOK
  <2>5. CASE /\ pc' = [pc EXCEPT ![n] = "dropped"]
             /\ UNCHANGED <<repoVars, procVars, task, home>>
    BY <2>1, <2>5 DEF TypeOK, repoVars, procVars, clearVars
  <2> QED BY <1>2, <2>3, <2>4, <2>5 DEF StatusSent
<1>3. ASSUME NEW n \in Node, StatusSendFails(n)
      PROVE  TypeOK'
  BY <1>3 DEF StatusSendFails, TypeOK, repoVars, procVars, taskVars, clearVars
<1> QED BY <1>1, <1>2, <1>3 DEF Messages

LEMMA TaskTypes ==
  ASSUME TypeOK, Placed, Tasks
  PROVE  TypeOK'
<1>1. PICK n \in Node :
        \/ StartTask(n) \/ SessionInfo(n) \/ ErrorEvent(n)
        \/ \E failed \in BOOLEAN : ExitEvent(n, failed)
        \/ CompleteEvent(n) \/ TaskFails(n) \/ DeliverCancel(n)
        \/ CancelHandled(n) \/ EndTask(n)
  BY DEF Tasks
<1>2. ASSUME StartTask(n)
      PROVE  TypeOK'
  <2>1. home[n] \in Node
    BY <1>2, HomeOfTask DEF StartTask
  <2>2. UNCHANGED <<repoVars, captured, msgVars, clearVars>>
    BY <1>2 DEF StartTask
  <2>3. CASE n \in cancelReq
    <3>1. /\ task' = [task EXCEPT ![n] = "aborted"]
          /\ cancelReq' = cancelReq \ {n}
          /\ UNCHANGED <<procVars, tracked, state>>
      BY <1>2, <2>3 DEF StartTask
    <3>2. task' \in [Node -> TaskPhase] /\ cancelReq' \in SUBSET Node
      BY <3>1 DEF TypeOK, TaskPhase
    <3> QED BY <2>2, <3>1, <3>2 DEF TypeOK, repoVars, procVars, msgVars, clearVars
  <2>4. CASE n \notin cancelReq /\ state[n] = "error"
    <3>1. ProcessNext(home[n], n) /\ UNCHANGED <<cancelReq, tracked, state>>
      BY <1>2, <2>4 DEF StartTask
    <3>2. QueueTypes'
      BY <2>1, <3>1, ProcessNextStep DEF TypeOK, QueueTypes
    <3> QED BY <2>2, <3>1, <3>2 DEF TypeOK, QueueTypes, repoVars, msgVars, clearVars
  <2>5. CASE n \notin cancelReq /\ state[n] # "error"
    <3>1. task' = [task EXCEPT ![n] = "running"] /\ UNCHANGED <<procVars, cancelReq>>
      BY <1>2, <2>5 DEF StartTask
    <3>2. task' \in [Node -> TaskPhase]
      BY <3>1 DEF TypeOK, TaskPhase
    <3>3. tracked' \in SUBSET Node /\ state' \in [Node -> MessageState]
      BY <1>2, <2>5 DEF StartTask, TypeOK, MessageState
    <3> QED BY <2>2, <3>1, <3>2, <3>3 DEF TypeOK, repoVars, procVars, msgVars, clearVars
  <2> QED BY <2>3, <2>4, <2>5
<1>3. ASSUME SessionInfo(n) \/ ErrorEvent(n) \/ (\E failed \in BOOLEAN : ExitEvent(n, failed))
                \/ CompleteEvent(n) \/ TaskFails(n) \/ CancelHandled(n)
      PROVE  TypeOK'
  <2>1. state' \in [Node -> MessageState]
    <3>1. state \in [Node -> MessageState]
      BY DEF TypeOK
    <3>2. \/ UNCHANGED state \/ MarkNodeError(n)
          \/ \E s \in MessageState : UpdateState(n, s)
      BY <1>3
      DEF SessionInfo, ErrorEvent, ExitEvent, CompleteEvent, TaskFails, CancelHandled,
          MessageState
    <3> QED BY <3>1, <3>2, StateTypes
  <2>2. task' \in [Node -> TaskPhase] /\ captured' \in SUBSET Node
    <3>1. \/ UNCHANGED task
          \/ \E s \in {"exited", "closing"} : task' = [task EXCEPT ![n] = s]
      BY <1>3
      DEF SessionInfo, ErrorEvent, ExitEvent, CompleteEvent, TaskFails, CancelHandled, taskVars
    <3>2. UNCHANGED captured \/ captured' = captured \cup {n}
      BY <1>3
      DEF SessionInfo, ErrorEvent, ExitEvent, CompleteEvent, TaskFails, CancelHandled, taskVars
    <3> QED BY <3>1, <3>2 DEF TypeOK, TaskPhase
  <2>3. UNCHANGED <<repoVars, procVars, cancelReq, tracked, msgVars, clearVars>>
    BY <1>3
    DEF SessionInfo, ErrorEvent, ExitEvent, CompleteEvent, TaskFails, CancelHandled, taskVars
  <2> QED BY <2>1, <2>2, <2>3 DEF TypeOK, repoVars, procVars, msgVars, clearVars
<1>4. ASSUME DeliverCancel(n)
      PROVE  TypeOK'
  BY <1>4 DEF DeliverCancel, TypeOK, TaskPhase, repoVars, procVars, msgVars, clearVars
<1>5. ASSUME EndTask(n)
      PROVE  TypeOK'
  <2>1. home[n] \in Node
    BY <1>5, HomeOfTask DEF EndTask
  <2>2. QueueTypes'
    BY <1>5, <2>1, ProcessNextStep DEF EndTask, TypeOK, QueueTypes
  <2> QED BY <1>5, <2>2 DEF EndTask, TypeOK, QueueTypes, repoVars, msgVars, clearVars
<1> QED BY <1>1, <1>2, <1>3, <1>4, <1>5

LEMMA CommandTypes ==
  ASSUME TypeOK, UserCommands
  PROVE  TypeOK'
<1>1. ASSUME NEW n \in Node, StopNode(n)
      PROVE  TypeOK'
  <2>1. nodeToTree[n] \in Node
    BY <1>1 DEF StopNode, Known, TypeOK
  <2>2. queue' = [queue EXCEPT ![nodeToTree[n]] = Without(queue[nodeToTree[n]], {n})]
    BY <1>1, <2>1 DEF StopNode
  <2>3. queue' \in [Node -> Seq(Node)]
    BY <2>1, <2>2, WithoutProperties DEF TypeOK
  <2>4. cancelReq' \in SUBSET Node
    BY <1>1 DEF StopNode, CancelCurrentTasks, TypeOK
  <2>5. state' \in [Node -> MessageState]
    BY <1>1 DEF StopNode, TypeOK, MessageState
  <2> QED BY <1>1, <2>3, <2>4, <2>5
          DEF StopNode, TypeOK, repoVars, msgVars, clearVars
<1>2. ASSUME NEW n \in Node, ClearBranch(n)
      PROVE  TypeOK'
  <2> DEFINE r == nodeToTree[n]
             hit == {m \in Descendants(r, n) : state[m] \notin Terminal}
  <2>1. r \in Node
    BY <1>2 DEF ClearBranch, Known, TypeOK
  <2>2. queue' = [queue EXCEPT ![r] = Without(queue[r], hit \ {current[r]})]
    BY <1>2, <2>1 DEF ClearBranch
  <2>3. queue' \in [Node -> Seq(Node)]
    <3> HIDE DEF hit, r
    <3> QED BY <2>1, <2>2, WithoutProperties DEF TypeOK
  <2>4. cancelReq' \in SUBSET Node
    BY <1>2 DEF ClearBranch, CancelCurrentTasks, TypeOK
  <2>5. state' \in [Node -> MessageState]
    BY <1>2 DEF ClearBranch, TypeOK, MessageState
  <2>6. /\ clearing' \in SUBSET Node
        /\ UNCHANGED <<repoVars, isProcessing, current, currentTask, task,
                       tracked, captured, msgVars, clearingAll>>
    BY <1>2 DEF ClearBranch, TypeOK
  <2> QED BY <2>3, <2>4, <2>5, <2>6 DEF TypeOK, repoVars, msgVars
<1>3. ASSUME NEW n \in Node, RemoveBranch(n)
      PROVE  TypeOK'
  <2>1. /\ clearing' \in SUBSET Node
        /\ UNCHANGED <<task, tracked, captured, msgVars, clearingAll>>
    BY <1>3 DEF RemoveBranch, TypeOK
  <2>2. CASE UNCHANGED <<repoVars, procVars, cancelReq, state>>
    BY <2>1, <2>2 DEF TypeOK, repoVars, procVars, msgVars
  <2>3. CASE /\ nodeToTree[n] = n
             /\ CancelTrees({n})
             /\ trees' = trees \ {n}
             /\ nodeToTree' = [m \in Node |-> IF m \in treeNodes[n] THEN None ELSE nodeToTree[m]]
             /\ UNCHANGED <<treeNodes, currentTask>>
    <3>1. cancelReq' \in SUBSET Node /\ state' \in [Node -> MessageState]
      BY <2>3, CancelTypes
    <3>2. /\ queue' \in [Node -> Seq(Node)]
          /\ isProcessing' \in [Node -> BOOLEAN]
          /\ current' \in [Node -> Node \cup {None}]
      BY <2>3, CancelTreesStep DEF TypeOK, QueueTypes
    <3>3. trees' \in SUBSET Node /\ nodeToTree' \in [Node -> Node \cup {None}]
      BY <2>3 DEF TypeOK
    <3> QED BY <2>1, <2>3, <3>1, <3>2, <3>3 DEF TypeOK, msgVars
  <2>4. CASE /\ Known(n)
             /\ LET gone == Descendants(nodeToTree[n], n)
                IN  /\ treeNodes' = [treeNodes EXCEPT ![nodeToTree[n]] = @ \ gone]
                    /\ nodeToTree' = [m \in Node |-> IF m \in gone THEN None ELSE nodeToTree[m]]
             /\ UNCHANGED <<trees, procVars, cancelReq, state>>
    <3>1. nodeToTree' \in [Node -> Node \cup {None}]
      BY <2>4 DEF TypeOK
    <3>2. treeNodes' \in [Node -> SUBSET Node]
      BY <2>4 DEF TypeOK
    <3> QED BY <2>1, <2>4, <3>1, <3>2 DEF TypeOK, procVars, msgVars
  <2> QED BY <1>3, <2>2, <2>3, <2>4 DEF RemoveBranch
<1>4. ASSUME StopAll \/ ClearAll
      PROVE  TypeOK'
  <2>1. /\ CancelTrees(trees) /\ trees \in SUBSET Node
        /\ clearingAll' \in BOOLEAN
        /\ UNCHANGED <<repoVars, currentTask, task, tracked, captured, msgVars, clearing>>
    BY <1>4 DEF StopAll, ClearAll, TypeOK, clearVars
  <2>2. cancelReq' \in SUBSET Node /\ state' \in [Node -> MessageState]
    BY <2>1, CancelTypes
  <2>3. /\ queue' \in [Node -> Seq(Node)]
        /\ isProcessing' \in [Node -> BOOLEAN]
        /\ current' \in [Node -> Node \cup {None}]
    BY <2>1, CancelTreesStep DEF TypeOK, QueueTypes
  <2> QED BY <2>1, <2>2, <2>3 DEF TypeOK, repoVars, msgVars
<1>5. ASSUME ReplaceTreeQueue
      PROVE  TypeOK'
  BY <1>5 DEF ReplaceTreeQueue, TypeOK, procVars, taskVars, msgVars
<1> QED BY <1>1, <1>2, <1>3, <1>4, <1>5 DEF UserCommands

LEMMA TypeStep ==
  ASSUME TypeOK, Placed, [Next]_vars
  PROVE  TypeOK'
<1>1. CASE Next
  BY <1>1, MessageTypes, TaskTypes, CommandTypes DEF Next
<1>2. CASE UNCHANGED vars
  BY <1>2 DEF vars, repoVars, procVars, taskVars, msgVars, clearVars, TypeOK
<1> QED BY <1>1, <1>2

-----------------------------------------------------------------------------
(* The steps, by what they do to the trees and their queues *)

\* A step that moves no prompt, tree or queue and neither creates nor begins a
\* task.
QuietStep ==
  /\ UNCHANGED <<trees, nodeToTree, treeNodes, pc, parent, home, queue, isProcessing>>
  /\ \A n \in Node : task'[n] # task[n] => /\ task[n] # "none"
                                           /\ task'[n] \notin {"none", "created"}

\* A step of a task's coroutine that may hand its tree on
HandoverStep(n) ==
  /\ task[n] # "none"
  /\ UNCHANGED <<trees, nodeToTree, treeNodes, pc, parent, home>>
  /\ ProcessNext(home[n], n)

\* A step that empties the queues of the trees in R
CancelStep(R) ==
  /\ CancelTrees(R)
  /\ UNCHANGED <<trees, nodeToTree, treeNodes, pc, parent, home, task>>

\* A step that withdraws the prompts of S from the queue of r
WithdrawStep(r, S) ==
  /\ queue' = [queue EXCEPT ![r] = Without(queue[r], S)]
  /\ UNCHANGED <<trees, nodeToTree, treeNodes, pc, parent, home, isProcessing, task>>

LEMMA TaskCases ==
  ASSUME TypeOK, Tasks
  PROVE  QuietStep \/ \E n \in Node : HandoverStep(n)
<1>1. PICK n \in Node :
        \/ StartTask(n) \/ SessionInfo(n) \/ ErrorEvent(n)
        \/ \E failed \in BOOLEAN : ExitEvent(n, failed)
        \/ CompleteEvent(n) \/ TaskFails(n) \/ DeliverCancel(n)
        \/ CancelHandled(n) \/ EndTask(n)
  BY DEF Tasks
<1>2. CASE StartTask(n)
  BY <1>2 DEF StartTask, QuietStep, HandoverStep, TypeOK, repoVars, procVars, msgVars
<1>3. CASE SessionInfo(n) \/ ErrorEvent(n)
  BY <1>3 DEF SessionInfo, ErrorEvent, QuietStep, repoVars, procVars, msgVars, taskVars
<1>4. CASE \/ \E failed \in BOOLEAN : ExitEvent(n, failed)
           \/ CompleteEvent(n) \/ TaskFails(n) \/ DeliverCancel(n) \/ CancelHandled(n)
  BY <1>4 DEF ExitEvent, CompleteEvent, TaskFails, DeliverCancel, CancelHandled,
              QuietStep, TypeOK, repoVars, procVars, msgVars
<1>5. CASE EndTask(n)
  BY <1>5 DEF EndTask, HandoverStep, repoVars, msgVars
<1> QED BY <1>1, <1>2, <1>3, <1>4, <1>5

LEMMA CommandCases ==
  ASSUME TypeOK, UserCommands
  PROVE  \/ QuietStep
         \/ \E r \in Node : \E S : WithdrawStep(r, S)
         \/ CancelStep(trees)
         \/ \E n \in Node : RemoveBranch(n)
         \/ ReplaceTreeQueue
<1>1. ASSUME NEW n \in Node, StopNode(n)
      PROVE  \E r \in Node : \E S : WithdrawStep(r, S)
  <2>1. nodeToTree[n] \in Node
    BY <1>1 DEF StopNode, Known, TypeOK
  <2>2. WithdrawStep(nodeToTree[n], {n})
    BY <1>1, <2>1 DEF StopNode, WithdrawStep, repoVars, msgVars
  <2> QED BY <2>1, <2>2
<1>2. ASSUME NEW n \in Node, ClearBranch(n)
      PROVE  \E r \in Node : \E S : WithdrawStep(r, S)
  <2> DEFINE r == nodeToTree[n]
             hit == {m \in Descendants(r, n) : state[m] \notin Terminal}
  <2>1. r \in Node
    BY <1>2 DEF ClearBranch, Known, TypeOK
  <2>2. WithdrawStep(r, hit \ {current[r]})
    BY <1>2, <2>1 DEF ClearBranch, WithdrawStep, repoVars, msgVars
  <2> HIDE DEF r, hit
  <2> QED BY <2>1, <2>2
<1>3. ASSUME StopAll \/ ClearAll
      PROVE  CancelStep(trees)
  BY <1>3 DEF StopAll, ClearAll, CancelStep, repoVars, msgVars
<1> QED BY <1>1, <1>2, <1>3 DEF UserCommands

LEMMA NextCases ==
  ASSUME TypeOK, [Next]_vars
  PROVE  \/ QuietStep
         \/ \E n \in Node : HandoverStep(n)
         \/ \E r \in Node : \E S : WithdrawStep(r, S)
         \/ CancelStep(trees)
         \/ \E n \in Node : RemoveBranch(n)
         \/ ReplaceTreeQueue
         \/ Messages
<1>1. CASE UNCHANGED vars
  BY <1>1 DEF vars, QuietStep, repoVars, procVars, msgVars, taskVars
<1> QED BY <1>1, TaskCases, CommandCases DEF Next

\* A prompt enters a tree: its own, or the one of the prompt it replies to.
LEMMA MessageCases ==
  ASSUME TypeOK, Messages
  PROVE  \E n \in Node :
           \/ \E p \in Node \cup {None} : HandleMessage(n, p)
           \/ /\ pc[n] = "sending"
              /\ pc' = [pc EXCEPT ![n] = "dropped"]
              /\ UNCHANGED <<trees, nodeToTree, treeNodes, parent, home, queue,
                             isProcessing, task>>
           \/ /\ pc[n] = "sending"
              /\ UNCHANGED parent
              /\ \/ parent[n] = None /\ trees' = trees \cup {n} /\ PlaceIn(n, n)
                 \/ /\ parent[n] # None
                    /\ Known(parent[n])
                    /\ UNCHANGED trees
                    /\ PlaceIn(nodeToTree[parent[n]], n)
  BY DEF Messages, StatusSent, StatusSendFails, repoVars, procVars, taskVars

\* The root branch of remove_branch, and the rest of it
LEMMA RemoveCases ==
  ASSUME TypeOK, NEW n \in Node, RemoveBranch(n)
  PROVE  /\ UNCHANGED <<task, pc, parent, home>>
         /\ \/ UNCHANGED <<trees, nodeToTree, treeNodes, queue, isProcessing>>
            \/ /\ nodeToTree[n] = n
               /\ CancelTrees({n})
               /\ trees' = trees \ {n}
               /\ nodeToTree' = [m \in Node |-> IF m \in treeNodes[n] THEN None ELSE nodeToTree[m]]
               /\ UNCHANGED treeNodes
            \/ \E r \in Node, gone \in SUBSET Node :
                 /\ r = nodeToTree[n] /\ r # n
                 /\ gone = Descendants(r, n)
                 /\ treeNodes' = [treeNodes EXCEPT ![r] = @ \ gone]
                 /\ nodeToTree' = [m \in Node |-> IF m \in gone THEN None ELSE nodeToTree[m]]
                 /\ UNCHANGED <<trees, queue, isProcessing>>
<1>1. UNCHANGED <<task, pc, parent, home>>
  BY DEF RemoveBranch, msgVars
<1>2. CASE UNCHANGED <<repoVars, procVars, cancelReq, state>>
  BY <1>1, <1>2 DEF repoVars, procVars
<1>3. CASE /\ nodeToTree[n] = n
           /\ CancelTrees({n})
           /\ trees' = trees \ {n}
           /\ nodeToTree' = [m \in Node |-> IF m \in treeNodes[n] THEN None ELSE nodeToTree[m]]
           /\ UNCHANGED <<treeNodes, currentTask>>
  BY <1>1, <1>3
<1>4. CASE /\ Known(n)
           /\ nodeToTree[n] # n
           /\ LET r == nodeToTree[n]
                  gone == Descendants(r, n)
              IN  /\ treeNodes' = [treeNodes EXCEPT ![r] = @ \ gone]
                  /\ nodeToTree' = [m \in Node |-> IF m \in gone THEN None ELSE nodeToTree[m]]
           /\ UNCHANGED <<trees, procVars, cancelReq, state>>
  <2>1. nodeToTree[n] \in Node
    BY <1>4 DEF Known, TypeOK
  <2>2. Descendants(nodeToTree[n], n) \in SUBSET Node
    BY <2>1 DEF Descendants, TypeOK
  <2> QED BY <1>1, <1>4, <2>1, <2>2 DEF procVars
<1> QED BY <1>1, <1>2, <1>3, <1>4 DEF RemoveBranch

-----------------------------------------------------------------------------
(* Each part of the invariant is preserved *)

LEMMA FreeStep ==
  ASSUME TypeOK, Placed, FreeTreeHasEmptyQueue, [Next]_vars
  PROVE  FreeTreeHasEmptyQueue'
<1> QueueTypes
  BY DEF TypeOK, QueueTypes
<1>1. CASE QuietStep \/ ReplaceTreeQueue
  BY <1>1 DEF QuietStep, ReplaceTreeQueue, procVars, FreeTreeHasEmptyQueue
<1>2. ASSUME NEW n \in Node, HandoverStep(n)
      PROVE  FreeTreeHasEmptyQueue'
  BY <1>2, HomeOfTask, ProcessNextStep DEF HandoverStep
<1>3. ASSUME NEW r \in Node, NEW S, WithdrawStep(r, S)
      PROVE  FreeTreeHasEmptyQueue'
  BY <1>3, WithoutProperties DEF WithdrawStep, FreeTreeHasEmptyQueue, TypeOK
<1>4. CASE CancelStep(trees)
  BY <1>4, CancelTreesStep DEF CancelStep, TypeOK
<1>5. ASSUME NEW n \in Node, RemoveBranch(n)
      PROVE  FreeTreeHasEmptyQueue'
  <2>1. CASE CancelTrees({n})
    BY <2>1, CancelTreesStep
  <2>2. CASE UNCHANGED <<queue, isProcessing>>
    BY <2>2 DEF FreeTreeHasEmptyQueue
  <2> QED BY <1>5, <2>1, <2>2, RemoveCases
<1>6. CASE Messages
  <2>1. PICK n \in Node :
          \/ UNCHANGED <<queue, isProcessing>>
          \/ EnqueueAndStart(n, n)
          \/ Known(parent[n]) /\ parent[n] # None /\ EnqueueAndStart(nodeToTree[parent[n]], n)
    BY <1>6, MessageCases DEF HandleMessage, procVars, PlaceIn
  <2>2. Known(parent[n]) /\ parent[n] # None => nodeToTree[parent[n]] \in Node
    BY DEF Known, TypeOK
  <2> QED BY <2>1, <2>2, EnqueueStep DEF FreeTreeHasEmptyQueue
<1> QED BY <1>1, <1>2, <1>3, <1>4, <1>5, <1>6, NextCases

LEMMA HeadIsWaiting ==
  ASSUME QueueTypes, QueuedIsUnstarted, NEW r \in Node, queue[r] # <<>>
  PROVE  /\ Head(queue[r]) \in Node
         /\ home[Head(queue[r])] = r
         /\ task[Head(queue[r])] = "none"
<1>1. 1 \in DOMAIN queue[r] /\ Head(queue[r]) = queue[r][1] /\ queue[r][1] \in Node
  BY DEF QueueTypes
<1> QED BY <1>1 DEF QueuedIsUnstarted

LEMMA PlacedStep ==
  ASSUME TypeOK, Placed, QueuedIsUnstarted, IndexMatchesTrees, [Next]_vars
  PROVE  Placed'
<1> QueueTypes
  BY DEF TypeOK, QueueTypes
<1>1. CASE QuietStep
  BY <1>1 DEF QuietStep, Placed
<1>2. ASSUME NEW n \in Node, HandoverStep(n)
      PROVE  Placed'
  <2>1. home[n] \in Node /\ pc[n] = "placed"
    BY <1>2, HomeOfTask DEF HandoverStep
  <2>2. \A m \in Node : task'[m] # task[m] => pc[m] = "placed"
    <3>1. CASE queue[home[n]] = <<>>
      BY <1>2, <2>1, <3>1, ProcessNextStep DEF HandoverStep, QueueTypes
    <3>2. CASE queue[home[n]] # <<>>
      <4> DEFINE h == Head(queue[home[n]])
      <4>1. h \in Node /\ home[h] \in Node
        BY <2>1, <3>2, HeadIsWaiting
      <4>2. pc[h] = "placed"
        BY <4>1, NoneIsNoNode DEF Placed
      <4>3. \/ task' = [task EXCEPT ![n] = "done"]
            \/ task' = [task EXCEPT ![n] = "done", ![h] = "created"]
        BY <1>2, <2>1, <3>2, ProcessNextStep DEF HandoverStep
      <4> QED BY <2>1, <4>1, <4>2, <4>3 DEF QueueTypes
    <3> QED BY <3>1, <3>2
  <2> QED BY <1>2, <2>2 DEF HandoverStep, Placed
<1>3. ASSUME NEW r \in Node, NEW S, WithdrawStep(r, S)
      PROVE  Placed'
  BY <1>3 DEF WithdrawStep, Placed
<1>4. CASE CancelStep(trees)
  BY <1>4 DEF CancelStep, Placed
<1>5. ASSUME NEW n \in Node, RemoveBranch(n)
      PROVE  Placed'
  <2>1. /\ UNCHANGED <<task, pc, parent, home>>
        /\ \A r \in Node : treeNodes'[r] \subseteq treeNodes[r]
        /\ trees' \subseteq trees
    <3>1. CASE UNCHANGED <<trees, treeNodes>>
      BY <1>5, <3>1, RemoveCases
    <3>2. CASE trees' = trees \ {n} /\ UNCHANGED treeNodes
      BY <1>5, <3>2, RemoveCases
    <3>3. ASSUME NEW r \in Node, NEW gone \in SUBSET Node, UNCHANGED trees,
                 treeNodes' = [treeNodes EXCEPT ![r] = @ \ gone]
          PROVE  \A t \in Node : treeNodes'[t] \subseteq treeNodes[t]
      BY <3>3 DEF TypeOK
    <3> QED BY <1>5, <3>1, <3>2, <3>3, RemoveCases
  <2> QED BY <2>1 DEF Placed
<1>6. CASE ReplaceTreeQueue
  BY <1>6 DEF ReplaceTreeQueue, Placed, msgVars, taskVars
<1>7. CASE Messages
  <2>1. ASSUME NEW n \in Node, NEW r \in Node, pc[n] = "sending", PlaceIn(r, n),
               r = n \/ pc[r] = "placed", trees' = trees \/ trees' = trees \cup {n}
        PROVE  Placed'
    <3>1. /\ pc' = [pc EXCEPT ![n] = "placed"]
          /\ home' = [home EXCEPT ![n] = r]
          /\ treeNodes' = [treeNodes EXCEPT ![r] = @ \cup {n}]
          /\ \A m \in Node : task'[m] # task[m] => m = n
      BY <2>1, EnqueueStep DEF PlaceIn
    <3>2. home[n] = None /\ \A t \in Node : n \notin treeNodes[t]
      BY <2>1, NoneIsNoNode DEF Placed
    <3> QED BY <2>1, <3>1, <3>2 DEF Placed, TypeOK
  <2>2. PICK n \in Node :
           \/ \E p \in Node \cup {None} : HandleMessage(n, p)
           \/ /\ pc[n] = "sending"
              /\ pc' = [pc EXCEPT ![n] = "dropped"]
              /\ UNCHANGED <<trees, nodeToTree, treeNodes, parent, home, queue,
                             isProcessing, task>>
           \/ /\ pc[n] = "sending"
              /\ UNCHANGED parent
              /\ \/ parent[n] = None /\ trees' = trees \cup {n} /\ PlaceIn(n, n)
                 \/ /\ parent[n] # None
                    /\ Known(parent[n])
                    /\ UNCHANGED trees
                    /\ PlaceIn(nodeToTree[parent[n]], n)
    BY <1>7, MessageCases
  <2>3. ASSUME NEW p \in Node \cup {None}, HandleMessage(n, p)
        PROVE  Placed'
    BY <2>3 DEF HandleMessage, Placed, TypeOK, repoVars, taskVars
  <2>4. CASE /\ pc[n] = "sending"
             /\ pc' = [pc EXCEPT ![n] = "dropped"]
             /\ UNCHANGED <<trees, nodeToTree, treeNodes, parent, home, queue,
                            isProcessing, task>>
    BY <2>4 DEF Placed, TypeOK
  <2>5. ASSUME parent[n] # None, Known(parent[n])
        PROVE  nodeToTree[parent[n]] \in trees /\ nodeToTree[parent[n]] \in Node
    BY <2>5 DEF Known, TypeOK, IndexMatchesTrees
  <2>6. \A r \in trees : pc[r] = "placed"
    BY DEF Placed
  <2> QED BY <2>1, <2>2, <2>3, <2>4, <2>5, <2>6
<1> QED BY <1>1, <1>2, <1>3, <1>4, <1>5, <1>6, <1>7, NextCases

LEMMA QueueStep ==
  ASSUME TypeOK, Placed, QueuedIsUnstarted, IndexMatchesTrees, [Next]_vars
  PROVE  QueuedIsUnstarted'
<1> QueueTypes
  BY DEF TypeOK, QueueTypes
<1>1. CASE QuietStep
  <2>1. \A r \in Node : \A i \in DOMAIN queue[r] : queue[r][i] \in Node
    BY DEF QueueTypes
  <2> QED BY <1>1, <2>1 DEF QuietStep, QueuedIsUnstarted
<1>2. ASSUME NEW n \in Node, HandoverStep(n)
      PROVE  QueuedIsUnstarted'
  <2> DEFINE t == home[n]
  <2>1. t \in Node /\ task[n] # "none"
    BY <1>2, HomeOfTask DEF HandoverStep
  <2>2. CASE queue[t] = <<>>
    <3>1. queue' = queue /\ task' = [task EXCEPT ![n] = "done"] /\ home' = home
      BY <1>2, <2>1, <2>2, ProcessNextStep DEF HandoverStep
    <3>2. \A r \in Node : \A i \in DOMAIN queue[r] : queue[r][i] \in Node \ {n}
      BY <2>1 DEF QueueTypes, QueuedIsUnstarted
    <3> QED BY <3>1, <3>2 DEF QueuedIsUnstarted, QueueTypes
  <2>3. CASE queue[t] # <<>>
    <3> DEFINE h == Head(queue[t])
    <3>1. /\ queue' = [queue EXCEPT ![t] = Tail(@)]
          /\ \A m \in Node \ {n, h} : task'[m] = task[m]
          /\ home' = home
      <4>1. \/ task' = [task EXCEPT ![n] = "done"]
            \/ task' = [task EXCEPT ![n] = "done", ![h] = "created"]
        BY <1>2, <2>1, <2>3, ProcessNextStep DEF HandoverStep
      <4> QED BY <1>2, <2>1, <2>3, <4>1, ProcessNextStep DEF HandoverStep, QueueTypes
    <3>2. \A r \in Node : \A i \in DOMAIN queue[r] :
            /\ queue[r][i] \in Node \ {n}
            /\ home[queue[r][i]] = r
            /\ task[queue[r][i]] = "none"
            /\ \A j \in DOMAIN queue[r] : queue[r][j] = queue[r][i] => j = i
      BY <2>1 DEF QueueTypes, QueuedIsUnstarted
    <3>3. h = queue[t][1] /\ home[h] = t
      BY <2>1, <2>3, HeadIsWaiting DEF QueueTypes
    <3>4. \A i \in DOMAIN Tail(queue[t]) : /\ i \in Nat /\ i + 1 \in DOMAIN queue[t]
                                          /\ Tail(queue[t])[i] = queue[t][i + 1]
                                          /\ i + 1 # 1
      BY <2>1, <2>3 DEF QueueTypes
    <3>5. 1 \in DOMAIN queue[t]
      BY <2>1, <2>3 DEF QueueTypes
    <3>6. ASSUME NEW i \in DOMAIN Tail(queue[t])
          PROVE  /\ home'[Tail(queue[t])[i]] = t
                 /\ task'[Tail(queue[t])[i]] = "none"
                 /\ \A j \in DOMAIN Tail(queue[t]) :
                      Tail(queue[t])[j] = Tail(queue[t])[i] => j = i
      <4>1. /\ i + 1 \in DOMAIN queue[t] /\ i + 1 # 1
            /\ Tail(queue[t])[i] = queue[t][i + 1]
        BY <3>4
      <4>2. queue[t][i + 1] # h
        BY <2>1, <3>2, <3>3, <3>5, <4>1
      <4>3. home'[queue[t][i + 1]] = t /\ task'[queue[t][i + 1]] = "none"
        BY <2>1, <3>1, <3>2, <4>1, <4>2
      <4>4. \A j \in DOMAIN Tail(queue[t]) :
              Tail(queue[t])[j] = Tail(queue[t])[i] => j + 1 = i + 1
        BY <2>1, <3>2, <3>4
      <4>5. \A j \in DOMAIN Tail(queue[t]) : j + 1 = i + 1 => j = i
        BY <3>4
      <4> QED BY <4>1, <4>3, <4>4, <4>5
    <3>7. ASSUME NEW r \in Node, r # t, NEW i \in DOMAIN queue[r]
          PROVE  /\ home'[queue[r][i]] = r
                 /\ task'[queue[r][i]] = "none"
                 /\ \A j \in DOMAIN queue[r] : queue[r][j] = queue[r][i] => j = i
      <4>1. queue[r][i] # h
        BY <3>2, <3>3, <3>7
      <4> QED BY <3>1, <3>2, <4>1
    <3>8. /\ queue'[t] = Tail(queue[t])
          /\ \A r \in Node : r # t => queue'[r] = queue[r]
      BY <2>1, <3>1 DEF QueueTypes
    <3> HIDE DEF t, h
    <3> SUFFICES ASSUME NEW r \in Node, NEW i \in DOMAIN queue'[r]
                 PROVE  /\ home'[queue'[r][i]] = r
                        /\ task'[queue'[r][i]] = "none"
                        /\ \A j \in DOMAIN queue'[r] : queue'[r][j] = queue'[r][i] => j = i
      BY DEF QueuedIsUnstarted
    <3>9. CASE r = t
      <4>1. queue'[r] = Tail(queue[t])
        BY <3>8, <3>9
      <4> QED BY <3>6, <3>9, <4>1
    <3>10. CASE r # t
      <4>1. queue'[r] = queue[r]
        BY <3>8, <3>10
      <4> QED BY <3>7, <3>10, <4>1
    <3> QED BY <3>9, <3>10
  <2> QED BY <2>2, <2>3
<1>3. ASSUME NEW t \in Node, NEW S, WithdrawStep(t, S)
      PROVE  QueuedIsUnstarted'
  <2> DEFINE w == Without(queue[t], S)
  <2>1. /\ \A j \in DOMAIN w : \E i \in DOMAIN queue[t] : w[j] = queue[t][i]
        /\ \A i, j \in DOMAIN w : w[i] = w[j] => i = j
    <3>1. \A i, j \in DOMAIN queue[t] : queue[t][i] = queue[t][j] => i = j
      BY DEF QueuedIsUnstarted
    <3>2. queue[t] \in Seq(Node)
      BY DEF QueueTypes
    <3> QED BY <3>1, <3>2, WithoutDistinct
  <2>2. \A r \in Node : queue'[r] = IF r = t THEN w ELSE queue[r]
    BY <1>3 DEF WithdrawStep, QueueTypes
  <2>3. home' = home /\ task' = task
    BY <1>3 DEF WithdrawStep
  <2> HIDE DEF w
  <2> QED BY <2>1, <2>2, <2>3 DEF QueuedIsUnstarted
<1>4. ASSUME NEW R \in SUBSET Node, CancelTrees(R), UNCHANGED <<home, task>>
      PROVE  QueuedIsUnstarted'
  <2>1. \A r \in Node : queue'[r] = queue[r] \/ queue'[r] = <<>>
    BY <1>4, CancelTreesStep
  <2>2. DOMAIN <<>> = {}
    OBVIOUS
  <2>3. ASSUME NEW r \in Node, NEW i \in DOMAIN queue'[r]
        PROVE  queue'[r] = queue[r]
    BY <2>1, <2>2, <2>3
  <2> QED BY <1>4, <2>3 DEF QueuedIsUnstarted
<1>5. CASE CancelStep(trees)
  BY <1>4, <1>5 DEF CancelStep, TypeOK
<1>6. ASSUME NEW n \in Node, RemoveBranch(n)
      PROVE  QueuedIsUnstarted'
  <2>1. /\ UNCHANGED <<home, task>>
        /\ CancelTrees({n}) \/ UNCHANGED queue
    BY <1>6, RemoveCases
  <2> QED BY <1>4, <2>1 DEF QueuedIsUnstarted
<1>7. CASE ReplaceTreeQueue
  BY <1>7 DEF ReplaceTreeQueue, procVars, taskVars, msgVars, QueuedIsUnstarted
<1>8. CASE Messages
  <2>1. ASSUME NEW n \in Node, NEW t \in Node, pc[n] = "sending", PlaceIn(t, n)
        PROVE  QueuedIsUnstarted'
    <3>1. home[n] = None /\ task[n] = "none"
      BY <2>1 DEF Placed
    <3>2. \A r \in Node : \A i \in DOMAIN queue[r] : queue[r][i] \in Node \ {n}
      BY <3>1, NoneIsNoNode DEF QueuedIsUnstarted, QueueTypes
    <3>3. /\ home' = [home EXCEPT ![n] = t]
          /\ EnqueueAndStart(t, n)
      BY <2>1 DEF PlaceIn
    <3>4. CASE UNCHANGED queue /\ StartNow(t, n)
      <4>1. \A m \in Node \ {n} : home'[m] = home[m] /\ task'[m] = task[m]
        BY <3>3, <3>4 DEF StartNow, TypeOK
      <4> QED BY <3>2, <3>4, <4>1 DEF QueuedIsUnstarted
    <3>5. CASE queue' = [queue EXCEPT ![t] = Append(@, n)] /\ UNCHANGED task
      <4>1. \A m \in Node \ {n} : home'[m] = home[m] /\ task'[m] = task[m]
        BY <3>3, <3>5 DEF TypeOK
      <4>2. home'[n] = t /\ task'[n] = "none"
        BY <3>1, <3>3, <3>5 DEF TypeOK
      <4>3. \A r \in Node : queue'[r] = IF r = t THEN Append(queue[r], n) ELSE queue[r]
        BY <3>5 DEF QueueTypes
      <4>4. \A i \in DOMAIN Append(queue[t], n) :
              \/ i \in DOMAIN queue[t] /\ Append(queue[t], n)[i] = queue[t][i]
              \/ i = Len(queue[t]) + 1 /\ Append(queue[t], n)[i] = n
        BY DEF QueueTypes
      <4>5. ASSUME NEW r \in Node, r # t
            PROVE  \A i \in DOMAIN queue'[r] :
                     /\ home'[queue'[r][i]] = r
                     /\ task'[queue'[r][i]] = "none"
                     /\ \A j \in DOMAIN queue'[r] : queue'[r][j] = queue'[r][i] => j = i
        BY <3>2, <4>1, <4>3, <4>5 DEF QueuedIsUnstarted
      <4>6. ASSUME NEW i \in DOMAIN Append(queue[t], n)
            PROVE  /\ home'[Append(queue[t], n)[i]] = t
                   /\ task'[Append(queue[t], n)[i]] = "none"
                   /\ \A j \in DOMAIN Append(queue[t], n) :
                        Append(queue[t], n)[j] = Append(queue[t], n)[i] => j = i
        BY <3>2, <4>1, <4>2, <4>4 DEF QueuedIsUnstarted
      <4> SUFFICES ASSUME NEW r \in Node, NEW i \in DOMAIN queue'[r]
                   PROVE  /\ home'[queue'[r][i]] = r
                          /\ task'[queue'[r][i]] = "none"
                          /\ \A j \in DOMAIN queue'[r] : queue'[r][j] = queue'[r][i] => j = i
        BY DEF QueuedIsUnstarted
      <4>7. CASE r = t
        <5>1. queue'[r] = Append(queue[t], n)
          BY <4>3, <4>7
        <5> QED BY <4>6, <4>7, <5>1
      <4>8. CASE r # t
        BY <4>5, <4>8
      <4> QED BY <4>7, <4>8
    <3> QED BY <3>3, <3>4, <3>5 DEF EnqueueAndStart
  <2>2. ASSUME NEW n \in Node, NEW p \in Node \cup {None}, HandleMessage(n, p)
        PROVE  QueuedIsUnstarted'
    BY <2>2 DEF HandleMessage, procVars, taskVars, QueuedIsUnstarted
  <2>3. ASSUME UNCHANGED <<home, queue, task>>
        PROVE  QueuedIsUnstarted'
    BY <2>3 DEF QueuedIsUnstarted
  <2>4. ASSUME NEW n \in Node, Known(parent[n]), parent[n] # None
        PROVE  nodeToTree[parent[n]] \in Node
    BY <2>4 DEF Known, TypeOK
  <2> QED BY <1>8, <2>1, <2>2, <2>3, <2>4, MessageCases
<1> QED BY <1>1, <1>2, <1>3, <1>5, <1>6, <1>7, <1>8, NextCases

LEMMA IndexStep ==
  ASSUME TypeOK, Placed, IndexMatchesTrees, [Next]_vars
  PROVE  IndexMatchesTrees'
<1>1. ASSUME UNCHANGED <<trees, nodeToTree, treeNodes>>
      PROVE  IndexMatchesTrees'
  BY <1>1 DEF IndexMatchesTrees
<1>2. ASSUME NEW n \in Node, RemoveBranch(n)
      PROVE  IndexMatchesTrees'
  <2>1. CASE /\ nodeToTree[n] = n
             /\ trees' = trees \ {n}
             /\ nodeToTree' = [m \in Node |-> IF m \in treeNodes[n] THEN None ELSE nodeToTree[m]]
             /\ UNCHANGED treeNodes
    <3>1. n \in trees
      BY <2>1 DEF IndexMatchesTrees
    <3> QED BY <2>1, <3>1, NoneIsNoNode DEF IndexMatchesTrees
  <2>2. ASSUME NEW r \in Node, NEW gone \in SUBSET Node,
               r = nodeToTree[n], gone = Descendants(r, n),
               treeNodes' = [treeNodes EXCEPT ![r] = @ \ gone],
               nodeToTree' = [m \in Node |-> IF m \in gone THEN None ELSE nodeToTree[m]],
               UNCHANGED trees
        PROVE  IndexMatchesTrees'
    <3>1. gone \subseteq treeNodes[r]
      BY <2>2 DEF Descendants
    <3>2. \A t \in Node : treeNodes'[t] = IF t = r THEN treeNodes[r] \ gone ELSE treeNodes[t]
      BY <2>2 DEF TypeOK
    <3>3. \A m \in gone : nodeToTree[m] = r
      BY <2>2, <3>1 DEF IndexMatchesTrees
    <3> SUFFICES ASSUME NEW m \in Node, NEW t \in Node
                 PROVE  (nodeToTree[m] = t <=> t \in trees /\ m \in treeNodes[t])' 
      BY DEF IndexMatchesTrees
    <3>4. CASE m \in gone
      <4>1. nodeToTree'[m] # t
        BY <2>2, <3>4, NoneIsNoNode
      <4>2. ~(t \in trees /\ m \in treeNodes'[t])
        BY <3>2, <3>3, <3>4 DEF IndexMatchesTrees
      <4> QED BY <2>2, <4>1, <4>2
    <3>5. CASE m \notin gone
      BY <2>2, <3>2, <3>5 DEF IndexMatchesTrees
    <3> QED BY <3>4, <3>5
  <2> QED BY <1>1, <1>2, <2>1, <2>2, RemoveCases
<1>3. CASE ReplaceTreeQueue
  BY <1>3, NoneIsNoNode DEF ReplaceTreeQueue, IndexMatchesTrees
<1>4. CASE Messages
  <2>1. ASSUME NEW n \in Node, NEW r \in Node, pc[n] = "sending", PlaceIn(r, n),
               \/ r = n /\ trees' = trees \cup {n}
               \/ r \in trees /\ trees' = trees
        PROVE  IndexMatchesTrees'
    <3>1. \A t \in Node : n \notin treeNodes[t]
      BY <2>1, NoneIsNoNode DEF Placed
    <3>2. /\ \A t \in Node : treeNodes'[t] = IF t = r THEN treeNodes[r] \cup {n} ELSE treeNodes[t]
          /\ \A m \in Node : nodeToTree'[m] = IF m = n THEN r ELSE nodeToTree[m]
      BY <2>1 DEF PlaceIn, TypeOK
    <3>3. r = n => treeNodes[n] = {}
      BY <2>1 DEF Placed, TypeOK
    <3>4. trees' = trees \cup {r} /\ (r \notin trees => treeNodes[r] = {})
      BY <2>1, <3>3
    <3> SUFFICES ASSUME NEW m \in Node, NEW t \in Node
                 PROVE  nodeToTree'[m] = t <=> t \in trees' /\ m \in treeNodes'[t]
      BY DEF IndexMatchesTrees
    <3>5. nodeToTree[m] = t <=> t \in trees /\ m \in treeNodes[t]
      BY DEF IndexMatchesTrees
    <3>6. CASE m = n
      BY <3>1, <3>2, <3>4, <3>6
    <3>7. CASE m # n
      BY <3>2, <3>4, <3>5, <3>7
    <3> QED BY <3>6, <3>7
  <2>2. ASSUME NEW n \in Node, NEW p \in Node \cup {None}, HandleMessage(n, p)
        PROVE  IndexMatchesTrees'
    BY <1>1, <2>2 DEF HandleMessage, repoVars
  <2>3. ASSUME NEW n \in Node, Known(parent[n]), parent[n] # None
        PROVE  nodeToTree[parent[n]] \in Node /\ nodeToTree[parent[n]] \in trees
    BY <2>3 DEF Known, TypeOK, IndexMatchesTrees
  <2> QED BY <1>1, <1>4, <2>1, <2>2, <2>3, MessageCases
<1> QED BY <1>1, <1>2, <1>3, <1>4, NextCases
        DEF QuietStep, HandoverStep, WithdrawStep, CancelStep

\* Whatever hangs under a node of a branch is in the branch. (get_descendants)
LEMMA DescendantsClosed ==
  ASSUME TypeOK, NEW r \in Node, NEW n \in Node,
         NEW c \in treeNodes[r], parent[c] \in Descendants(r, n)
  PROVE  c \in Descendants(r, n)
<1> SUFFICES ASSUME NEW S \in SUBSET treeNodes[r], n \in S,
                    \A d \in treeNodes[r] : parent[d] \in S => d \in S
             PROVE  c \in S
  BY DEF Descendants
<1>1. parent[c] \in S
  BY DEF Descendants
<1> QED BY <1>1

LEMMA ParentStep ==
  ASSUME TypeOK, Placed, IndexMatchesTrees, ParentsAreKnown, [Next]_vars
  PROVE  ParentsAreKnown'
<1>1. ASSUME UNCHANGED <<nodeToTree, parent>>
      PROVE  ParentsAreKnown'
  BY <1>1 DEF ParentsAreKnown, Known
<1>2. ASSUME NEW n \in Node, RemoveBranch(n)
      PROVE  ParentsAreKnown'
  <2>1. parent' = parent
    BY <1>2, RemoveCases
  <2>2. CASE /\ nodeToTree[n] = n
             /\ nodeToTree' = [m \in Node |-> IF m \in treeNodes[n] THEN None ELSE nodeToTree[m]]
    <3>1. \A m \in Node : m \in treeNodes[n] <=> nodeToTree[m] = n
      BY <2>2 DEF IndexMatchesTrees
    <3> SUFFICES ASSUME NEW m \in Node, nodeToTree'[m] # None
                 PROVE  \/ parent[m] = None /\ nodeToTree'[m] = m
                        \/ parent[m] # None /\ nodeToTree'[parent[m]] = nodeToTree'[m]
      BY <2>1 DEF ParentsAreKnown, Known
    <3>2. nodeToTree[m] # n /\ nodeToTree'[m] = nodeToTree[m] /\ nodeToTree[m] # None
      BY <2>2, <3>1
    <3>3. CASE parent[m] = None
      BY <3>2, <3>3 DEF ParentsAreKnown, Known
    <3>4. CASE parent[m] # None
      <4>1. parent[m] \in Node /\ nodeToTree[parent[m]] = nodeToTree[m]
        BY <3>2, <3>4 DEF ParentsAreKnown, Known, TypeOK
      <4> QED BY <2>2, <3>1, <3>2, <3>4, <4>1
    <3> QED BY <3>3, <3>4
  <2>3. ASSUME NEW r \in Node, NEW gone \in SUBSET Node,
               r = nodeToTree[n], gone = Descendants(r, n),
               nodeToTree' = [m \in Node |-> IF m \in gone THEN None ELSE nodeToTree[m]]
        PROVE  ParentsAreKnown'
    <3> SUFFICES ASSUME NEW m \in Node, nodeToTree'[m] # None
                 PROVE  \/ parent[m] = None /\ nodeToTree'[m] = m
                        \/ parent[m] # None /\ nodeToTree'[parent[m]] = nodeToTree'[m]
      BY <2>1 DEF ParentsAreKnown, Known
    <3>1. m \notin gone /\ nodeToTree'[m] = nodeToTree[m] /\ nodeToTree[m] # None
      BY <2>3
    <3>2. CASE parent[m] = None
      BY <3>1, <3>2 DEF ParentsAreKnown, Known
    <3>3. CASE parent[m] # None
      <4>1. parent[m] \in Node /\ nodeToTree[parent[m]] = nodeToTree[m]
        BY <3>1, <3>3 DEF ParentsAreKnown, Known, TypeOK
      <4>2. parent[m] \notin gone
        <5> SUFFICES ASSUME parent[m] \in gone PROVE FALSE
          OBVIOUS
        <5>1. parent[m] \in treeNodes[r] /\ r \in trees
          BY <2>3 DEF Descendants, IndexMatchesTrees
        <5>2. nodeToTree[m] = r
          BY <4>1, <5>1 DEF IndexMatchesTrees
        <5>3. m \in treeNodes[r]
          BY <5>2 DEF IndexMatchesTrees
        <5> QED BY <2>3, <3>1, <5>3, DescendantsClosed
      <4> QED BY <2>3, <3>1, <3>3, <4>1, <4>2
    <3> QED BY <3>2, <3>3
  <2> QED BY <1>1, <1>2, <2>1, <2>2, <2>3, RemoveCases
<1>3. CASE ReplaceTreeQueue
  BY <1>3 DEF ReplaceTreeQueue, ParentsAreKnown, Known
<1>4. CASE Messages
  <2>1. \A n \in Node : pc[n] # "placed" => nodeToTree[n] = None
    <3> SUFFICES ASSUME NEW n \in Node, pc[n] # "placed", nodeToTree[n] # None
                 PROVE  FALSE
      OBVIOUS
    <3>1. nodeToTree[n] \in Node /\ n \in treeNodes[nodeToTree[n]]
      BY DEF IndexMatchesTrees, TypeOK
    <3> QED BY <3>1, NoneIsNoNode DEF Placed
  <2>2. ASSUME NEW n \in Node, NEW p \in Node \cup {None}, HandleMessage(n, p)
        PROVE  ParentsAreKnown'
    <3>1. nodeToTree' = nodeToTree /\ nodeToTree[n] = None
      BY <2>1, <2>2 DEF HandleMessage, repoVars
    <3>2. \A m \in Node : m # n => parent'[m] = parent[m]
      BY <2>2 DEF HandleMessage, TypeOK
    <3> QED BY <3>1, <3>2 DEF ParentsAreKnown, Known
  <2>3. ASSUME NEW n \in Node, pc[n] = "sending", UNCHANGED parent,
               \/ parent[n] = None /\ PlaceIn(n, n)
               \/ /\ parent[n] # None /\ Known(parent[n])
                  /\ PlaceIn(nodeToTree[parent[n]], n)
        PROVE  ParentsAreKnown'
    <3> DEFINE r == IF parent[n] = None THEN n ELSE nodeToTree[parent[n]]
    <3>1. \A m \in Node : nodeToTree'[m] = IF m = n THEN r ELSE nodeToTree[m]
      BY <2>3 DEF PlaceIn, TypeOK
    <3>2. nodeToTree[n] = None
      BY <2>1, <2>3
    <3>3. parent[n] # None => /\ parent[n] \in Node \ {n}
                              /\ nodeToTree[parent[n]] # None
      BY <2>3, <3>2 DEF TypeOK, Known
    <3> SUFFICES ASSUME NEW m \in Node, nodeToTree'[m] # None
                 PROVE  \/ parent[m] = None /\ nodeToTree'[m] = m
                        \/ parent[m] # None /\ nodeToTree'[parent[m]] = nodeToTree'[m]
      BY <2>3 DEF ParentsAreKnown, Known
    <3>4. CASE m = n
      BY <3>1, <3>3, <3>4
    <3>5. CASE m # n
      <4>1. nodeToTree'[m] = nodeToTree[m] /\ nodeToTree[m] # None
        BY <3>1, <3>5
      <4>2. CASE parent[m] = None
        BY <4>1, <4>2 DEF ParentsAreKnown, Known
      <4>3. CASE parent[m] # None
        <5>1. /\ parent[m] \in Node \ {n}
              /\ nodeToTree[parent[m]] = nodeToTree[m]
          BY <3>2, <4>1, <4>3 DEF ParentsAreKnown, Known, TypeOK
        <5> QED BY <3>1, <4>1, <4>3, <5>1
      <4> QED BY <4>2, <4>3
    <3> QED BY <3>4, <3>5
  <2> QED BY <1>1, <1>4, <2>2, <2>3, MessageCases
<1> QED BY <1>1, <1>2, <1>3, <1>4, NextCases
        DEF QuietStep, HandoverStep, WithdrawStep, CancelStep

-----------------------------------------------------------------------------
(* The theorems *)

LEMMA InvStep == Inv /\ [Next]_vars => Inv'
  BY TypeStep, PlacedStep, QueueStep, FreeStep, IndexStep, ParentStep DEF Inv

\* The invariant holds however prompts, tasks, /stop and /clear interleave.
THEOREM Invariance == Spec => []Inv
<1>1. Inv /\ [Next]_vars => Inv'
  BY InvStep
<1> QED BY InitInv, <1>1, PTL DEF Spec

\* Type correctness, for every set of prompts and commands.
THEOREM TypeCorrect == Spec => []TypeOK
<1>1. Inv => TypeOK
  BY DEF Inv
<1> QED BY <1>1, Invariance, PTL

\* No prompt is ever left waiting in the queue of a free tree.
THEOREM NoForgottenPrompt == Spec => []FreeTreeHasEmptyQueue
<1>1. Inv => FreeTreeHasEmptyQueue
  BY DEF Inv
<1> QED BY <1>1, Invariance, PTL

\* Queues hold each prompt once, in its own tree, before it has a task.
THEOREM QueuesAreFresh == Spec => []QueuedIsUnstarted
<1>1. Inv => QueuedIsUnstarted
  BY DEF Inv
<1> QED BY <1>1, Invariance, PTL

\* The manager's index and the node tables of its trees always agree.
THEOREM IndexAgrees == Spec => []IndexMatchesTrees
<1>1. Inv => IndexMatchesTrees
  BY DEF Inv
<1> QED BY <1>1, Invariance, PTL

\* No reply known to the manager loses its parent.
THEOREM NoOrphans == Spec => []ParentsAreKnown
<1>1. Inv => ParentsAreKnown
  BY DEF Inv
<1> QED BY <1>1, Invariance, PTL

LEMMA StartedStep == Inv /\ [Next]_vars => StartedOnce
<1> SUFFICES ASSUME Inv, [Next]_vars, NEW n \in Node, task[n] # "none", task'[n] # task[n]
             PROVE  task'[n] \notin {"none", "created"}
  BY DEF StartedOnce
<1> USE DEF Inv
<1> QueueTypes
  BY DEF TypeOK, QueueTypes
<1>1. CASE QuietStep
  BY <1>1 DEF QuietStep
<1>2. ASSUME NEW m \in Node, HandoverStep(m)
      PROVE  task'[n] \notin {"none", "created"}
  <2>1. home[m] \in Node
    BY <1>2, HomeOfTask DEF HandoverStep
  <2>2. CASE task' = [task EXCEPT ![m] = "done"]
    BY <2>2 DEF QueueTypes
  <2>3. ASSUME queue[home[m]] # <<>>,
               task' = [task EXCEPT ![m] = "done", ![Head(queue[home[m]])] = "created"]
        PROVE  task'[n] \notin {"none", "created"}
    <3>1. task[Head(queue[home[m]])] = "none"
      BY <2>1, <2>3, HeadIsWaiting
    <3>2. n # Head(queue[home[m]])
      BY <3>1
    <3> QED BY <2>3, <3>2 DEF QueueTypes
  <2> QED BY <1>2, <2>1, <2>2, <2>3, ProcessNextStep DEF HandoverStep
<1>3. CASE Messages
  <2>1. ASSUME NEW m \in Node, NEW r \in Node, pc[m] = "sending", PlaceIn(r, m)
        PROVE  FALSE
    <3>1. task[m] = "none"
      BY <2>1 DEF Placed
    <3> QED BY <2>1, <3>1, EnqueueStep DEF PlaceIn
  <2>2. ASSUME NEW m \in Node, Known(parent[m]), parent[m] # None
        PROVE  nodeToTree[parent[m]] \in Node
    BY <2>2 DEF Known, TypeOK
  <2> QED BY <1>3, <2>1, <2>2, MessageCases DEF HandleMessage, taskVars
<1>4. ASSUME NEW m \in Node, RemoveBranch(m)
      PROVE  FALSE
  BY <1>4, RemoveCases
<1> QED BY <1>1, <1>2, <1>3, <1>4, NextCases
        DEF WithdrawStep, CancelStep, ReplaceTreeQueue, taskVars

\* A prompt gets at most one task, whatever is stopped, cleared or retried.
THEOREM OneTaskPerPrompt == Spec => StartedAtMostOnce
<1>1. Inv /\ [Next]_vars => StartedOnce
  BY StartedStep
<1> QED BY <1>1, Invariance, PTL DEF Spec, StartedAtMostOnce

\* What StoppedStaysStopped says of one step
KeepsStopped ==
  \A n \in Node :
    /\ state[n] = "error"
    /\ task[n] \in {"running", "exited"} => n \in cancelReq
    => state'[n] = "error"

\* A step that leaves the states alone or shows prompts as failed
FailsSome == \A n \in Node : state'[n] \in {state[n], "error"}

LEMMA StoppedStep == TypeOK /\ [Next]_vars => KeepsStopped
<1> SUFFICES ASSUME TypeOK, [Next]_vars PROVE KeepsStopped
  OBVIOUS
<1>1. FailsSome => KeepsStopped
  BY DEF FailsSome, KeepsStopped
<1>2. UNCHANGED state => FailsSome
  BY DEF FailsSome
<1>3. \A n \in Node : MarkNodeError(n) => FailsSome
  BY DEF MarkNodeError, FailsSome
<1>4. \A R \in SUBSET Node : CancelTrees(R) => FailsSome
  BY DEF CancelTrees, CancelNodes, FailsSome
<1>5. ASSUME NEW m \in Node, NEW s \in MessageState, UpdateState(m, s), s = "error" \/
             ~(task[m] \in {"running", "exited"} => m \in cancelReq)
      PROVE  KeepsStopped
  BY <1>5 DEF UpdateState, KeepsStopped, TypeOK
<1>6. CASE Tasks
  <2> PICK n \in Node :
        \/ StartTask(n) \/ SessionInfo(n) \/ ErrorEvent(n)
        \/ \E failed \in BOOLEAN : ExitEvent(n, failed)
        \/ CompleteEvent(n) \/ TaskFails(n) \/ DeliverCancel(n)
        \/ CancelHandled(n) \/ EndTask(n)
    BY <1>6 DEF Tasks
  <2>1. CASE StartTask(n)
    <3>1. \/ UNCHANGED state
          \/ state[n] # "error" /\ state' = [state EXCEPT ![n] = "in_progress"]
      BY <2>1 DEF StartTask
    <3> QED BY <1>1, <1>2, <3>1 DEF KeepsStopped, TypeOK
  <2>2. CASE SessionInfo(n)
    <3>1. \/ UNCHANGED state
          \/ UpdateState(n, "in_progress")
      BY <2>2 DEF SessionInfo
    <3>2. task[n] = "running" /\ n \notin cancelReq
      BY <2>2 DEF SessionInfo
    <3> QED BY <1>1, <1>2, <1>5, <3>1, <3>2 DEF MessageState
  <2>3. CASE CompleteEvent(n)
    <3>1. \/ UNCHANGED state
          \/ UpdateState(n, "completed")
      BY <2>3 DEF CompleteEvent
    <3>2. task[n] = "exited" /\ n \notin cancelReq
      BY <2>3 DEF CompleteEvent
    <3> QED BY <1>1, <1>2, <1>5, <3>1, <3>2 DEF MessageState
  <2>4. CASE CancelHandled(n)
    BY <1>5, <2>4 DEF CancelHandled, MessageState
  <2>5. CASE ErrorEvent(n) \/ TaskFails(n) \/ \E failed \in BOOLEAN : ExitEvent(n, failed)
    <3>1. UNCHANGED state \/ MarkNodeError(n)
      BY <2>5 DEF ErrorEvent, TaskFails, ExitEvent
    <3> QED BY <1>1, <1>2, <1>3, <3>1
  <2>6. CASE DeliverCancel(n) \/ EndTask(n)
    BY <1>1, <1>2, <2>6 DEF DeliverCancel, EndTask
  <2> QED BY <2>1, <2>2, <2>3, <2>4, <2>5, <2>6
<1>7. CASE Messages
  BY <1>1, <1>2, <1>7 DEF Messages, HandleMessage, StatusSent, StatusSendFails
<1>8. CASE UserCommands
  <2>1. ASSUME NEW n \in Node, StopNode(n)
        PROVE  FailsSome
    BY <2>1 DEF StopNode, FailsSome, TypeOK
  <2>2. ASSUME NEW n \in Node, ClearBranch(n)
        PROVE  FailsSome
    BY <2>2 DEF ClearBranch, FailsSome, TypeOK
  <2>3. ASSUME NEW n \in Node, RemoveBranch(n)
        PROVE  FailsSome
    <3>1. UNCHANGED state \/ CancelTrees({n})
      BY <2>3 DEF RemoveBranch
    <3> QED BY <1>2, <1>4, <3>1
  <2>4. CASE StopAll \/ ClearAll
    <3>1. CancelTrees(trees) /\ trees \in SUBSET Node
      BY <2>4 DEF StopAll, ClearAll, TypeOK
    <3> QED BY <1>1, <1>4, <3>1
  <2>5. CASE ReplaceTreeQueue
    BY <1>1, <1>2, <2>5 DEF ReplaceTreeQueue
  <2> QED BY <1>1, <1>8, <2>1, <2>2, <2>3, <2>4, <2>5 DEF UserCommands
<1>9. CASE UNCHANGED vars
  BY <1>1, <1>2, <1>9 DEF vars
<1> QED BY <1>6, <1>7, <1>8, <1>9 DEF Next

\* No order of commands and of the handler's steps takes a stopped or failed
\* prompt back to work, unless its task is still reading the CLI's output.
\* (cancel_node, cancel_branch, cancel_tree, update_state)
THEOREM StoppedIsFinal == Spec => StoppedStaysStopped
<1>1. TypeOK /\ [Next]_vars => KeepsStopped
  BY StoppedStep
<1>2. KeepsStopped <=>
        \A n \in Node :
          /\ state[n] = "error"
          /\ task[n] \in {"running", "exited"} => n \in cancelReq
          => state'[n] = "error"
  BY DEF KeepsStopped
<1> QED BY <1>1, <1>2, TypeCorrect, PTL DEF Spec, StoppedStaysStopped

-----------------------------------------------------------------------------
(* One task at a time                                                      *)

OnlyStopNode == Commands \subseteq {"stop_node"}

\* Without /clear no node leaves its tree.
NothingCleared ==
  /\ clearing = {}
  /\ ~clearingAll
  /\ \A n \in Node : pc[n] = "placed" => n \in treeNodes[home[n]]

SerialInv == Inv /\ NothingCleared /\ OneTaskPerTree

-----------------------------------------------------------------------------
(* The steps, by what they do to a tree's task *)

\* The phases in which a task holds its tree
Held == Live \cup {"aborted"}

\* A step of a task that stays in its tree
StayStep ==
  /\ UNCHANGED <<treeNodes, pc, home, queue, isProcessing, current, clearVars>>
  /\ \A n \in Node : task'[n] # task[n] => task[n] \in Held /\ task'[n] \in Held

\* The last step of a task
LeaveStep(n) ==
  /\ task[n] \in Held
  /\ UNCHANGED <<treeNodes, pc, home, clearVars>>
  /\ ProcessNext(home[n], n)

LEMMA SerialTaskCases ==
  ASSUME TypeOK, Tasks
  PROVE  StayStep \/ \E n \in Node : LeaveStep(n)
<1>1. PICK n \in Node :
        \/ StartTask(n) \/ SessionInfo(n) \/ ErrorEvent(n)
        \/ \E failed \in BOOLEAN : ExitEvent(n, failed)
        \/ CompleteEvent(n) \/ TaskFails(n) \/ DeliverCancel(n)
        \/ CancelHandled(n) \/ EndTask(n)
  BY DEF Tasks
<1>2. CASE StartTask(n)
  <2>1. task[n] = "created" /\ UNCHANGED <<repoVars, msgVars, clearVars>>
    BY <1>2 DEF StartTask
  <2>2. CASE ProcessNext(home[n], n)
    BY <2>1, <2>2 DEF LeaveStep, Held, Live, repoVars, msgVars
  <2>3. CASE /\ task' = [task EXCEPT ![n] = "aborted"] \/ task' = [task EXCEPT ![n] = "running"]
             /\ UNCHANGED procVars
    BY <2>1, <2>3 DEF StayStep, Held, Live, TypeOK, repoVars, procVars, msgVars
  <2> QED BY <1>2, <2>2, <2>3 DEF StartTask
<1>3. CASE SessionInfo(n) \/ ErrorEvent(n)
  BY <1>3 DEF SessionInfo, ErrorEvent, StayStep, repoVars, procVars, msgVars, taskVars
<1>4. CASE \/ \E failed \in BOOLEAN : ExitEvent(n, failed)
           \/ CompleteEvent(n) \/ TaskFails(n) \/ DeliverCancel(n) \/ CancelHandled(n)
  BY <1>4 DEF ExitEvent, CompleteEvent, TaskFails, DeliverCancel, CancelHandled,
              StayStep, Held, Live, TypeOK, repoVars, procVars, msgVars
<1>5. CASE EndTask(n)
  BY <1>5 DEF EndTask, LeaveStep, Held, Live, repoVars, msgVars
<1> QED BY <1>1, <1>2, <1>3, <1>4, <1>5

LEMMA SerialNextCases ==
  ASSUME OnlyStopNode, TypeOK, NothingCleared, [Next]_vars
  PROVE  \/ StayStep
         \/ \E n \in Node : LeaveStep(n)
         \/ \E n \in Node : StopNode(n)
         \/ Messages
<1>1. CASE UserCommands
  <2>1. "stop_all" \notin Commands /\ "clear_branch" \notin Commands /\ "clear_all" \notin Commands
    BY DEF OnlyStopNode
  <2> QED BY <1>1, <2>1 DEF UserCommands, ClearBranch, RemoveBranch, StopAll, ClearAll,
                            ReplaceTreeQueue, NothingCleared
<1>2. CASE UNCHANGED vars
  BY <1>2 DEF vars, StayStep, repoVars, procVars, msgVars, taskVars
<1> QED BY <1>1, <1>2, SerialTaskCases DEF Next

-----------------------------------------------------------------------------
(* The invariant *)

LEMMA SerialInit == Init => SerialInv
<1> SUFFICES ASSUME Init PROVE SerialInv
  OBVIOUS
<1>1. NothingCleared
  BY DEF Init, NothingCleared
<1>2. OneTaskPerTree
  BY DEF Init, OneTaskPerTree, Holding, Live
<1> QED BY <1>1, <1>2, InitInv DEF SerialInv

\* The prompt that _process_next takes is still a node of the tree.
LEMMA HeadIsInTree ==
  ASSUME Inv, NothingCleared, NEW r \in Node, queue[r] # <<>>
  PROVE  /\ Head(queue[r]) \in treeNodes[r]
         /\ Head(queue[r]) \in Node
         /\ home[Head(queue[r])] = r
         /\ task[Head(queue[r])] = "none"
<1>1. QueueTypes
  BY DEF Inv, TypeOK, QueueTypes
<1>2. /\ Head(queue[r]) \in Node
      /\ home[Head(queue[r])] = r
      /\ task[Head(queue[r])] = "none"
  BY <1>1, HeadIsWaiting DEF Inv
<1>3. pc[Head(queue[r])] = "placed"
  BY <1>2, NoneIsNoNode DEF Inv, Placed
<1> QED BY <1>2, <1>3 DEF NothingCleared

\* What the last step of a task does to its tree: it is free, or the next
\* prompt is current and has a task.
LEMMA LeaveCases ==
  ASSUME Inv, NothingCleared, NEW n \in Node, LeaveStep(n)
  PROVE  LET r == home[n]
             next == Head(queue[r])
         IN  /\ r \in Node
             /\ \/ queue[r] = <<>> /\ FreeTree(r, n)
                \/ /\ queue[r] # <<>>
                   /\ next \in Node \ {n} /\ home[next] = r /\ task[next] = "none"
                   /\ queue' = [queue EXCEPT ![r] = Tail(queue[r])]
                   /\ isProcessing' = [isProcessing EXCEPT ![r] = TRUE]
                   /\ current' = [current EXCEPT ![r] = next]
                   /\ task' = [task EXCEPT ![n] = "done", ![next] = "created"]
<1>1. home[n] \in Node
  BY HomeOfTask DEF LeaveStep, Inv, Held, Live
<1>2. CASE queue[home[n]] = <<>>
  BY <1>1, <1>2 DEF LeaveStep, ProcessNext
<1>3. CASE queue[home[n]] # <<>>
  <2>1. TakeNext(home[n], n, Head(queue[home[n]]), Tail(queue[home[n]]))
    BY <1>3 DEF LeaveStep, ProcessNext
  <2>2. /\ Head(queue[home[n]]) \in treeNodes[home[n]]
        /\ Head(queue[home[n]]) \in Node
        /\ home[Head(queue[home[n]])] = home[n]
        /\ task[Head(queue[home[n]])] = "none"
    BY <1>1, <1>3, HeadIsInTree
  <2>3. Head(queue[home[n]]) # n
    BY <2>2 DEF LeaveStep, Held, Live
  <2> QED BY <1>1, <1>3, <2>1, <2>2, <2>3 DEF TakeNext
<1> QED BY <1>1, <1>2, <1>3

LEMMA ClearedStep ==
  ASSUME OnlyStopNode, Inv, NothingCleared, [Next]_vars
  PROVE  NothingCleared'
<1> USE DEF Inv
<1>1. CASE StayStep \/ \E n \in Node : LeaveStep(n)
  BY <1>1 DEF StayStep, LeaveStep, NothingCleared, clearVars
<1>2. ASSUME NEW n \in Node, StopNode(n)
      PROVE  NothingCleared'
  BY <1>2 DEF StopNode, NothingCleared, clearVars, repoVars, msgVars
<1>3. CASE Messages
  <2>1. UNCHANGED clearVars
    BY <1>3 DEF Messages, HandleMessage, StatusSent, StatusSendFails
  <2>2. ASSUME NEW n \in Node, NEW r \in Node, pc[n] = "sending", PlaceIn(r, n)
        PROVE  NothingCleared'
    <3>1. \A m \in Node : /\ pc'[m] = IF m = n THEN "placed" ELSE pc[m]
                          /\ home'[m] = IF m = n THEN r ELSE home[m]
      BY <2>2 DEF PlaceIn, TypeOK
    <3>2. \A t \in Node : treeNodes[t] \subseteq treeNodes'[t] /\ n \in treeNodes'[r]
      BY <2>2 DEF PlaceIn, TypeOK
    <3> QED BY <2>1, <2>2, <3>1, <3>2 DEF NothingCleared, Placed, clearVars
  <2>3. ASSUME NEW n \in Node, Known(parent[n]), parent[n] # None
        PROVE  nodeToTree[parent[n]] \in Node
    BY <2>3 DEF Known, TypeOK
  <2>4. ASSUME NEW n \in Node, NEW p \in Node \cup {None}, HandleMessage(n, p)
        PROVE  NothingCleared'
    BY <2>1, <2>4 DEF HandleMessage, NothingCleared, TypeOK, repoVars, clearVars
  <2>5. ASSUME NEW n \in Node, pc' = [pc EXCEPT ![n] = "dropped"],
               UNCHANGED <<treeNodes, home>>
        PROVE  NothingCleared'
    BY <2>1, <2>5 DEF NothingCleared, TypeOK, clearVars
  <2> QED BY <1>3, <2>2, <2>3, <2>4, <2>5, MessageCases
<1> QED BY <1>1, <1>2, <1>3, SerialNextCases

LEMMA OneTaskStep ==
  ASSUME OnlyStopNode, SerialInv, [Next]_vars
  PROVE  OneTaskPerTree'
<1> USE DEF SerialInv, Inv
<1>1. CASE StayStep
  <2>1. \A r \in Node : Holding(r)' = Holding(r)
    BY <1>1 DEF StayStep, Holding, Held
  <2> QED BY <1>1, <2>1 DEF StayStep, OneTaskPerTree
<1>2. ASSUME NEW n \in Node, LeaveStep(n)
      PROVE  OneTaskPerTree'
  <2> DEFINE r == home[n]
             next == Head(queue[r])
  <2>1. r \in Node /\ home' = home
    BY <1>2, LeaveCases DEF LeaveStep
  <2>2. Holding(r) = {n}
    BY <1>2, <2>1 DEF OneTaskPerTree, Holding, LeaveStep, Held
  <2>3. CASE queue[r] = <<>>
    <3>1. FreeTree(r, n)
      BY <1>2, <2>3, LeaveCases
    <3>2. \A m \in Node : task'[m] = IF m = n THEN "done" ELSE task[m]
      BY <3>1 DEF FreeTree, TypeOK
    <3>3. \A t \in Node : Holding(t)' = IF t = r THEN {} ELSE Holding(t)
      BY <2>1, <2>2, <3>2 DEF Holding, Live
    <3> HIDE DEF r
    <3> QED BY <2>1, <3>1, <3>3 DEF FreeTree, OneTaskPerTree, TypeOK
  <2>4. CASE queue[r] # <<>>
    <3>1. /\ next \in Node \ {n} /\ home[next] = r
          /\ isProcessing' = [isProcessing EXCEPT ![r] = TRUE]
          /\ current' = [current EXCEPT ![r] = next]
          /\ task' = [task EXCEPT ![n] = "done", ![next] = "created"]
      BY <1>2, <2>4, LeaveCases
    <3> HIDE DEF next
    <3>2. \A m \in Node : task'[m] = IF m = n THEN "done"
                                     ELSE IF m = next THEN "created" ELSE task[m]
      BY <3>1 DEF TypeOK
    <3> HIDE DEF r
    <3>3. \A t \in Node : Holding(t)' = IF t = r THEN {next} ELSE Holding(t)
      <4>1. home[next] = r /\ home[n] = r
        BY <3>1 DEF r
      <4>2. \A m \in Node \ {n, next} : task'[m] = task[m]
        BY <3>2
      <4>3. task'[n] \notin Held /\ task'[next] \in Held
        <5>1. task'[n] = "done" /\ task'[next] = "created"
          BY <3>1, <3>2
        <5> QED BY <5>1 DEF Held, Live
      <4>4. \A m \in Node \ {n} : home[m] = r => task[m] \notin Held
        BY <2>2 DEF Holding, Held
      <4> QED BY <2>1, <3>1, <4>1, <4>2, <4>3, <4>4 DEF Holding, Held
    <3> QED BY <2>1, <3>1, <3>3 DEF OneTaskPerTree, TypeOK
  <2> QED BY <2>3, <2>4
<1>3. ASSUME NEW n \in Node, StopNode(n)
      PROVE  OneTaskPerTree'
  BY <1>3 DEF StopNode, OneTaskPerTree, Holding, msgVars
<1>4. CASE Messages
  <2>1. ASSUME NEW n \in Node, NEW r \in Node, pc[n] = "sending", PlaceIn(r, n)
        PROVE  OneTaskPerTree'
    <3>1. /\ EnqueueAndStart(r, n)
          /\ \A m \in Node : home'[m] = IF m = n THEN r ELSE home[m]
      BY <2>1 DEF PlaceIn, TypeOK
    <3>2. task[n] = "none" /\ home[n] = None
      BY <2>1 DEF Placed
    <3>3. CASE UNCHANGED <<isProcessing, current, currentTask, task>>
      <4>1. \A t \in Node : Holding(t)' = Holding(t)
        BY <3>1, <3>2, <3>3 DEF Holding, Live
      <4> QED BY <3>3, <4>1 DEF OneTaskPerTree
    <3>4. CASE ~isProcessing[r] /\ StartNow(r, n)
      <4>1. \A m \in Node : task'[m] = IF m = n THEN "created" ELSE task[m]
        BY <3>4 DEF StartNow, TypeOK
      <4>2. Holding(r) = {}
        BY <3>4 DEF OneTaskPerTree
      <4>3. \A t \in Node : Holding(t)' = IF t = r THEN {n} ELSE Holding(t)
        BY <3>1, <3>2, <4>1, <4>2, NoneIsNoNode DEF Holding, Live
      <4> QED BY <3>4, <4>3 DEF StartNow, OneTaskPerTree, TypeOK
    <3> QED BY <3>1, <3>3, <3>4 DEF EnqueueAndStart
  <2>2. ASSUME UNCHANGED <<home, isProcessing, current, task>>
        PROVE  OneTaskPerTree'
    BY <2>2 DEF OneTaskPerTree, Holding
  <2>3. ASSUME NEW n \in Node, Known(parent[n]), parent[n] # None
        PROVE  nodeToTree[parent[n]] \in Node
    BY <2>3 DEF Known, TypeOK
  <2> QED BY <1>4, <2>1, <2>2, <2>3
          DEF Messages, HandleMessage, StatusSent, StatusSendFails, procVars, taskVars
<1> QED BY <1>1, <1>2, <1>3, <1>4, SerialNextCases

LEMMA SerialStep == OnlyStopNode /\ SerialInv /\ [Next]_vars => SerialInv'
  BY InvStep, ClearedStep, OneTaskStep DEF SerialInv

-----------------------------------------------------------------------------
(* The refinement *)

LEMMA ChooseOnly == ASSUME NEW x PROVE (CHOOSE y \in {x} : TRUE) = x
  OBVIOUS

\* What the queue works on is the current node of a tree that is processing.
LEMMA ActiveIsCurrent ==
  /\ SerialInv => \A r \in Node : /\ Active[r] = IF isProcessing[r] THEN current[r] ELSE None
                                  /\ isProcessing[r] => current[r] \in Node
  /\ SerialInv' => \A r \in Node : /\ Active'[r] = IF isProcessing'[r] THEN current'[r] ELSE None
                                   /\ isProcessing'[r] => current'[r] \in Node
<1>1. ASSUME SerialInv, NEW r \in Node
      PROVE  /\ Active[r] = IF isProcessing[r] THEN current[r] ELSE None
             /\ isProcessing[r] => current[r] \in Node
  <2>1. Holding(r) = IF isProcessing[r] THEN {current[r]} ELSE {}
    BY <1>1 DEF SerialInv, OneTaskPerTree
  <2>2. Holding(r) \subseteq Node
    BY DEF Holding
  <2> HIDE DEF Holding
  <2> QED BY <2>1, <2>2, ChooseOnly DEF Active
<1>2. ASSUME SerialInv', NEW r \in Node
      PROVE  /\ Active'[r] = IF isProcessing'[r] THEN current'[r] ELSE None
             /\ isProcessing'[r] => current'[r] \in Node
  <2>1. Holding(r)' = IF isProcessing'[r] THEN {current'[r]} ELSE {}
    BY <1>2 DEF SerialInv, OneTaskPerTree
  <2>2. Holding(r)' \subseteq Node
    BY DEF Holding
  <2>3. Active'[r] = IF Holding(r)' = {} THEN None ELSE CHOOSE n \in Holding(r)' : TRUE
    BY DEF Active
  <2> HIDE DEF Holding
  <2> QED BY <2>1, <2>2, <2>3, ChooseOnly
<1> QED BY <1>1, <1>2

LEMMA RefinesInit == Init => Abstract!Init
<1> SUFFICES ASSUME Init PROVE Abstract!Init
  OBVIOUS
<1>1. \A r \in Node : Active[r] = None
  BY SerialInit, ActiveIsCurrent DEF Init
<1>2. Active = [r \in Node |-> None]
  BY <1>1 DEF Active
<1> QED BY <1>2 DEF Init, Abstract!Init, Accepted

\* rest lists the entries of q at the places in K, in order.
InOrder(rest, q, K) ==
  \E place \in [1..Cardinality(K) -> K] :
    /\ \A a, b \in DOMAIN place : a < b => place[a] < place[b]
    /\ rest = [a \in DOMAIN place |-> q[place[a]]]

\* The entries that stay come from increasing places of the old queue.
\* (_SnapshotQueue.remove_if_present)
LEMMA WithoutKeepsOrder ==
  ASSUME NEW T, NEW q \in Seq(T), NEW S
  PROVE  InOrder(Without(q, S), q, Kept(q, S))
<1> DEFINE K == Kept(q, S)
           place == [j \in 1..Cardinality(K) |-> CHOOSE i \in K : RankIn(K, i) = j]
<1>1. Len(q) \in Nat /\ K \in SUBSET (1..Len(q))
  BY DEF Kept
<1>2. /\ Cardinality(K) \in Nat
      /\ \A j \in 1..Cardinality(K) : place[j] \in K /\ RankIn(K, place[j]) = j
  <2> HIDE DEF K
  <2> QED BY <1>1, RankBijection
<1>3. ASSUME NEW i \in K, NEW k \in K, i <= k
      PROVE  RankIn(K, i) <= RankIn(K, k)
  <2> DEFINE low(x) == {m \in K : m <= x}
  <2>1. IsFiniteSet(low(k))
    <3>1. IsFiniteSet(1..Len(q))
      BY <1>1, FS_Interval
    <3> QED BY <1>1, <3>1, FS_Subset
  <2>2. low(i) \subseteq low(k)
    <3>1. K \subseteq Int
      BY <1>1
    <3>2. i \in Int /\ k \in Int /\ i <= k
      BY <1>3, <3>1
    <3> HIDE DEF K
    <3> SUFFICES ASSUME NEW m \in K, m <= i
                 PROVE  m <= k
      OBVIOUS
    <3>3. m \in Int
      BY <3>1
    <3> QED BY <3>2, <3>3
  <2> HIDE DEF K, low
  <2>3. Cardinality(low(i)) <= Cardinality(low(k))
    BY <2>1, <2>2, FS_Subset
  <2> QED BY <2>3 DEF RankIn, low
<1>4. ASSUME NEW a \in 1..Cardinality(K), NEW b \in 1..Cardinality(K), a < b
      PROVE  place[a] < place[b]
  <2> HIDE DEF place
  <2>1. place[a] \in K /\ place[b] \in K
        /\ RankIn(K, place[a]) = a /\ RankIn(K, place[b]) = b
    BY <1>2
  <2>2. place[b] <= place[a] => b <= a
    BY <1>3, <2>1
  <2>3. place[a] \in Int /\ place[b] \in Int /\ a \in Int /\ b \in Int
    BY <1>1, <2>1
  <2> HIDE DEF K
  <2> QED BY <1>4, <2>2, <2>3
<1>5. place \in [1..Cardinality(K) -> K]
  <2> HIDE DEF K
  <2> QED BY <1>2
<1>6. Without(q, S) = [a \in DOMAIN place |-> q[place[a]]]
  BY DEF Without
<1> HIDE DEF place
<1> QED BY <1>4, <1>5, <1>6 DEF InOrder

\* FiniteSets is instantiated once more inside Abstract.
LEMMA SameCardinality == \A S : Abstract!Cardinality(S) = Cardinality(S)
  BY DEF Cardinality, Abstract!Cardinality

LEMMA RefinesStep ==
  ASSUME OnlyStopNode, SerialInv, [Next]_vars
  PROVE  [Abstract!Next]_Abstract!vars
<1> USE DEF SerialInv, Inv
<1>0. SerialInv'
  BY SerialStep
<1>1. /\ \A r \in Node : Active[r] = IF isProcessing[r] THEN current[r] ELSE None
      /\ \A r \in Node : isProcessing[r] => current[r] \in Node
      /\ \A r \in Node : Active'[r] = IF isProcessing'[r] THEN current'[r] ELSE None
      /\ Active = [r \in Node |-> Active[r]]
      /\ Active' = [r \in Node |-> Active'[r]]
  BY <1>0, ActiveIsCurrent DEF Active
<1> HIDE DEF SerialInv
<1>2. CASE StayStep
  <2>1. Accepted' = Accepted /\ Active' = Active /\ queue' = queue
    BY <1>1, <1>2 DEF StayStep, Accepted
  <2> QED BY <2>1 DEF Abstract!vars
<1>3. ASSUME NEW n \in Node, LeaveStep(n)
      PROVE  Abstract!Next
  <2> DEFINE r == home[n]
  <2>1. r \in Node /\ Accepted' = Accepted
    BY <1>3, LeaveCases DEF LeaveStep, Accepted, SerialInv
  <2>2. Active[r] # None
    <3>1. n \in Holding(r)
      BY <1>3 DEF LeaveStep, Holding, Held
    <3>2. isProcessing[r]
      BY <2>1, <3>1 DEF OneTaskPerTree, SerialInv
    <3> HIDE DEF r
    <3> QED BY <1>1, <2>1, <3>2, NoneIsNoNode
  <2>3. CASE queue[r] = <<>>
    <3>1. FreeTree(r, n)
      BY <1>3, <2>3, LeaveCases DEF SerialInv
    <3> HIDE DEF r
    <3>2. Active' = [Active EXCEPT ![r] = None]
      BY <1>1, <2>1, <3>1 DEF FreeTree, SerialInv, TypeOK
    <3>3. Abstract!Finish(r)
      BY <2>1, <2>2, <2>3, <3>1, <3>2 DEF Abstract!Finish, FreeTree
    <3> QED BY <2>1, <3>3 DEF Abstract!Next
  <2>4. CASE queue[r] # <<>>
    <3>1. /\ queue' = [queue EXCEPT ![r] = Tail(queue[r])]
          /\ isProcessing' = [isProcessing EXCEPT ![r] = TRUE]
          /\ current' = [current EXCEPT ![r] = Head(queue[r])]
      BY <1>3, <2>4, LeaveCases DEF SerialInv
    <3> HIDE DEF r
    <3>2. Active' = [Active EXCEPT ![r] = Head(queue[r])]
      BY <1>1, <2>1, <3>1 DEF SerialInv, TypeOK
    <3>3. Abstract!Finish(r)
      BY <2>1, <2>2, <2>4, <3>1, <3>2 DEF Abstract!Finish
    <3> QED BY <2>1, <3>3 DEF Abstract!Next
  <2> QED BY <2>3, <2>4
<1>4. ASSUME NEW n \in Node, StopNode(n)
      PROVE  Abstract!Next
  <2> DEFINE r == nodeToTree[n]
  <2>1. r \in Node
    BY <1>4 DEF StopNode, Known, TypeOK, SerialInv
  <2>2. queue' = [queue EXCEPT ![r] = Without(queue[r], {n})]
    BY <1>4 DEF StopNode
  <2>3. Accepted' = Accepted /\ Active' = Active
    BY <1>1, <1>4 DEF StopNode, Accepted, msgVars
  <2> HIDE DEF r
  <2>4. queue[r] \in Seq(Node)
    BY <2>1 DEF SerialInv, TypeOK
  <2>5. Kept(queue[r], {n}) = {i \in DOMAIN queue[r] : queue[r][i] # n}
    BY DEF Kept
  <2>6. Abstract!Withdraw(r, n)
    <3> DEFINE K == Kept(queue[r], {n})
    <3>0. InOrder(Without(queue[r], {n}), queue[r], K)
      BY <2>4, WithoutKeepsOrder
    <3> HIDE DEF K
    <3>1. PICK place \in [1..Cardinality(K) -> K] :
            /\ \A a, b \in DOMAIN place : a < b => place[a] < place[b]
            /\ Without(queue[r], {n}) = [a \in DOMAIN place |-> queue[r][place[a]]]
      BY <3>0 DEF InOrder
    <3>2. queue' = [queue EXCEPT ![r] = [a \in DOMAIN place |-> queue[r][place[a]]]]
      BY <2>2, <3>1
    <3>3. place \in [1..Abstract!Cardinality(K) -> K]
      BY <3>1, SameCardinality
    <3>4. \E p \in [1..Abstract!Cardinality(K) -> K] :
            /\ \A a, b \in DOMAIN p : a < b => p[a] < p[b]
            /\ queue' = [queue EXCEPT ![r] = [a \in DOMAIN p |-> queue[r][p[a]]]]
      BY <3>1, <3>2, <3>3
    <3>5. K = {i \in DOMAIN queue[r] : queue[r][i] # n}
      BY <2>5 DEF K
    <3> QED BY <2>3, <3>4, <3>5 DEF Abstract!Withdraw
  <2> QED BY <2>1, <2>6 DEF Abstract!Next
<1>5. CASE Messages
  <2>1. ASSUME NEW n \in Node, NEW r \in Node, pc[n] = "sending", PlaceIn(r, n)
        PROVE  Abstract!Next
    <3>1. n \notin Accepted /\ Accepted' = Accepted \cup {n}
      BY <2>1 DEF PlaceIn, Accepted, SerialInv, TypeOK
    <3>2. CASE isProcessing[r]
      <4>1. queue' = [queue EXCEPT ![r] = Append(@, n)] /\ Active' = Active
        BY <1>1, <2>1, <3>2 DEF PlaceIn, EnqueueAndStart
      <4>2. Active[r] # None
        BY <1>1, <3>2, NoneIsNoNode
      <4>3. Abstract!Accept(r, n)
        BY <3>1, <4>1, <4>2 DEF Abstract!Accept
      <4> QED BY <4>3 DEF Abstract!Next
    <3>3. CASE ~isProcessing[r]
      <4>1. StartNow(r, n) /\ queue' = queue
        BY <2>1, <3>3 DEF PlaceIn, EnqueueAndStart
      <4>2. Active[r] = None
        BY <1>1, <3>3
      <4>3. Active' = [Active EXCEPT ![r] = n]
        BY <1>1, <4>1 DEF StartNow, SerialInv, TypeOK
      <4>4. Abstract!Accept(r, n)
        BY <3>1, <4>1, <4>2, <4>3 DEF Abstract!Accept
      <4> QED BY <4>4 DEF Abstract!Next
    <3> QED BY <3>2, <3>3
  <2>2. ASSUME NEW n \in Node, pc[n] # "placed",
               \E s \in {"sending", "dropped"} : pc' = [pc EXCEPT ![n] = s],
               UNCHANGED procVars
        PROVE  UNCHANGED Abstract!vars
    <3>1. Accepted' = Accepted
      BY <2>2 DEF Accepted, SerialInv, TypeOK
    <3> QED BY <1>1, <2>2, <3>1 DEF Abstract!vars, procVars
  <2>3. ASSUME NEW n \in Node, Known(parent[n]), parent[n] # None
        PROVE  nodeToTree[parent[n]] \in Node
    BY <2>3 DEF Known, SerialInv, TypeOK
  <2>4. ASSUME NEW n \in Node, StatusSent(n)
        PROVE  [Abstract!Next]_Abstract!vars
    BY <2>1, <2>2, <2>3, <2>4 DEF StatusSent
  <2>5. ASSUME NEW n \in Node, StatusSendFails(n) \/ \E p \in Node \cup {None} : HandleMessage(n, p)
        PROVE  UNCHANGED Abstract!vars
    BY <2>2, <2>5 DEF StatusSendFails, HandleMessage
  <2> QED BY <1>5, <2>4, <2>5 DEF Messages
<1> QED BY <1>2, <1>3, <1>4, <1>5, SerialNextCases DEF SerialInv

-----------------------------------------------------------------------------
(* "/stop" and the task of the current node *)

\* The task a tree would cancel is that of its current node.
TaskIsCurrent == \A r \in Node : isProcessing[r] => currentTask[r] = current[r]

LEMMA TaskIsCurrentStep ==
  ASSUME OnlyStopNode, SerialInv, TaskIsCurrent, [Next]_vars
  PROVE  TaskIsCurrent'
<1> USE DEF SerialInv, Inv
<1>1. CASE Tasks
  <2>1. ASSUME UNCHANGED procVars
        PROVE  TaskIsCurrent'
    BY <2>1 DEF procVars, TaskIsCurrent
  <2>2. ASSUME NEW n \in Node, task[n] \in Held, ProcessNext(home[n], n)
        PROVE  TaskIsCurrent'
    <3>1. home[n] \in Node
      BY <2>2, HomeOfTask DEF Held, Live
    <3>2. CASE queue[home[n]] = <<>>
      BY <2>2, <3>1, <3>2 DEF ProcessNext, FreeTree, TaskIsCurrent, TypeOK
    <3>3. CASE queue[home[n]] # <<>>
      <4>1. Head(queue[home[n]]) \in treeNodes[home[n]]
        BY <3>1, <3>3, HeadIsInTree
      <4>2. TakeNext(home[n], n, Head(queue[home[n]]), Tail(queue[home[n]]))
        BY <2>2, <3>3 DEF ProcessNext
      <4> QED BY <3>1, <4>1, <4>2 DEF TakeNext, TaskIsCurrent, TypeOK
    <3> QED BY <3>2, <3>3
  <2> QED BY <1>1, <2>1, <2>2
          DEF Tasks, StartTask, SessionInfo, ErrorEvent, ExitEvent, CompleteEvent, TaskFails,
              DeliverCancel, CancelHandled, EndTask, Held, Live
<1>2. CASE Messages
  <2>1. ASSUME NEW n \in Node, NEW r \in Node, PlaceIn(r, n)
        PROVE  TaskIsCurrent'
    <3>1. CASE UNCHANGED <<isProcessing, current, currentTask>>
      BY <3>1 DEF TaskIsCurrent
    <3>2. CASE StartNow(r, n)
      BY <3>2 DEF StartNow, TaskIsCurrent, TypeOK
    <3> QED BY <2>1, <3>1, <3>2 DEF PlaceIn, EnqueueAndStart
  <2>2. ASSUME UNCHANGED procVars
        PROVE  TaskIsCurrent'
    BY <2>2 DEF procVars, TaskIsCurrent
  <2>3. ASSUME NEW n \in Node, Known(parent[n]), parent[n] # None
        PROVE  nodeToTree[parent[n]] \in Node
    BY <2>3 DEF Known, TypeOK
  <2> QED BY <1>2, <2>1, <2>2, <2>3 DEF Messages, HandleMessage, StatusSent, StatusSendFails
<1>3. CASE UserCommands
  <2>1. "stop_all" \notin Commands /\ "clear_branch" \notin Commands /\ "clear_all" \notin Commands
    BY DEF OnlyStopNode
  <2> QED BY <1>3, <2>1 DEF UserCommands, StopNode, ClearBranch, RemoveBranch, StopAll, ClearAll,
                            ReplaceTreeQueue, NothingCleared, TaskIsCurrent
<1>4. CASE UNCHANGED vars
  BY <1>4 DEF vars, procVars, TaskIsCurrent
<1> QED BY <1>1, <1>2, <1>3, <1>4 DEF Next

\* A live task is the current one of its tree, so that cancel_node reaches it.
LEMMA StopReaches ==
  ASSUME SerialInv, TaskIsCurrent, NEW n \in Node, StopNode(n), task[n] \in Live
  PROVE  n \in cancelReq'
<1> DEFINE r == nodeToTree[n]
<1> USE DEF SerialInv, Inv
<1>1. r \in Node /\ home[n] = r
  BY DEF StopNode, Known, TypeOK, IndexMatchesTrees, Placed
<1>2. isProcessing[r] /\ current[r] = n
  BY <1>1 DEF OneTaskPerTree, Holding
<1>3. currentTask[r] = n
  BY <1>1, <1>2 DEF TaskIsCurrent
<1> QED BY <1>1, <1>2, <1>3 DEF StopNode, CancelCurrentTasks

-----------------------------------------------------------------------------
(* The theorems *)

LEMMA SerialInvariance == ASSUME OnlyStopNode PROVE Spec => []SerialInv
<1>1. SerialInv /\ [Next]_vars => SerialInv'
  BY SerialStep
<1> QED BY SerialInit, <1>1, PTL DEF Spec

\* While no tree or branch is cleared or stopped as a whole, a tree has at
\* most one task that is not over, and it is the current node's, however
\* replies, task steps and "/stop" interleave.
\* (process_node, _process_next, enqueue_and_start, cancel_node)
THEOREM NeverTwoTasks == ASSUME OnlyStopNode PROVE Spec => []OneTaskPerTree
<1>1. SerialInv => OneTaskPerTree
  BY DEF SerialInv
<1> QED BY <1>1, SerialInvariance, PTL

\* Under the same condition every tree is a serial queue: it works on one
\* prompt at a time, in order of acceptance, and never idles while one waits.
\* (handler.py: "Per-tree queue ensures ordered processing")
THEOREM TreesAreSerialQueues == ASSUME OnlyStopNode PROVE Spec => SerialQueueSpec
<1>1. SerialInv /\ [Next]_vars => [Abstract!Next]_Abstract!vars
  BY RefinesStep
<1> QED BY RefinesInit, <1>1, SerialInvariance, PTL DEF Spec, SerialQueueSpec, Abstract!Spec

\* Under the same condition a "/stop" on a prompt whose task is live cancels
\* that task, whatever the tree went through before. (cancel_node)
THEOREM StopsReachTasks == ASSUME OnlyStopNode PROVE Spec => StopReachesTask
<1> DEFINE Reached == \A n \in Node : StopNode(n) /\ task[n] \in Live => n \in cancelReq'
<1>1. Init => TaskIsCurrent
  BY DEF Init, TaskIsCurrent
<1>2. SerialInv /\ TaskIsCurrent /\ [Next]_vars => TaskIsCurrent' /\ Reached
  BY TaskIsCurrentStep, StopReaches
<1> QED BY <1>1, <1>2, SerialInvariance, PTL DEF Spec, StopReachesTask
=============================================================================

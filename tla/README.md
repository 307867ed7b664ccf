# TLA+ models of opencode-config

The repository is a collection of configuration for coding agents (`skills/`,
`commands/`, `memory/`, Markdown documents) and two programs:

* `plugins/fcc-proxy`, a Python server that translates between the Anthropic
  API and other model providers, and runs a Telegram or Discord bot that hands
  prompts to the Claude CLI;
* `tools/testgen`, a Go program that generates unit tests with an LLM.

The logic that is hard to test is in the proxy: one asyncio event loop with
many suspended handlers, a few timer threads, a child process per prompt, and
chat and model APIs that fail and throttle. The models are about these, and about the translation
between APIs, whose every stream must be well-formed for its reader.

Paths below are relative to `src/plugins/fcc-proxy` unless they start with
`tools/`.

## Inventory

| component | state | operations | hard because |
|---|---|---|---|
| message trees (`messaging/trees`) | repository index, node tables, per-tree queue, processing flag, current node and task | create, reply, enqueue, next, mark error, cancel node / tree / branch, remove branch | cancellation of tasks that have not started or are still cleaning up; removals while a reply is being added |
| handler, events, commands (`messaging/handler.py`, `node_event_pipeline.py`, `event_parser.py`, `commands.py`) | locals of each handler and task | handle_message, process_node, /stop, /clear | every `await` lets another handler run; values read before it are used after |
| session store (`messaging/session.py`) | trees, message log, dirty flag, timer, file | save, remove, clear, flush, load | timer threads write outside the lock; failed writes; crashes |
| messaging limiter (`messaging/limiter.py`, `core/rate_limit.py`) | key queue, map of texts and futures, pause, window | enqueue, fire_and_forget, worker, shutdown | merging calls that wait, retries of old texts |
| chat adapters and voice notes (`messaging/platforms`, `messaging/voice.py`) | updates not yet handed over, handlers, notes under transcription | receive, transcribe, send, edit, delete, retry, /clear | a /clear at any moment of a transcription; calls that fail after they took effect |
| transcript (`messaging/transcript.py`, `ui_updates.py`) | segments, open blocks, subagent stack; throttled editor | apply event, render, update | indices used again, subagents found by approximate ids, skipped updates, a stop's own edit |
| CLI sessions (`cli/manager.py`, `cli/session.py`, `process_registry.py`) | pending and real sessions, child processes | get_or_create, register, remove, stop_all | two tasks with one session; awaits under the manager's lock |
| provider limiter (`providers/rate_limit.py`) | window, block deadline, slots | wait_if_blocked, set_blocked, slot, retry | a block read before a wait and not looked at after; a limiter replaced under its streams |
| request conversion (`core/anthropic/conversion.py`) | messages so far, what is put off behind tool results | convert a message of either role, flush | text after a tool call must wait for the results, which a client may mix with text, and still come in order |
| OpenAI streaming (`providers/openai_compat.py`, `core/anthropic/{sse,thinking,tools}.py`) | open content blocks, tool states, parser buffers | one step per delta; finish; error tail | any order of deltas must give a well-formed stream |
| native streaming (`providers/anthropic_messages.py`, `open_router`, `core/anthropic/native_sse_block_policy.py`, `emitted_sse_tracker.py`) | index map, open blocks | transform event, error tail | reused, overlapping and dropped upstream indices |
| HTTP API (`api/services.py`, `api/web_tools`) | the request and the turn of a web tool | refuse, answer here, forward; search, fetch, redirect | a tool that fails in any way after the stream has begun |
| provider registry (`providers/registry.py`) | clients, model lists, refresh task | get, validate, refresh, cleanup | a refresh that ends after cleanup |
| runtime (`api/runtime.py`) | references to all of the above | startup, restore, shutdown | order and timeouts of shutdown against running tasks |
| testgen engine (`tools/testgen/internal/{generator,llm}`) | job and result channels, cache, budgets | submit, work, collect | a pool of workers over bounded channels |

Configuration, Markdown rendering, the canned answers and testgen's front ends
keep no state that outlives a call, or are I/O.

**How the parts interact.** A chat update reaches an adapter, which hands it to
`handle_message`: a status message is sent through the messaging limiter (and
its id waited for), a node is added to a tree and enqueued. The tree's
processor starts one task per node. The task takes a CLI session, reads the
CLI's events, applies them to its transcript, writes the state to the tree and
the store and edits the status message through the limiter, then releases the
session and starts the next queued node. `/stop` and `/clear` run in handlers
of their own and cancel tasks. The CLI talks back to the proxy's HTTP API,
which answers by itself or converts the request, asks a provider through its
limiter, and turns the provider's stream into the events the CLI reads. The
runtime starts and stops all of it.

**What makes each part correct.** Trees: prompts of a tree run one at a time
and in order, none is forgotten or run twice, a stopped one stays stopped, the
index agrees with the trees. Store: whatever is not on disk has a save coming.
Limiter: no burst, every call answered, the last text wins. Adapters: every
handler returns, what was cancelled never runs. Transcript: texts of different
blocks stay apart, the final state is shown. Sessions: none under two ids, none
left behind. Provider limiter: no burst, no slot lost, no call during a block.
Conversion: results follow their calls, nothing is lost or reordered. Streams:
the contract of `core/anthropic/stream_contracts.py`. Runtime: shutdown ends,
and leaves nothing open.

## Modules

| module | models | kind |
|---|---|---|
| `TreeQueue` | trees, handler, task, /stop, /clear | component |
| `SerialQueue` | the promise of a tree's queue | abstract |
| `TreeQueueSerial` | `TreeQueue` as an implementation of `SerialQueue` | refinement |
| `MCTreeQueue` | symmetry over the prompts | for TLC |
| `TreeQueueProofs` | theorems about `TreeQueue` and `TreeQueueSerial` | proofs |
| `SessionStore` | `messaging/session.py`, restore in `api/runtime.py` | component |
| `AppRuntime` | `api/runtime.py` and `providers/registry.py` over `SessionStore` | composition |
| `AppRuntimeProofs` | theorems about `SessionStore` and `AppRuntime` | proofs |
| `SlidingWindow` | `core/rate_limit.py`, as operators | helper |
| `SlidingWindowProofs` | what the deque of `SlidingWindow` keeps of the sends | lemmas |
| `MessageLimiter` | `messaging/limiter.py` | component |
| `ChatPlatform` | the adapters, `messaging/voice.py`, /clear of a message | component |
| `ChatSide` | `MessageLimiter` and `ChatPlatform` | composition |
| `ChatSideProofs` | theorems about the two and about `ChatSide` | proofs |
| `CliSessions` | `cli/manager.py`, `cli/session.py`, their use in `handler.py` | component |
| `CliSessionsProofs` | theorems about `CliSessions` | proofs |
| `ProviderLimiter` | `providers/rate_limit.py` under the streams that use it | component |
| `ProviderLimiterProofs` | theorems about `ProviderLimiter` | proofs |
| `StreamContract` | `core/anthropic/stream_contracts.py`, as a reader | abstract |
| `OpenAiStream` | an OpenAI-compatible provider's answer | component |
| `NativeStream` | a native provider's answer | component |
| `NativeStreamProofs` | theorems about `NativeStream` | proofs |
| `MessageService` | `create_message` and the turn of a web tool | component |
| `Conversion` | `core/anthropic/conversion.py` | component |
| `Transcript` | `messaging/transcript.py`, `ui_updates.py` | component |
| `ProviderStreams` | `OpenAiStream`, `NativeStream`, `MessageService`, `Conversion`, `Transcript` | composition |
| `ProviderStreamsProofs` | theorems about `Transcript`, `OpenAiStream` and `Conversion`, and about the streams as composed | proofs |
| `MCProviderStreams` | tokens, tool deltas and task ids | for TLC |

### TreeQueue

The program is single-threaded and no body of a tree's or the manager's lock
suspends, so a step of the model is what runs between two real suspensions. A
prompt's handler is split at the sending of the status message
(`HandleMessage`, then `StatusSent` or `StatusSendFails`). A task is split at
its first step (`StartTask`), at each event of the CLI (`SessionInfo`,
`ErrorEvent`, `ExitEvent`, `CompleteEvent`, `TaskFails`), at the delivery of a
cancellation (`DeliverCancel`, `CancelHandled`) and at the release of its
session (`EndTask`, which contains `_process_next`). `/clear` is split at the
deletion of chat messages (`ClearBranch`/`RemoveBranch`,
`ClearAll`/`ReplaceTreeQueue`).

State: `trees`, `nodeToTree`, `treeNodes`, `parent` are the repository;
`queue`, `isProcessing`, `current`, `currentTask` are one tree's fields by root;
`state` is `MessageNode.state`; `task` is where the task of a node is, with
`cancelReq` the cancellations asyncio has not delivered; `tracked` and
`captured` are the locals `tree` and `captured_session_id` of the handler;
`pc`, `home`, `clearing`, `clearingAll` are where handlers are suspended.

Abstractions. A prompt and its status message are one id, as
`find_node_by_status_message` resolves the one to the other. Event contents are
dropped, except for which of them change `state`. The except clause for a
cancellation may suspend to edit the message; with a limiter the platform only
queues the edit, so `cancelling` admits more interleavings than such a build
has. The store, the CLI manager and the limiter are seen as calls that return
or raise; a session shared with a sibling is visible as a session id that is
known at once (`SharesSession`).

### SessionStore

A key stands for a tree or a message log and its content is a version. The
event loop mutates and schedules (`Save`, `Remove`), flushes (`Flush`, split
from its write `LoopWrites` because the lock is released in between) and
restarts (`Restart`, which includes the sync after `cleanup_stale_nodes`). Each
timer object is armed, fires, snapshots and writes; the lock covers a snapshot
and not the write that follows, so any number of writes can overlap. Two history
variables: `failed` says that a write failed and nothing was scheduled since,
`overlapped` that the last snapshot was taken while another thread was still
writing an older one. After such a snapshot the older write may end last and
stay on disk with nobody to save again (session.py:145-149, 155-173):
`QuietMeansSaved` and `EventuallySaved` speak of the others.

### AppRuntime

Extends `SessionStore` with startup and shutdown. `phase` is where
`AppRuntime.startup` or `shutdown` is; a step of shutdown is a `phase` that
ends by its own action (`ChatStops`, `CliStops`, `CleanupEnds`,
`LimiterStops`) or by `TimesOut`, the timeout of `best_effort`. `provider` is
the registry's cache with what became of each client, `lists` its model lists,
`refresh` the background task. `prompt` reduces a prompt to its task, its CLI
process and its saves (`Save` of the store). `Exit` ends the timers' threads,
which are daemons. Two history variables: `flushed` is the store at the moment
of the flush, `alone` says that no timer's thread was writing then.

### MessageLimiter

`Put` is the merging enqueue, `Enqueue` a call and `Retry` the wrapper's next
attempt. The worker is split where it suspends: `Take`, `PauseOver`, `Acquire`,
`SendSucceeds`/`SendFails`. Deadlines are what is left of them and timestamps
are ages, so that time needs no bound; `Tick` is a second, and due retries run
before the next one. `starts` is history. The sleeps inside `acquire` are
folded into its success. The generic handler of the worker (`await
asyncio.sleep(1)`) is left out: nothing in the loop raises, and an exception
whose `seconds` is no number is not considered.

### ChatPlatform

`updates` are those the chat has and the library has not handed over. Telegram's
library waits for a handler before the next update, Discord's starts a task for
each: `MayDispatch`. `msgs[m].at` is the call its handler is suspended in,
`tries` the attempts of Telegram's `_with_retry`. Any call may raise or be tried
again, and may have had its effect when it raises. The registry's operations
hold their lock over no `await`, and neither does `is_pending` with the
`complete` that follows, so each is part of one step. `clear` follows each
/clear through its lookup, deletions and answer; Telegram deletes in one call,
Discord message by message. `fate` is history.

### ChatSide

Puts the adapter and the limiter side by side. They share no variable (the
adapter's calls to the limiter are, for the adapter, calls that return or
raise), so a behaviour follows one of the two: interleaving them would add
nothing that a property sees. It extends both, so that a property of a part,
and the theorem about it, is about the same definition as the run's.

### CliSessions

One prompt's task is followed from its start to the removal of its session,
with every `await` at which a cancellation can arrive. `phase` says where the
handler is (waiting for the manager's lock in one of its three calls, reading
events, waiting in `remove_session`), `gen` where its `start_task` generator
is. `pending`, `sessions`, `tempToReal`, `realToTemp` are the manager's maps,
`process` is `CLISession.process` and `pids` the registry. A `CLISession` is
named after the task that created it, a process after the task that runs it.
`GetOrCreateSession`, `RegisterRealSessionId`, `RemoveSession`/`SessionRemoved`
and `StopAllBegins`/`StopAllStopped` are the manager; `TakeCliLock`, `Spawned`,
`StdoutEnds`, `StderrEnds`, `ProcessWaited`, `StopReturns` the generator;
`DeliverCancel` is a `CancelledError`, by where it arrives; `KilledInShield`
and `KilledByHolder` are the five-second timeout of `stop()`.

The manager's lock is first in, first out (`lockQueue`). A task that finds it
free goes on to its next `await` without a suspension, so `granted` keeps
everyone else from stepping in between. A session's lock is granted to any of
its waiters, which is more than asyncio allows. Updates of the status message
are left out: with a limiter a platform only queues them and does not suspend.
A generator the handler abandons (an exception in the handler, a cancellation
at the manager's lock) is closed by a task asyncio makes for it, which passes
the `finally` clauses (`gen` = `closing`). A process that is being spawned when
its task is cancelled is killed by asyncio. The trees are reduced to when they
let a task start: one at a time, but "/stop" frees a tree under its task, as in
`TreeQueue`.

Two history variables name what the properties except. `overlapped` holds tasks
that were at work beside another of their tree (finding 1): they may share a
session, and the first to end stops the other's process. `cut` holds tasks
whose `remove_session` was itself cancelled (finding 3).

### ProviderLimiter

A stream's task stops at each `await`: for a slot (`TakeSlot`), in the sleep of
a block (`BlockOver`), for the window (`Send`, which takes the window slot and
sends with no `await` in between), for the answer (`Answered`, `RateLimited`,
`Exhausted`, `Errs`), in a retry's delay (`Retry`) and in the stream (`Ends`).
`Downgraded` is NVIDIA NIM's refusal of a field it does not know, after which
`_create_stream` calls `execute_with_retry` once more, with attempts of its own
and the same slot (`again`).
`Reconfigure` replaces the limiter of the scope; a stream keeps the one its
provider object holds (`lim`). Delays are 2^n ticks or one more, for the
jitter. `sends` and `pause` are history.

### StreamContract and the modules that write streams

`StreamContract` is the assertion of `stream_contracts.py` as a reader of one
event at a time: `Observe` keeps what is open and has been seen, and remembers
whether an assertion has failed. Each producer gives every event it yields to
a reader, so the contract is checked at every point of a stream and not only
for whole streams.

`OpenAiStream` follows the chunks. `SSEBuilder` and its `ContentBlockManager`
are the record `sse`, and each of their methods an operator on it. Text is a
token per chunk, the tokens being what the two parsers tell apart, split tags
and split control tokens included; `ThinkNext`/`ThinkOutput` and `Feed` are the
parsers as automata. Tool names and ids of Task calls are sequences of
fragments, arguments sequences of pieces of JSON, `Parsed` what `json.loads`
makes of them. What a parser does inside one parameter is left out.

`NativeStream` holds the provider to little: it begins with `message_start` and
sends no block after `message_stop`. In between it may start, fill and stop any
index in any order: blocks overlap, indices come back, deltas come late, stops
are missing, repeated or early, and the stream can break off anywhere. `policy`
is `NativeSseBlockPolicyState`, `tracker` the `EmittedNativeSseTracker`. Two
things the policy does not repair are noted in `upstream`: `again`, an index
that is started before its stop (native_sse_block_policy.py:163 overwrites its
segment, whose block is then left open) or after it held hidden thinking (line
196 does not take it out of `dropped_indexes`), and `stray`, an event that no
block of its kind answers to, which is passed on as it is (lines 288, 311).

`MessageService` is the choice `create_message` makes and the turn of a forced
`web_search` or `web_fetch`. Parsing and fetching are one step that yields a
result or an error; redirects are counted.

### Conversion

One action per message of the client, by role and by whether it is a list or a
string; a user's list is read block by block (`UserListBegins`, `UserText`,
`UserResult`, `UserListEnds`), as the converter does, with texts and results in
any mixture. Each text or thinking block is a number in the order it was said.
`waiting` is `_PendingAfterTools`, `list` what the loop over a list holds: its
texts not yet flushed, and what its results have brought out, which a further
result brings out again. A result may be for any call, whether it is due or
not, or for none. `client` notes what the properties except (`stray`, `early`,
`overtaken`, `repeated`). Calls all have ids.

### Transcript

The CLI numbers blocks anew with each message, so the model gives each block a
number of its own beside its index; a segment knows the blocks whose text it
holds. `cli` is the CLI as the transcript should understand it: what an index
stands for, which blocks are live, which calls were made and lack a result. An
index may be used again at any time, inside a subagent or outside, with or
without a stop. `stack` is the subagent stack. `Tasks` has ids that begin with
one another because the code compares by prefix, and a result carries any of
`Answers`: the id of this or another call, a variant of one, one that only looks
like a Task's, or none. `StopShown` is the edit a stop makes itself, past the
editor (handler.py:602-612), before the task sees its cancellation or after; a
cancellation without the reason of a stop adds an error segment. Rendering keeps
the newest `Fits` segments; that is all the editor's properties need of it.

### ProviderStreams

Composes the five modules about what passes between a provider and the user.
Like `ChatSide`, it lets a behaviour follow one of them. It extends
`Transcript` and has the others as instances; its properties are those of the
parts, stated for whoever reads the stream.

## Runs

| run | bounds | shows |
|---|---|---|
| `tree_full` | 3 prompts, all commands, one /clear at a time | queue, index, parents, one task per prompt, stopped stays stopped |
| `tree_serial` | 3 prompts, /stop as a reply | refinement of `SerialQueue`, one task per tree, a stop reaches its task, liveness |
| `session_store` | 2 keys, 3 timers, 3 mutations, 1 failed write, 1 crash | no unsaved change without a saver, quiet means saved, eventually saved |
| `app_runtime` | 3 providers, 1 configured, 1 prompt, 2 timers, 2 mutations, 1 failed write | cleanup is complete, the flush is kept, shutdown ends |
| `chat_side` | limiter: 2 keys, 3 calls, 3 errors, 2 sends per 2 s, floods of 2 s; adapter: 2 messages, 2 /clear | window, flood wait, last text, every call answered; a cancelled note never runs, a prompt has its status, handlers return |
| `cli_sessions` | 2 prompts and an earlier session, one "/stop" as a reply to each, one "/stop" of everything | sessions in the maps once, processes tracked, a stop ends its process, no one stuck on a lock |
| `provider_limiter` | 3 streams, 2 slots, 2 limiters, 1 send per tick, 1 retry, 1 downgrade, block of 3 | requests within the window, slots accounted, streams end |
| `provider_streams` | 3 chunks; 5 events on 2 indices; 2 redirects; 3 messages with 4 blocks and 2 results; 4 CLI events, 1 index, 3 tasks, 6 ids of results, room for 1 segment | contract of all three producers, whole messages after failures, results after calls, everything said once and in order, transcript and final text |
| `stop_all` | 3 prompts, /stop | **violation**: two tasks of a tree at once |
| `clear_branch` | 3 prompts, /clear as a reply | **violation**: a tree busy without a task |
| `stop_twice` | as `cli_sessions` | **violation**: a stopped task leaves its process running |
| `paused_means_paused` | as `provider_limiter` with 2 streams, 1 send per 2 ticks | **violation**: a request is sent while the provider is to be left alone |

Why the bounds are enough. Three prompts give every shape a tree distinguishes:
a running node with two queued, a chain of three, two siblings, two trees; each
known anomaly needs at most three. One pending `/clear` overlaps every other
handler; two overlapping ones differ only in the second finding less. Three
timers are one armed, one fired and one writing, the states that can coexist.
Two tasks are enough to share a session, to overlap in a tree and to wait for
each other at both locks; the earlier session lets the two fork the same one,
and each may fork the other's. One "/stop" of everything beside one per prompt
gives the second stop that reaches a task in its `finally` clause. Three calls
let one be in the worker's hands while two merge behind it, and three errors
exhaust the retries of a call. Two messages and two /clear let a note be
cancelled by its own id and by its status's, while another waits behind it.
Three providers are one that is configured and two that only the refresh asks,
of which one may answer and one not. Three streams are two that hold the slots
and one that waits; two limiters are a scope before and after a change of
configuration; a window of one tick keeps the liveness check small, and the
chat's run has one of two. Three chunks open a block of one kind, turn to
another and come back, or split a tag, a name (`Ta`, `sk`) or an argument and
complete it. Five native events start two blocks over each other, resume the
first and stop both; closing two blocks at one start, which needs a third index,
is left to the proof. Two redirects stand for the ten of
`_MAX_WEB_FETCH_REDIRECTS`, as the turn only tells the last from the others.
Three messages with four blocks and two results are a call with text behind it,
a list that mixes results with texts, and someone else who speaks. Four CLI
events nest two Task calls and answer them in either order, or open an index
twice and write to it. Text that begins inside a subagent at an index still
open, which `SegmentsUnmixed` excepts, takes five; with five TLC finds the
property violated without its exception. Deadlock checking is off because each
system may come to rest: all prompts answered, streams ended, bounds used,
process exited.

`TreeQueue`, `SessionStore`, `MessageLimiter`, `CliSessions` and
`ProviderLimiter` have a `TypeOK`. That of `TreeQueue` is proved; what the
other proofs need of the types is part of their inductive invariants.

Fairness. A created or cancelled task is stepped, timers go off, threads are
scheduled, locks are granted, and calls to the platform return or raise. The
CLI process of a prompt is assumed to exit in `TreeQueue`; nothing in the code
times it out. Users owe nothing. `TimerSnapshots` has strong fairness because
it competes for the store's lock. In `CliSessions` the CLI of a prompt need not
exit or close its output by itself: only a process that has exited is assumed
to have its pipes ended, and only `stop()` makes one exit, by its timeout. The
weak fairness of each of its actions is that of the event loop for what is
ready; the lock is in order, so no strong fairness is needed. `AppRuntime` relies
on its own timeouts and on the store's write and on nothing that is being
stopped. `ChatPlatform` relies on calls that have timeouts and a transcription
of a bounded file, and on the library for the next update. In
`ProviderLimiter` a request that was sent is answered or fails, as httpx has a
read timeout; a stream that was taken up ends, for the same reason; waiters on
the semaphore need only weak fairness once all streams before them end, as the
number of streams is finite.

## Findings

1. `cancel_tree` (queue_manager.py:568) frees the tree while the cancelled task
   is still cleaning up; that task's last step starts a second one beside the
   task of the next reply (run `stop_all`).
2. `remove_branch` (queue_manager.py:715-718) leaves removed ids in the queue;
   dequeuing one marks the tree busy for good (run `clear_branch`).
3. A "/stop" that arrives when the CLI has closed its output but not exited
   passes by the clause that stops the process (session.py:218-226) and
   unregisters its pid; a second "/stop" cancels the removal that would have
   stopped it (run `stop_twice`).
4. A request that found no block waits for a slot of the window
   (rate_limit.py:134-144) and does not look again: when another request is
   refused meanwhile and sets a block, the first is sent within it, where the
   class says "Reactive limits - pauses all requests when a 429 is hit"
   (rate_limit.py:29; run `paused_means_paused`).

### Known divergences without a run

Seen in the code while it was modelled. The models follow the code in each, and
the properties except them or do not speak of them.

- A failing exit is parsed to an error and then a complete event
  (event_parser.py:157): the node ends as COMPLETED.
- A write that began before another thread's snapshot can end after that
  thread's write, and leaves the older version on disk with nothing left to save
  it: over a cleared store, or over the flush of a shutdown (session.py:145-149,
  155-173; the lock covers only the snapshot). `QuietMeansSaved`,
  `EventuallySaved` and `FlushIsKept` except just these snapshots; without the
  exception (`FlushLosesNothing`) TLC finds the flush violated in the
  configuration of `app_runtime`.
- A block set by a longer pause is replaced by a shorter one (rate_limit.py:163),
  and a request that has slept out a block does not look for another.
- Changes made after the flush of a shutdown are left to daemon timers and lost
  (session.py:133, 165); `FlushIsKept` covers what was there at the flush.
- A retried edit can replace a newer text of the same message (limiter.py:263);
  `QuietShowsLatest` excepts keys with retries.
- A task cancelled before its first step never frees its tree
  (queue_manager.py:297, 327); `EveryPromptSettles` excepts it.
- An error after a started tool block is told beside the message, so that no
  text follows the tool (openai_compat.py:361-362). A tool call found in the
  text is not among the tool states that are asked (sse.py:128-130), and the
  error then does follow it as text.
- A tool name that comes in pieces is started with its first piece
  (sse.py:94-97), so the client sees a name that is too short, and arguments
  between the pieces of `Task` are passed on as they come. The client is not
  told that such a call is a Task; `TaskArgsNormalised` is about those it is
  told of.
- An index of a native stream that is started again before its stop, or after
  it held hidden thinking, leaves a block open at the end of the message
  (native_sse_block_policy.py:163, 196), and a delta or a stop that no block
  answers to is passed on raw (288, 311). `NativeWellFormed` excepts the first
  for the end of a message and the second altogether.
- A failed transcription leaves its note in the registry (telegram.py:683-700):
  a later /clear reports it as cancelled.
- What is put off is sent a second time when a user's list has another tool
  result after the last one that was missing (conversion.py:455-462 do not ask
  `deferred_emitted`); `SaidOnceInOrder` excepts it (`repeated`).
- A text in a user's list (conversion.py:429-431), and an assistant's message
  that is a string (218 asks for a user's), are written before what is put off
  while that is kept; `SaidOnceInOrder` excepts them (`overtaken`).
- A text in a user's list before a tool result becomes a message of its own
  between the call and the result (conversion.py:438-441), which
  `ResultsFollowCalls` allows when the client says it there (`early`).
- Text or thinking that begins inside a subagent at an index where a block from
  before is still open returns before that block is stopped
  (transcript.py:348-356), so what comes at the index after the subagent goes
  into the old segment; `SegmentsUnmixed` excepts it (`crossed`).
- A stop edits the status message itself (handler.py:602-612) and may do so last:
  the message then shows `Stopped` and nothing of the transcript, which
  `FinalTextShown` states.
- Task ids are compared by prefix in both directions (transcript.py:271-316),
  so a result can take another call's entry off the stack. With calls 10 and 1
  open, the result of 10 removes 1; then 12 is called and the result of 1
  removes 12; the result of 12 finds only 10, which stays, and the agent's own
  text is suppressed for good. A result whose id is a variant of one call's can
  take off another's in the same way. `AnsweredTasksRelease` assumes
  `IdsTellTasksApart`, that ids that count as the same as a third count as the
  same as each other.
- A Task call without an id is closed by a result without one or with an id that
  looks like a Task's (transcript.py:498-508); after an ordinary result id it
  stays on the stack and suppresses what follows. `AnsweredTasksRelease` excepts
  it (`strange`).
- The result of one of two parallel Task calls closes it and all above it
  (transcript.py:306), so what a Task that is still at work says can be shown,
  where transcript.py:347 says that only tools are.
- python-telegram-bot's errors for refused markup and for messages that are
  gone are network errors to the first except clause of `_with_retry`
  (telegram.py:229), which leaves little to the last one (257-277): they are
  tried three times. The model allows either outcome at each attempt.

## Proofs

For any values of the constants that satisfy the named assumptions:

| module | theorem | property |
|---|---|---|
| `TreeQueueProofs` | `Invariance` | the inductive invariant `Inv` |
| | `TypeCorrect` | `TypeOK` |
| | `NoForgottenPrompt` | `FreeTreeHasEmptyQueue` |
| | `QueuesAreFresh` | `QueuedIsUnstarted` |
| | `IndexAgrees` | `IndexMatchesTrees` |
| | `NoOrphans` | `ParentsAreKnown` |
| | `OneTaskPerPrompt` | `StartedAtMostOnce` |
| | `StoppedIsFinal` | `StoppedStaysStopped` |
| | `NeverTwoTasks` | `OneTaskPerTree`, if `Commands \subseteq {"stop_node"}` |
| | `TreesAreSerialQueues` | `SerialQueueSpec`, under the same condition |
| | `StopsReachTasks` | `StopReachesTask`, under the same condition |
| `AppRuntimeProofs` | `ChangesHaveASaver` | `DirtyHasSaver` |
| | `RestingStoreIsOnDisk` | `QuietMeansSaved` |
| | `CleanupLeavesNothing` | `CleanupIsComplete` |
| | `FlushSurvivesExit` | `FlushIsKept` |
| `ProviderLimiterProofs` | `NoSlotIsLost` | `SlotsAccounted` |
| | `RateIsKept` | `SendsWithinRate` |
| `ChatSideProofs` | `NoCallIsForgotten` | `WaitingIsHeld` |
| | `BurstsAreBounded` | `NoBurst` |
| | `PausesAreKept` | `FloodWaitIsKept` |
| | `LastTextStays` | `QuietShowsLatest` |
| | `AdapterIsInOrder` | the inductive invariant `AdapterInv` |
| | `CancelledStaysOut` | `CancelledNeverRuns` |
| | `StatusOfPromptStays` | `PromptsHaveStatus` |
| | `ChatIsLimiterAndAdapter` | a behaviour of `ChatSide` is one of the limiter and one of the adapter |
| `NativeStreamProofs` | `NativeStreamIsWhole` | `NeverWrong` and `EndsWhole` of `NativeStream` |
| | `NativeFailureIsWhole` | `FailureIsWhole` of `NativeStream` |
| `ProviderStreamsProofs` | `TranscriptIsInOrder` | the inductive invariant `TranscriptInv` |
| | `AnsweredIsShown` | `AnsweredTasksRelease` |
| | `BlocksStayApart` | `SegmentsUnmixed` |
| | `EndingIsShown` | `FinalTextShown` |
| | `NativeStreamsAreWhole` | `NativeWellFormed` |
| | `FailedStreamsAreWhole` | `FailureIsWhole` |
| | `OpenAiStreamsAreWhole` | `OpenAiWellFormed` |
| | `TaskArgsAreHeld` | `TaskArgsNormalised` |
| | `ResultsStayBehindCalls` | `ResultsFollowCalls` |
| | `EverythingSaidOnce` | `SaidOnceInOrder` |
| | `StreamsHaveTranscript` | a behaviour of `ProviderStreams` is one of `Transcript` |
| `CliSessionsProofs` | `OneEntryEach` | `OneEntryPerSession` |
| | `SessionTypes` | the type invariant `TypeOK` |
| | `RunningStaysTracked` | `RunningIsTracked`, from the inductive invariant `TrackInv` |

**Trees.** The assumptions are the three of the module: `None` is no prompt,
`MaxClears` is a natural number, the commands are known ones. No prompt set
needs to be finite. `Inv` joins the five state properties with `Placed`, which
says for each stage of `handle_message` what may exist of the prompt: before it
is placed it is in no tree, has no task and no queue holds it; afterwards its
`home` names the tree whose queue or task it is in. Without `Placed`,
`QueuedIsUnstarted` is not inductive: an unplaced prompt could be queued
already. `FreeTreeHasEmptyQueue` then follows from how `EnqueueAndStart`,
`ProcessNext` and `CancelTrees` treat the flag and the queue together;
`OneTaskPerPrompt` from `QueuedIsUnstarted`, as a task is created only for a
fresh or a queued prompt. The proofs first show what each operation on queues
does (`Without` keeps order and membership, which rests on a counting lemma
`RankBijection`), then one step per action.

**Serial queues.** Where no tree or branch is cancelled as a whole (the condition
of `TreeQueueSerial`; the runs `clear_branch` and `stop_all` show that it
is needed), `OneTaskPerTree` is inductive beside `Inv` and `NothingCleared`: no
node leaves its tree, so that `ProcessNext` never dequeues an id without a node,
which would leave the tree busy without a task. It makes the refinement mapping
a plain one: what the abstract queue works on is the current node of a tree that
is processing. `RefinesStep` maps the placing of a prompt to `Accept`, the last
step of a task to `Finish`, "/stop" to `Withdraw` and every other step to a
stutter. `Withdraw` needs `WithoutKeepsOrder`: what is left of a queue comes
from increasing places of the old one. `StopReachesTask` needs in addition that the
task a tree would cancel is its current node's (`TaskIsCurrent`).

**Store.** `DirtyHasSaver` is inductive beside the types: whoever sets the flag
arms a timer in the same step, or the write has failed; a callback that goes
away without a snapshot found the flag down, and cancelling takes away only the
timer that is replaced. `QuietMeansSaved` is not: it says nothing of a
snapshot that is on its way. `IInv` adds that, unless the last snapshot was
taken during another's write, one thread writes at a time (`OneWriter`), the
snapshot it writes is the store unless the flag is up again (`WriterIsCurrent`),
and with nobody writing and the flag down the file is (`FileIsCurrent`). A
snapshot that is taken alone makes all three true again. Neither
theorem bounds the keys, timers, changes, failures or crashes.

**Runtime.** `CleanupIsComplete` speaks of the end of the cleanup only.
`RegistryInv` adds what holds before: from the cleanup on no refresh can run
(`RefreshIsOver`), and while it runs every open provider is still ahead of it
(`CleanupIsAhead`), so that an empty `left` means that none is open. For
`FlushIsKept` the invariant says that nothing falls behind the flush: the
store, the snapshot of the loop, and, if the loop flushed alone, the snapshot of
each timer and the file once the flush is written are at least `flushed`, as
versions only grow. That the runtime
touches the store only through the store's own operations (`StoreUse`) brings
in the store's own invariant, proved before it in the same module.

**Slots.** `SlotsAccounted` is inductive with the types of four variables:
every action leaves a limiter's holders alone, adds one stream and takes a
slot, or the reverse, and a stream that leaves gives its slot to the limiter it
took it from, which `Reconfigure` does not change. The counting rests on the
library's facts about finite sets; `Streams` is assumed finite.

**Windows.** Both limiters use the deque of `core/rate_limit.py`, and both are
observed through a log of the sends of the last window. `SlidingWindowProofs`
shows, for every rate and window, that the deque covers the log: it is the log
in order, behind timestamps that have left the window (`InWindow`). Pruning takes
away just those (`PrunedIsLog`, which needs that a set of places closed
downwards is an initial stretch), so that what is left to compare with the rate
is the log, and a free slot is room for a send (`AcquireStep`); `AgeStep` is a
tick. `RateIsKept` and `BurstsAreBounded` apply these to the steps of the two
limiters, the first to each limiter of a scope by itself.

**Calls.** `WaitingIsHeld` alone is not inductive: a merge could add a future to
a key that is not its own, and the worker could take a key's futures over those
it holds. `FutureInv` adds that a future is queued under the key of its call
(`QueuedUnderOwnKey`), that a call not yet made is in no place
(`UnmadeIsNone`), that none is in two (`NotBoth`) and that the worker looks for
work with empty hands (`IdleHoldsNothing`). `PausesAreKept` needs that the
worker goes from its look at the pause to the send with nothing in between but
the window, where a pause cannot begin: only a send of its own sets one
(`PauseInv`).

**Last text.** `QuietShowsLatest` speaks of a key at rest. `TextInv` says what
is true on the way there: while no call for a key was retried, the key's newest
call is queued and held together with its own text, and once it is done nothing
older is queued or held for the key (`NewestInForce`). It rests on
`FutureInv`, on each key being queued once and with a text of its own
(`QueueInOrder`, `TextUnderOwnKey`), on a worker at work holding a text, and on
sleepers having tried. It gives more than the property: only the newest call
has to be done, not every call for the key.

**Adapters.** `NoteInv` says of each message what the place of its handler means.
Before the tree is decided on (`OnItsWay`), the message is neither registered
nor being cleared, cancelled or placed; a prompt in the tree (`InTree`) is none
of the first three for good; who is cancelled or being cleared is not
registered (`TakenOut`); and the status is in the chat while the message is
placed, is a prompt, or is being transcribed and still registered
(`StatusStays`). `QueuedOnce` is needed for the first: an update handed over
twice would send a message that is in the tree on its way again. Both
properties follow. The number of messages, of clears and of attempts is free.

**Transcript.** `AnsweredTasksRelease` counts: for every id that was seen, at most
as many entries of the stack match it as calls that match it lack a result
(`StackInv`). A pop at a result takes out one matching entry if there is one, so
both sides go down together, which needs that matching is an equivalence on the
ids that were seen, those of the answers included (`IdsTellTasksApart`), and
that the code takes the result for an answer to its call (`strange` notes
otherwise); without either the property is false, as the divergences above
show. Results of other tools may only take entries away. Calls without ids push
one name and each result takes one entry away, so that the stack is never longer
than the calls that wait.
`SegmentsUnmixed` rests on `SegmentInv`: unless something was crossed, the segment
an open block writes to holds the text of the block that is live at its index,
and no two kinds are open at one index. `FinalTextShown` is invariant by itself:
a prompt's end always edits, whatever the throttle dropped before it.

**Native streams.** The property is about the reader at the far end: an event is
never out of place for it, and it ends with a whole message. It needs what the
proxy believes to be what the reader has seen. `PolicyOk` says that the policy's
segments have distinct indices below `next` and that a stop is swallowed of
closed ones only; `UpstreamOk` that what the provider has told of a block agrees
with its segment; `ReaderOk` that the reader's open blocks are the policy's open
segments and those a restarted index left behind, and that it has seen no index
from `next` on; `Agree` that the tracker's stack is what the reader has open,
each once, and its highest index above all that was seen. Then every event the
policy yields is one the reader can take. The hard steps write several: those
that close other segments before they open one, and the failures, which close
what the tracker holds and add an error block at a fresh index. All of this
holds until the provider sends something stray. A failure then makes a whole
message in any case, the end of the stream when the provider closed its blocks
and started none again.

**OpenAI streams.** `BuilderOk` is the agreement between `SSEBuilder` and the
client: the client's open blocks are exactly the builder's thinking block, text
block and the blocks of its started tools, all below `next`, and no two tools
have the same block. Each method
of the builder has a lemma that says what it makes of the blocks
(`ThinkingStarts`, `TextStops`, `ToolStarts`, ...); each step of a chunk
(`ContentOk`, `ToolCallProcessed`) and the ends of a stream (`EndedIsWhole`,
`FailedIsWhole`) are chains of them. The ends close tools in the order of a set,
which the model leaves open, so the lemmas about folds (below) are used
twice: for flushing held arguments (`ArgsFlushed`) and for stopping
(`ToolsStop`). `ToolOk` adds what is true of a tool before its block is started:
it has sent and kept nothing; and of one that the client was told is a Task:
its name is Task or has grown beyond it, and only in the second case was an
argument passed on as it came. That is `TaskArgsAreHeld`, for names and arguments
cut up in any way.

**Conversion.** `ConversionInv` says why results stay behind their calls.
As long as every result came when it was due (`stray` notes otherwise), there
is a message with all calls that are open behind which there are only results,
and what the user said in lists (`CallIsNear`); what is put off waits for at
least the calls that are open, and once it has been brought out none is
(`ResultsInv`), so it cannot be written between a call and a result that is
due. `ConversionSteps` goes through the client's actions; each adds its messages
behind what is there (`OthersAdded`, `ResultsAdded`).

`OrderInv` says why nothing is lost, repeated or moved. Unless the conversation
was refused or did what the property excepts (`Spoiled`), what is written, behind
it the texts of a list that is being read and behind those what is put off
(`Written`) tell every text, and every thought that the mode keeps, once and in
order (`Told`); when it ends whole, the last two are empty. What the client says
keeps this because its blocks have numbers above those before (`ToldMore`) and
because what it adds to `Written` says what it says (`Adds`). That is shown of a
message without calls (`WholeTells`), of one that is cut at its first call, with
its texts and thoughts before, between and behind the calls (`SplitTells`), and
of one text (`OneText`, `OrderText`). Results and the end of a list say nothing
and only move the border between the parts of `Written` (`OrderResult`,
`OrderListEnds`). Of a message only what the operators pick
from its blocks counts (`Says`, `SpokenIs`). Below these are facts about the
sequence operators: `FlattenSeq` and the selection `Only` of a concatenation
(`FlattenJoined`, `OnlyJoined`). They are proved through `SeqInduction`, which is
stated of a set of sequences and not of a predicate. `Only` selects with
`FlattenSeq`, which is defined by a recursive function, and not with `SelectSeq`,
whose recursion the provers cannot unfold.

**Folds.** The folds of the community modules are `MapThenFoldSet`, a function
over subsets that is chosen by its equation. That such a function exists has to
be proved before anything can be said of it: `FoldExists` (sequences, in
`NativeStreamProofs`) and `SetFoldExists` (sets) take a least counterexample
in the length and the cardinality, as the library's induction theorems have an
operator for a parameter. `IteratesInSteps` then reads a fold over a sequence
step by step, and `SetGrows` gives an invariant over one whose order is open:
what holds of the base and is kept by each element of the set holds of the
result.

**Compositions.** `ChatSide` and `ProviderStreams` let a behaviour follow one of their
parts, and the parts' steps are theirs. For a part that is extended this is
immediate (`ChatIsLimiterAndAdapter`, `StreamsHaveTranscript`).
`NativeStream` is an instance, and so is the module of its proofs (`NP`): the
definitions are the same there and here, which is shown for each one that is
used (`SameContract`, `SameFailure`); the invariant is then that of the part
while a behaviour follows it, with `TurnInv` for the turn of a web tool,
which writes to the same reader.

**Sessions.** The proof of `OneEntryEach` follows a session object. It enters the pending map in
the one step in which its own task is handed it, when it is nowhere yet
(`NoEarlyEntry`); `register_real_session_id` moves the entry it finds
(`RegistersAnId`: the id it is given was handed out), over whatever the real id
stood for; every other step only takes entries away. `OneEntry` is the property
without counting. Nothing depends on who holds the lock: each of the manager's
bodies touches the maps in one stretch between two awaits.

**Running processes.** `RunningIsTracked` is far from inductive, since what takes a
process off the registry is a `stop()` of its session by somebody else: by
another task's generator, by `remove_session`, by `stop_all`, or by the shielded
`stop()` that a second cancellation left behind. `TrackInv` says why none of
them comes before the finally clause of a task that no overlap disturbs.
Who holds the lock and at which place of its program each actor is (`Holder`,
`Stages`) fix what can happen next. Session ids stay in the tree of
the prompts that were handed them (`ByTree`), two tasks of a tree at work are
beside each other (`Beside`), and `_cli_lock` keeps the generators of a session
apart (`Exclusive`), so that a task alone in its tree has its session to itself
and the session its process (`OwnsAlone`). An id is in no map before its process
announced it (`Fresh`), so the session stays where `remove_session` will look
(`EntryIsThere`), which is then the session whose process it waits for
(`VictimOfRemove`). `stop_all` has every such session among those
it is still to stop (`StillToStop`), because nothing is started while it is at
work except by tasks it cancelled (`NoneSpawns`), because the lock's queue is
first in, first out and nobody is handed a session ahead of a waiting `stop_all`
without being cancelled by it (`Queue`). A `stop()` that goes on by itself does
so in a session that is out of the maps (`OutOfMaps`) and that nobody works
in undisturbed (`LeftAlone`). The assumptions are that the names of the
actors differ, that the bound on `stop_all` is a natural number, and that `None` is no
session id (`NoneIsNoId`). Before it was proved, TLC checked `TrackInv` as an invariant
exhaustively for two tasks and two `stop_all` (625,936 states) and on simulated
behaviours with three tasks.

Every invariant and every action property that a passing run checks is stated by
a theorem, under the condition that the table names where it names one. Only
model-checked are the liveness properties
(`EveryPromptSettles`, `EventuallySaved`, `EveryCallAnswered`, `HandlersReturn`,
`StopKillsProcess`, `EndsAfterProcess`, `StreamsEnd`, `ShutdownEnds`): liveness
under fairness is out of the provers' reach, as are `ENABLED`, recursive
operators and the library's theorems of induction.

## Not modelled

- `configuration`: settings are read and validated once, without state.
- The testgen engine and its front ends: a program of its own in another
  language. Its worker pool would make a module of the size of
  `ProviderLimiter`; no caller of it cancels its context, so that nothing stops
  the pool but the end of its work.
- Text: Markdown, formatting, splitting of long messages, token counts, model
  names, the canned answers of `api/optimization_handlers.py`, parsing of pages.
- Images, system prompts and tool definitions in the conversion: each is mapped
  by itself, with no order or state. Tool calls without an id: what is put off
  behind them waits for no result (conversion.py:241-250).
- The connection of a platform is one step; permission checks are a choice.
- Smoke tests, skills, commands and documents are not part of the running system.

## Plan

1. `WorkerPool` of testgen.
2. The adapter, the tree queue and the limiter in one composition, when the
   instance can be kept small enough to be checked.

------------------------------ MODULE AppRuntime ------------------------------
(***************************************************************************)
(* Startup and shutdown of the proxy (api/runtime.py): the configured      *)
(* models are validated, a refresh of the other model lists is started in  *)
(* the background, the chat platform is connected, and at the end the      *)
(* session file is flushed and everything is stopped in turn, each step    *)
(* with a timeout.  The provider registry (providers/registry.py) and the  *)
(* prompts' CLI processes are followed through it; the session store is    *)
(* that of SessionStore.  Uvicorn has ended all requests before it shuts   *)
(* the application down.                                                   *)
(***************************************************************************)
EXTENDS SessionStore

CONSTANTS
  Provider,    \* providers with a credential
  Configured,  \* those of the configured models
  Prompt       \* prompts, each saved under a key of the store

ASSUME ConfiguredAreProviders == Configured \subseteq Provider
ASSUME PromptsAreKeys == Prompt \subseteq Key

VARIABLES
  phase,      \* where AppRuntime is
  chat,       \* the chat platform
  prompt,     \* each prompt's task and its CLI process
  provider,   \* each provider object
  lists,      \* providers whose model list is cached
  refresh,    \* the task that refreshes the model lists
  left,       \* providers that cleanup has not come to; it timed out if any
  flushed,    \* what the store held when shutdown flushed it
  alone       \* history: no timer's thread was writing then

storeVars == vars
runtimeVars == <<phase, chat, prompt, provider, lists, refresh, left, flushed, alone>>
allVars == <<storeVars, runtimeVars>>

\* The steps of shutdown and what follows each; a startup that fails has one
After(step) ==
  CASE step = "chat" -> "cli" [] step = "cli" -> "registry"
    [] step = "registry" -> "limiter" [] step = "limiter" -> "down"
    [] step = "failing" -> "failed"
Steps == {"chat", "cli", "registry", "limiter", "failing"}

RuntimeInit ==
  /\ Init
  /\ phase = "starting"
  /\ chat \in {"none", "configured"}
  /\ prompt = [p \in Prompt |-> "none"]
  /\ provider = [p \in Provider |-> "absent"]
  /\ lists = {}
  /\ refresh = "none"
  /\ left = {}
  /\ flushed = Empty
  /\ alone = TRUE

-----------------------------------------------------------------------------
(* The registry                                                            *)

Open == {p \in Provider : provider[p] = "open"}

\* A provider asked for its models may not answer, or not in a known format
Answers == SUBSET Open

\* cache_model_infos for each that did
Listed(answers) == lists' = lists \cup answers

\* get: a provider that is not in the cache is put there
Got(ps) == [p \in Provider |-> IF p \in ps /\ provider[p] = "absent" THEN "open" ELSE provider[p]]

\* create_provider raises for one that lacks its credential
Created(ps) == \E creatable \in SUBSET ps : provider' = Got(creatable)

\* start_model_list_refresh, unless every list is known
RefreshCreated == refresh' = IF lists' = Provider THEN "none" ELSE "created"

\* validate_configured_models creates the providers of the configured models
\* and asks them for their lists
ValidationStarts ==
  /\ phase = "starting"
  /\ phase' = "validating"
  /\ Created(Configured)
  /\ UNCHANGED <<storeVars, chat, prompt, lists, refresh, left, flushed, alone>>

\* A provider that could not be created or asked, or does not know its model,
\* makes startup fail once all have answered
ValidationEnds ==
  /\ phase = "validating"
  /\ \E answers \in Answers :
       /\ Listed(answers)
       /\ \/ /\ answers = Configured
             /\ phase' = "connecting"
             /\ RefreshCreated
             /\ UNCHANGED left
          \/ phase' = "failing" /\ left' = Open /\ UNCHANGED refresh
  /\ UNCHANGED <<storeVars, chat, prompt, provider, flushed, alone>>

RefreshStarts ==
  /\ refresh = "created"
  /\ refresh' = "asking"
  /\ Created(Provider \ lists)
  /\ UNCHANGED <<storeVars, phase, chat, prompt, lists, left, flushed, alone>>

\* Lists of providers that do not answer are left out
RefreshEnds ==
  /\ refresh = "asking"
  /\ refresh' = "done"
  /\ \E answers \in Answers : Listed(answers)
  /\ UNCHANGED <<storeVars, phase, chat, prompt, provider, left, flushed, alone>>

-----------------------------------------------------------------------------
(* Serving                                                                 *)

\* The outcomes of start, which tries three times and then raises
Connections == IF chat = "none" THEN {"none"} ELSE {"up", "broken"}

\* A platform that does not connect is logged, and its handler stays
Connect ==
  /\ phase = "connecting"
  /\ phase' = "serving"
  /\ chat' \in Connections
  /\ UNCHANGED <<storeVars, prompt, provider, lists, refresh, left, flushed, alone>>

HttpRequest(p) ==
  /\ phase = "serving"
  /\ provider[p] = "absent"
  /\ provider' = Got({p})
  /\ UNCHANGED <<storeVars, phase, chat, prompt, lists, refresh, left, flushed, alone>>

Serving == phase \in {"serving", "chat"} /\ chat = "up"

\* Every step of a prompt saves its tree
PromptStarts(p) ==
  /\ Serving /\ prompt[p] = "none"
  /\ prompt' = [prompt EXCEPT ![p] = "running"]
  /\ Save(p)
  /\ UNCHANGED <<phase, chat, provider, lists, refresh, left, flushed, alone>>

\* The CLI exits by itself, or stop_all has asked it to
CliExits(p) ==
  /\ prompt[p] = "running" /\ phase # "exited"
  /\ prompt' = [prompt EXCEPT ![p] = "exited"]
  /\ UNCHANGED <<storeVars, phase, chat, provider, lists, refresh, left, flushed, alone>>

PromptEnds(p) ==
  /\ prompt[p] = "exited" /\ phase # "exited"
  /\ prompt' = [prompt EXCEPT ![p] = "ended"]
  /\ Save(p)
  /\ UNCHANGED <<phase, chat, provider, lists, refresh, left, flushed, alone>>

-----------------------------------------------------------------------------
(* Shutdown                                                                *)

\* A slip: the task of the refresh is left alone
RefreshLeftAlone == UNCHANGED refresh
\* cleanup first cancels the refresh, whose task then ends at once
CancelRefresh == refresh' = IF refresh \in {"created", "asking"} THEN "cancelled" ELSE refresh

\* The step that ended is followed by the next
GoOn(next) ==
  /\ phase' = next
  /\ IF next = "registry" THEN left' = Open /\ CancelRefresh ELSE UNCHANGED <<left, refresh>>

ShutdownBegins ==
  /\ phase = "serving" /\ loop = None
  /\ IF chat = "none" THEN GoOn("registry") /\ UNCHANGED storeVars
     ELSE GoOn("chat") /\ FlushPendingSave
  /\ IF chat = "none" THEN UNCHANGED <<flushed, alone>>
     ELSE flushed' = mem /\ alone' = (\A t \in Timer : timer[t] # "writing")
  /\ UNCHANGED <<chat, prompt, provider, lists>>

\* Stopping a platform that is not connected may raise, which is logged
ChatStops ==
  /\ phase = "chat" /\ loop = None
  /\ chat' = "down"
  /\ GoOn("cli")
  /\ UNCHANGED <<storeVars, prompt, provider, lists, flushed, alone>>

\* stop_all returns when every process it has asked to exit has
CliStops ==
  /\ phase = "cli"
  /\ \A p \in Prompt : prompt[p] # "running"
  /\ GoOn("registry")
  /\ UNCHANGED <<storeVars, chat, prompt, provider, lists, flushed, alone>>

Cleaning == phase \in {"registry", "failing"}

\* One provider's cleanup, which may raise
Close(p, s) ==
  /\ provider' = [provider EXCEPT ![p] = s]
  /\ left' = left \ {p}

CleanupGoesOn ==
  /\ Cleaning
  /\ \E p \in left, s \in {"closed", "failed"} : Close(p, s)
  /\ UNCHANGED <<storeVars, phase, chat, prompt, lists, refresh, flushed, alone>>

\* The caches are cleared in the end, also when the cleanup is cancelled
CleanupEnds ==
  /\ Cleaning
  /\ provider' = [p \in Provider |-> IF provider[p] = "open" THEN "dropped" ELSE provider[p]]
  /\ lists' = {}
  /\ phase' = After(phase)
  /\ UNCHANGED <<storeVars, chat, prompt, refresh, left, flushed, alone>>

\* MessagingRateLimiter.shutdown_instance
LimiterStops ==
  /\ phase = "limiter"
  /\ GoOn("down")
  /\ UNCHANGED <<storeVars, chat, prompt, provider, lists, flushed, alone>>

\* A slip: the CLI processes are waited for as long as it takes
TimesOutButForCli(step) ==
  /\ phase = step /\ loop = None /\ step # "cli"
  /\ IF Cleaning THEN CleanupEnds
     ELSE GoOn(After(step)) /\ UNCHANGED <<storeVars, chat, prompt, provider, lists, flushed, alone>>
\* best_effort: a step that takes too long is cancelled, the next one begins
TimesOut(step) ==
  /\ phase = step /\ loop = None
  /\ IF Cleaning THEN CleanupEnds
     ELSE GoOn(After(step)) /\ UNCHANGED <<storeVars, chat, prompt, provider, lists, flushed, alone>>

\* The process exits: kill_all_best_effort ends the CLIs, and the threads of
\* the store's timers are daemons
Exit ==
  /\ phase \in {"down", "failed"} /\ loop = None
  /\ phase' = "exited"
  /\ prompt' = [p \in Prompt |-> IF prompt[p] = "running" THEN "killed" ELSE prompt[p]]
  /\ timer' = [t \in Timer |-> "idle"] /\ saveTimer' = None
  /\ UNCHANGED <<mem, disk, dirty, snap, loop, mutations, failures, crashes, failed, overlapped,
                  chat, provider, lists, refresh, left, flushed, alone>>

StoreStep ==
  /\ phase # "exited"
  /\ \/ LoopWrites \/ LoopWriteFails
     \/ \E t \in Timer : TimerFires(t) \/ TimerSnapshots(t) \/ TimerWrites(t) \/ TimerWriteFails(t)
  /\ UNCHANGED runtimeVars

RuntimeNext ==
  \/ ValidationStarts \/ ValidationEnds \/ RefreshStarts \/ RefreshEnds
  \/ Connect \/ \E p \in Provider : HttpRequest(p)
  \/ \E p \in Prompt : PromptStarts(p) \/ CliExits(p) \/ PromptEnds(p)
  \/ ShutdownBegins \/ ChatStops \/ CliStops \/ CleanupGoesOn
  \/ left = {} /\ CleanupEnds
  \/ LimiterStops \/ \E step \in Steps : TimesOut(step)
  \/ Exit \/ StoreStep

\* Only the timeouts and the loop's own write are relied on: a platform, a CLI
\* or a provider may never answer.
RuntimeSpec ==
  /\ RuntimeInit /\ [][RuntimeNext]_allVars
  /\ \A step \in Steps : WF_allVars(TimesOut(step))
  /\ WF_allVars(StoreStep /\ LoopWrites)

-----------------------------------------------------------------------------
(* Properties                                                              *)

\* A shutdown, and the cleanup of a startup that failed, come to an end when
\* nothing that is stopped ever answers.
ShutdownEnds == phase \in Steps ~> phase \in {"down", "failed"}

\* After its cleanup the registry is empty and stays so, whatever a refresh of
\* the model lists was doing, and unless time ran out every provider that was
\* created has been cleaned up, those that failed included.
CleanupIsComplete ==
  phase \in {"limiter", "down", "failed", "exited"} =>
    /\ lists = {}
    /\ refresh \notin {"created", "asking"}
    /\ left = {} => \A p \in Provider : provider[p] \notin {"open", "dropped"}

\* What the store held when shutdown flushed it, or a newer version, is on
\* disk at the end, unless a write failed. (session.py:165: "Call on shutdown
\* to avoid losing data")
FlushLosesNothing ==
  phase = "exited" /\ failures = 0 => \A k \in Key : disk[k] >= flushed[k]

\* That is so, whatever the timers do during and after the flush and whatever
\* the last steps of the prompts still save, if no timer's thread was in the
\* middle of its write when the flush took its snapshot. (flush_pending_save)
FlushIsKept == alone => FlushLosesNothing
=============================================================================

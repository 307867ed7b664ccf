----------------------------- MODULE ChatPlatform -----------------------------
(***************************************************************************)
(* The chat adapters (messaging/platforms/telegram.py, discord.py): what   *)
(* becomes of a text message or a voice note between the chat and the      *)
(* message trees, the calls to the chat's API and their retries, the       *)
(* registry of voice notes that are being transcribed (messaging/voice.py) *)
(* and a /clear in reply to a message (messaging/commands.py).             *)
(*                                                                         *)
(* Telegram's library hands over one update at a time and waits for its    *)
(* handler, Discord's starts a task for each.  The registry's lock is held *)
(* over no await, so each of its operations, and is_pending with the       *)
(* complete that follows, is one step of the event loop.                   *)
(***************************************************************************)
EXTENDS Integers, FiniteSets, Sequences

CONSTANTS
  Messages,   \* messages the user may send
  MaxClears   \* bound: /clear commands the user sends

MaxTries == 3
LastTry  == MaxTries + 1   \* the retry of a flood wait or without markup

VARIABLES
  platform,   \* "telegram" or "discord"
  updates,    \* updates not yet handed over, oldest first
  msgs,       \* per message: kind, place in its handler, tries of its call
  pending,    \* PendingVoiceRegistry: message and id it is found under
  chat,       \* per message: which of the prompt and its status are shown
  clear,      \* per /clear being handled: message and place in the handler
  fate        \* per message: has it been a prompt, cancelled, answered

platformVars == <<platform, updates, msgs, pending, chat, clear, fate>>

Ids == {"prompt", "status"}

PlatformInit ==
  /\ platform \in {"telegram", "discord"}
  /\ updates = <<>>
  /\ msgs = [m \in Messages |-> [kind |-> "none", at |-> "unsent", tries |-> 0]]
  /\ pending = {}
  /\ chat = [m \in Messages |-> {}]
  /\ clear = [c \in 1..MaxClears |-> [of |-> CHOOSE m \in Messages : TRUE, at |-> "unsent", tries |-> 0]]
  /\ fate = [m \in Messages |-> [prompt |-> FALSE, cancelled |-> FALSE]]

-----------------------------------------------------------------------------
(* The user and the dispatch of updates                                    *)

UserSends(m) ==
  /\ msgs[m].at = "unsent"
  /\ \E kind \in {"text", "voice"} : msgs' = [msgs EXCEPT ![m].kind = kind, ![m].at = "sent"]
  /\ chat' = [chat EXCEPT ![m] = {"prompt"}]
  /\ updates' = Append(updates, [what |-> "message", of |-> m])
  /\ UNCHANGED <<platform, pending, clear, fate>>

\* A reply to the message or to its status
UserClears(c, m, id) ==
  /\ \A d \in 1..c : (clear[d].at = "unsent") <=> (d = c)
  /\ id \in chat[m]
  /\ clear' = [clear EXCEPT ![c].of = m, ![c].at = "sent"]
  /\ updates' = Append(updates, [what |-> "clear", of |-> c, id |-> id])
  /\ UNCHANGED <<platform, msgs, pending, chat, fate>>

\* Places at which a handler is still awaited; a queued deletion is not
Handling(m) == msgs[m].at \in {"status", "transcribing", "placing", "apology"}
Idle ==
  /\ \A m \in Messages : ~Handling(m)
  /\ \A c \in DOMAIN clear : clear[c].at \notin {"deleting", "answering"}

MayDispatch == updates # <<>> /\ (platform = "telegram" => Idle)

\* Any message may come from someone who is not allowed to use the bot, or a
\* voice note while these are disabled
Receive(m) ==
  /\ \/ msgs' = [msgs EXCEPT ![m].at = "status", ![m].tries = 1]
     \/ msgs' = [msgs EXCEPT ![m].at = "done"]
  /\ UNCHANGED <<pending, clear, fate>>

\* A slip: only the id that was replied to is taken out
PopOne(m, id) == pending \ {<<m, id>>}
\* PendingVoiceRegistry.cancel and complete
Popped(m, id) == pending \ ({m} \X Ids)

\* A prompt's branch is removed from its tree; else a note may be pending
ClearCommand(c, id) ==
  LET m == clear[c].of
      found == <<m, id>> \in pending
  IN /\ clear' = [clear EXCEPT ![c].at = IF fate[m].prompt \/ found THEN "deleting" ELSE "answering",
                               ![c].tries = 1]
     /\ pending' = IF found /\ ~fate[m].prompt THEN Popped(m, id) ELSE pending
     /\ fate' = IF fate[m].prompt THEN [fate EXCEPT ![m].prompt = FALSE]
                ELSE IF found THEN [fate EXCEPT ![m].cancelled = TRUE] ELSE fate
     /\ UNCHANGED msgs

Dispatch ==
  /\ MayDispatch
  /\ LET u == Head(updates)
     IN IF u.what = "message" THEN Receive(u.of) ELSE ClearCommand(u.of, u.id)
  /\ updates' = Tail(updates)
  /\ UNCHANGED <<platform, chat>>

-----------------------------------------------------------------------------
(* Calls to the chat's API.  Each handler has one under way; tries counts  *)
(* those of Telegram's _with_retry.                                        *)

\* A slip: a flood wait begins the attempts anew
RetriesRestarted(tries) ==
  IF platform = "telegram" /\ tries <= MaxTries
  THEN {1} \cup (IF tries < MaxTries THEN {tries + 1} ELSE {}) ELSE {}
\* What may follow a failed attempt: a network error is tried again up to the
\* third, a flood wait or refused markup once more, by itself
Retries(tries) ==
  IF platform = "telegram" /\ tries <= MaxTries
  THEN {LastTry} \cup (IF tries < MaxTries THEN {tries + 1} ELSE {}) ELSE {}

\* The call of message m ends at its next place, or is tried again; a call
\* that raises may have had its effect
Advance(m, at) == [msgs EXCEPT ![m].at = at, ![m].tries = IF at \in {"done", "transcribing"} THEN 0 ELSE 1]
TryAgain(m) == \E tries \in Retries(msgs[m].tries) : msgs' = [msgs EXCEPT ![m].tries = tries]

\* The adapter sends the status of a voice note and registers the note with it
NoteRegistered(m) ==
  /\ msgs[m].kind = "voice"
  /\ msgs' = Advance(m, "transcribing")
  /\ pending' = pending \cup ({m} \X Ids)
  /\ UNCHANGED fate
\* The handler sends that of a text message and places the prompt
PromptPlaced(m) ==
  /\ msgs[m].kind = "text"
  /\ msgs' = Advance(m, "done")
  /\ fate' = [fate EXCEPT ![m].prompt = TRUE]
  /\ UNCHANGED pending

StatusSent(m) ==
  /\ msgs[m].at = "status"
  /\ chat' = [chat EXCEPT ![m] = @ \cup {"status"}]
  /\ NoteRegistered(m) \/ PromptPlaced(m)
  /\ UNCHANGED <<platform, updates, clear>>

\* Nobody catches a failure of a note's status; that of a text message is
\* reported to the user
StatusFails(m) ==
  /\ msgs[m].at = "status"
  /\ TryAgain(m) \/ msgs' = Advance(m, IF msgs[m].kind = "voice" THEN "done" ELSE "apology")
  /\ UNCHANGED <<platform, updates, pending, chat, clear, fate>>

\* A slip: the note is handled without a look at the registry
TranscribedRegardless(m) ==
  /\ msgs' = Advance(m, "placing")
  /\ pending' = Popped(m, "prompt")
Transcribed(m) ==
  IF <<m, "prompt">> \in pending
  THEN msgs' = Advance(m, "placing") /\ pending' = Popped(m, "prompt")
  ELSE msgs' = Advance(m, "dropping") /\ UNCHANGED pending

\* Download and transcription; a failure leaves the entry in the registry
TranscriptionEnds(m) ==
  /\ msgs[m].at = "transcribing"
  /\ \/ Transcribed(m)
     \/ msgs' = Advance(m, "apology") /\ UNCHANGED pending
  /\ UNCHANGED <<platform, updates, chat, clear, fate>>

\* handle_message edits the status it was given and places the prompt
Placed(m) ==
  /\ msgs[m].at = "placing"
  /\ msgs' = Advance(m, "done")
  /\ fate' = [fate EXCEPT ![m].prompt = TRUE]
  /\ UNCHANGED <<platform, updates, pending, chat, clear>>

PlacingFails(m) ==
  /\ msgs[m].at = "placing"
  /\ TryAgain(m) \/ msgs' = Advance(m, "apology")
  /\ UNCHANGED <<platform, updates, pending, chat, clear, fate>>

\* The status of a cancelled note is deleted behind the handler's back; what is
\* gone may be reported as an error or as done
StatusDropped(m) ==
  /\ msgs[m].at = "dropping"
  /\ \/ chat' = [chat EXCEPT ![m] = @ \ {"status"}] /\ msgs' = Advance(m, "done")
     \/ (TryAgain(m) \/ msgs' = Advance(m, "done")) /\ UNCHANGED chat
  /\ UNCHANGED <<platform, updates, pending, clear, fate>>

\* The user is told that it did not work, if that works
Apology(m) ==
  /\ msgs[m].at = "apology"
  /\ msgs' = Advance(m, "done") \/ (msgs[m].kind = "text" /\ TryAgain(m))
  /\ UNCHANGED <<platform, updates, pending, chat, clear, fate>>

ClearAgain(c) == \E tries \in Retries(clear[c].tries) : clear' = [clear EXCEPT ![c].tries = tries]

\* delete_messages: Telegram deletes both messages of a cleared note or prompt
\* at once, or none
DeletedAtOnce(m) == chat' \in {chat, [chat EXCEPT ![m] = {}]}
\* Discord deletes one by one, passes over what it may not delete, and stops at
\* another error
DeletedOneByOne(m) == \E kept \in SUBSET chat[m] : chat' = [chat EXCEPT ![m] = kept]

\* What fails stays in the chat
Cleared(c) ==
  /\ clear[c].at = "deleting"
  /\ \/ /\ IF platform = "telegram" THEN DeletedAtOnce(clear[c].of) ELSE DeletedOneByOne(clear[c].of)
        /\ clear' = [clear EXCEPT ![c].at = "answering", ![c].tries = 1]
     \/ UNCHANGED chat /\ ClearAgain(c)
  /\ UNCHANGED <<platform, updates, msgs, pending, fate>>

Answered(c) ==
  /\ clear[c].at = "answering"
  /\ clear' = [clear EXCEPT ![c].at = "done", ![c].tries = 0] \/ ClearAgain(c)
  /\ UNCHANGED <<platform, updates, msgs, pending, chat, fate>>

-----------------------------------------------------------------------------
Handle(m) ==
  \/ StatusSent(m) \/ StatusFails(m) \/ TranscriptionEnds(m)
  \/ Placed(m) \/ PlacingFails(m) \/ StatusDropped(m) \/ Apology(m)
HandleClear(c) == Cleared(c) \/ Answered(c)

PlatformNext ==
  \/ \E m \in Messages : UserSends(m) \/ Handle(m)
  \/ \E c \in DOMAIN clear, m \in Messages, id \in Ids : UserClears(c, m, id)
  \/ \E c \in DOMAIN clear : HandleClear(c)
  \/ Dispatch

\* Calls have timeouts, a transcription is of a file of bounded size, and the
\* library goes on with the next update when a handler has returned.
PlatformFairness ==
  /\ \A m \in Messages : WF_platformVars(Handle(m))
  /\ \A c \in 1..MaxClears : WF_platformVars(HandleClear(c))
  /\ WF_platformVars(Dispatch)

PlatformSpec == PlatformInit /\ [][PlatformNext]_platformVars /\ PlatformFairness

-----------------------------------------------------------------------------
(* Properties                                                              *)

\* A voice note whose cancellation was confirmed to the user does not come
\* back as a prompt when its transcription ends.
CancelledNeverRuns == \A m \in Messages : fate[m].cancelled => ~fate[m].prompt

\* What the user is still shown of a prompt includes its status: a prompt never
\* runs behind a status message that a /clear has deleted.
PromptsHaveStatus == \A m \in Messages : fate[m].prompt => "status" \in chat[m]

\* Every update is handled and its handler returns, whatever the chat's API
\* answers: nothing is tried for ever and no note blocks the updates behind it.
HandlersReturn ==
  \A m \in Messages : msgs[m].at = "sent" ~> (msgs[m].at = "done")
=============================================================================

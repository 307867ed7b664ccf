------------------------------- MODULE ChatSide -------------------------------
(***************************************************************************)
(* The two ends of the user's chat: the adapter that takes the user's      *)
(* messages in (ChatPlatform) and the limiter through which answers are    *)
(* sent (MessageLimiter).  They share no state, so a behaviour follows one *)
(* of the two and the other stays where it began.                          *)
(***************************************************************************)
EXTENDS MessageLimiter, ChatPlatform

VARIABLE follows

chatVars == <<follows, vars, platformVars>>

ChatInit ==
  /\ follows \in {"adapter", "limiter"}
  /\ Init /\ PlatformInit
  /\ follows # "adapter" => platform = "telegram"
  /\ follows # "limiter" => \A u, v \in Call : keyOf[u] = keyOf[v]

AdapterStep == follows = "adapter" /\ PlatformNext /\ UNCHANGED <<follows, vars>>
LimiterStep == follows = "limiter" /\ Next /\ UNCHANGED <<follows, platformVars>>

ChatNext == AdapterStep \/ LimiterStep

\* A part that is not followed has nothing to do that fairness would ask of it
ChatSpec == ChatInit /\ [][ChatNext]_chatVars /\ Fairness /\ PlatformFairness
=============================================================================

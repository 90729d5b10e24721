-------------------------- MODULE MCQueuedIntents --------------------------
(* Instances of QueuedIntents for TLC.                                     *)
EXTENDS QueuedIntents, TLC

CONSTANTS a1, i1, i2, i3, v

(* Two daemons, of which one will create an agent and then prompt it.      *)
MCCreation == (i1 :> "new-agent" @@ i2 :> "prompt")

(* One daemon that works through the writes of one of its agents.          *)
MCWrites == (i1 :> "prompt" @@ i2 :> "decide" @@ i3 :> "cancel")
MCImage  == (i1 :> "image-prompt" @@ i2 :> "prompt" @@ i3 :> "cancel")

MCAgentOf == [i \in Intents |-> a1]
MCActorOf == [i \in Intents |-> v]
=============================================================================

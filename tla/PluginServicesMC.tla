---------------------------- MODULE PluginServicesMC ----------------------------
(* Small instances of the plugin's services for TLC.  They share no state,  *)
(* so a behaviour moves one of them and leaves the others as they started.  *)
EXTENDS CompletionDelivery, ChatSends, ThinkingStream, CronMirror, TLC

CONSTANTS s1, s2, s3

VARIABLE part    \* which of them moves

services == <<deliveryVars, sendVars, thinkVars, mirrorVars>>

\* Three sends into one chat, each spelling it another way.
OneChat == s1 :> [chat |-> "c1", spelling |-> "address"]
        @@ s2 :> [chat |-> "c1", spelling |-> "bare"]
        @@ s3 :> [chat |-> "c1", spelling |-> "session_key"]

MCInit ==
    /\ part \in {"answers", "sends", "thoughts", "tasks"}
    /\ DeliveryInit /\ SendsInit /\ ThinkingInit /\ MirrorInit
    /\ part # "thoughts" => kind = "live" /\ shape = "nothing"

Answering == part = "answers" /\ DeliveryNext /\ UNCHANGED <<sendVars, thinkVars, mirrorVars>>
Sending   == part = "sends" /\ SendsNext /\ UNCHANGED <<deliveryVars, thinkVars, mirrorVars>>
Thinking  == part = "thoughts" /\ ThinkingNext /\ UNCHANGED <<deliveryVars, sendVars, mirrorVars>>
Mirroring == part = "tasks" /\ MirrorNext /\ UNCHANGED <<deliveryVars, sendVars, thinkVars>>

MCNext == UNCHANGED part /\ (Answering \/ Sending \/ Thinking \/ Mirroring)

MCSpec == MCInit /\ [][MCNext]_<<services, part>>

=============================================================================

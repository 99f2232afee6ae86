------------------------------- MODULE ChatPath -------------------------------
(***************************************************************************)
(* The owner's chat from the cloud to the turns of the plugin: one event   *)
(* stream, read by the agent's listener one event after the other, every   *)
(* message, stop and hook handed to the local OpenClaw gateway.  The       *)
(* gateway and the agent may restart, posts may be answered too late, and  *)
(* on every connect the cloud sends again what is still open.              *)
(*                                                                         *)
(* Of the gateway's work on a message only its life is seen (MessageLife,  *)
(* which InboundTurn implements).                                          *)
(***************************************************************************)
EXTENDS MessageLife, Naturals, SequencesExt

CONSTANTS
    Hooks,      \* hook events of the cloud
    MaxWire,    \* bound: events waiting on the stream
    MaxMishaps  \* bound: frames twice, late or lost answers, agent restarts

ASSUME ChatAssumption == IsFiniteSet(Msgs) /\ MaxWire \in Nat /\ MaxMishaps \in Nat

VARIABLES
    roads,       \* the agent's streams: the unified one, or one for the chat and one for hooks
    stream,      \* the connections that are up
    wire,        \* per road, events written to it and not yet read
    handling,    \* per road, the event being handled
    forwarded,   \* _MessageIdDedup
    openclaw,    \* the gateway answers
    late,        \* posts the listener gave up on and the gateway still holds
    heard,       \* what the cloud was told about a hook: nothing, sent, delivered, dropped
    ran,         \* history: hooks the gateway ran
    mishaps

pathVars == <<roads, stream, wire, handling, forwarded, openclaw, late, heard, ran, mishaps>>
allVars  == <<lifeVars, pathVars>>

\* _unified_stream_enabled, once per process.
Transports == {{"unified"}, {"chat", "hooks"}}
Roads      == UNION Transports
ChatEvents == {"user_message", "cancel"}
HookEvents == {"hook_event"}
Carries(r) == (IF r # "hooks" THEN ChatEvents ELSE {}) \cup (IF r # "chat" THEN HookEvents ELSE {})

Nothing    == [kind |-> "none", of |-> {}, again |-> FALSE]
Live(m)    == [kind |-> "user_message", of |-> {m}, again |-> FALSE]
CatchUp(m) == [kind |-> "user_message", of |-> {m}, again |-> TRUE]
Hook(h)    == [kind |-> "hook_event", of |-> {h}, again |-> FALSE]
Cancel(r)  == [kind |-> "cancel", again |-> FALSE,     \* and what was written ahead of it
               of |-> {m \in Msgs \ forwarded : \E i \in DOMAIN wire[r] : wire[r][i] = Live(m)}]
Events     == [kind : {"none", "user_message", "cancel", "hook_event"},
               of : SUBSET (Msgs \cup Hooks), again : BOOLEAN]

PathTypeOK ==
    /\ roads \in Transports /\ stream \subseteq roads /\ openclaw \in BOOLEAN
    /\ wire \in [Roads -> Seq(Events)] /\ handling \in [Roads -> Events]
    /\ \A r \in Roads : Len(wire[r]) <= MaxWire
    /\ \A r \in Roads : \A i \in DOMAIN wire[r] : wire[r][i].kind \in Carries(r)
    /\ forwarded \subseteq Msgs /\ late \subseteq Msgs /\ ran \subseteq Hooks
    /\ heard \in [Hooks -> {"nothing", "sent", "delivered", "dropped"}]

PathInit ==
    /\ LifeInit
    /\ roads \in Transports /\ stream = {}
    /\ wire = [r \in Roads |-> <<>>] /\ handling = [r \in Roads |-> Nothing]
    /\ forwarded = {} /\ openclaw = TRUE /\ late = {}
    /\ heard = [h \in Hooks |-> "nothing"] /\ ran = {} /\ mishaps = 0

-----------------------------------------------------------------------------
(* The cloud's side of the streams.                                        *)

Mishap       == mishaps < MaxMishaps /\ mishaps' = mishaps + 1
Writes(r, e) == Len(wire[r]) < MaxWire /\ wire' = [wire EXCEPT ![r] = Append(@, e)]
ChatRoad(r)  == r \in roads /\ ChatEvents \subseteq Carries(r)

\* Nothing is written for an agent that is not connected.
OwnerSends(m) ==
    /\ Sends(m)
    /\ \E r \in Roads : ChatRoad(r) /\ IF r \in stream THEN Writes(r, Live(m)) ELSE UNCHANGED wire
    /\ UNCHANGED <<roads, stream, handling, forwarded, openclaw, late, heard, ran, mishaps>>

\* A live frame comes a second time.
SentTwice(m) ==
    /\ m \in forwarded /\ Mishap
    /\ \E r \in stream : ChatRoad(r) /\ Writes(r, Live(m))
    /\ UNCHANGED <<lifeVars, roads, stream, handling, forwarded, openclaw, late, heard, ran>>

OwnerCancels ==
    /\ \E r \in stream :
         /\ ChatRoad(r) /\ \A i \in DOMAIN wire[r] : wire[r][i].kind # "cancel"
         /\ Writes(r, Cancel(r))
    /\ UNCHANGED <<lifeVars, roads, stream, handling, forwarded, openclaw, late, heard, ran,
                   mishaps>>

HookFires(h) ==
    /\ heard[h] = "nothing" /\ heard' = [heard EXCEPT ![h] = "sent"]
    /\ \E r \in stream : HookEvents \subseteq Carries(r) /\ Writes(r, Hook(h))
    /\ UNCHANGED <<lifeVars, roads, stream, handling, forwarded, openclaw, late, ran, mishaps>>

\* What is still open is sent again first.
Opens(r) ==
    /\ r \in roads \ stream /\ handling[r] = Nothing
    /\ stream' = stream \cup {r}
    /\ wire' = [wire EXCEPT ![r] =
         IF ChatRoad(r) THEN SetToSeq({CatchUp(m) : m \in {n \in Msgs : cloud[n] = "processing"}})
         ELSE <<>>]
    /\ UNCHANGED <<lifeVars, roads, handling, forwarded, openclaw, late, heard, ran, mishaps>>

\* The unified stream is made once OpenClaw has been up for a while; the two others any time.
ConnectsUnified == openclaw /\ Opens("unified")
ConnectsChat    == Opens("chat")
ConnectsHooks   == Opens("hooks")

\* The cloud closes it, or nothing came for a minute.
StreamEnds(r) ==
    /\ r \in stream /\ stream' = stream \ {r} /\ wire' = [wire EXCEPT ![r] = <<>>]
    /\ UNCHANGED <<lifeVars, roads, handling, forwarded, openclaw, late, heard, ran, mishaps>>

-----------------------------------------------------------------------------
(* The listeners.                                                          *)

Takes(r, i) ==
    /\ r \in stream /\ handling[r] = Nothing /\ i \in DOMAIN wire[r]
    /\ handling' = [handling EXCEPT ![r] = wire[r][i]]
    /\ wire' = [wire EXCEPT ![r] = RemoveAt(@, i)]
    /\ UNCHANGED <<lifeVars, roads, stream, forwarded, openclaw, late, heard, ran, mishaps>>

\* Mutant of ReadsEvent: stops are handled before what was written ahead of them.
ReadsCancelFirst(r) ==
    \E i \in DOMAIN wire[r] :
        /\ \/ wire[r][i].kind = "cancel"
           \/ i = 1 /\ \A j \in DOMAIN wire[r] : wire[r][j].kind # "cancel"
        /\ Takes(r, i)

ReadsEvent(r) == Takes(r, 1)

Handled(r) == handling' = [handling EXCEPT ![r] = Nothing]
Message(r, m) == handling[r] \in {Live(m), CatchUp(m)}

\* Mutant of AlreadyForwarded: a message sent again is dropped like a frame that came twice.
AlreadyForwardedAnyCopy(r, m) == Message(r, m) /\ m \in forwarded

\* Forwarded before, and not a catch-up: dropped.
AlreadyForwarded(r, m) == handling[r] = Live(m) /\ m \in forwarded

DropsDuplicate(r, m) ==
    /\ AlreadyForwarded(r, m) /\ Handled(r)
    /\ UNCHANGED <<lifeVars, roads, stream, wire, forwarded, openclaw, late, heard, ran, mishaps>>

\* OpenClaw did not come up within 30 s, or refuses the connection: the message is lost.
MessageLost(r, m) ==
    /\ Message(r, m) /\ ~openclaw /\ Handled(r)
    /\ UNCHANGED <<lifeVars, roads, stream, wire, forwarded, openclaw, late, heard, ran, mishaps>>

\* The inbound route: taken up, or being worked on already.
InboundRoute(m) == TakenUp(m) \/ (m \in held /\ UNCHANGED lifeVars)

\* Mutant of Forwards: whatever was forwarded before.
ForwardsAnyCopy(r, m) ==
    /\ Message(r, m) /\ openclaw
    /\ InboundRoute(m)
    /\ forwarded' = forwarded \cup {m} /\ Handled(r)
    /\ UNCHANGED <<roads, stream, wire, openclaw, late, heard, ran, mishaps>>

Forwards(r, m) ==
    /\ Message(r, m) /\ ~AlreadyForwarded(r, m) /\ openclaw
    /\ InboundRoute(m)
    /\ forwarded' = forwarded \cup {m} /\ Handled(r)
    /\ UNCHANGED <<roads, stream, wire, openclaw, late, heard, ran, mishaps>>

\* No answer in time: the listener goes on, the request may still be there.
ForwardTimesOut(r, m) ==
    /\ Message(r, m) /\ ~AlreadyForwarded(r, m) /\ openclaw /\ Mishap /\ Handled(r)
    /\ late' \in {late, late \cup {m}}
    /\ UNCHANGED <<lifeVars, roads, stream, wire, forwarded, openclaw, heard, ran>>

LateArrives(m) ==
    /\ m \in late /\ openclaw /\ InboundRoute(m)
    /\ late' = late \ {m}
    /\ UNCHANGED <<roads, stream, wire, handling, forwarded, openclaw, heard, ran, mishaps>>

\* forward_cancel: what the stop does to the turns is theirs; it is dropped when nobody answers.
ForwardsCancel(r) ==
    /\ handling[r].kind = "cancel" /\ Handled(r)
    /\ UNCHANGED <<lifeVars, roads, stream, wire, forwarded, openclaw, late, heard, ran, mishaps>>

Report(h, what) == heard' = [heard EXCEPT ![h] = what]

\* forward_hook_event: accepted, and reported as delivered.
RunsHook(r, h) ==
    /\ handling[r] = Hook(h) /\ openclaw /\ Handled(r)
    /\ ran' = ran \cup {h} /\ Report(h, "delivered")
    /\ UNCHANGED <<lifeVars, roads, stream, wire, forwarded, openclaw, late, mishaps>>

\* OpenClaw is down, or its answer is late: reported as dropped, though a late one did run.
DropsHook(r, h) ==
    /\ handling[r] = Hook(h) /\ Handled(r) /\ Report(h, "dropped")
    /\ \/ ~openclaw /\ UNCHANGED <<mishaps, ran>>
       \/ openclaw /\ Mishap /\ ran' \in {ran, ran \cup {h}}
    /\ UNCHANGED <<lifeVars, roads, stream, wire, forwarded, openclaw, late>>

\* The report itself is best effort.
ReportLost(r, h) ==
    /\ handling[r] = Hook(h) /\ openclaw /\ Mishap /\ Handled(r)
    /\ ran' = ran \cup {h}
    /\ UNCHANGED <<lifeVars, roads, stream, wire, forwarded, openclaw, late, heard>>

-----------------------------------------------------------------------------
(* Restarts.                                                               *)

OpenClawDies ==
    /\ openclaw /\ GatewayGone /\ Mishap /\ openclaw' = FALSE /\ late' = {}
    /\ UNCHANGED <<roads, stream, wire, handling, forwarded, heard, ran>>

OpenClawReturns ==
    /\ ~openclaw /\ openclaw' = TRUE
    /\ UNCHANGED <<lifeVars, roads, stream, wire, handling, forwarded, late, heard, ran, mishaps>>

\* The agent's process ends: the connections, the events in hand, and what it remembered.
AgentRestarts ==
    /\ Mishap
    /\ stream' = {} /\ forwarded' = {}
    /\ wire' = [r \in Roads |-> <<>>] /\ handling' = [r \in Roads |-> Nothing]
    /\ UNCHANGED <<lifeVars, roads, openclaw, late, heard, ran>>

\* OpenClaw's own steps: a turn ends, and the cloud hears of it.
WorkEnds(m) ==
    /\ openclaw /\ (GuardLifted(m) \/ LooseWorkEnds(m)) /\ cloud'[m] = "closed"
    /\ UNCHANGED pathVars

\* The cloud does not hear of it.
EndUnheard(m) ==
    /\ openclaw /\ (GuardLifted(m) \/ LooseWorkEnds(m)) /\ UNCHANGED cloud /\ Mishap
    /\ UNCHANGED <<roads, stream, wire, handling, forwarded, openclaw, late, heard, ran>>

Listens(r) ==
    \/ ReadsEvent(r) \/ ForwardsCancel(r) \/ StreamEnds(r)
    \/ \E m \in Msgs :
         DropsDuplicate(r, m) \/ MessageLost(r, m) \/ Forwards(r, m) \/ ForwardTimesOut(r, m)
    \/ \E h \in Hooks : RunsHook(r, h) \/ DropsHook(r, h) \/ ReportLost(r, h)

PathNext ==
    \/ \E m \in Msgs :
         OwnerSends(m) \/ SentTwice(m) \/ LateArrives(m) \/ WorkEnds(m) \/ EndUnheard(m)
    \/ \E h \in Hooks : HookFires(h)
    \/ OwnerCancels \/ ConnectsUnified \/ ConnectsChat \/ ConnectsHooks
    \/ \E r \in Roads : Listens(r)
    \/ OpenClawDies \/ OpenClawReturns \/ AgentRestarts

PathSpec == PathInit /\ [][PathNext]_allVars

-----------------------------------------------------------------------------
(* Safety.                                                                 *)

(* A stop never overtakes a message the owner wrote before it: when it is  *)
(* handed over, none of those is still on its way through the listener.    *)
StopNeverOvertakes ==
    [][\A r \in stream : handling[r].kind = "cancel" /\ handling'[r] = Nothing /\ r \in stream' =>
         \A m \in handling[r].of \ forwarded :
             \A i \in DOMAIN wire[r] : wire[r][i] # Live(m)]_allVars

(* A message the gateway acknowledged is given to it again only when the   *)
(* cloud asks for it, or from a post whose answer the listener gave up on. *)
AcknowledgedOnce ==
    [][\A m \in forwarded \ held :
         m \in held' => m \in late \/ \E r \in roads : handling[r] = CatchUp(m)]_allVars

-----------------------------------------------------------------------------
\* OpenClaw comes back and ends the work it took up (InboundTurn's EveryMessageCloses), the
\* listener handles what it reads, and a stream ends now and then (deploys, the read timeout),
\* is made again, and lasts long enough for something to be read.
PathLiveSpec ==
    /\ PathSpec
    /\ WF_allVars(OpenClawReturns)
    /\ WF_allVars(ConnectsUnified) /\ WF_allVars(ConnectsChat) /\ WF_allVars(ConnectsHooks)
    /\ \A r \in Roads :
         /\ WF_allVars(StreamEnds(r)) /\ SF_allVars(ReadsEvent(r)) /\ WF_allVars(ForwardsCancel(r))
         /\ \A m \in Msgs :
              WF_allVars(DropsDuplicate(r, m) \/ MessageLost(r, m) \/ Forwards(r, m))
         /\ \A h \in Hooks : WF_allVars(RunsHook(r, h) \/ DropsHook(r, h))
    /\ \A m \in Msgs : WF_allVars(WorkEnds(m))

(* Every message of the owner is closed at the cloud in the end, whatever   *)
(* was lost on the way: the listener never keeps one from being sent again. *)
EveryMessageGetsThrough ==
    \A m \in Msgs : (cloud[m] = "processing") ~> (cloud[m] = "closed")

-----------------------------------------------------------------------------
(* Why no stop overtakes a message: whatever is written after a stop was   *)
(* sent after it, or was forwarded already.                                *)

RoadsTyped ==
    /\ roads \in Transports /\ stream \subseteq roads
    /\ wire \in [Roads -> Seq(Events)] /\ handling \in [Roads -> Events]
    /\ forwarded \subseteq Msgs /\ late \subseteq Msgs
    /\ cloud \in [Msgs -> {"unsent", "processing", "closed"}]

\* Only the streams the agent made carry anything.
OnItsRoad == \A r \in Roads : handling[r] # Nothing => r \in roads

\* Nothing is forwarded, on its way or stopped before the owner wrote it.
Sent(m)  == cloud[m] # "unsent"
OnceSent ==
    /\ \A m \in forwarded : Sent(m)
    /\ \A r \in Roads : \A e \in {handling[r]} \cup ToSet(wire[r]) :
         e.kind \in ChatEvents => \A m \in e.of : m \in Msgs /\ Sent(m)

\* No message written ahead of stop e is at a place of the wire of r after n, but for a second copy.
NoneBehind(e, r, n) ==
    e.kind = "cancel" =>
        \A m \in e.of \ forwarded : \A i \in DOMAIN wire[r] : i > n => wire[r][i] # Live(m)

StopsInOrder ==
    \A r \in Roads :
        /\ NoneBehind(handling[r], r, 0)
        /\ \A n \in DOMAIN wire[r] : NoneBehind(wire[r][n], r, n)

PathIInv == RoadsTyped /\ OnItsRoad /\ OnceSent /\ StopsInOrder

=============================================================================

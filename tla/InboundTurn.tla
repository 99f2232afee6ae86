----------------------------- MODULE InboundTurn -----------------------------
(***************************************************************************)
(* The turns of one chat in the sellerclaw-ui plugin: a message accepted   *)
(* by the inbound route becomes a turn, the turn dispatches to OpenClaw's  *)
(* engine, streams its parts to the cloud, decides how it ended, and may   *)
(* start a follow-up of its own (a resumption, or asking again).           *)
(*                                                                         *)
(* All turns of a chat share one session: one run of the engine, one stop  *)
(* mark, one verdict slot, one count of resumptions.  The engine's moves   *)
(* are the environment's, as far as the code tells them apart.             *)
(***************************************************************************)
EXTENDS Naturals, FiniteSets

CONSTANTS
    Msgs,                       \* the owner's messages
    Turns,                      \* names for turns; bound: turns open at once
    MAX_CONTINUATIONS,          \* resumptions of one session
    MAX_ADMISSION_REDISPATCHES, \* dispatches repeated after a refused admission
    MaxFaults                   \* bound: lost posts, crashes, refusals
CONSTANT NoMsg

ASSUME InboundAssumption ==
    /\ NoMsg \notin Msgs /\ MaxFaults \in Nat
    /\ Turns \cap {"idle", "background", "orphan"} = {}
    /\ MAX_CONTINUATIONS \in Nat /\ MAX_ADMISSION_REDISPATCHES \in Nat

Idle       == "idle"          \* the session has no run
Background == "background"    \* a run nobody wrote for: a subagent's report
Orphan     == "orphan"        \* a queued message's run whose turn stopped waiting
Notices    == {"none", "transport", "human", "other"}    \* lastErrorFinalText, classified
Verdicts   == {"none", "success", "error", "aborted"}    \* RunOutcome

VARIABLES
    cloud,        \* the message at the cloud: unsent, processing, closed
    inFlight,     \* inFlightInboundMessageIds
    turn,         \* the turns open in the chat
    run,          \* whose run the engine has in the session
    ownerAbort,   \* the session's stop mark
    verdict,      \* runOutcomes: the outcome on record
    resumed,      \* continuations
    apart,        \* history: messages the cloud and the gateway once disagreed about
    faults

vars == <<cloud, inFlight, turn, run, ownerAbort, verdict, resumed, apart, faults>>

Turn == [q : Msgs \cup {NoMsg},
         at : {"free", "dispatch", "refused", "running", "queued", "settled", "crashed", "ending"},
         guarded  : BOOLEAN,     \* holds the message's in-flight slot
         answered : BOOLEAN,     \* postedAnyContent, or a reply of the message tool
         started  : BOOLEAN,     \* partsTurnStarted
         notice   : Notices,     \* sawErrorFinal
         steered  : BOOLEAN,     \* deferredTo = "steer"
         stopped  : BOOLEAN,     \* ownerTurn.abort
         tries    : 0 .. MAX_ADMISSION_REDISPATCHES,
         reasked  : BOOLEAN,     \* unansweredReasked
         next     : {"none", "resume", "reask"},
         failed   : BOOLEAN]     \* the status turn/end carries

NoTurn == [q |-> NoMsg, at |-> "free", guarded |-> FALSE, answered |-> FALSE, started |-> FALSE,
           notice |-> "none", steered |-> FALSE, stopped |-> FALSE, tries |-> 0,
           reasked |-> FALSE, next |-> "none", failed |-> FALSE]

Opened(m, guarded, reasked) ==
    [NoTurn EXCEPT !.q = m, !.at = "dispatch", !.guarded = guarded, !.reasked = reasked]

TypeOK ==
    /\ cloud \in [Msgs -> {"unsent", "processing", "closed"}]
    /\ inFlight \subseteq Msgs /\ apart \subseteq Msgs
    /\ turn \in [Turns -> Turn]
    /\ \A t \in Turns : (turn[t].at = "free") <=> (turn[t] = NoTurn)
    /\ run \in Turns \cup {Idle, Background, Orphan}
    /\ run \in Turns => turn[run].at \in {"running", "queued"}
    /\ ownerAbort \in BOOLEAN
    /\ verdict \in Verdicts
    /\ resumed \in 0 .. MAX_CONTINUATIONS
    /\ faults \in 0 .. MaxFaults

Init ==
    /\ cloud = [m \in Msgs |-> "unsent"]
    /\ inFlight = {} /\ apart = {}
    /\ turn = [t \in Turns |-> NoTurn]
    /\ run = Idle /\ ownerAbort = FALSE /\ verdict = "none" /\ resumed = 0
    /\ faults = 0

Open(t)  == turn[t].at # "free"
Disturb  == faults < MaxFaults /\ faults' = faults + 1
session  == <<run, ownerAbort, verdict, resumed>>

-----------------------------------------------------------------------------
(* The inbound route.                                                      *)

OwnerWrites(m) ==
    /\ cloud[m] = "unsent" /\ cloud' = [cloud EXCEPT ![m] = "processing"]
    /\ UNCHANGED <<inFlight, turn, session, apart, faults>>

\* Mutant of TakeUp: the guard is not asked.
TakeUpAgain(m) ==
    /\ inFlight' = inFlight \cup {m}
    /\ \E t \in Turns : ~Open(t) /\ turn' = [turn EXCEPT ![t] = Opened(m, TRUE, FALSE)]
    /\ UNCHANGED <<cloud, session>>

\* A copy of the message arrives and nobody works on it: a turn, and the slot.
TakeUp(m) ==
    /\ m \notin inFlight /\ inFlight' = inFlight \cup {m}
    /\ \E t \in Turns : ~Open(t) /\ turn' = [turn EXCEPT ![t] = Opened(m, TRUE, FALSE)]
    /\ UNCHANGED <<cloud, session>>

\* A message still open at the cloud, the first time or again.
Accept(m) == cloud[m] = "processing" /\ TakeUp(m) /\ UNCHANGED <<apart, faults>>

\* A copy written before the cloud closed the message.
AcceptStale(m) == cloud[m] = "closed" /\ TakeUp(m) /\ apart' = apart \cup {m} /\ Disturb

-----------------------------------------------------------------------------
(* Dispatch: the engine admits the message, hands it to the run going on,  *)
(* queues it behind that run, refuses it, or drops it when it was stopped. *)

Moves(t, step) == turn' = [turn EXCEPT ![t].at = step]

\* All that is still read of a turn once it crashed, or its end is decided.
Remains(t, step) ==
    [NoTurn EXCEPT !.q = turn[t].q, !.at = step, !.guarded = turn[t].guarded,
                   !.stopped = turn[t].stopped, !.reasked = turn[t].reasked]

Crashes(t) == turn' = [turn EXCEPT ![t] = Remains(t, "crashed")]

Admitted(t) ==
    /\ turn[t].at = "dispatch" /\ ~turn[t].stopped /\ run = Idle
    /\ run' = t /\ turn' = [turn EXCEPT ![t].at = "running", ![t].tries = 0]
    /\ UNCHANGED <<cloud, inFlight, ownerAbort, verdict, resumed, apart, faults>>

Steered(t) ==
    /\ turn[t].at = "dispatch" /\ ~turn[t].stopped /\ run # Idle
    /\ turn' = [turn EXCEPT ![t].at = "settled", ![t].steered = TRUE, ![t].tries = 0]
    /\ UNCHANGED <<cloud, inFlight, session, apart, faults>>

QueuedBehind(t) ==
    /\ turn[t].at = "dispatch" /\ ~turn[t].stopped /\ run # Idle
    /\ turn' = [turn EXCEPT ![t].at = "queued", ![t].tries = 0]
    /\ UNCHANGED <<cloud, inFlight, session, apart, faults>>

\* The engine starts what it queued; the reply goes the outbound road.
QueuedRuns(t) ==
    /\ turn[t].at = "queued" /\ ~turn[t].stopped /\ run = Idle
    /\ run' = t
    /\ UNCHANGED <<cloud, inFlight, turn, ownerAbort, verdict, resumed, apart, faults>>

\* waitForQueuedRun ends without its run: the owner's stop, or the hour is over.
QueueWaitOver(t) ==
    /\ turn[t].at = "queued"
    /\ \/ turn[t].stopped /\ UNCHANGED faults
       \/ Disturb
    /\ run' = IF run = t THEN Orphan ELSE run
    /\ Moves(t, "settled")
    /\ UNCHANGED <<cloud, inFlight, ownerAbort, verdict, resumed, apart>>

\* The session changed before the turn was admitted: tried again, unless parts went out already.
AdmissionRefused(t) ==
    /\ turn[t].at = "dispatch" /\ Disturb
    /\ IF turn[t].tries < MAX_ADMISSION_REDISPATCHES /\ ~turn[t].started
       THEN Moves(t, "refused") ELSE Crashes(t)
    /\ UNCHANGED <<cloud, inFlight, session, apart>>

Redispatched(t) ==
    /\ turn[t].at = "refused"
    /\ turn' = [turn EXCEPT ![t].at = "dispatch", ![t].tries = @ + 1]
    /\ UNCHANGED <<cloud, inFlight, session, apart, faults>>

DroppedWhenStopped(t) ==
    /\ turn[t].at = "dispatch" /\ turn[t].stopped
    /\ Moves(t, "settled") \/ Crashes(t)
    /\ UNCHANGED <<cloud, inFlight, session, apart, faults>>

-----------------------------------------------------------------------------
(* The run: what it delivers, and how it ends.                             *)

Lose(q) == apart' = apart \cup {q} /\ Disturb

\* A part or preview is posted, turn/start before the first; either call may be lost.
Delivers(t) ==
    /\ turn[t].at = "running" /\ run = t
    /\ \/ /\ turn' = [turn EXCEPT ![t].started = TRUE, ![t].answered = TRUE]
          /\ turn' # turn /\ UNCHANGED <<apart, faults>>
       \/ \E started \in {turn[t].started, TRUE} :
            turn' = [turn EXCEPT ![t].started = started] /\ Lose(turn[t].q)
    /\ UNCHANGED <<cloud, inFlight, session>>

\* The message tool, or a queued run's answer: recordReplyDelivered for every turn of the message.
RepliesOutbound(t) ==
    /\ run = t /\ turn[t].notice = "none" /\ ~turn[t].answered
    /\ turn' = [u \in Turns |-> [turn[u] EXCEPT !.answered = @ \/ turn[u].q = turn[t].q]]
    /\ UNCHANGED <<cloud, inFlight, session, apart, faults>>

\* agent_end keeps the outcome, when the hook is called at all; the failure notice comes first.
RunEnds(t) ==
    /\ run = t /\ run' = Idle
    /\ \E notice \in Notices, how \in Verdicts :
         /\ turn[t].stopped => how # "error"
         /\ turn[t].at = "queued" => notice = "none"
         /\ turn' = [turn EXCEPT ![t].at = "settled", ![t].notice = notice]
         /\ verdict' = IF how = "none" THEN verdict ELSE how
    /\ UNCHANGED <<cloud, inFlight, ownerAbort, resumed, apart, faults>>

\* The dispatch throws.
RunCrashes(t) ==
    /\ run = t /\ turn[t].at = "running"
    /\ \/ turn[t].stopped /\ UNCHANGED faults
       \/ Disturb
    /\ run' = Idle /\ Crashes(t)
    /\ UNCHANGED <<cloud, inFlight, ownerAbort, verdict, resumed, apart>>

\* Its agent_end is not recorded: announce runs are skipped.
BackgroundStarts ==
    /\ run = Idle /\ run' = Background
    /\ UNCHANGED <<cloud, inFlight, turn, ownerAbort, verdict, resumed, apart, faults>>

BackgroundEnds ==
    /\ run = Background /\ run' = Idle
    /\ UNCHANGED <<cloud, inFlight, turn, ownerAbort, verdict, resumed, apart, faults>>

OrphanEnds ==
    /\ run = Orphan /\ run' = Idle
    /\ \E how \in Verdicts : verdict' = IF how = "none" THEN verdict ELSE how
    /\ UNCHANGED <<cloud, inFlight, turn, ownerAbort, resumed, apart, faults>>

-----------------------------------------------------------------------------
(* The abort route: every open turn of the chat, then the session's run.   *)

OwnerStops ==
    /\ \/ \E t \in Turns : Open(t) /\ ~turn[t].stopped
       \/ run # Idle /\ ~ownerAbort
    /\ turn' = [t \in Turns |-> IF Open(t) THEN [turn[t] EXCEPT !.stopped = TRUE] ELSE turn[t]]
    /\ ownerAbort' = (ownerAbort \/ run # Idle)
    /\ UNCHANGED <<cloud, inFlight, run, verdict, resumed, apart, faults>>

\* The records are kept a minute.
MarkExpires ==
    /\ ownerAbort /\ ownerAbort' = FALSE
    /\ UNCHANGED <<cloud, inFlight, turn, run, verdict, resumed, apart, faults>>

VerdictExpires ==
    /\ verdict # "none" /\ verdict' = "none"
    /\ UNCHANGED <<cloud, inFlight, turn, run, ownerAbort, resumed, apart, faults>>

\* Half an hour without a resumption: longer than any run may take.
ResumptionsForgotten ==
    /\ resumed > 0 /\ resumed' = 0 /\ \A t \in Turns : ~Open(t)
    /\ UNCHANGED <<cloud, inFlight, turn, run, ownerAbort, verdict, apart, faults>>

-----------------------------------------------------------------------------
(* How a turn ends.                                                        *)

Stopped(t) == ownerAbort \/ turn[t].stopped

\* readRunOutcome is asked only once a notice was seen, and forgets what it returns.
Outcome(t) == IF Stopped(t) \/ turn[t].notice = "none" THEN "unread" ELSE verdict

\* Silent, and the run may be taken to have ended on its own.
Silent(t) ==
    /\ ~turn[t].answered
    /\ \/ turn[t].notice = "none" /\ ~turn[t].steered
       \/ turn[t].notice = "other" /\ Outcome(t) \in {"none", "success"}

\* A failure worth going on after: the connection broke, or the run was cut short.
WorthResuming(t) ==
    \/ turn[t].notice = "transport"
          /\ Outcome(t) \in {"none", "success", "error"}
          /\ ~(Outcome(t) = "success" /\ turn[t].answered)
    \/ turn[t].notice # "none" /\ Outcome(t) = "aborted"

\* Mutant of FollowUp: whether the chain asked again already is not looked at.
FollowUpAskingOn(t) ==
    IF Stopped(t) THEN "none"
    ELSE IF Silent(t) THEN "reask"
    ELSE IF WorthResuming(t) /\ resumed < MAX_CONTINUATIONS THEN "resume"
    ELSE "none"

FollowUp(t) ==
    IF Stopped(t) THEN "none"
    ELSE IF Silent(t) /\ ~turn[t].reasked THEN "reask"
    ELSE IF WorthResuming(t) /\ resumed < MAX_CONTINUATIONS THEN "resume"
    ELSE "none"

\* The turn is closed as answered: the reply is there, or a warning rode along with it.
Normal(t) ==
    /\ ~Stopped(t) /\ turn[t].answered
    /\ turn[t].notice = "none" \/ Outcome(t) = "success"

\* Mutant of EndsFailed: a silence nobody vouches for passes as chosen.
EndsFailedWhenVouched(t) ==
    /\ ~Stopped(t) /\ FollowUp(t) = "none" /\ ~Normal(t)
    /\ turn[t].notice # "none" /\ Outcome(t) # "none"

EndsFailed(t) ==
    /\ ~Stopped(t) /\ FollowUp(t) = "none" /\ ~Normal(t)
    /\ turn[t].notice # "none"
    /\ ~(Silent(t) /\ Outcome(t) = "success")

\* A silent turn that opened no assistant message hands all it holds to the turn that asks again.
HeldOpen(t) == FollowUp(t) = "reask" /\ ~turn[t].started

Ending(t, failed, next) == [Remains(t, "ending") EXCEPT !.failed = failed, !.next = next]

\* Mutant of Finish: the slot is freed before the cloud is told of the end.
FinishFreesSlot(t) ==
    /\ turn[t].at = "settled"
    /\ turn' = [turn EXCEPT ![t] = Ending(t, EndsFailed(t), FollowUp(t))]
    /\ inFlight' = inFlight \ {turn[t].q} /\ ownerAbort' = FALSE
    /\ UNCHANGED <<cloud, run, verdict, resumed, apart, faults>>

Finish(t) ==
    /\ turn[t].at = "settled"
    /\ turn' = [turn EXCEPT ![t] =
         IF HeldOpen(t) THEN Opened(@.q, @.guarded, TRUE)
         ELSE Ending(t, EndsFailed(t), FollowUp(t))]
    /\ ownerAbort' = FALSE
    /\ verdict' = IF Outcome(t) = "unread" THEN verdict ELSE "none"
    /\ resumed' = IF Stopped(t) \/ Normal(t) THEN 0
                  ELSE IF FollowUp(t) = "resume" THEN resumed + 1 ELSE resumed
    /\ UNCHANGED <<cloud, inFlight, run, apart, faults>>

\* A dispatch that threw: failed, unless a stop caused it.
FinishForced(t) ==
    /\ turn[t].at = "crashed"
    /\ turn' = [turn EXCEPT ![t] = Ending(t, ~Stopped(t), "none")]
    /\ ownerAbort' = FALSE
    /\ UNCHANGED <<cloud, inFlight, run, verdict, resumed, apart, faults>>

\* Mutant of Lifted: the slot stays with a follow-up, which knows nothing of it.
LiftedUnlessFollowedUp(t) ==
    IF turn[t].guarded /\ turn[t].next = "none" THEN inFlight \ {turn[t].q} ELSE inFlight

Lifted(t) == IF turn[t].guarded THEN inFlight \ {turn[t].q} ELSE inFlight

\* Mutant of AfterEnd: the stop is not looked at.
AfterEndAnyway(t) ==
    IF turn[t].next = "none" THEN NoTurn
    ELSE Opened(turn[t].q, FALSE, turn[t].reasked \/ turn[t].next = "reask")

\* Its own follow-up, dispatched without an id: none when the owner stopped the turn meanwhile.
AfterEnd(t) ==
    IF turn[t].next = "none" \/ turn[t].stopped THEN NoTurn
    ELSE Opened(turn[t].q, FALSE, turn[t].reasked \/ turn[t].next = "reask")

\* turn/start and turn/end posted or lost; then the slot is freed and the follow-up begins.
EndTurn(t) ==
    /\ turn[t].at = "ending"
    /\ \/ cloud' = [cloud EXCEPT ![turn[t].q] = "closed"] /\ UNCHANGED <<apart, faults>>
       \/ Lose(turn[t].q) /\ UNCHANGED cloud
    /\ inFlight' = Lifted(t)
    /\ turn' = [turn EXCEPT ![t] = AfterEnd(t)]
    /\ UNCHANGED session

\* The gateway process ends: nothing of this was kept.
GatewayDies ==
    /\ Disturb
    /\ inFlight' = {} /\ turn' = [t \in Turns |-> NoTurn]
    /\ run' = Idle /\ ownerAbort' = FALSE /\ verdict' = "none" /\ resumed' = 0
    /\ UNCHANGED <<cloud, apart>>

-----------------------------------------------------------------------------
TurnNext(t) ==
    \/ Admitted(t) \/ Steered(t) \/ QueuedBehind(t) \/ QueuedRuns(t) \/ QueueWaitOver(t)
    \/ AdmissionRefused(t) \/ Redispatched(t) \/ DroppedWhenStopped(t)
    \/ Delivers(t) \/ RepliesOutbound(t) \/ RunEnds(t) \/ RunCrashes(t)
    \/ Finish(t) \/ FinishForced(t) \/ EndTurn(t)

Next ==
    \/ \E m \in Msgs : OwnerWrites(m) \/ Accept(m) \/ AcceptStale(m)
    \/ \E t \in Turns : TurnNext(t)
    \/ BackgroundStarts \/ BackgroundEnds \/ OrphanEnds \/ OwnerStops
    \/ MarkExpires \/ VerdictExpires \/ ResumptionsForgotten \/ GatewayDies

Spec == Init /\ [][Next]_vars

-----------------------------------------------------------------------------
(* Safety.                                                                 *)

OpenFor(m) == {t \in Turns : Open(t) /\ turn[t].q = m}

(* However turns, stops, follow-ups and catch-up copies interleave, a      *)
(* message is worked on by one turn at a time, unless the cloud was not    *)
(* told of an end, or wrote a copy before it was (it sends those again).   *)
OneTurnPerMessage == \A m \in Msgs \ apart : Cardinality(OpenFor(m)) <= 1

(* A slot of the guard always has the one turn that will free it: no path  *)
(* of a turn that ends, crashes, or hands its slot to the turn that asks   *)
(* again leaves a message the gateway would refuse for good.               *)
SlotHasItsTurn ==
    \A m \in Msgs : Cardinality({t \in OpenFor(m) : turn[t].guarded})
                      = IF m \in inFlight THEN 1 ELSE 0

(* Once the owner stopped a turn, it neither ends with an error note nor   *)
(* goes on in a follow-up, whatever it was doing when the stop came.       *)
StoppedStaysQuiet ==
    [][\A t \in Turns :
         turn[t].stopped /\ turn'[t] # turn[t] /\ turn'[t].at # "free" =>
             /\ turn'[t].stopped
             /\ turn'[t].failed => turn[t].failed]_vars

(* A turn that put nothing before the owner never just ends: it asks or    *)
(* resumes, says it failed, or there is a reason for its silence (a stop,  *)
(* a run that answers for it, the agent silent again when asked again).    *)
NeverLeftInSilence ==
    [][\A t \in Turns :
         /\ turn[t].at \in {"settled", "crashed"} /\ turn'[t].at = "ending"
         /\ ~turn[t].answered /\ ~turn'[t].failed /\ turn'[t].next = "none"
         => Stopped(t) \/ turn[t].steered \/ turn[t].reasked]_vars

(* A stop is charged to the turns the owner stopped: a turn that crashed   *)
(* on its own says so ("the mark must never survive into an unrelated      *)
(* later turn, where it would silence a genuine failure").                 *)
CrashIsReported ==
    [][\A t \in Turns :
         turn[t].at = "crashed" /\ turn'[t].at = "ending" /\ ~turn[t].stopped
         => turn'[t].failed]_vars

-----------------------------------------------------------------------------
(* Liveness.                                                               *)

\* The engine decides every dispatch and ends every run, the posts return, and the cloud sends
\* what it still holds open again.
LiveSpec ==
    /\ Spec
    /\ \A m \in Msgs : WF_vars(Accept(m))
    /\ WF_vars(BackgroundEnds) /\ WF_vars(OrphanEnds)
    /\ \A t \in Turns :
         /\ WF_vars(Admitted(t) \/ Steered(t) \/ QueuedBehind(t) \/ DroppedWhenStopped(t))
         /\ WF_vars(Redispatched(t)) /\ WF_vars(RunEnds(t))
         /\ SF_vars(QueuedRuns(t)) /\ WF_vars(QueueWaitOver(t) /\ turn[t].stopped)
         /\ WF_vars(Finish(t)) /\ WF_vars(FinishForced(t)) /\ WF_vars(EndTurn(t))

(* Every message of the owner is closed at the cloud in the end: a failing *)
(* run resumes a bounded number of times, silence is asked about once, and *)
(* what a lost post or a dead gateway left open is taken up again.         *)
EveryMessageCloses ==
    \A m \in Msgs : (cloud[m] = "processing") ~> (cloud[m] = "closed")

(* The chat's promise about one message (MessageLife).                     *)
Life == INSTANCE MessageLife WITH
            held  <- inFlight,
            loose <- {turn[t].q : t \in {u \in Turns : Open(u) /\ ~turn[u].guarded}}
KeepsMessageLife == Life!LifeSpec

=============================================================================

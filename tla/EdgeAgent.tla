------------------------------ MODULE EdgeAgent ------------------------------
(***************************************************************************)
(* The edge side of the cloud connection: the ping loop, the command       *)
(* executor, the one-slot result store between them, the session file they *)
(* share with the SSE loops, and the cloud as those loops use it.          *)
(*                                                                         *)
(* One agent process.  Its tasks run on one asyncio loop, so a stretch of  *)
(* code without an await is one action; every await (a cloud call, a       *)
(* blocked put, a wait for the result store) is a place where the others   *)
(* run.  A cloud call is three actions: the loop sends it, the cloud       *)
(* answers it (or the answer is lost), the loop handles the answer.        *)
(***************************************************************************)
EXTENDS Integers, Sequences, FiniteSets

CONSTANTS
    Cmds,             \* ids of the remote commands the owner may enqueue
    Disconnects,      \* those of them whose type is "disconnect"
    Streams,          \* the SSE loops: one (unified) or two (chat and hooks)
    QueueMax,         \* maxsize of the command queue (8 in the code)
    MaxTaskRestarts,  \* MAX_TASK_RESTARTS of the watchdog (3 in the code)
    MaxInst,          \* bound: session ids the cloud may issue
    MaxFaults,        \* bound: outside disturbances (losses, takeovers, crashes)
    NoCmd             \* stands for None where a command id is expected

ASSUME ConstantsAssumption ==
    /\ NoCmd \notin Cmds
    /\ Disconnects \subseteq Cmds
    /\ QueueMax \in Nat \ {0}
    /\ MaxTaskRestarts \in Nat
    /\ MaxInst \in Nat
    /\ MaxFaults \in Nat

VARIABLES
    \* the cloud
    cloudInst,     \* id of the session the cloud holds, 0 when it holds none
    lastInst,      \* the last session id issued
    fresh,         \* the session was pinged within stale_after_seconds
    otherActive,   \* the session held is another instance's
    tokenOk,       \* the token in agent_token.json is not revoked
    suspended,     \* the owner paused the agent
    cmd,           \* status of every command
    reported,      \* commands whose result the cloud took
    \* the agent's files
    creds,         \* agent_token.json is there
    session,       \* the id in edge_session.json, 0 when there is no file
    standbyWish,   \* cron_standby.json is there
    \* the ping loop
    pc, call, dispatched, held, pingRestarts,
    \* queue, executor, result store
    queue, exec, ack, execRestarts,
    \* the SSE loops and POST /auth/disconnect
    stream, signingOut,
    \* the bound on disturbances, and history
    faults, ran, ranAgain, forgotten, lost

cloudVars == <<cloudInst, lastInst, fresh, otherActive, tokenOk, suspended, cmd, reported>>
fileVars  == <<creds, session, standbyWish>>
pingVars  == <<pc, call, dispatched, held, pingRestarts>>
execVars  == <<queue, exec, ack, execRestarts>>
history   == <<ran, ranAgain, forgotten, lost>>
others    == <<stream, signingOut>>
vars == <<cloudVars, fileVars, pingVars, execVars, others, faults, history>>

-----------------------------------------------------------------------------

Inst    == 0 .. MaxInst
Status  == {"absent", "pending", "delivered", "done", "closed"}
Work    == [id : Cmds, inst : Inst]
NoWork  == [id |-> NoCmd, inst |-> 0]
NoCall  == [kind |-> "none", inst |-> 0, code |-> "none", offer |-> NoCmd]
Codes   == {"none", "ok", "unauthorized", "suspended", "invalidated", "already_active", "lost"}
Idle    == [phase |-> "idle", work |-> NoWork]

CloudTypeOK ==
    /\ cloudInst \in Inst /\ lastInst \in Inst
    /\ fresh \in BOOLEAN /\ otherActive \in BOOLEAN
    /\ tokenOk \in BOOLEAN /\ suspended \in BOOLEAN
    /\ cmd \in [Cmds -> Status] /\ reported \subseteq Cmds

FileTypeOK == creds \in BOOLEAN /\ session \in Inst /\ standbyWish \in BOOLEAN

PingTypeOK ==
    /\ pc \in {"top", "probe", "call", "put", "stopped", "dead"}
    /\ call \in [kind : {"none", "connect", "ping", "result", "disconnect"},
                 inst : Inst, code : Codes, offer : Cmds \cup {NoCmd}]
    /\ dispatched \in Cmds \cup {NoCmd}
    /\ held \in Work \cup {NoWork}
    /\ pingRestarts \in Nat

ExecTypeOK ==
    /\ queue \in Seq(Work)
    /\ exec \in [phase : {"idle", "remote", "thread", "publish", "dead"},
                 work : Work \cup {NoWork}]
    /\ ack \in Work \cup {NoWork}
    /\ execRestarts \in Nat

RestTypeOK ==
    /\ stream \in [Streams -> Inst] /\ signingOut \in BOOLEAN
    /\ faults \in Nat
    /\ ran \subseteq Cmds /\ ranAgain \subseteq Cmds
    /\ forgotten \subseteq Cmds /\ lost \subseteq Cmds

TypeOK == CloudTypeOK /\ FileTypeOK /\ PingTypeOK /\ ExecTypeOK /\ RestTypeOK

Init ==
    /\ cloudInst = 0 /\ lastInst = 0 /\ fresh = FALSE /\ otherActive = FALSE
    /\ tokenOk = TRUE /\ suspended = FALSE
    /\ cmd = [c \in Cmds |-> "absent"] /\ reported = {}
    /\ creds = TRUE /\ session = 0 /\ standbyWish = FALSE
    /\ pc = "top" /\ call = NoCall /\ dispatched = NoCmd /\ held = NoWork /\ pingRestarts = 0
    /\ queue = <<>> /\ exec = Idle /\ ack = NoWork /\ execRestarts = 0
    /\ stream = [s \in Streams |-> 0] /\ signingOut = FALSE
    /\ faults = 0 /\ ran = {} /\ ranAgain = {} /\ forgotten = {} /\ lost = {}

Disturb == faults < MaxFaults /\ faults' = faults + 1

Active == {c \in Cmds : cmd[c] \in {"pending", "delivered"}}

\* Every active command is over: PENDING -> CANCELLED, DELIVERED -> FAILED.
Closed(st) == [c \in Cmds |-> IF st[c] \in {"pending", "delivered"} THEN "closed" ELSE st[c]]

InQueue(c)    == \E i \in 1 .. Len(queue) : queue[i].id = c
InPipeline(c) == InQueue(c) \/ held.id = c \/ exec.work.id = c \/ ack.id = c

-----------------------------------------------------------------------------
(* The ping loop: one iteration, await by await.                           *)

\* Without a token the client raises CloudConnectionError before anything is sent.
Send(kind, inst) ==
    /\ pc' = "call"
    /\ call' = [kind |-> kind, inst |-> inst, code |-> IF creds THEN "none" ELSE "lost",
                offer |-> NoCmd]

\* A result handled late: the cloud closed its command while the agent was still at it, or it is
\* of a run that a forgotten command had again.
Belated(acked) == cmd[acked] = "closed" \/ acked \in forgotten

\* dispatched_command_id := None, here and in the registry.
ForgetDispatched(acked) ==
    /\ dispatched' = NoCmd
    /\ forgotten' = forgotten \cup (IF Belated(acked) THEN {dispatched} \ {acked, NoCmd} ELSE {})

\* Mutant of DropAck: no session file is not taken for a session that is over.
DropAckOnlyOfOther ==
    /\ pc = "top" /\ creds /\ ack # NoWork /\ session \notin {0, ack.inst}
    /\ ack' = NoWork
    /\ ForgetDispatched(ack.id)
    /\ UNCHANGED <<cloudVars, fileVars, pc, call, held, pingRestarts, queue, exec, execRestarts,
                   others, faults, ran, ranAgain, lost>>

\* An unreported result of a session that is no longer the file's is dropped.
DropAck ==
    /\ pc = "top" /\ creds /\ ack # NoWork /\ session # ack.inst
    /\ ack' = NoWork
    /\ ForgetDispatched(ack.id)
    /\ UNCHANGED <<cloudVars, fileVars, pc, call, held, pingRestarts, queue, exec, execRestarts,
                   others, faults, ran, ranAgain, lost>>

\* _flush_command_ack: probe on the supervisor thread, then ping with command_result.
SendResult ==
    /\ pc = "top" /\ creds /\ ack # NoWork /\ session = ack.inst
    /\ exec.phase # "thread"
    /\ Send("result", ack.inst)
    /\ UNCHANGED <<cloudVars, fileVars, dispatched, held, pingRestarts, execVars, others, faults,
                   history>>

\* Mutant of BeginProbe: the main path starts with a result still unreported.
BeginProbeAnyway ==
    /\ pc = "top" /\ creds
    /\ exec.phase # "thread"
    /\ pc' = "probe"
    /\ UNCHANGED <<cloudVars, fileVars, call, dispatched, held, pingRestarts, execVars, others,
                   faults, history>>

\* No result to report: probe OpenClaw and the browser on the supervisor thread.
BeginProbe ==
    /\ pc = "top" /\ creds /\ ack = NoWork
    /\ exec.phase # "thread"
    /\ pc' = "probe"
    /\ UNCHANGED <<cloudVars, fileVars, call, dispatched, held, pingRestarts, execVars, others,
                   faults, history>>

\* The session file is read after the probes: connect without one, ping with one.
SendPing ==
    /\ pc = "probe"
    /\ IF session = 0 THEN Send("connect", 0) ELSE Send("ping", session)
    /\ UNCHANGED <<cloudVars, fileVars, dispatched, held, pingRestarts, execVars, others, faults,
                   history>>

Answered(kinds, code) == pc = "call" /\ call.kind \in kinds /\ call.code = code

BackToTop == pc' = "top" /\ call' = NoCall

\* connect granted: the id is saved, and the same iteration goes on to ping with it.
ConnectGranted ==
    /\ Answered({"connect"}, "ok")
    /\ session' = call.inst
    /\ Send("ping", call.inst)
    /\ UNCHANGED <<cloudVars, creds, standbyWish, dispatched, held, pingRestarts, execVars, others,
                   faults, history>>

\* An accepted ping lifts cron standby; a command other than the one already
\* dispatched is remembered and put on the queue, which blocks while it is full.
PingAccepted ==
    /\ Answered({"ping"}, "ok")
    /\ standbyWish' = FALSE
    /\ call' = NoCall
    /\ IF call.offer \in {NoCmd, dispatched}
         THEN pc' = "top" /\ UNCHANGED <<dispatched, queue, held>>
         ELSE /\ dispatched' = call.offer
              /\ LET work == [id |-> call.offer, inst |-> call.inst]
                 IN IF Len(queue) < QueueMax
                      THEN queue' = Append(queue, work) /\ pc' = "top" /\ held' = held
                      ELSE held' = work /\ pc' = "put" /\ queue' = queue
    /\ UNCHANGED <<cloudVars, creds, session, pingRestarts, exec, ack, execRestarts, others, faults,
                   history>>

PutUnblocked ==
    /\ pc = "put" /\ Len(queue) < QueueMax
    /\ queue' = Append(queue, held) /\ held' = NoWork /\ pc' = "top"
    /\ UNCHANGED <<cloudVars, fileVars, call, dispatched, pingRestarts, exec, ack, execRestarts,
                   others, faults, history>>

\* 409 agent_connection_already_active: cron goes on standby.
RefusedAlreadyActive ==
    /\ Answered({"connect"}, "already_active")
    /\ standbyWish' = TRUE
    /\ BackToTop
    /\ UNCHANGED <<cloudVars, creds, session, dispatched, held, pingRestarts, execVars, others,
                   faults, history>>

\* Mutant of SessionInvalidated: the rejected session stays in the file.
SessionInvalidatedKeepsFile ==
    /\ Answered({"ping", "result"}, "invalidated")
    /\ ack' = IF call.kind = "result" THEN NoWork ELSE ack
    /\ BackToTop
    /\ UNCHANGED <<cloudVars, fileVars, dispatched, held, pingRestarts, queue, exec, execRestarts,
                   others, faults, history>>

\* 401 agent_session_invalidated: the session file goes; a result being flushed goes with it,
\* but the dispatched id stays.
SessionInvalidated ==
    /\ Answered({"ping", "result"}, "invalidated")
    /\ session' = 0
    /\ ack' = IF call.kind = "result" THEN NoWork ELSE ack
    /\ BackToTop
    /\ UNCHANGED <<cloudVars, creds, standbyWish, dispatched, held, pingRestarts, queue, exec,
                   execRestarts, others, faults, history>>

\* Plain 401: session and token files go; the main path also wishes for standby.
Unauthorized ==
    /\ Answered({"connect", "ping", "result"}, "unauthorized")
    /\ session' = 0 /\ creds' = FALSE
    /\ standbyWish' = (standbyWish \/ call.kind # "result")
    /\ ack' = IF call.kind = "result" THEN NoWork ELSE ack
    /\ BackToTop
    /\ UNCHANGED <<cloudVars, dispatched, held, pingRestarts, queue, exec, execRestarts, others,
                   faults, history>>

\* Mutant of RetryLater: a result whose report failed is given up.
RetryLaterWithoutResult ==
    /\ \E code \in {"suspended", "lost"} : Answered({"connect", "ping", "result"}, code)
    /\ ack' = IF call.kind = "result" THEN NoWork ELSE ack
    /\ BackToTop
    /\ UNCHANGED <<cloudVars, fileVars, dispatched, held, pingRestarts, queue, exec, execRestarts,
                   others, faults, history>>

\* Suspended, or a transport error: nothing changes, the iteration is repeated.
RetryLater ==
    /\ \E code \in {"suspended", "lost"} : Answered({"connect", "ping", "result"}, code)
    /\ BackToTop
    /\ UNCHANGED <<cloudVars, fileVars, dispatched, held, pingRestarts, execVars, others, faults,
                   history>>

\* The result is reported: the store is free, and a disconnect goes on to sign off.
ResultAccepted ==
    /\ Answered({"result"}, "ok")
    /\ ForgetDispatched(ack.id)
    /\ ack' = NoWork
    /\ IF ack.id \in Disconnects THEN Send("disconnect", ack.inst) ELSE BackToTop
    /\ UNCHANGED <<cloudVars, fileVars, held, pingRestarts, queue, exec, execRestarts, others,
                   faults, ran, ranAgain, lost>>

\* Whatever the answer to disconnect is, the session file goes and the loop ends for good.
LoopEnds ==
    /\ pc = "call" /\ call.kind = "disconnect" /\ call.code # "none"
    /\ session' = 0 /\ pc' = "stopped" /\ call' = NoCall
    /\ UNCHANGED <<cloudVars, creds, standbyWish, dispatched, held, pingRestarts, execVars, others,
                   faults, history>>

\* Mutant of PingLoopCrashes: the respawned loop starts with no command dispatched.
PingLoopCrashesForgets ==
    /\ Disturb /\ pc \in {"probe", "call"}
    /\ pingRestarts' = pingRestarts + 1
    /\ pc' = IF pingRestarts < MaxTaskRestarts THEN "top" ELSE "dead"
    /\ call' = NoCall /\ dispatched' = NoCmd
    /\ UNCHANGED <<cloudVars, fileVars, held, execVars, others, history>>

\* An exception nothing catches (a file error): the watchdog respawns the loop, which takes
\* the dispatched id back from the registry, or gives it up after MaxTaskRestarts.
PingLoopCrashes ==
    /\ Disturb /\ pc \in {"probe", "call"}
    /\ pingRestarts' = pingRestarts + 1
    /\ pc' = IF pingRestarts < MaxTaskRestarts THEN "top" ELSE "dead"
    /\ call' = NoCall
    /\ UNCHANGED <<cloudVars, fileVars, dispatched, held, execVars, others, history>>

PingLoop ==
    \/ DropAck \/ SendResult \/ BeginProbe \/ SendPing
    \/ ConnectGranted \/ PingAccepted \/ PutUnblocked \/ ResultAccepted \/ LoopEnds
    \/ RefusedAlreadyActive \/ SessionInvalidated \/ Unauthorized \/ RetryLater

-----------------------------------------------------------------------------
(* The command executor and the result store.                              *)

\* A command starts with cloud calls ("remote") or with the supervisor thread ("thread"),
\* which is one thread: the ping loop's probes wait for it.
TakeCommand ==
    /\ exec.phase = "idle" /\ queue # <<>>
    /\ exec' = [phase |-> "remote", work |-> Head(queue)]
    /\ queue' = Tail(queue)
    /\ ran' = ran \cup {Head(queue).id}
    /\ ranAgain' = IF Head(queue).id \in ran THEN ranAgain \cup {Head(queue).id} ELSE ranAgain
    /\ UNCHANGED <<cloudVars, fileVars, pingVars, ack, execRestarts, others, faults, forgotten, lost>>

\* run_in_executor: a manager call takes the supervisor thread, and gives it back.
SwitchThread ==
    /\ exec.phase \in {"remote", "thread"}
    /\ exec' = [exec EXCEPT !.phase = IF @ = "remote" THEN "thread" ELSE "remote"]
    /\ UNCHANGED <<cloudVars, fileVars, pingVars, queue, ack, execRestarts, others, faults, history>>

\* Mutant of FinishCommand: a branch returns without a result.
FinishCommandSilently ==
    /\ exec.phase \in {"remote", "thread"}
    /\ exec' = Idle
    /\ UNCHANGED <<cloudVars, fileVars, pingVars, queue, ack, execRestarts, others, faults, history>>

FinishCommand ==
    /\ exec.phase \in {"remote", "thread"}
    /\ exec' = [exec EXCEPT !.phase = "publish"]
    /\ UNCHANGED <<cloudVars, fileVars, pingVars, queue, ack, execRestarts, others, faults, history>>

\* set_pending_ack waits until the slot is free.
PublishResult ==
    /\ exec.phase = "publish" /\ ack = NoWork
    /\ ack' = exec.work
    /\ exec' = Idle
    /\ UNCHANGED <<cloudVars, fileVars, pingVars, queue, execRestarts, others, faults, history>>

\* An exception escapes _execute_remote_command: no result is ever published, and the
\* watchdog respawns the loop or gives it up.
ExecutorCrashes ==
    /\ Disturb /\ exec.phase \in {"remote", "thread"}
    /\ execRestarts' = execRestarts + 1
    /\ exec' = IF execRestarts < MaxTaskRestarts THEN Idle ELSE [Idle EXCEPT !.phase = "dead"]
    /\ lost' = lost \cup {exec.work.id}
    /\ UNCHANGED <<cloudVars, fileVars, pingVars, queue, ack, others, ran, ranAgain, forgotten>>

Executor == TakeCommand \/ SwitchThread \/ FinishCommand \/ PublishResult

-----------------------------------------------------------------------------
(* The SSE loops, the local sign-in and sign-out, and the process.         *)

\* The session id is read first; the wait for OpenClaw and the request come after.
StreamReadsSession(s) ==
    /\ stream[s] = 0 /\ creds /\ session # 0
    /\ stream' = [stream EXCEPT ![s] = session]
    /\ UNCHANGED <<cloudVars, fileVars, pingVars, execVars, signingOut, faults, history>>

\* The cloud knows another session, or not this token: the session file goes, whatever it holds.
StreamRejected(s) ==
    /\ stream[s] # 0
    /\ ~tokenOk \/ cloudInst \notin {0, stream[s]}
    /\ session' = 0
    /\ stream' = [stream EXCEPT ![s] = 0]
    /\ UNCHANGED <<cloudVars, creds, standbyWish, pingVars, execVars, signingOut, faults, history>>

\* The stream ends cleanly, fails, or finds no connected session: read the file again.
StreamEnds(s) ==
    /\ stream[s] # 0
    /\ stream' = [stream EXCEPT ![s] = 0]
    /\ UNCHANGED <<cloudVars, fileVars, pingVars, execVars, signingOut, faults, history>>

SignIn ==
    /\ ~creds \/ ~tokenOk
    /\ ~signingOut
    /\ creds' = TRUE /\ tokenOk' = TRUE
    /\ UNCHANGED <<cloudInst, lastInst, fresh, otherActive, suspended, cmd, reported, session,
                   standbyWish, pingVars, execVars, others, faults, history>>

\* The cloud drops the session and revokes the token on disconnect.
Revoked(inst) ==
    /\ tokenOk' = FALSE
    /\ cloudInst' = IF cloudInst = inst THEN 0 ELSE cloudInst

\* POST /auth/disconnect: tell the cloud (best effort), then delete both files.
SignOutBegins ==
    /\ Disturb /\ creds /\ ~signingOut
    /\ signingOut' = TRUE
    /\ \/ session # 0 /\ tokenOk /\ Revoked(session)
       \/ UNCHANGED <<tokenOk, cloudInst>>
    /\ UNCHANGED <<lastInst, fresh, otherActive, suspended, cmd, reported, fileVars, pingVars,
                   execVars, stream, history>>

SignOutEnds ==
    /\ signingOut
    /\ signingOut' = FALSE /\ creds' = FALSE /\ session' = 0
    /\ UNCHANGED <<cloudVars, standbyWish, pingVars, execVars, stream, faults, history>>

\* The process goes and comes back with its files only.  On a graceful end it says so to the cloud.
AgentRestarts ==
    /\ Disturb
    /\ cloudInst' \in {cloudInst} \cup (IF cloudInst = session /\ tokenOk THEN {0} ELSE {})
    /\ pc' = "top" /\ call' = NoCall /\ dispatched' = NoCmd /\ held' = NoWork /\ pingRestarts' = 0
    /\ queue' = <<>> /\ exec' = Idle /\ ack' = NoWork /\ execRestarts' = 0
    /\ stream' = [s \in Streams |-> 0] /\ signingOut' = FALSE
    /\ forgotten' = forgotten \cup ran \cup {c \in Cmds : InPipeline(c)}
    /\ UNCHANGED <<lastInst, fresh, otherActive, tokenOk, suspended, cmd, reported, fileVars, ran,
                   ranAgain, lost>>

Local ==
    \/ \E s \in Streams : StreamReadsSession(s) \/ StreamRejected(s) \/ StreamEnds(s)
    \/ SignIn \/ SignOutBegins \/ SignOutEnds \/ AgentRestarts

-----------------------------------------------------------------------------
(* The cloud, as the handlers above and docs/connection-protocol.md use it. *)

Waiting(kinds) == pc = "call" /\ call.kind \in kinds /\ call.code = "none"

Answer(code) == call' = [call EXCEPT !.code = code]

GrantSession(other) ==
    /\ lastInst < MaxInst
    /\ lastInst' = lastInst + 1 /\ cloudInst' = lastInst + 1
    /\ fresh' = TRUE /\ otherActive' = other
    /\ cmd' = Closed(cmd)

CloudRefusesConnect ==
    /\ \/ ~tokenOk /\ Answer("unauthorized")
       \/ tokenOk /\ suspended /\ Answer("suspended")
       \/ tokenOk /\ ~suspended /\ cloudInst # 0 /\ fresh /\ Answer("already_active")
    /\ UNCHANGED cloudVars

\* A session is granted once the previous one is gone or stale.
CloudGrantsConnect ==
    /\ tokenOk /\ ~suspended /\ (cloudInst = 0 \/ ~fresh)
    /\ GrantSession(FALSE)
    /\ call' = [call EXCEPT !.code = "ok", !.inst = lastInst + 1]
    /\ UNCHANGED <<tokenOk, suspended, reported>>

CloudAnswersConnect ==
    /\ Waiting({"connect"})
    /\ CloudGrantsConnect \/ CloudRefusesConnect
    /\ UNCHANGED <<fileVars, pc, dispatched, held, pingRestarts, execVars, others, faults, history>>

\* Mutant of Results: the dispatched id is reported, not the one of the stored result.
ResultsOfDispatched == IF call.kind = "result" THEN {dispatched} ELSE {}

\* The command whose result this ping carries, and what that makes of the commands.
Results == IF call.kind = "result" THEN {ack.id} ELSE {}
Settled == [c \in Cmds |-> IF c \in Results /\ cmd[c] = "delivered" THEN "done" ELSE cmd[c]]

\* A ping of the current session: its result is recorded, and the active command, delivered
\* before or not, may be offered with the answer.
CloudTakesPing ==
    /\ tokenOk /\ ~suspended /\ call.inst = cloudInst
    /\ fresh' = TRUE
    /\ reported' = reported \cup Results
    /\ \E offer \in {c \in Cmds : Settled[c] \in {"pending", "delivered"}} \cup {NoCmd} :
         /\ call' = [call EXCEPT !.code = "ok", !.offer = offer]
         /\ cmd' = [c \in Cmds |-> IF c = offer THEN "delivered" ELSE Settled[c]]
    /\ UNCHANGED <<cloudInst, lastInst, otherActive, tokenOk, suspended>>

CloudRefusesPing ==
    /\ \/ ~tokenOk /\ Answer("unauthorized")
       \/ tokenOk /\ suspended /\ Answer("suspended")
       \/ tokenOk /\ ~suspended /\ call.inst # cloudInst /\ Answer("invalidated")
    /\ UNCHANGED cloudVars

CloudAnswersPing ==
    /\ Waiting({"ping", "result"})
    /\ CloudTakesPing \/ CloudRefusesPing
    /\ UNCHANGED <<fileVars, pc, dispatched, held, pingRestarts, execVars, others, faults, history>>

CloudAnswersDisconnect ==
    /\ Waiting({"disconnect"})
    /\ IF tokenOk THEN Revoked(call.inst) /\ Answer("ok")
                  ELSE UNCHANGED <<tokenOk, cloudInst>> /\ Answer("unauthorized")
    /\ UNCHANGED <<lastInst, fresh, otherActive, suspended, cmd, reported, fileVars, pc, dispatched,
                   held, pingRestarts, execVars, others, faults, history>>

\* The request is lost, or its answer after the cloud acted on it.
AnswerLost ==
    /\ Disturb /\ pc = "call" /\ call.code # "lost"
    /\ call' = [call EXCEPT !.code = "lost"]
    /\ UNCHANGED <<cloudVars, fileVars, pc, dispatched, held, pingRestarts, execVars, others, history>>

Cloud == CloudAnswersConnect \/ CloudAnswersPing \/ CloudAnswersDisconnect

\* At most one command is active per owner.
OwnerEnqueues ==
    /\ cloudInst # 0 /\ Active = {}
    /\ \E c \in Cmds : cmd[c] = "absent" /\ cmd' = [cmd EXCEPT ![c] = "pending"]
    /\ UNCHANGED <<cloudInst, lastInst, fresh, otherActive, tokenOk, suspended, reported, fileVars,
                   pingVars, execVars, others, faults, history>>

\* Cancelled by the owner while pending, timed out (about a minute) once delivered.
CommandCloses ==
    /\ \E c \in Active : cmd' = [cmd EXCEPT ![c] = "closed"]
    /\ UNCHANGED <<cloudInst, lastInst, fresh, otherActive, tokenOk, suspended, reported, fileVars,
                   pingVars, execVars, others, faults, history>>

SessionGoesStale ==
    /\ fresh /\ fresh' = FALSE
    /\ UNCHANGED <<cloudInst, lastInst, otherActive, tokenOk, suspended, cmd, reported, fileVars,
                   pingVars, execVars, others, faults, history>>

SessionExpires ==
    /\ Disturb /\ cloudInst # 0
    /\ cloudInst' = 0 /\ otherActive' = FALSE
    /\ UNCHANGED <<lastInst, fresh, tokenOk, suspended, cmd, reported, fileVars, pingVars, execVars,
                   others, history>>

\* Another instance of the owner's agent connects once this one's session is gone or stale.
OtherTakesOver ==
    /\ Disturb /\ (cloudInst = 0 \/ ~fresh)
    /\ GrantSession(TRUE)
    /\ UNCHANGED <<tokenOk, suspended, reported, fileVars, pingVars, execVars, others, history>>

OwnerPauses ==
    /\ Disturb /\ ~suspended /\ suspended' = TRUE
    /\ UNCHANGED <<cloudInst, lastInst, fresh, otherActive, tokenOk, cmd, reported, fileVars, pingVars,
                   execVars, others, history>>

OwnerResumes ==
    /\ suspended /\ suspended' = FALSE
    /\ UNCHANGED <<cloudInst, lastInst, fresh, otherActive, tokenOk, cmd, reported, fileVars, pingVars,
                   execVars, others, faults, history>>

TokenRevoked ==
    /\ Disturb /\ tokenOk /\ Revoked(cloudInst)
    /\ UNCHANGED <<lastInst, fresh, otherActive, suspended, cmd, reported, fileVars, pingVars,
                   execVars, others, history>>

World ==
    \/ OwnerEnqueues \/ CommandCloses \/ SessionGoesStale \/ SessionExpires \/ OtherTakesOver
    \/ OwnerPauses \/ OwnerResumes \/ TokenRevoked \/ AnswerLost
    \/ PingLoopCrashes \/ ExecutorCrashes

Next == PingLoop \/ Executor \/ Local \/ Cloud \/ World

Spec == Init /\ [][Next]_vars

-----------------------------------------------------------------------------
(* Safety.                                                                 *)

\* The ping loop never waits for room in the queue while the executor, the only one to make
\* room, waits for the ping loop to free the result store: queue.put and set_pending_ack cannot
\* block each other, however small the queue is.
NoPutPublishDeadlock ==
    ~ /\ pc = "put" /\ Len(queue) = QueueMax
      /\ exec.phase = "publish" /\ ack # NoWork

\* The loop remembers a dispatched command only while it still is in the agent, or while the
\* cloud has no use for it any more (it is over, or its session is), or after the executor died
\* on it: no offer of a live command is ever ignored for good because of a stale memory.
NoCommandIgnored ==
    dispatched # NoCmd /\ ~InPipeline(dispatched) =>
        \/ dispatched \in lost
        \/ cmd[dispatched] \in {"done", "closed"}
        \/ cloudInst = 0

\* A command runs twice only if its id was forgotten meanwhile: because the process restarted, or
\* because it was dispatched behind a command the cloud had closed under the agent's hands, whose
\* result was handled only then.  Commands that end before the cloud gives them up never make another
\* run twice, nor do lost answers, flush retries, ping loop respawns and session changes.
RunsOnceUnlessForgotten == ranAgain \subseteq forgotten

\* The ping loop ends for good only after the cloud has taken the result of a disconnect.
StopsOnlyAfterReport == pc = "stopped" => \E c \in Disconnects : c \in reported

\* A result waiting to be reported is never replaced by the next one, only taken away.
AckNotOverwritten == [][ack # NoWork => ack' \in {ack, NoWork}]_vars

\* A result leaves the store unreported only when its session is over at the cloud, the token is
\* no longer good, the session file is gone, or the process restarts.
ResultAccountedFor ==
    [][ack # NoWork /\ ack' = NoWork =>
          \/ ack.id \in reported
          \/ cloudInst # ack.inst \/ ~tokenOk \/ session = 0
          \/ AgentRestarts]_vars

\* Whatever is lost, replaced, respawned or restarted, each step of the agent and the cloud is one
\* of CommandDelivery's: only a command handed over runs, only one that ran has a result taken,
\* and a command that is over stays over.
Delivery == INSTANCE CommandDelivery WITH status <- cmd

KeepsDelivery == Delivery!Spec

-----------------------------------------------------------------------------
(* The inductive invariant behind the theorems of EdgeAgentProofs.          *)

\* The loop is on its main path, which starts only with the result store free.
Probing == pc = "probe" \/ (pc = "call" /\ call.kind \in {"connect", "ping"})

\* A result published while the loop is on its main path leaves the executor idle; it comes to
\* publish again only by taking from the queue, which then has room.
RoomWhileUnacked ==
    (Probing \/ pc = "put") /\ ack # NoWork =>
        exec.phase \in {"idle", "dead"} \/ Len(queue) < QueueMax

\* Who is busy holds a command, and who is not holds none; a result being flushed stays in the
\* store, and is known to the cloud once accepted; disconnect is called only after that.
WorkInHand ==
    /\ exec.work \in IF exec.phase \in {"idle", "dead"} THEN {NoWork} ELSE Work
    /\ pc = "put" => held \in Work
    /\ pc = "call" /\ call.kind = "result" =>
          ack \in Work /\ (call.code = "ok" => ack.id \in reported)
    /\ pc = "call" /\ call.kind = "disconnect" => \E c \in Disconnects : c \in reported

IInv ==
    /\ TypeOK
    /\ Len(queue) <= QueueMax
    /\ WorkInHand
    /\ RoomWhileUnacked
    /\ StopsOnlyAfterReport

-----------------------------------------------------------------------------
(* What the refinement of CommandDelivery and the other safety properties  *)
(* rest on (CommandDeliveryProofs).                                        *)

\* Commands the cloud has handed over at some time, and those it has no use for any more.
Given   == {c \in Cmds : cmd[c] \notin {"absent", "pending"}}
Over(c) == cmd[c] \in {"done", "closed"}

\* Whatever the agent holds was handed over, and from the executor on it has run.
HandedOver ==
    /\ call.offer \in Given \cup {NoCmd} /\ dispatched \in Given \cup {NoCmd}
    /\ held.id \in Given \cup {NoCmd}
    /\ \A i \in 1 .. Len(queue) : queue[i].id \in Given
    /\ exec.work.id \in ran \cup {NoCmd}
    /\ ack.id \in ran \cup {NoCmd}
    /\ ran \subseteq Given

DInv == IInv /\ HandedOver

\* All the work the agent holds.  What has run or is yet to run counts as used.
InHand == ({queue[i] : i \in 1 .. Len(queue)} \cup {held, exec.work, ack}) \ {NoWork}
Used   == ran \cup {queue[i].id : i \in 1 .. Len(queue)} \cup ({held.id} \ {NoCmd})

\* Session ids are handed out upwards, the cloud holds the last or none.
InstsKnown ==
    /\ cloudInst \in {0, lastInst} /\ session <= lastInst /\ call.inst <= lastInst
    /\ \A w \in InHand : w.inst \in 1 .. lastInst

Pinging == call.kind \in {"ping", "result", "disconnect"}

\* A call is made with the session of the file, which may go but not change meanwhile; a result
\* with the session it was earned in.
CallsOwnSession ==
    /\ pc # "call" => call = NoCall
    /\ Pinging => call.inst # 0 /\ session \in {0, call.inst}
    /\ call.kind = "connect" /\ call.code = "ok" => call.inst # 0
    /\ call.kind = "result" => ack # NoWork /\ ack.inst = call.inst
    /\ call.kind = "result" /\ call.code = "ok" => Over(ack.id)

\* One command is active at a time, so an offer finds all others over.
OneActive == \A c, d \in Active : c = d
OffersTheOne == call.offer # NoCmd => \A c \in Cmds \ {call.offer} : cmd[c] # "delivered"

\* The session the cloud holds has got as far as handing over a command.
InTouch ==
    /\ cloudInst # 0
    /\ \/ \E c \in Cmds : cmd[c] = "delivered"
       \/ \E w \in InHand : w.inst = cloudInst
       \/ call.kind \in {"ping", "result"} /\ call.code = "ok" /\ call.inst = cloudInst

\* Then the agent knows of no other, and the cloud has no reason to refuse it.
TouchIsMutual ==
    InTouch =>
        /\ tokenOk /\ session \in {0, cloudInst}
        /\ Pinging => call.inst = cloudInst
        /\ ~(call.kind = "connect" /\ call.code = "ok")
        /\ call.code \notin {"unauthorized", "invalidated"}

\* A command still open belongs to the session it was handed over in.
OpenInItsSession ==
    /\ \A w \in InHand : cmd[w.id] = "delivered" => cloudInst \in {0, w.inst}
    /\ call.offer # NoCmd /\ cmd[call.offer] = "delivered" => cloudInst \in {0, call.inst}

\* The agent can still ping in the session the cloud holds.
Reach == cloudInst # 0 /\ cloudInst \in {session, call.inst}

\* What is queued has not run and is queued once, unless it was forgotten.
QueuedAfresh ==
    /\ \A i \in 1 .. Len(queue) : queue[i].id \in ran => queue[i].id \in forgotten
    /\ \A i, j \in 1 .. Len(queue) : i < j /\ queue[i].id = queue[j].id => queue[i].id \in forgotten
    /\ held.id \in ran => held.id \in forgotten
    /\ \A i \in 1 .. Len(queue) : queue[i].id = held.id => held.id \in forgotten

\* What was used and not forgotten is the dispatched one, or will not be offered again.
UsedIsKnown ==
    /\ \A c \in Used \ forgotten : c = dispatched \/ Over(c) \/ ~Reach
    /\ call.offer \in Used \ forgotten => call.offer = dispatched

\* The work the loop does not remember as dispatched has a command that was closed or forgotten.
BehindClosed == \A w \in InHand : w.id = dispatched \/ Belated(w.id)

\* What is queued, blocked or being run, and has no result yet of its own.
Ahead == ({queue[i].id : i \in 1 .. Len(queue)} \cup {held.id, exec.work.id}) \ {NoCmd}

\* A command that is done has run, and is in the agent once more only if it was forgotten; so is a
\* command that has a result in the store already.
DoneIsForgotten ==
    /\ \A c \in Cmds : cmd[c] = "done" => c \in ran
    /\ \A c \in Ahead : cmd[c] = "done" \/ c = ack.id => c \in forgotten
    /\ Probing /\ ack # NoWork /\ cmd[ack.id] = "done" => ack.id \in forgotten

\* The agent and the cloud agree about sessions, and the agent's memory with what it used.
SInv ==
    /\ InstsKnown /\ CallsOwnSession
    /\ OneActive /\ OffersTheOne
    /\ TouchIsMutual /\ OpenInItsSession

MInv == QueuedAfresh /\ UsedIsKnown /\ RunsOnceUnlessForgotten /\ NoCommandIgnored

BInv == BehindClosed /\ DoneIsForgotten

RInv == DInv /\ SInv /\ MInv /\ BInv

-----------------------------------------------------------------------------
(* What the documentation says and the code does not keep to.               *)

\* CloudConnectionAlreadyActiveError: a refusal means somebody else is the owner's agent right now.
\* A connect whose answer was lost leaves the agent's own fresh session behind, and refuses it.
StandbyOnlyWhenReplaced ==
    [][RefusedAlreadyActive => otherActive]_vars

\* CredentialsStorage.clear: the ping loop's auth-fail handler does not clear the token file.
\* It does, and a 401 answered before the owner signed in again takes the new token with it.
GoodTokenKept == [][PingLoop /\ creds /\ ~creds' => ~tokenOk]_vars

-----------------------------------------------------------------------------
(* Liveness.                                                               *)

\* The event loop runs every ready task and every HTTP call has a timeout; the cloud answers or
\* the client gives up.  Nothing makes a session stale but silence, which ends in staleness.
Fairness ==
    /\ WF_vars(PingLoop) /\ SF_vars(BeginProbe) /\ SF_vars(SendResult)
    /\ WF_vars(TakeCommand) /\ WF_vars(FinishCommand) /\ WF_vars(PublishResult)
    /\ WF_vars(Cloud)
    /\ WF_vars(SessionGoesStale)
    /\ WF_vars(SignOutEnds)
    /\ \A s \in Streams : WF_vars(StreamRejected(s))

LiveSpec == Spec /\ Fairness

Undisturbed ==
    /\ creds /\ tokenOk /\ ~suspended /\ ~otherActive /\ ~signingOut
    /\ pc \notin {"stopped", "dead"}

\* Left alone with a good token, the agent comes back to the session the cloud holds and keeps it.
Reconnects == <>[]Undisturbed => <>[](session # 0 /\ session = cloudInst)

\* Every command on the queue is carried through executor and result store, and out of them,
\* unless the token, the owner's pause, or a dead or ended loop is in the way.
PipelineDrains ==
    \A c \in Cmds : InPipeline(c) ~>
        (~InPipeline(c) \/ ~creds \/ suspended \/ pc \in {"stopped", "dead"} \/ exec.phase = "dead")

=============================================================================

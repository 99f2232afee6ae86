----------------------------- MODULE CronStandby -----------------------------
(***************************************************************************)
(* Cron standby: the agent server's wish (on standby while another         *)
(* instance holds the owner's session, active otherwise), its delivery to  *)
(* the sellerclaw-ui plugin, and what the plugin does to OpenClaw's cron   *)
(* store.                                                                  *)
(*                                                                         *)
(* Two programs: the agent server (wish, acked, rpc) and the plugin inside *)
(* the OpenClaw gateway.  A standby request is served by a handler of its  *)
(* own; the agent stops waiting for it after RECONCILE_TIMEOUT_S, the      *)
(* handler goes on, so an old handler can run beside a new one.            *)
(***************************************************************************)
EXTENDS Integers, FiniteSets

CONSTANTS
    Keys,         \* the owner's tasks (declaration keys)
    Handlers,     \* bound: standby requests the plugin may be serving at a time
    MaxId,        \* bound: job ids OpenClaw hands out
    MaxMoves,     \* bound: times the session moves to another instance or back
    MaxTimeouts,  \* bound: requests the agent stops waiting for, its restarts included
    MaxFaults     \* bound: failed scheduler calls and gateway restarts

ASSUME BoundsAssumption ==
    /\ MaxId \in Nat /\ MaxMoves \in Nat /\ MaxTimeouts \in Nat /\ MaxFaults \in Nat
    /\ Handlers # {} /\ IsFiniteSet(Keys)

VARIABLES
    holder,     \* whose session the cloud holds: "me" or "other"
    wish,       \* cron_standby.json is there
    acked,      \* what the plugin last confirmed: "unknown", "standby" or "active"
    rpc,        \* the agent's request: the handler it waits for, and the answer
    standby,    \* file.standby of the plugin's state file
    confirmed,  \* confirmedActive: this plugin process heard it is active
    handler,    \* standby requests being served
    job,        \* the cron store: the job of each task, and whether it is enabled
    lastId,     \* last job id handed out
    snapshot,   \* the cloud's answer to a snapshot, on its way: tasks to restore, removals taken
    restoring,  \* restoreQueue
    adding,     \* writer.add calls in flight (restore worker and cron commands)
    resetIds,   \* ids removed by coming back from standby
    events,     \* "removed" hook events not yet handled
    removals,   \* pendingRemovedIds
    tasks,      \* the tasks the cloud keeps for the owner
    known,      \* the job id the cloud last saw each task under
    had,        \* tasks the cloud has seen in this store epoch
    removedHere,  \* history: tasks whose job the owner removed on this machine
    moves, timeouts, faults

agentVars  == <<wish, acked, rpc>>
storeVars  == <<job, lastId, adding>>
removeVars == <<resetIds, events, removals, removedHere>>
modeVars   == <<standby, confirmed>>
queueVars  == <<snapshot, restoring>>
cloudVars  == <<tasks, known, had>>
bounds     == <<moves, timeouts, faults>>
vars == <<holder, agentVars, modeVars, handler, storeVars, queueVars, removeVars, cloudVars, bounds>>

NoJob   == [id |-> 0, on |-> FALSE]
NoRpc   == [want |-> "none", by |-> "none", answer |-> "none"]
Steps   == {"free", "marking", "listing", "disabling", "leaving", "removing", "finishing"}
Free    == [step |-> "free", todo |-> {}, failed |-> FALSE]
NoSnapshot == [out |-> FALSE, missing |-> {}, removed |-> {}]
Present == {k \in Keys : job[k].id # 0}

TypeOK ==
    /\ holder \in {"me", "other"} /\ wish \in BOOLEAN
    /\ acked \in {"unknown", "standby", "active"}
    /\ rpc.want \in {"none", "standby", "active"} /\ rpc.answer \in {"none", "ok", "failed"}
    /\ rpc.by \in Handlers \cup {"none"}
    /\ standby \in BOOLEAN /\ confirmed \in BOOLEAN
    /\ \A h \in Handlers :
         /\ handler[h].step \in Steps
         /\ handler[h].todo \subseteq Keys \X (1 .. MaxId)
         /\ handler[h].failed \in BOOLEAN
    /\ job \in [Keys -> [id : 0 .. MaxId, on : BOOLEAN]] /\ lastId \in 0 .. MaxId
    /\ snapshot.out \in BOOLEAN /\ snapshot.missing \subseteq Keys
    /\ restoring \cup adding \cup tasks \cup had \cup removedHere \subseteq Keys
    /\ resetIds \cup events \cup removals \cup snapshot.removed \subseteq 1 .. MaxId
    /\ known \in [Keys -> 0 .. MaxId]
    /\ moves \in 0 .. MaxMoves /\ timeouts \in 0 .. MaxTimeouts /\ faults \in 0 .. MaxFaults

\* The owner's tasks run here, and the plugin has heard that this instance is active.
Init ==
    /\ holder = "me" /\ wish = FALSE /\ acked = "active" /\ rpc = NoRpc
    /\ standby = FALSE /\ confirmed = TRUE
    /\ handler = [h \in Handlers |-> Free]
    /\ \E ids \in [Keys -> 1 .. Cardinality(Keys)] :
         /\ \A k1, k2 \in Keys : ids[k1] = ids[k2] => k1 = k2
         /\ job = [k \in Keys |-> [id |-> ids[k], on |-> TRUE]]
    /\ lastId = Cardinality(Keys)
    /\ snapshot = NoSnapshot /\ restoring = {} /\ adding = {}
    /\ resetIds = {} /\ events = {} /\ removals = {} /\ removedHere = {}
    /\ tasks = Keys /\ had = Keys /\ known = [k \in Keys |-> job[k].id]
    /\ moves = 0 /\ timeouts = 0 /\ faults = 0

-----------------------------------------------------------------------------
(* The agent server: CronStandby, driven by the ping loop.                 *)

\* Mutant of Reconcile: active, too, is sent only until it is confirmed.
ReconcileOnce(desired, ack) ==
    IF desired = ack
      THEN UNCHANGED <<rpc, handler>>
      ELSE \E h \in Handlers :
             /\ handler[h] = Free
             /\ handler' = [handler EXCEPT ![h].step = IF desired = "standby" THEN "marking" ELSE "leaving"]
             /\ rpc' = [want |-> desired, by |-> h, answer |-> "none"]

\* reconcile: standby is sent until confirmed, active on every call.
Reconcile(desired, ack) ==
    IF desired = "standby" /\ ack = "standby"
      THEN UNCHANGED <<rpc, handler>>
      ELSE \E h \in Handlers :
             /\ handler[h] = Free
             /\ handler' = [handler EXCEPT ![h].step = IF desired = "standby" THEN "marking" ELSE "leaving"]
             /\ rpc' = [want |-> desired, by |-> h, answer |-> "none"]

\* An accepted ping: request_active, then reconcile.
PingAccepted ==
    /\ rpc = NoRpc /\ holder = "me"
    /\ wish' = FALSE
    /\ acked' = IF wish THEN "unknown" ELSE acked
    /\ Reconcile("active", acked')
    /\ UNCHANGED <<holder, modeVars, storeVars, queueVars, removeVars, cloudVars, bounds>>

\* connect refused (409), or the token revoked: request_standby, then reconcile.
ConnectRefused ==
    /\ rpc = NoRpc /\ holder = "other"
    /\ wish' = TRUE
    /\ acked' = IF wish THEN acked ELSE "unknown"
    /\ ~(wish /\ acked = "standby")
    /\ Reconcile("standby", acked')
    /\ UNCHANGED <<holder, modeVars, storeVars, queueVars, removeVars, cloudVars, bounds>>

\* The answer arrives: only a confirmation is remembered.
AnswerArrives ==
    /\ rpc.answer # "none"
    /\ acked' = IF rpc.answer = "ok" THEN rpc.want ELSE acked
    /\ rpc' = NoRpc
    /\ UNCHANGED <<holder, wish, modeVars, handler, storeVars, queueVars, removeVars, cloudVars, bounds>>

\* RECONCILE_TIMEOUT_S passes: the agent stops waiting, the handler goes on.
ReconcileTimesOut ==
    /\ timeouts < MaxTimeouts /\ timeouts' = timeouts + 1
    /\ rpc # NoRpc /\ rpc' = NoRpc
    /\ UNCHANGED <<holder, wish, acked, modeVars, handler, storeVars, queueVars, removeVars, cloudVars,
                   moves, faults>>

\* A restarted agent server keeps the wish and has forgotten what was confirmed.
AgentRestarts ==
    /\ timeouts < MaxTimeouts /\ timeouts' = timeouts + 1
    /\ rpc' = NoRpc /\ acked' = "unknown"
    /\ UNCHANGED <<holder, wish, modeVars, handler, storeVars, queueVars, removeVars, cloudVars, moves,
                   faults>>

Agent == PingAccepted \/ ConnectRefused \/ AnswerArrives

-----------------------------------------------------------------------------
(* The plugin: enterCronStandby and leaveCronStandby.                      *)

Step(h, step) == handler' = [handler EXCEPT ![h].step = step]

Return(h, answer) ==
    /\ handler' = [handler EXCEPT ![h] = Free]
    /\ rpc' = IF rpc.by = h THEN [rpc EXCEPT !.answer = answer] ELSE rpc

\* Nothing is confirmed any more; the standby mark is set, then saved.
EnterMarks(h) ==
    /\ handler[h].step = "marking"
    /\ confirmed' = FALSE /\ standby' = TRUE
    /\ Step(h, "listing")
    /\ UNCHANGED <<holder, agentVars, storeVars, queueVars, removeVars, cloudVars, bounds>>

\* The snapshot under way is aborted, queued restores are dropped, and the jobs are listed,
\* unless the scheduler handle is not there.
EnterLists(h) ==
    /\ handler[h].step = "listing"
    /\ snapshot' = NoSnapshot /\ restoring' = {}
    /\ \/ /\ handler' = [handler EXCEPT ![h] = [step |-> "disabling", failed |-> FALSE,
                             todo |-> {<<k, job[k].id>> : k \in {i \in Present : job[i].on}}]]
          /\ UNCHANGED <<rpc, faults>>
       \/ faults < MaxFaults /\ faults' = faults + 1 /\ Return(h, "failed")
    /\ UNCHANGED <<holder, wish, acked, modeVars, storeVars, removeVars, cloudVars, moves, timeouts>>

\* One listed job is turned off, or the update fails (the job is gone, the scheduler refuses).
EnterDisables(h) ==
    /\ handler[h].step = "disabling"
    /\ \E t \in handler[h].todo :
         LET there == job[t[1]].id = t[2]
         IN \/ /\ there
               /\ job' = [job EXCEPT ![t[1]].on = FALSE]
               /\ handler' = [handler EXCEPT ![h].todo = @ \ {t}]
               /\ faults' = faults
            \/ /\ ~there \/ faults < MaxFaults
               /\ faults' = IF there THEN faults + 1 ELSE faults
               /\ job' = job
               /\ handler' = [handler EXCEPT ![h].todo = @ \ {t}, ![h].failed = TRUE]
    /\ UNCHANGED <<holder, agentVars, modeVars, lastId, adding, queueVars, removeVars, cloudVars,
                   moves, timeouts>>

EnterReturns(h) ==
    /\ handler[h].step = "disabling" /\ handler[h].todo = {}
    /\ Return(h, IF handler[h].failed THEN "failed" ELSE "ok")
    /\ UNCHANGED <<holder, wish, acked, modeVars, storeVars, queueVars, removeVars, cloudVars, bounds>>

\* Not on standby: the confirmation is all there is to do.
LeaveConfirms(h) ==
    /\ handler[h].step = "leaving" /\ ~standby
    /\ confirmed' = TRUE
    /\ Return(h, "ok")
    /\ UNCHANGED <<holder, wish, acked, standby, storeVars, queueVars, removeVars, cloudVars, bounds>>

\* On standby every mirrored job is to go, unless the scheduler handle is not there.
LeaveLists(h) ==
    /\ handler[h].step = "leaving" /\ standby
    /\ \/ /\ handler' = [handler EXCEPT ![h] = [step |-> "removing", failed |-> FALSE,
                             todo |-> {<<k, job[k].id>> : k \in Present}]]
          /\ UNCHANGED <<rpc, faults>>
       \/ faults < MaxFaults /\ faults' = faults + 1 /\ Return(h, "failed")
    /\ UNCHANGED <<holder, wish, acked, modeVars, storeVars, queueVars, removeVars, cloudVars, moves,
                   timeouts>>

\* The id is noted as reset before the removal, whose hook event may come at any moment.
LeaveRemoves(h) ==
    /\ handler[h].step = "removing"
    /\ \E t \in handler[h].todo :
         LET there == job[t[1]].id = t[2]
         IN /\ resetIds' = resetIds \cup {t[2]}
            /\ \/ /\ job' = IF there THEN [job EXCEPT ![t[1]] = NoJob] ELSE job
                  /\ events' = IF there THEN events \cup {t[2]} ELSE events
                  /\ handler' = [handler EXCEPT ![h].todo = @ \ {t}]
                  /\ faults' = faults
               \/ /\ there /\ faults < MaxFaults /\ faults' = faults + 1
                  /\ handler' = [handler EXCEPT ![h].todo = @ \ {t}, ![h].failed = TRUE]
                  /\ UNCHANGED <<job, events>>
    /\ UNCHANGED <<holder, agentVars, modeVars, lastId, adding, queueVars, removals, removedHere,
                   cloudVars, moves, timeouts>>

\* A job that could not be removed keeps the plugin on standby until the next request.
LeaveFails(h) ==
    /\ handler[h].step = "removing" /\ handler[h].todo = {} /\ handler[h].failed
    /\ Return(h, "failed")
    /\ UNCHANGED <<holder, wish, acked, modeVars, storeVars, queueVars, removeVars, cloudVars, bounds>>

\* Mutant of LeaveEndsStandby: the store keeps its epoch.
LeaveKeepsEpoch(h) ==
    /\ handler[h].step = "removing" /\ handler[h].todo = {} /\ ~handler[h].failed
    /\ standby' = FALSE /\ removals' = {}
    /\ Step(h, "finishing")
    /\ UNCHANGED <<holder, agentVars, confirmed, storeVars, queueVars, resetIds, events, removedHere,
                   cloudVars, bounds>>

\* Off standby, a new store epoch the cloud has seen nothing of, nothing to report as removed;
\* all saved before the confirmation.
LeaveEndsStandby(h) ==
    /\ handler[h].step = "removing" /\ handler[h].todo = {} /\ ~handler[h].failed
    /\ standby' = FALSE /\ removals' = {} /\ had' = {}
    /\ Step(h, "finishing")
    /\ UNCHANGED <<holder, agentVars, confirmed, storeVars, queueVars, resetIds, events, removedHere,
                   tasks, known, bounds>>

LeaveReturns(h) ==
    /\ handler[h].step = "finishing"
    /\ confirmed' = TRUE
    /\ Return(h, "ok")
    /\ UNCHANGED <<holder, wish, acked, standby, storeVars, queueVars, removeVars, cloudVars, bounds>>

Serve(h) ==
    \/ EnterMarks(h) \/ EnterLists(h) \/ EnterDisables(h) \/ EnterReturns(h)
    \/ LeaveConfirms(h) \/ LeaveLists(h) \/ LeaveRemoves(h) \/ LeaveFails(h)
    \/ LeaveEndsStandby(h) \/ LeaveReturns(h)

-----------------------------------------------------------------------------
(* The plugin: snapshots, restores, hook events.                           *)

\* The cloud takes a snapshot: it deletes a task only by its removed job id, and hands back
\* the tasks this store epoch never had.
CloudTakesSnapshot ==
    /\ tasks' = {k \in tasks : known[k] \notin removals}
    /\ known' = [k \in Keys |-> IF k \in Present THEN job[k].id ELSE known[k]]
    /\ had' = had \cup Present

\* projectOnce reads the jobs and posts them.
SnapshotPosted ==
    /\ confirmed /\ ~standby /\ ~snapshot.out
    /\ CloudTakesSnapshot
    /\ snapshot' = [out |-> TRUE, missing |-> tasks' \ had', removed |-> removals]
    /\ snapshot'.missing # {} \/ removals # {} \/ cloudVars' # cloudVars
    /\ UNCHANGED <<holder, agentVars, modeVars, handler, storeVars, restoring, removeVars, bounds>>

\* The answer: reported removals are dropped, then, unless on standby, what this store never
\* had is queued for restore.
SnapshotAnswered ==
    /\ snapshot.out
    /\ snapshot' = NoSnapshot
    /\ removals' = removals \ snapshot.removed
    /\ restoring' = IF standby THEN restoring ELSE restoring \cup snapshot.missing
    /\ UNCHANGED <<holder, agentVars, modeVars, handler, storeVars, resetIds, events, removedHere,
                   cloudVars, bounds>>

\* A newer revision aborts the attempt; the cloud may have taken the snapshot already.
SnapshotAborted ==
    /\ faults < MaxFaults /\ faults' = faults + 1
    /\ snapshot.out /\ snapshot' = NoSnapshot
    /\ UNCHANGED <<holder, agentVars, modeVars, handler, storeVars, restoring, removeVars, cloudVars,
                   moves, timeouts>>

\* The restore worker looks at standby, then calls writer.add.
RestoreBegins ==
    /\ ~standby /\ adding = {}
    /\ \E k \in restoring : restoring' = restoring \ {k} /\ adding' = {k}
    /\ UNCHANGED <<holder, agentVars, modeVars, handler, job, lastId, snapshot, removeVars, cloudVars,
                   bounds>>

\* On standby the queue is dropped.
RestoreDropped ==
    /\ standby /\ restoring # {} /\ restoring' = {}
    /\ UNCHANGED <<holder, agentVars, modeVars, handler, storeVars, snapshot, removeVars, cloudVars,
                   bounds>>

\* The add lands: a key the store already has is left as it is.
AddLands ==
    /\ \E k \in adding :
         /\ adding' = adding \ {k}
         /\ IF job[k].id # 0
              THEN UNCHANGED <<job, lastId>>
              ELSE /\ lastId < MaxId /\ lastId' = lastId + 1
                   /\ job' = [job EXCEPT ![k] = [id |-> lastId + 1, on |-> TRUE]]
    /\ UNCHANGED <<holder, agentVars, modeVars, handler, queueVars, removeVars, cloudVars, bounds>>

\* Mutant of RemovedEvent: what leaving standby removed is taken for the owner's removals.
RemovedEventUnfiltered ==
    /\ \E id \in events : events' = events \ {id} /\ removals' = removals \cup {id}
    /\ UNCHANGED <<holder, agentVars, modeVars, handler, storeVars, queueVars, resetIds, removedHere,
                   cloudVars, bounds>>

\* A "removed" event is a removal to report, unless leaving standby caused it.
RemovedEvent ==
    /\ \E id \in events :
         /\ events' = events \ {id}
         /\ removals' = IF id \in resetIds THEN removals ELSE removals \cup {id}
    /\ UNCHANGED <<holder, agentVars, modeVars, handler, storeVars, queueVars, resetIds, removedHere,
                   cloudVars, bounds>>

\* The owner or the assistant removes a job on this machine.
JobRemoved ==
    /\ faults < MaxFaults /\ faults' = faults + 1
    /\ \E k \in Present :
         /\ job' = [job EXCEPT ![k] = NoJob]
         /\ events' = events \cup {job[k].id}
         /\ removedHere' = removedHere \cup {k}
    /\ UNCHANGED <<holder, agentVars, modeVars, handler, lastId, adding, queueVars, resetIds, removals,
                   cloudVars, moves, timeouts>>

\* The gateway restarts: the state file and the cron store are all that stays.
GatewayRestarts ==
    /\ faults < MaxFaults /\ faults' = faults + 1
    /\ confirmed' = FALSE /\ handler' = [h \in Handlers |-> Free]
    /\ rpc' = IF rpc = NoRpc THEN rpc ELSE [rpc EXCEPT !.answer = "failed"]
    /\ snapshot' = NoSnapshot /\ restoring' = {} /\ adding' = {} /\ resetIds' = {} /\ events' = {}
    /\ UNCHANGED <<holder, wish, acked, standby, job, lastId, removals, removedHere, cloudVars, moves,
                   timeouts>>

Plugin ==
    \/ \E h \in Handlers : Serve(h)
    \/ SnapshotPosted \/ SnapshotAnswered \/ RestoreBegins \/ RestoreDropped \/ AddLands
    \/ RemovedEvent

\* Another instance takes the session, or loses it again.
SessionMoves ==
    /\ moves < MaxMoves /\ moves' = moves + 1
    /\ holder' = IF holder = "me" THEN "other" ELSE "me"
    /\ UNCHANGED <<agentVars, modeVars, handler, storeVars, queueVars, removeVars, cloudVars, timeouts,
                   faults>>

World ==
    \/ SessionMoves \/ JobRemoved \/ SnapshotAborted \/ GatewayRestarts
    \/ ReconcileTimesOut \/ AgentRestarts

Next == Agent \/ Plugin \/ World

Spec == Init /\ [][Next]_vars

-----------------------------------------------------------------------------
(* Safety.                                                                 *)

Serving == {h \in Handlers : handler[h] # Free}

\* The cloud loses no task the owner did not remove: dropping the jobs on the way back from
\* standby, with its hook events, restarts and repeats, is never reported as a removal.
TasksKept == Keys \ tasks \subseteq removedHere

\* A standby the plugin confirmed, which the agent does not send again, is the plugin's state.
ConfirmedStandbyHolds == wish /\ acked = "standby" /\ Serving = {} => standby

-----------------------------------------------------------------------------
(* The inductive invariant behind TasksKept.                               *)

\* The ids that are, or will be, reported as removed.
Reported == removals \cup snapshot.removed \cup (events \ resetIds)

\* What the store and the cloud know of a task under is its own and no other's.
IdsInUse ==
    /\ lastId \in Nat /\ job \in [Keys -> [id : 0 .. lastId, on : BOOLEAN]]
    /\ \A k \in Keys : known[k] \in 1 .. lastId
    /\ removals \cup snapshot.removed \cup events \subseteq 1 .. lastId
Listed ==
    handler \in [Handlers -> [step : Steps, todo : SUBSET (Keys \X (Nat \ {0})), failed : BOOLEAN]]
OwnIds ==
    \A j, k \in Keys : j # k =>
        /\ known[j] \notin {known[k], job[k].id}
        /\ job[j].id # 0 => job[j].id # job[k].id

\* No id a task goes by is reported, unless the owner removed the task here.
KeptUnreported ==
    \A k \in Keys \ removedHere : {known[k], job[k].id} \cap Reported = {}

KeptIInv == IdsInUse /\ Listed /\ OwnIds /\ KeptUnreported /\ TasksKept

-----------------------------------------------------------------------------
(* Liveness.                                                               *)

\* The ping loop goes on, requests are served, snapshots are answered, adds land.
Fairness ==
    /\ WF_vars(Agent)
    /\ \A h \in Handlers : WF_vars(Serve(h))
    /\ WF_vars(SnapshotPosted) /\ WF_vars(SnapshotAnswered)
    /\ WF_vars(RestoreBegins) /\ WF_vars(AddLands) /\ WF_vars(RemovedEvent)

LiveSpec == Spec /\ Fairness

\* While this instance holds the session, the plugin ends up active, whatever was interrupted and
\* whichever abandoned requests are still served: active is said again on every accepted ping.
ActiveAgain == <>[](holder = "me") => <>[](~standby /\ confirmed)

\* Unless the agent gave up a request that is still served, every task of the owner is then back
\* in the store, enabled.
TasksReturn ==
    [](timeouts = 0) /\ <>[](holder = "me") => <>[](\A k \in tasks \ removedHere : job[k].on)

=============================================================================

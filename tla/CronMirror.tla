------------------------------ MODULE CronMirror ------------------------------
(***************************************************************************)
(* The cloud's copy of the owner's tasks, kept from inside the gateway:    *)
(* complete snapshots by one worker, stamped with the epoch of the store   *)
(* and a growing number; removals told apart, until an accepted snapshot   *)
(* has carried them; jobs the store never had handed back by the cloud.    *)
(* And the commands of the cloud, which the agent runs one at a time.      *)
(*                                                                         *)
(* The instance is the active one (CronStandby is about the others).  The  *)
(* cloud is modelled by its protocol: it drops what is not newer than what *)
(* it has, never deletes a task because a snapshot lacks it, and restores  *)
(* what it knows and this epoch never had.                                 *)
(***************************************************************************)
EXTENDS Naturals, SequencesExt

CONSTANTS
    Tasks,
    Commanded,     \* bound: tasks the cloud sends a delete command for
    MaxSeqNo,      \* bound: snapshot numbers, and the clock they are taken from
    MaxBreaks,     \* bound: lost posts, posts given up, restarts, agent restarts
    MAX_PENDING_REMOVALS

ASSUME MirrorAssumption ==
    /\ Commanded \subseteq Tasks /\ MAX_PENDING_REMOVALS \in Nat \ {0}
    /\ MaxSeqNo \in Nat /\ MaxBreaks \in Nat

VARIABLES
    jobs,          \* the scheduler's store
    removedEvents, \* cron_changed "removed" hooks not run yet
    file,          \* the sync file in memory: epoch, lastSeq, pendingRemovedIds
    disk,          \* the sync file on disk
    mirrored,      \* mirroredIds: the last list, less the removals noted since
    behindBy,      \* requestedRevision is ahead of appliedRevision
    projection,       \* the attempt under way: how far, what it holds, aborted
    flying,        \* snapshots on their way to the cloud
    knownIn,       \* the cloud: for a task, the epochs that had it
    newest,        \* the cloud: epoch and number of the last accepted snapshot
    restoreQueue,
    command,       \* a delete command per task: none, queued, late, noting, done, failed
    seenIds,       \* CronCommandDispatcher._seen
    commandTasks,  \* frames that wait for the dispatcher's lock, or have it
    deleted,       \* history: tasks the owner deleted
    forgiven,      \* history: those whose removal the gateway lost or cut, or that raced a restore
    breaks

commands  == <<command, seenIds, commandTasks>>
cloudSide == <<knownIn, newest>>
history   == <<deleted, forgiven>>
mirrorVars == <<jobs, removedEvents, mirrored, file, disk, behindBy, projection, flying, cloudSide,
                restoreQueue, commands, history, breaks>>

Numbers  == 0..MaxSeqNo
Epochs   == 0..MaxBreaks
Stages   == {"idle", "listed", "numbered", "posted", "answered", "dropped"}
NoProjection ==
    [at |-> "idle", has |-> {}, gone |-> {}, seq |-> 0, aborted |-> FALSE, restore |-> {}]
SyncFiles == [epoch : Epochs, lastSeq : Numbers, removed : Seq(Tasks)]
Projections == [at : Stages, has : SUBSET Tasks, gone : SUBSET Tasks, seq : Numbers,
                aborted : BOOLEAN, restore : SUBSET Tasks]
Snapshots == [epoch : Epochs, seq : Numbers, has : SUBSET Tasks, gone : SUBSET Tasks]

MirrorTypeOK ==
    /\ jobs \subseteq Tasks /\ removedEvents \subseteq Tasks
    /\ mirrored \subseteq Tasks /\ file \in SyncFiles /\ disk \in SyncFiles /\ behindBy \in BOOLEAN
    /\ projection \in Projections
    /\ flying \subseteq Snapshots
    /\ knownIn \in [Tasks -> SUBSET Epochs] /\ newest \in [epoch : Epochs, seq : Numbers]
    /\ restoreQueue \subseteq Tasks
    /\ command \in [Tasks -> {"none", "queued", "late", "noting", "done", "failed"}]
    /\ seenIds \subseteq Tasks /\ commandTasks \in Seq(Tasks)
    /\ deleted \subseteq Tasks /\ forgiven \subseteq Tasks

MirrorInit ==
    /\ jobs = {} /\ removedEvents = {} /\ mirrored = {}
    /\ file = [epoch |-> 0, lastSeq |-> 0, removed |-> <<>>] /\ disk = file
    /\ behindBy = TRUE /\ projection = NoProjection /\ flying = {}
    /\ knownIn = [t \in Tasks |-> {}] /\ newest = [epoch |-> 0, seq |-> 0]
    /\ restoreQueue = {}
    /\ command = [t \in Tasks |-> "none"] /\ seenIds = {} /\ commandTasks = <<>>
    /\ deleted = {} /\ forgiven = {} /\ breaks = 0

Breaks == breaks < MaxBreaks /\ breaks' = breaks + 1

\* requestCronProjection: the attempt under way is superseded.
Requested == /\ behindBy' = TRUE
             /\ projection' = IF projection.at = "idle" THEN projection
                              ELSE [projection EXCEPT !.aborted = TRUE]

-----------------------------------------------------------------------------
(* The store and its hooks.                                                *)

Created(t) == \/ t \in jobs \cup deleted \/ knownIn[t] # {}
              \/ \E s \in flying : t \in s.has

OwnerAdds(t) ==
    /\ ~Created(t) /\ jobs' = jobs \cup {t} /\ Requested
    /\ UNCHANGED <<removedEvents, mirrored, file, disk, flying, cloudSide, restoreQueue, commands,
                   history, breaks>>

\* The cloud has not been told yet that this store has it.
Restoring(t) == t \in restoreQueue \cup projection.restore
                \/ (knownIn[t] # {} /\ file.epoch \notin knownIn[t])

Removal(t) ==
    /\ jobs' = jobs \ {t} /\ removedEvents' = removedEvents \cup {t}
    /\ deleted' = deleted \cup {t}
    /\ forgiven' = IF Restoring(t) THEN forgiven \cup {t} ELSE forgiven

OwnerDeletes(t) ==
    /\ t \in jobs /\ Removal(t)
    /\ UNCHANGED <<mirrored, file, disk, behindBy, projection, flying, cloudSide, restoreQueue,
                   commands, breaks>>

\* The oldest go when there are too many.
Bounded(list) == SubSeq(list, IF Len(list) > MAX_PENDING_REMOVALS
                              THEN Len(list) - MAX_PENDING_REMOVALS + 1 ELSE 1, Len(list))

Pending == ToSet(file.removed)

\* noteRemovedJobId: at once in memory, on disk when the file has been written.
Noted(t) ==
    LET list == IF t \in Pending THEN file.removed ELSE Bounded(Append(file.removed, t))
    IN /\ file' = [file EXCEPT !.removed = list]
       /\ mirrored' = mirrored \ {t}
       /\ forgiven' = forgiven \cup (Pending \ ToSet(list))

RemovedHook(t) ==
    /\ t \in removedEvents /\ removedEvents' = removedEvents \ {t}
    /\ Noted(t) /\ Requested
    /\ UNCHANGED <<jobs, disk, flying, cloudSide, restoreQueue, commands, deleted, breaks>>

\* The periodic refresh, or any other change.
Refreshes ==
    /\ projection.at = "idle" /\ ~behindBy /\ Requested
    /\ UNCHANGED <<jobs, removedEvents, mirrored, file, disk, flying, cloudSide, restoreQueue,
                   commands, history, breaks>>

Saves ==
    /\ disk # file /\ disk' = file
    /\ UNCHANGED <<jobs, removedEvents, mirrored, file, behindBy, projection, flying, cloudSide,
                   restoreQueue, commands, history, breaks>>

-----------------------------------------------------------------------------
(* The projection worker.                                                  *)

Goes(where) == projection' = [projection EXCEPT !.at = where]

Lists ==
    /\ projection.at = "idle" /\ behindBy
    /\ projection' = [NoProjection EXCEPT !.at = "listed", !.has = jobs]
    /\ UNCHANGED <<jobs, removedEvents, mirrored, file, disk, behindBy, flying, cloudSide,
                   restoreQueue, commands, history, breaks>>

\* Mutant of Superseded: what was listed before the change goes out.
SupersededIgnored == FALSE

Superseded == projection.aborted

NextSeq(now) == IF file.lastSeq + 1 > now THEN file.lastSeq + 1 ELSE now

TakesNumber ==
    /\ projection.at = "listed" /\ ~Superseded
    /\ \E now \in Numbers :
         /\ NextSeq(now) <= MaxSeqNo
         /\ file' = [file EXCEPT !.lastSeq = NextSeq(now)]
         /\ projection' = [projection EXCEPT !.at = "numbered", !.gone = Pending,
                                             !.seq = NextSeq(now), !.aborted = FALSE]
    /\ mirrored' = projection.has
    /\ UNCHANGED <<jobs, removedEvents, disk, behindBy, flying, cloudSide, restoreQueue, commands,
                   history, breaks>>

\* The number is saved before it goes out.
PostsSnapshot ==
    /\ projection.at = "numbered" /\ ~projection.aborted /\ disk' = file /\ Goes("posted")
    /\ flying' = flying \cup {[epoch |-> file.epoch, seq |-> projection.seq,
                               has |-> projection.has, gone |-> projection.gone]}
    /\ UNCHANGED <<jobs, removedEvents, mirrored, file, behindBy, cloudSide, restoreQueue,
                   commands, history, breaks>>

\* A newer revision, or a failed post: the worker starts over; what was sent may still arrive.
StartsOver ==
    /\ projection.at \in {"listed", "numbered", "posted"}
    /\ \/ projection.aborted /\ UNCHANGED breaks
       \/ projection.at = "posted" /\ Breaks
    /\ projection' = NoProjection
    /\ UNCHANGED <<jobs, removedEvents, mirrored, file, disk, behindBy, flying, cloudSide,
                   restoreQueue, commands, history>>

IsNewer(s) == s.epoch > newest.epoch \/ (s.epoch = newest.epoch /\ s.seq > newest.seq)
Restored(knows, epoch) == {t \in Tasks : knows[t] # {} /\ epoch \notin knows[t]}
AnswerOf(s) == projection.at = "posted" /\ projection.seq = s.seq /\ s.epoch = file.epoch

CloudAccepts(s) ==
    /\ s \in flying /\ flying' = flying \ {s} /\ IsNewer(s)
    /\ newest' = [epoch |-> s.epoch, seq |-> s.seq]
    /\ LET knows == [t \in Tasks |-> IF t \in s.has THEN knownIn[t] \cup {s.epoch}
                                     ELSE IF t \in s.gone THEN {} ELSE knownIn[t]]
       IN /\ knownIn' = knows
          /\ projection' = IF AnswerOf(s) /\ ~projection.aborted
                        THEN [projection EXCEPT !.at = "answered",
                                             !.restore = Restored(knows, s.epoch)]
                        ELSE projection
    /\ UNCHANGED <<jobs, removedEvents, mirrored, file, disk, behindBy, restoreQueue, commands,
                   history, breaks>>

\* Not accepted counts as applied: the next snapshot supersedes it.
CloudDropsStale(s) ==
    /\ s \in flying /\ flying' = flying \ {s} /\ ~IsNewer(s)
    /\ IF AnswerOf(s) /\ ~projection.aborted THEN projection' = NoProjection /\ behindBy' = FALSE
       ELSE UNCHANGED <<projection, behindBy>>
    /\ UNCHANGED <<jobs, removedEvents, mirrored, file, disk, cloudSide, restoreQueue, commands,
                   history, breaks>>

PostIsLost(s) ==
    /\ s \in flying /\ flying' = flying \ {s} /\ Breaks
    /\ projection' = IF AnswerOf(s) THEN NoProjection ELSE projection
    /\ UNCHANGED <<jobs, removedEvents, mirrored, file, disk, behindBy, cloudSide, restoreQueue,
                   commands, history>>

\* The list without the ids that went out, in its order.
Without(list, sent) ==
    LET kept[n \in 0..Len(list)] ==
            IF n = 0 THEN <<>>
            ELSE IF list[n] \in sent THEN kept[n - 1] ELSE Append(kept[n - 1], list[n])
    IN  kept[Len(list)]

\* Only what the accepted snapshot carried.
StillPending == Without(file.removed, projection.gone)

DropsReported ==
    /\ projection.at = "answered" /\ Goes("dropped")
    /\ file' = [file EXCEPT !.removed = StillPending]
    /\ UNCHANGED <<jobs, removedEvents, mirrored, disk, behindBy, flying, cloudSide, restoreQueue,
                   commands, history, breaks>>

\* Also after a newer revision was asked for.
EnqueuesRestore ==
    /\ projection.at = "dropped" /\ projection' = NoProjection
    /\ restoreQueue' = restoreQueue \cup projection.restore
    /\ behindBy' = projection.aborted
    /\ UNCHANGED <<jobs, removedEvents, mirrored, file, disk, flying, cloudSide, commands, history,
                   breaks>>

\* A one-shot that is past, or a scheduler that fails, adds nothing: the cloud hands it out again.
RestoreAdds(t) ==
    /\ t \in restoreQueue /\ restoreQueue' = restoreQueue \ {t}
    /\ \/ jobs' = jobs \cup {t} /\ Requested /\ UNCHANGED breaks
       \/ UNCHANGED <<jobs, behindBy, projection, breaks>>
    /\ UNCHANGED <<removedEvents, mirrored, file, disk, flying, cloudSide, commands, history>>

-----------------------------------------------------------------------------
(* Commands: submitted once per id, run one at a time, answered.           *)

CommandArrives(t) ==
    /\ t \in Commanded /\ command[t] = "none" /\ knownIn[t] # {}
    /\ command' = [command EXCEPT ![t] = "queued"]
    /\ seenIds' = seenIds \cup {t} /\ commandTasks' = Append(commandTasks, t)
    /\ UNCHANGED <<jobs, removedEvents, mirrored, file, disk, behindBy, projection, flying,
                   cloudSide, restoreQueue, history, breaks>>

\* A frame comes again: dropped, unless the agent has restarted since.  (One at a time in the
\* gateway: not while it still works on the first.)
CommandRepeats(t) ==
    /\ command[t] \notin {"none", "late", "noting"} /\ t \notin seenIds
    /\ command' = [command EXCEPT ![t] = "queued"]
    /\ seenIds' = seenIds \cup {t} /\ commandTasks' = Append(commandTasks, t)
    /\ UNCHANGED <<jobs, removedEvents, mirrored, file, disk, behindBy, projection, flying,
                   cloudSide, restoreQueue, history, breaks>>

Has(t) == commandTasks # <<>> /\ Head(commandTasks) = t

\* Removing what the scheduler does not know is done already.
CommandRemoves(t) ==
    /\ (Has(t) /\ command[t] = "queued") \/ command[t] = "late"
    /\ \/ /\ t \in jobs /\ Removal(t) /\ command' = [command EXCEPT ![t] = "noting"]
          /\ UNCHANGED <<behindBy, projection>>
       \/ /\ t \notin jobs /\ Requested /\ command' = [command EXCEPT ![t] = "done"]
          /\ UNCHANGED <<jobs, removedEvents, deleted, forgiven>>
    /\ UNCHANGED <<mirrored, file, disk, flying, cloudSide, restoreQueue, seenIds, commandTasks,
                   breaks>>

\* The command notes the removal too, unless its event or a list was quicker.
CommandNotes(t) ==
    /\ command[t] = "noting" /\ command' = [command EXCEPT ![t] = "done"]
    /\ IF t \in mirrored THEN Noted(t) ELSE UNCHANGED <<mirrored, file, forgiven>>
    /\ Requested
    /\ UNCHANGED <<jobs, removedEvents, disk, flying, cloudSide, restoreQueue, seenIds,
                   commandTasks, deleted, breaks>>

\* The gateway is not up, or does not answer in time and may yet do it: reported as failed.
CommandFails(t) ==
    /\ Has(t) /\ command[t] = "queued" /\ Breaks
    /\ \E as \in {"failed", "late"} : command' = [command EXCEPT ![t] = as]
    /\ UNCHANGED <<jobs, removedEvents, mirrored, file, disk, behindBy, projection, flying,
                   cloudSide, restoreQueue, seenIds, commandTasks, history>>

ReportsCommand(t) ==
    /\ Has(t) /\ command[t] \in {"done", "failed", "late"} /\ commandTasks' = Tail(commandTasks)
    /\ UNCHANGED <<jobs, removedEvents, mirrored, file, disk, behindBy, projection, flying,
                   cloudSide, restoreQueue, command, seenIds, history, breaks>>

HandlerRestarts ==
    /\ Breaks /\ seenIds # {} /\ seenIds' = {} /\ commandTasks' = <<>>
    /\ UNCHANGED <<jobs, removedEvents, mirrored, file, disk, behindBy, projection, flying,
                   cloudSide, restoreQueue, command, history>>

-----------------------------------------------------------------------------
\* What was not on disk is gone; a new machine has neither the store nor the file.
MirrorRestarts ==
    /\ Breaks
    /\ \/ file' = disk /\ UNCHANGED <<jobs, disk>>
       \/ /\ jobs' = {} /\ file' = [epoch |-> file.epoch + 1, lastSeq |-> 0, removed |-> <<>>]
          /\ disk' = file'
    /\ forgiven' = forgiven \cup ((Pending \cup removedEvents) \ ToSet(file'.removed))
    /\ removedEvents' = {} /\ mirrored' = {} /\ restoreQueue' = {}
    /\ behindBy' = TRUE /\ projection' = NoProjection
    /\ command' = [t \in Tasks |-> IF command[t] \in {"noting", "late"} THEN "failed" ELSE command[t]]
    /\ UNCHANGED <<flying, cloudSide, seenIds, commandTasks, deleted>>

MirrorNext ==
    \/ \E t \in Tasks :
         \/ OwnerAdds(t) \/ OwnerDeletes(t) \/ RemovedHook(t) \/ RestoreAdds(t)
         \/ CommandArrives(t) \/ CommandRepeats(t) \/ CommandRemoves(t) \/ CommandNotes(t)
         \/ CommandFails(t) \/ ReportsCommand(t)
    \/ Refreshes \/ Saves \/ Lists \/ TakesNumber \/ PostsSnapshot \/ StartsOver
    \/ \E s \in flying : CloudAccepts(s) \/ CloudDropsStale(s) \/ PostIsLost(s)
    \/ DropsReported \/ EnqueuesRestore \/ HandlerRestarts \/ MirrorRestarts

MirrorSpec == MirrorInit /\ [][MirrorNext]_mirrorVars

(* A task the owner deleted is gone for good: the cloud knows it no more,  *)
(* or the removal is still on its way - whatever snapshots were sent, lost *)
(* or overtaken around it.  Excused: the gateway ended before the removal  *)
(* was on disk, the list was cut, or the task was being restored.          *)
DeletionReachesCloud ==
    \A t \in deleted \ forgiven : knownIn[t] # {} => t \in Pending \cup removedEvents

-----------------------------------------------------------------------------
(* Why it holds: an invariant that every step keeps.                       *)

Owed == Pending \cup removedEvents
Gone == deleted \ forgiven
InHand == {"numbered", "posted", "answered", "dropped"}
Ours(s) == s.epoch = file.epoch

\* Epochs and numbers grow, no number goes out before it is on disk, and an answer is newer than
\* all that still flies.
NumbersGrow ==
    /\ breaks \in 0..MaxBreaks /\ file.epoch <= breaks /\ disk.epoch = file.epoch
    /\ disk.lastSeq <= file.lastSeq
    /\ newest.epoch <= file.epoch /\ (Ours(newest) => newest.seq <= disk.lastSeq)
    /\ \A s \in flying : s.epoch <= file.epoch /\ (Ours(s) => s.seq <= disk.lastSeq)
    /\ projection.at \in InHand => projection.seq = file.lastSeq
    /\ projection.at = "numbered" => \A s \in flying : Ours(s) => s.seq < projection.seq
    /\ projection.at = "answered" => Ours(newest) /\ newest.seq = file.lastSeq

\* A number names one snapshot.
AnswerIsOwn ==
    \A s \in flying : AnswerOf(s) => s.has = projection.has /\ s.gone = projection.gone

\* Only what was deleted is ever told as removed.
OnlyTheDeleted ==
    /\ Owed \cup ToSet(disk.removed) \cup projection.gone \subseteq deleted
    /\ \A s \in flying : s.gone \subseteq deleted
    /\ \A t \in Tasks : command[t] = "noting" => t \in deleted

\* What is gone is neither in the store nor on its way back to it.
GoneNotBack == \A t \in Gone : t \notin jobs /\ ~Restoring(t)

\* Nothing is restored before the cloud took a snapshot of this store, and then it takes none of
\* an older one any more; those have nothing of this store.
OldStoresApart ==
    /\ restoreQueue \cup projection.restore # {} => Ours(newest)
    /\ \A s \in flying : IsNewer(s) /\ ~Ours(s) => s.has \cap (jobs \cup Gone) = {}

\* A snapshot that may yet be accepted has nothing that is gone, unless the removal is still owed.
ShownIsOwed ==
    /\ \A s \in flying : IsNewer(s) /\ Ours(s) => s.has \cap Gone \subseteq Owed
    /\ projection.at \in {"listed", "numbered"} => projection.has \cap Gone \subseteq Owed

\* No snapshot both shows a task and tells its removal, and one that was accepted has told it.
ToldApart ==
    /\ projection.at = "listed" /\ ~projection.aborted => projection.has \cap Gone \cap Pending = {}
    /\ projection.at \in InHand => projection.has \cap Gone \cap projection.gone = {}
    /\ projection.at = "answered" => \A t \in projection.gone \ projection.has : knownIn[t] = {}

MirrorIInv ==
    /\ MirrorTypeOK /\ NumbersGrow /\ AnswerIsOwn /\ OnlyTheDeleted /\ GoneNotBack
    /\ OldStoresApart /\ ShownIsOwed /\ ToldApart /\ DeletionReachesCloud

=============================================================================

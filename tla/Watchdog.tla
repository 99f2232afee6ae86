------------------------------ MODULE Watchdog ------------------------------
(***************************************************************************)
(* The agent server's background tasks under start_watched_background: a   *)
(* task that raises is started again by its done callback, at most         *)
(* MAX_TASK_RESTARTS times, and the lifespan's shutdown stops them all.    *)
(*                                                                         *)
(* A done callback runs in a later turn of the event loop than the crash   *)
(* it handles; shutdown can come between the two.                          *)
(***************************************************************************)
EXTENDS Integers

CONSTANTS
    Tasks,           \* the tasks the lifespan starts
    Registered,      \* those the runtime registry has an entry for
    MaxTaskRestarts  \* MAX_TASK_RESTARTS

ASSUME TasksAssumption == Registered \subseteq Tasks /\ MaxTaskRestarts \in Nat

VARIABLES
    task,     \* running, crashed (callback due), ended, abandoned, givenUp, cancelled
    count,    \* holder["restart_count"]
    shown,    \* restart_count in the registry
    alive,    \* alive in the registry
    phase,    \* the lifespan: serving, notifying the cloud, cancelling the tasks, down
    visited   \* holders the shutdown has dealt with

watchVars == <<task, count, shown, alive, phase, visited>>

WatchTypeOK ==
    /\ task \in [Tasks -> {"running", "crashed", "ended", "abandoned", "givenUp", "cancelled"}]
    /\ count \in [Tasks -> 0 .. MaxTaskRestarts + 1]
    /\ shown \in [Registered -> 0 .. MaxTaskRestarts + 1]
    /\ alive \in [Registered -> BOOLEAN]
    /\ phase \in {"serving", "notifying", "cancelling", "down"}
    /\ visited \subseteq Tasks

WatchInit ==
    /\ task = [t \in Tasks |-> "running"]
    /\ count = [t \in Tasks |-> 0]
    /\ shown = [t \in Registered |-> 0]
    /\ alive = [t \in Registered |-> TRUE]
    /\ phase = "serving" /\ visited = {}

StopIsSet == phase \in {"cancelling", "down"}

\* The task's coroutine raises, or returns: the ping loop after a disconnect command, any task
\* once stop is set.
Crashes(t) ==
    /\ task[t] = "running" /\ task' = [task EXCEPT ![t] = "crashed"]
    /\ UNCHANGED <<count, shown, alive, phase, visited>>

Returns(t) ==
    /\ task[t] = "running" /\ task' = [task EXCEPT ![t] = "ended"]
    /\ UNCHANGED <<count, shown, alive, phase, visited>>

\* Mutant of DoneAfterStop: the task is spawned whether or not stop is set.
DoneSpawnsAfterStop(t) ==
    /\ task[t] = "crashed" /\ StopIsSet
    /\ task' = [task EXCEPT ![t] = "running"]
    /\ UNCHANGED <<count, shown, alive, phase, visited>>

\* _done after stop: nothing.
DoneAfterStop(t) ==
    /\ task[t] = "crashed" /\ StopIsSet
    /\ task' = [task EXCEPT ![t] = "ended"]
    /\ UNCHANGED <<count, shown, alive, phase, visited>>

\* Mutant of DoneRegistered: a task given up is still shown alive.
DoneNotShown(t) ==
    /\ task[t] = "crashed" /\ ~StopIsSet /\ t \in Registered
    /\ count' = [count EXCEPT ![t] = @ + 1]
    /\ shown' = [shown EXCEPT ![t] = @ + 1]
    /\ task' = [task EXCEPT ![t] = IF count'[t] <= MaxTaskRestarts THEN "running" ELSE "givenUp"]
    /\ UNCHANGED <<alive, phase, visited>>

\* _done for a name the registry knows: the crash is counted, then a new task is spawned or the
\* registry shows the task dead.
DoneRegistered(t) ==
    /\ task[t] = "crashed" /\ ~StopIsSet /\ t \in Registered
    /\ count' = [count EXCEPT ![t] = @ + 1]
    /\ shown' = [shown EXCEPT ![t] = @ + 1]
    /\ IF count'[t] <= MaxTaskRestarts
         THEN task' = [task EXCEPT ![t] = "running"] /\ UNCHANGED alive
         ELSE task' = [task EXCEPT ![t] = "givenUp"] /\ alive' = [alive EXCEPT ![t] = FALSE]
    /\ UNCHANGED <<phase, visited>>

\* _done for any other name: increment_restart raises KeyError before the spawn.
DoneUnregistered(t) ==
    /\ task[t] = "crashed" /\ ~StopIsSet /\ t \notin Registered
    /\ count' = [count EXCEPT ![t] = @ + 1]
    /\ task' = [task EXCEPT ![t] = "abandoned"]
    /\ UNCHANGED <<shown, alive, phase, visited>>

CallbackDone(t) == DoneAfterStop(t) \/ DoneRegistered(t) \/ DoneUnregistered(t)

\* Shutdown begins: the cloud is told while the tasks still run.
ShutdownBegins ==
    /\ phase = "serving" /\ phase' = "notifying"
    /\ UNCHANGED <<task, count, shown, alive, visited>>

\* The cloud answered or _GOING_OFFLINE_TIMEOUT_SECONDS passed: stop is set.
StopSet ==
    /\ phase = "notifying" /\ phase' = "cancelling"
    /\ UNCHANGED <<task, count, shown, alive, visited>>

\* One holder after the other: its current task, unless done, is cancelled and awaited.
CancelHolder(t) ==
    /\ phase = "cancelling" /\ t \notin visited
    /\ visited' = visited \cup {t}
    /\ task' = IF task[t] = "running" THEN [task EXCEPT ![t] = "cancelled"] ELSE task
    /\ UNCHANGED <<count, shown, alive, phase>>

ShutdownEnds ==
    /\ phase = "cancelling" /\ visited = Tasks
    /\ phase' = "down"
    /\ UNCHANGED <<task, count, shown, alive, visited>>

WatchNext ==
    \/ \E t \in Tasks : Crashes(t) \/ Returns(t) \/ CallbackDone(t) \/ CancelHolder(t)
    \/ ShutdownBegins \/ StopSet \/ ShutdownEnds

WatchSpec == WatchInit /\ [][WatchNext]_watchVars

-----------------------------------------------------------------------------
(* Safety.                                                                 *)

\* No task survives the shutdown: a done callback that comes late, between two cancellations or
\* after the last one, starts nothing behind the shutdown's back.
NothingRunsWhenDown == phase = "down" => \A t \in Tasks : task[t] # "running"

\* The status panel calls a task dead exactly when the watchdog has given it up, after
\* MaxTaskRestarts restarts and one more crash.
DeadOnlyWhenGivenUp ==
    \A t \in Registered :
        /\ alive[t] <=> task[t] # "givenUp"
        /\ task[t] = "givenUp" <=> shown[t] = MaxTaskRestarts + 1

\* A task nobody will start again has used up its restarts.
RestartedUpToLimit == \A t \in Tasks : task[t] = "abandoned" => count[t] > MaxTaskRestarts

-----------------------------------------------------------------------------
(* The inductive invariant behind the theorems of AgentServicesProofs.      *)

\* What the shutdown has dealt with stays stopped.
VisitedStayStopped ==
    /\ ~StopIsSet => visited = {}
    /\ StopIsSet => \A t \in visited : task[t] # "running"
    /\ phase = "down" => visited = Tasks

\* The registry counts what the holder counts; a nameless task is abandoned at its first crash.
CountsAgree ==
    /\ \A t \in Registered : shown[t] = count[t]
    /\ \A t \in Tasks \ Registered : task[t] # "abandoned" => count[t] = 0
    /\ \A t \in Registered : task[t] # "abandoned"

WatchIInv == WatchTypeOK /\ VisitedStayStopped /\ CountsAgree /\ DeadOnlyWhenGivenUp

=============================================================================

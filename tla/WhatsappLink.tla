---------------------------- MODULE WhatsappLink ----------------------------
(* Linking the assistant's WhatsApp number from the website: the manager,   *)
(* the runner that drives the gateway's QR login and tells the cloud every  *)
(* step, and the monitor that keeps the channel status for the ping.        *)
(* Sources: cloud/whatsapp_link.py, cloud/whatsapp_channel.py,              *)
(* server/edge_commands.py, cloud/connection_client.py.                     *)
EXTENDS Naturals

CONSTANTS
    Attempts,               \* link attempts the owner opens on the website
    UNSTABLE_AUTH_RETRIES,  \* web.login.start while the auth files settle
    SELF_NUMBER_ATTEMPTS,   \* reads of the linked number
    FINAL_REPORT_ATTEMPTS,  \* reports of the outcome
    PluginPolls,            \* polls that fit in PLUGIN_WAIT_SECONDS
    LoginWaits,             \* waits that fit in LOGIN_DEADLINE_SECONDS
    MaxLostReports, NoAttempt

ASSUME LinkAssumption ==
    /\ {UNSTABLE_AUTH_RETRIES, SELF_NUMBER_ATTEMPTS, PluginPolls, LoginWaits, MaxLostReports} \subseteq Nat
    /\ FINAL_REPORT_ATTEMPTS \in Nat \ {0}
    /\ NoAttempt \notin Attempts

VARIABLES
    open,        \* the attempt the cloud keeps, of those opened so far
    opened,
    runner, at, tries, outcome,   \* the manager's runner: its attempt and its step
    told,        \* per attempt, the last state the cloud accepted
    reported,    \* per attempt, the reports of its outcome that were lost
    lost,
    monitor,     \* the status monitor: "reads" or "sleeps"
    wake,        \* its event
    asked        \* a refresh was asked for since the last read began

linkVars == <<open, opened, runner, at, tries, outcome, told, reported, lost, monitor, wake, asked>>
monitorVars == <<monitor, wake, asked>>
cloudVars == <<open, opened, told>>

Final == {"connected", "failed", "expired"}
States == {"nothing", "preparing", "qr"} \cup Final

LinkInit ==
    /\ open = NoAttempt /\ opened = {} /\ runner = NoAttempt /\ at = "done"
    /\ tries = 0 /\ outcome = "nothing"
    /\ told = [a \in Attempts |-> "nothing"] /\ reported = [a \in Attempts |-> 0] /\ lost = 0
    /\ monitor = "reads" /\ wake = FALSE /\ asked = FALSE

Running == at # "done"

\* refresh_soon()
RefreshSoon == wake' = TRUE /\ asked' = TRUE /\ UNCHANGED monitor

-----------------------------------------------------------------------------
(* The owner opens an attempt, which replaces the one before, or closes it. *)

OwnerOpens(a) ==
    /\ a \notin opened /\ open' = a /\ opened' = opened \cup {a}
    /\ UNCHANGED <<runner, at, tries, outcome, told, reported, lost, monitorVars>>

OwnerCloses ==
    /\ open # NoAttempt /\ open' = NoAttempt
    /\ UNCHANGED <<opened, runner, at, tries, outcome, told, reported, lost, monitorVars>>

\* whatsapp_link: a repeated delivery leaves the runner of the same attempt alone.
LinkCommand ==
    /\ open # NoAttempt /\ ~(Running /\ runner = open)
    /\ runner' = open /\ at' = "prepares" /\ tries' = 0 /\ outcome' = "nothing"
    /\ reported' = [reported EXCEPT ![open] = 0]
    /\ UNCHANGED <<cloudVars, lost, monitorVars>>

\* whatsapp_logout stops the runner, and asks for a fresh status unless it failed.
LogoutStopsRunner ==
    /\ runner' = NoAttempt /\ at' = "done" /\ tries' = 0 /\ outcome' = "nothing"
    /\ RefreshSoon \/ UNCHANGED monitorVars
    /\ UNCHANGED <<cloudVars, reported, lost>>

-----------------------------------------------------------------------------
(* The runner.                                                              *)

Closed == open # runner

\* One POST: taken, lost, or 404 when the cloud knows another attempt or none.
Report(state, next, again) ==
    \/ /\ Closed /\ at' = "done" /\ UNCHANGED <<told, lost, reported>>
    \/ /\ ~Closed /\ told' = [told EXCEPT ![runner] = state] /\ at' = next
       /\ UNCHANGED <<lost, reported>>
    \/ /\ lost < MaxLostReports /\ lost' = lost + 1 /\ at' = again
       /\ reported' = IF state \in Final THEN [reported EXCEPT ![runner] = @ + 1] ELSE reported
       /\ UNCHANGED told

ReportsPreparing ==
    /\ at = "prepares" /\ Report("preparing", "polls", "polls") /\ tries' = 0
    /\ UNCHANGED <<open, opened, runner, outcome, monitorVars>>

Ends(state) == at' = "reports" /\ outcome' = state /\ tries' = 0
Goes(step)  == at' = step /\ tries' = 0 /\ UNCHANGED outcome
Again(step) == at' = step /\ tries' = tries + 1 /\ UNCHANGED outcome

\* Until the plugin answers: unreachable ends it, a busy gateway does not.
PollsPlugin ==
    /\ at = "polls"
    /\ \/ Goes("starts")
       \/ Ends("failed")
       \/ IF tries >= PluginPolls THEN Ends("failed") ELSE Again("polls")
    /\ UNCHANGED <<cloudVars, runner, reported, lost, monitorVars>>

StartsLogin ==
    /\ at = "starts"
    /\ \/ Goes("shows")                      \* the first code
       \/ Goes("linked")                     \* already linked
       \/ Ends("failed")
       \/ tries < UNSTABLE_AUTH_RETRIES /\ Again("starts")
    /\ UNCHANGED <<cloudVars, runner, reported, lost, monitorVars>>

\* The waits that are left go on counting while codes are shown.
ShowsCode ==
    /\ at = "shows" /\ Report("qr", "waits", "waits")
    /\ UNCHANGED <<open, opened, runner, tries, outcome, monitorVars>>

\* Mutant of CodeChanged: a new code starts the time anew.
CodeChangedAfresh == at' = "shows" /\ tries' = 0

\* The login has one deadline, however many codes are shown.
CodeChanged == at' = "shows" /\ tries' = tries + 1

WaitsForScan ==
    /\ at = "waits"
    /\ IF tries >= LoginWaits THEN Ends("expired")
       ELSE \/ Goes("linked")
            \/ CodeChanged /\ UNCHANGED outcome
            \/ Again("waits")                  \* "still waiting", or timed out
            \/ Ends("expired")
            \/ Ends("failed")                 \* replaced, unreachable, refused
    /\ UNCHANGED <<cloudVars, runner, reported, lost, monitorVars>>

\* Learn the number, then ask for a copy of the session and a fresh status.
LearnsNumber ==
    /\ at = "linked"
    /\ \/ tries < SELF_NUMBER_ATTEMPTS /\ Again("linked") /\ UNCHANGED monitorVars
       \/ Ends("connected") /\ RefreshSoon
    /\ UNCHANGED <<cloudVars, runner, reported, lost>>

\* _finish: nothing comes after the outcome, so a lost report is sent again.
RetriesOutcome == IF tries + 1 < FINAL_REPORT_ATTEMPTS THEN "reports" ELSE "done"

ReportsOutcome ==
    /\ at = "reports" /\ Report(outcome, "done", RetriesOutcome)
    /\ tries' = tries + 1
    /\ UNCHANGED <<open, opened, runner, outcome, monitorVars>>

RunnerStep == ReportsPreparing \/ PollsPlugin \/ StartsLogin \/ ShowsCode
              \/ WaitsForScan \/ LearnsNumber \/ ReportsOutcome

-----------------------------------------------------------------------------
(* WhatsappStatusMonitor.run: the event is cleared before the read.         *)

BeginsRead ==
    /\ monitor = "sleeps"          \* woken, or the period is over
    /\ monitor' = "reads" /\ wake' = FALSE /\ asked' = FALSE
    /\ UNCHANGED <<cloudVars, runner, at, tries, outcome, reported, lost>>

\* Mutant of EndsRead: the event is cleared once the status is read.
EndsReadAndClears ==
    /\ monitor = "reads" /\ monitor' = "sleeps" /\ wake' = FALSE /\ UNCHANGED asked
    /\ UNCHANGED <<cloudVars, runner, at, tries, outcome, reported, lost>>

EndsRead ==
    /\ monitor = "reads" /\ monitor' = "sleeps" /\ UNCHANGED <<wake, asked>>
    /\ UNCHANGED <<cloudVars, runner, at, tries, outcome, reported, lost>>

LinkNext ==
    \/ \E a \in Attempts : OwnerOpens(a)
    \/ OwnerCloses \/ LinkCommand \/ LogoutStopsRunner
    \/ RunnerStep \/ BeginsRead \/ EndsRead

LinkSpec == LinkInit /\ [][LinkNext]_linkVars

-----------------------------------------------------------------------------
(* Properties.                                                              *)

\* A refresh asked for while the status is being read is not slept through:
\* the monitor never sleeps on a request it has not answered.
RefreshNotLost == monitor = "sleeps" /\ asked => wake

\* Its strengthening: also while the monitor reads.
RequestIsHeld == asked => wake

\* A runner always comes to its end, and unless it was stopped, its attempt
\* closed or every report of the outcome lost, the website has been told it.
AttemptSettles ==
    \A a \in Attempts :
        (Running /\ runner = a) ~>
            \/ told[a] \in Final \/ runner # a \/ open # a
            \/ ~Running /\ reported[a] >= FINAL_REPORT_ATTEMPTS

=============================================================================

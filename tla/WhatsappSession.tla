-------------------------- MODULE WhatsappSession --------------------------
(* The linked WhatsApp session of one assistant: the files the plugin       *)
(* writes, their copy in the cloud, the loop that takes the copy, the       *)
(* logout and stop commands that share its lock, and the restore at boot.   *)
(* Sources: cloud/whatsapp_session_backup.py, server/edge_commands.py,      *)
(* cloud/restore_state.py, cloud/connection_client.py.                      *)
EXTENDS Naturals

CONSTANTS
    MaxLinks,     \* accounts the owner links in a behaviour
    MaxRevs,      \* writes of the plugin to the session files
    MaxMishaps,   \* calls to the cloud or the gateway that fail
    MaxRestarts,  \* times the machine is restarted or replaced
    MaxRmErrors,  \* removals the file system refuses halfway
    None

ASSUME SessionAssumption ==
    /\ {MaxLinks, MaxRevs, MaxMishaps, MaxRestarts, MaxRmErrors} \subseteq Nat
    /\ None \notin [link : Nat, creds : Nat, keys : Nat]

VARIABLES
    allowed,    \* the owner has WhatsApp numbers set up, as the cloud knows it
    manifest,   \* what the saved manifest says of them
    session,    \* the files on disk: their account and the write each is from
    torn,       \* the plugin is in the middle of a write
    socket,     \* the account the plugin is connected with, 0 for none
    up, loaded, \* OpenClaw runs; its WhatsApp plugin is configured
    copy,       \* the archive the cloud keeps
    uploaded,   \* _uploaded: the fingerprint the loop believes is in the cloud
    holder, step, print, archive,   \* who has the lock, and how far it is
    command,    \* what the command executor does before it gets the lock
    alive, looping,                 \* the agent; its backup loop's task
    links, revs, mishaps, restarts, rmErrors,
    dropped,    \* the cloud dropped the copy that uploaded stands for
    leaving, gone   \* accounts a logout removed here; those it removed from the cloud too

sessionVars == <<allowed, manifest, session, torn, socket, up, loaded, copy, uploaded,
                 holder, step, print, archive, command, alive, looping,
                 links, revs, mishaps, restarts, rmErrors, dropped, leaving, gone>>
cloudSide == <<allowed, copy, dropped, leaving, gone>>
plugin    == <<session, torn, socket, up, loaded>>
lock      == <<holder, step, print, archive, uploaded>>
bounds    == <<links, revs, mishaps, restarts, rmErrors>>

Sessions == [link : 1..MaxLinks, creds : 1..MaxRevs, keys : 0..MaxRevs]

SessionInit ==
    /\ allowed = TRUE /\ manifest = "numbers"
    /\ session = None /\ torn = FALSE /\ socket = 0 /\ up = TRUE /\ loaded = TRUE
    /\ copy = None /\ uploaded = None
    /\ holder = "free" /\ step = "idle" /\ print = None /\ archive = None
    /\ command = "idle" /\ alive = TRUE /\ looping = TRUE
    /\ links = 0 /\ revs = 0 /\ mishaps = 0 /\ restarts = 0 /\ rmErrors = 0
    /\ dropped = FALSE /\ leaving = {} /\ gone = {}

Mishap == mishaps < MaxMishaps /\ mishaps' = mishaps + 1
NoMishap == mishaps' = mishaps

-----------------------------------------------------------------------------
(* The owner, the cloud and the plugin, as the agent's code relies on them. *)

\* Disconnect clears the numbers and drops the cloud's copy, reachable or not.
OwnerDisconnects ==
    /\ allowed /\ allowed' = FALSE
    /\ copy' = None /\ dropped' = TRUE
    /\ UNCHANGED <<manifest, plugin, lock, command, alive, looping, bounds, leaving, gone>>

OwnerConnects ==
    /\ ~allowed /\ allowed' = TRUE
    /\ UNCHANGED <<manifest, plugin, copy, lock, command, alive, looping, bounds, dropped, leaving, gone>>

\* start, restart and update_manifest save what they fetched before they apply it.
ManifestArrives ==
    /\ alive /\ command = "idle"
    /\ manifest' = IF allowed THEN "numbers" ELSE "cleared"
    /\ manifest' # manifest
    /\ UNCHANGED <<cloudSide, plugin, lock, command, alive, looping, bounds>>

\* OpenClaw reloads the channel once its running work is done.
PluginFollows ==
    /\ up /\ manifest # "none" /\ loaded # (manifest = "numbers")
    /\ loaded' = (manifest = "numbers")
    /\ socket' = IF loaded' THEN socket ELSE 0
    /\ torn' = IF loaded' THEN torn ELSE FALSE
    /\ UNCHANGED <<cloudSide, manifest, session, up, lock, command, alive, looping, bounds>>

OpenClawStarts ==
    /\ alive /\ ~up /\ command = "idle" /\ up' = TRUE
    /\ UNCHANGED <<cloudSide, manifest, session, torn, socket, loaded, lock, command, alive, looping, bounds>>

\* A session on disk is opened; a scanned code makes a new one.
SocketOpens ==
    /\ up /\ loaded /\ socket = 0 /\ session # None
    /\ socket' = session.link
    /\ UNCHANGED <<cloudSide, manifest, session, torn, up, loaded, lock, command, alive, looping, bounds>>

OwnerLinks ==
    /\ up /\ loaded /\ socket = 0 /\ session = None
    /\ links < MaxLinks /\ revs < MaxRevs
    /\ links' = links + 1 /\ revs' = revs + 1
    /\ session' = [link |-> links + 1, creds |-> revs + 1, keys |-> revs + 1]
    /\ socket' = links + 1
    /\ UNCHANGED <<cloudSide, manifest, torn, up, loaded, lock, command, alive, looping,
                   mishaps, restarts, rmErrors>>

\* Baileys rewrites one file at a time; after a removal it writes creds.json anew.
WriteBegins ==
    /\ socket # 0 /\ ~torn /\ revs < MaxRevs
    /\ revs' = revs + 1 /\ torn' = TRUE
    /\ IF session = None
       THEN session' = [link |-> socket, creds |-> revs + 1, keys |-> 0]
       ELSE \/ session' = [session EXCEPT !.creds = revs + 1]
            \/ session' = [session EXCEPT !.keys = revs + 1]
    /\ UNCHANGED <<cloudSide, manifest, socket, up, loaded, lock, command, alive, looping,
                   links, mishaps, restarts, rmErrors>>

WriteEnds ==
    /\ torn /\ torn' = FALSE
    /\ UNCHANGED <<cloudSide, manifest, session, socket, up, loaded, lock, command, alive, looping, bounds>>

-----------------------------------------------------------------------------
(* WhatsappSessionBackupLoop: tick, and upload_now for the stop command.    *)

Copies == holder \in {"tick", "stop"}

Release == holder' = "free" /\ step' = "idle" /\ print' = None /\ archive' = None

LockTaken(who) ==
    /\ holder = "free" /\ holder' = who /\ step' = "asks"
    /\ UNCHANGED <<print, archive, uploaded>>

TickBegins ==
    /\ alive /\ looping /\ LockTaken("tick")
    /\ UNCHANGED <<cloudSide, manifest, plugin, command, alive, looping, bounds>>

\* Mutant of OwnerDisconnected: only a machine that never had a manifest counts.
NeverConfigured == manifest = "none"

\* The saved manifest decides; no manifest says nothing either way.
OwnerDisconnected == manifest = "cleared"

AsksManifest ==
    /\ Copies /\ step = "asks"
    /\ IF ~OwnerDisconnected THEN step' = "prints" /\ UNCHANGED <<holder, print, archive>>
       ELSE IF holder = "tick" THEN step' = "removes" /\ UNCHANGED <<holder, print, archive>>
       ELSE Release
    /\ command' = IF holder' = "free" /\ holder = "stop" THEN "idle" ELSE command
    /\ UNCHANGED <<cloudSide, manifest, plugin, uploaded, alive, looping, bounds>>

RemovesDisconnected ==
    /\ holder = "tick" /\ step = "removes"
    /\ session' = None /\ torn' = FALSE
    /\ uploaded' = IF session # None THEN None ELSE uploaded
    /\ Release
    /\ UNCHANGED <<cloudSide, manifest, socket, up, loaded, command, alive, looping, bounds>>

\* rmtree stops at a file that appears meanwhile.  run() catches nothing, and the
\* watchdog's own bookkeeping fails on this task's name: the loop is not started again.
RemovalRefused ==
    /\ holder = "tick" /\ step = "removes" /\ session # None /\ socket # 0
    /\ rmErrors < MaxRmErrors /\ rmErrors' = rmErrors + 1
    /\ looping' = FALSE /\ Release
    /\ UNCHANGED <<cloudSide, manifest, plugin, uploaded, command, alive, links, revs, mishaps, restarts>>

\* What the copy will stand for is read before the files are.
Fingerprint == session

TakesFingerprint ==
    /\ Copies /\ step = "prints" /\ print' = Fingerprint
    /\ \/ /\ print' # None /\ print' # uploaded
          /\ step' = "reads" /\ UNCHANGED <<holder, archive, command>>
       \/ /\ print' = None \/ print' = uploaded \/ holder = "tick"   \* nothing new, or not due yet
          /\ holder' = "free" /\ step' = "idle" /\ archive' = None
          /\ command' = IF holder = "stop" THEN "idle" ELSE command
    /\ UNCHANGED <<cloudSide, manifest, plugin, uploaded, alive, looping, bounds>>

\* build_whatsapp_session_archive: one file after another; a torn or missing one refuses.
GivesUpCopy ==
    /\ Release
    /\ command' = IF holder = "stop" THEN "idle" ELSE command

ReadsCreds ==
    /\ Copies /\ step = "reads"
    /\ IF session = None \/ torn THEN GivesUpCopy
       ELSE /\ archive' = session /\ step' = "reads_keys"
            /\ UNCHANGED <<holder, print, command>>
    /\ UNCHANGED <<cloudSide, manifest, plugin, uploaded, alive, looping, bounds>>

ReadsKeys ==
    /\ Copies /\ step = "reads_keys"
    /\ IF session = None \/ torn THEN GivesUpCopy
       ELSE /\ archive' = [archive EXCEPT !.keys = session.keys] /\ step' = "uploads"
            /\ UNCHANGED <<holder, print, command>>
    /\ UNCHANGED <<cloudSide, manifest, plugin, uploaded, alive, looping, bounds>>

\* Mutant of Recorded: the files are fingerprinted again after the upload.
RecordedAfterwards(ok) == uploaded' = IF ok THEN session ELSE uploaded

\* Mutant of Recorded: an upload that failed counts as well.
RecordedAnyway(ok) == uploaded' = print

Recorded(ok) == uploaded' = IF ok THEN print ELSE uploaded

\* The cloud stores the archive or not, and the answer arrives or not.
Uploads ==
    /\ Copies /\ step = "uploads"
    /\ \E stored, ok \in BOOLEAN :
          /\ ok => stored
          /\ IF ok THEN NoMishap ELSE Mishap
          /\ copy' = IF stored THEN archive ELSE copy
          /\ dropped' = (dropped /\ ~stored)
          /\ Recorded(ok)
    /\ GivesUpCopy
    /\ UNCHANGED <<allowed, leaving, gone, manifest, plugin, alive, looping, links, revs, restarts, rmErrors>>

-----------------------------------------------------------------------------
(* The stop and whatsapp_logout commands: one at a time, in the executor.   *)

StopCommand ==
    /\ alive /\ up /\ command = "idle"
    /\ up' = FALSE /\ socket' = 0 /\ torn' = FALSE /\ command' = "stop_waits"
    /\ UNCHANGED <<cloudSide, manifest, session, loaded, lock, alive, looping, bounds>>

StopCopies ==
    /\ command = "stop_waits" /\ LockTaken("stop") /\ command' = "stop"
    /\ UNCHANGED <<cloudSide, manifest, plugin, alive, looping, bounds>>

\* channels.logout: done, refused (the command fails), or nobody to ask.
LogoutCommand ==
    /\ alive /\ command = "idle" /\ ~allowed
    /\ \/ /\ up /\ loaded
          /\ socket' = 0 /\ session' = None /\ torn' = FALSE
          /\ command' = "logout_waits" /\ NoMishap
       \/ up /\ loaded /\ Mishap /\ UNCHANGED <<socket, session, torn, command>>
       \/ /\ ~(up /\ loaded) /\ command' = "logout_waits" /\ NoMishap
          /\ UNCHANGED <<socket, session, torn>>
    /\ UNCHANGED <<cloudSide, manifest, up, loaded, lock, alive, looping, links, revs, restarts, rmErrors>>

\* paused(): an upload under way finishes first.
LogoutMayRemove == holder = "free"

\* Mutant of LogoutRemoves: it does not wait for the upload under way.
LogoutRemovesAtOnce ==
    /\ command = "logout_waits" /\ command' = "idle"
    /\ session' = None /\ torn' = FALSE /\ uploaded' = None /\ copy' = None
    /\ leaving' = (1..links) \ {socket} /\ gone' = gone \cup leaving'
    /\ UNCHANGED <<allowed, dropped, manifest, socket, up, loaded, holder, step, print, archive,
                   alive, looping, bounds>>

LogoutRemoves ==
    /\ command = "logout_waits" /\ LogoutMayRemove
    /\ holder' = "logout" /\ step' = "deletes" /\ print' = None /\ archive' = None
    /\ session' = None /\ torn' = FALSE /\ uploaded' = None /\ command' = "logout"
    /\ leaving' = (1..links) \ {socket}     \* a connected plugin would write its files again
    /\ UNCHANGED <<allowed, copy, dropped, gone, manifest, socket, up, loaded, alive, looping, bounds>>

\* The files cannot all be removed: the command fails before anything is forgotten.
LogoutRefused ==
    /\ command = "logout_waits" /\ LogoutMayRemove /\ session # None /\ socket # 0
    /\ rmErrors < MaxRmErrors /\ rmErrors' = rmErrors + 1
    /\ command' = "idle"
    /\ UNCHANGED <<cloudSide, manifest, plugin, lock, alive, looping, links, revs, mishaps, restarts>>

LogoutDeletes ==
    /\ holder = "logout" /\ step = "deletes"
    /\ \/ NoMishap /\ copy' = None /\ gone' = gone \cup leaving
       \/ Mishap /\ UNCHANGED <<copy, gone>>
    /\ Release /\ command' = "idle"
    /\ UNCHANGED <<allowed, dropped, leaving, manifest, plugin, uploaded, alive, looping,
                   links, revs, restarts, rmErrors>>

-----------------------------------------------------------------------------
\* The machine goes down, and comes back with its disk or as a fresh one.
MachineRestarts(fresh) ==
    /\ alive /\ restarts < MaxRestarts /\ restarts' = restarts + 1
    /\ alive' = FALSE /\ looping' = FALSE
    /\ up' = FALSE /\ socket' = 0 /\ torn' = FALSE
    /\ session' = IF fresh THEN None ELSE session
    /\ manifest' = IF fresh THEN "none" ELSE manifest
    /\ uploaded' = None /\ Release /\ command' = "idle"
    /\ UNCHANGED <<cloudSide, loaded, links, revs, mishaps, rmErrors>>

\* Unpacked beside the session directory and put in its place by one rename: all or nothing.
Restored == copy

\* restore_state before anything starts: only when no session is on disk.
Boots ==
    /\ ~alive /\ alive' = TRUE /\ looping' = TRUE
    /\ \/ NoMishap /\ session' = IF session = None THEN Restored ELSE session
       \/ Mishap /\ UNCHANGED session
    /\ UNCHANGED <<cloudSide, manifest, torn, socket, up, loaded, lock, command,
                   links, revs, restarts, rmErrors>>

External == OwnerDisconnects \/ OwnerConnects \/ OwnerLinks
            \/ WriteBegins \/ WriteEnds \/ SocketOpens
CopyStep == AsksManifest \/ RemovesDisconnected \/ ReadsCreds \/ ReadsKeys \/ Uploads
SessionNext ==
    \/ External \/ ManifestArrives \/ PluginFollows \/ OpenClawStarts
    \/ TickBegins \/ CopyStep \/ TakesFingerprint \/ RemovalRefused
    \/ StopCommand \/ StopCopies \/ LogoutCommand
    \/ LogoutRemoves \/ LogoutRefused \/ LogoutDeletes
    \/ \E fresh \in BOOLEAN : MachineRestarts(fresh)
    \/ Boots

\* The plugin follows its configuration and ends what it writes, the loop's steps
\* and a command's calls return, the next tick comes, and a lock taken and left
\* again and again is had in the end.  The owner's acts, the machine's restarts
\* and OpenClaw's starts and commands need never happen.
SessionFairness ==
    /\ WF_sessionVars(PluginFollows) /\ WF_sessionVars(WriteEnds)
    /\ WF_sessionVars(CopyStep) /\ WF_sessionVars(TakesFingerprint) /\ WF_sessionVars(LogoutDeletes)
    /\ SF_sessionVars(TickBegins) /\ SF_sessionVars(StopCopies) /\ SF_sessionVars(LogoutRemoves)
    /\ SF_sessionVars(TakesFingerprint /\ step' = "reads")   \* the files are quiet at some tick

SessionSpec == SessionInit /\ [][SessionNext]_sessionVars /\ SessionFairness

-----------------------------------------------------------------------------
(* Properties.                                                              *)

SessionTypeOK ==
    /\ {allowed, torn, up, loaded, alive, looping, dropped} \subseteq BOOLEAN
    /\ manifest \in {"none", "numbers", "cleared"}
    /\ {session, copy, uploaded, print, archive} \subseteq Sessions \cup {None}
    /\ socket \in 0..MaxLinks /\ gone \subseteq 1..MaxLinks
    /\ holder \in {"free", "tick", "stop", "logout"}
    /\ step \in {"idle", "asks", "removes", "prints", "reads", "reads_keys", "uploads", "deletes"}
    /\ command \in {"idle", "stop_waits", "stop", "logout_waits", "logout"}

\* When the loop finds nothing new to copy, the cloud does hold those very
\* files: the fingerprint it remembers is never newer than the archive it sent,
\* whatever the plugin wrote in between (unless the cloud dropped the copy).
BelievedCopyIsTheCopy ==
    uploaded # None /\ uploaded = session /\ ~dropped => copy = session

\* An account logged out here and in the cloud never comes back in the cloud's
\* copy: no upload that was under way lands after the deletion.
LoggedOutStaysOut == copy # None => copy.link \notin gone

\* Their strengthening.  Files and what was read of them are of accounts linked and writes
\* made so far, so a further write gives files unlike any the loop has seen.
Seen == [link : 1..links, creds : 1..revs, keys : 0..revs]
SeenOnly ==
    /\ links \in Nat /\ revs \in Nat
    /\ {session, copy, uploaded, print, archive} \subseteq Seen \cup {None}
    /\ socket \in 0..links /\ gone \subseteq 1..links /\ leaving \subseteq 1..links

\* An archive is in hand only between its first file and its end; a logout and a machine that
\* is down have no copy they believe in.
LockInOrder ==
    /\ ~(Copies /\ step \in {"reads_keys", "uploads"}) => archive = None
    /\ Copies => step # "deletes"
    /\ holder = "logout" => uploaded = None /\ step = "deletes"
    /\ holder \notin {"free", "logout"} => Copies
    /\ ~alive => holder = "free" /\ command = "idle" /\ ~up /\ uploaded = None

NothingOfGone ==
    /\ session # None => session.link \notin gone
    /\ archive # None => archive.link \notin gone
    /\ socket \notin gone
    /\ holder = "logout" => socket \notin leaving /\ (session # None => session.link \notin leaving)

\* While a copy is taken: its files are those the fingerprint says, unless one was written since.
CopyMatchesPrint ==
    /\ Copies /\ step \in {"reads", "reads_keys", "uploads"} =>
         print # None /\ (uploaded # None => session # uploaded)
    /\ Copies /\ step \in {"reads_keys", "uploads"} =>
         archive # None /\ (print = session => archive = print)

SessionIInv == SeenOnly /\ LockInOrder /\ NothingOfGone /\ CopyMatchesPrint
               /\ BelievedCopyIsTheCopy /\ LoggedOutStaysOut

\* Once the saved manifest has no numbers for good, the session is gone from
\* this machine for good, logout command or not, while the backup loop runs.
DisconnectHolds ==
    <>[](manifest = "cleared" /\ alive /\ looping) => <>[](session = None)

\* The same without the premise that the loop is still running.
DisconnectAlwaysHolds ==
    <>[](manifest = "cleared" /\ alive) => <>[](session = None)

\* A session that stays as it is gets into the cloud, whatever failed before.
CopyKeepsUp ==
    (<>[](alive /\ looping /\ manifest = "numbers" /\ allowed) /\ <>[][UNCHANGED session]_sessionVars)
        => <>[](session # None /\ session.keys # 0 /\ ~dropped => copy = session)

=============================================================================

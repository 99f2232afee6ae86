---------------------------- MODULE BrowserView ----------------------------
(* The agent's browser outside a run: the KasmVNC display under             *)
(* supervisord, the open_browser, close_browser and browser_stream commands *)
(* and the tunnel that carries the display to the owner's view.             *)
(* Sources: cloud/supervisor_manager.py, cloud/browser_tunnel.py,           *)
(* server/edge_commands.py, cloud/connection_client.py.                     *)
EXTENDS Naturals

CONSTANTS
    Views,       \* browser-view sessions the owner opens
    MaxCrashes,  \* deaths of the display server or of its wrapper
    MaxHiccups,  \* calls to the cloud that fail
    NoView

ASSUME ViewAssumption == {MaxCrashes, MaxHiccups} \subseteq Nat /\ NoView \notin Views

VARIABLES
    gateway,     \* supervisord's word on OpenClaw and its /ready, as probed
    kasm, gost,  \* the two supervised programs
    xserver,     \* Xvnc: "owned" by a running wrapper, or its "orphan"
    x11,         \* the display's socket file
    chrome,      \* "none", "launching" (the launcher waits) or "up"
    work,        \* the step of the browser command in the executor
    streaming,   \* that command is browser_stream
    wanted,      \* the session it fetched
    stopFailed,  \* a supervisorctl stop of this close failed
    view, viewed,       \* the cloud's active session; those opened so far
    tunnel, tunnelAt,   \* the runner's session and its step
    crashes, hiccups,
    closed       \* the last browser command was a completed close

displayVars == <<kasm, gost, xserver, x11, chrome>>
workVars    == <<work, streaming, wanted, stopFailed>>
tunnelVars  == <<tunnel, tunnelAt>>
viewVars    == <<view, viewed>>
browserVars == <<gateway, displayVars, workVars, viewVars, tunnelVars, crashes, hiccups, closed>>

Supervised == {"STOPPED", "STARTING", "RUNNING", "FATAL"}

BrowserInit ==
    /\ gateway = "stopped" /\ kasm = "STOPPED" /\ gost = "STOPPED" /\ xserver = "none"
    /\ x11 = FALSE /\ chrome = "none"
    /\ work = "idle" /\ streaming = FALSE /\ wanted = NoView /\ stopFailed = FALSE
    /\ view = NoView /\ viewed = {} /\ tunnel = NoView /\ tunnelAt = "done"
    /\ crashes = 0 /\ hiccups = 0 /\ closed = FALSE

-----------------------------------------------------------------------------
(* What the probes make of it.                                              *)

\* supervisorctl's line: anything it does not know is "stopped".
Classify(program) ==
    CASE program \in {"FATAL", "BACKOFF"} -> "error"
      [] program \in {"STARTING", "STOPPING"} -> "starting"
      [] program = "RUNNING" -> "running"
      [] OTHER -> "stopped"

\* A display whose Chrome does not answer is "starting" for five seconds.
BrowserProbe(program, young, pages) ==
    LET norm == Classify(program) IN
    [kasmvnc_running |-> norm \in {"running", "starting"},
     chrome_running  |-> norm = "running" /\ pages = "some",
     status          |-> IF norm # "running" \/ pages = "some" THEN norm
                         ELSE IF young THEN "starting"
                         ELSE IF pages = "unreachable" THEN "error" ELSE "running"]

\* What Chrome's page list answers.
Pages == IF chrome = "up" THEN {"some", "none"} ELSE {"unreachable"}

GatewayReady(program, listening) == IF program = "running" /\ ~listening THEN "starting" ELSE program

-----------------------------------------------------------------------------
(* The world around: OpenClaw, its browser tool, supervisord, the display.  *)

GatewayMoves ==
    /\ \E program \in {"RUNNING", "STARTING", "STOPPED", "FATAL"}, listening \in BOOLEAN :
          gateway' = GatewayReady(Classify(program), listening)
    /\ gateway' # gateway
    /\ UNCHANGED <<displayVars, workVars, viewVars, tunnelVars, crashes, hiccups, closed>>

\* supervisord runs kasmvnc_start, which drops the stale lock and socket first.
KasmStarts == kasm' = "STARTING" /\ x11' = FALSE /\ closed' = FALSE

\* The display is bound, or somebody else still holds it and the retries run out.
KasmSettles ==
    /\ kasm = "STARTING"
    /\ IF xserver = "none"
       THEN kasm' = "RUNNING" /\ xserver' = "owned" /\ x11' = TRUE
       ELSE kasm' = "FATAL" /\ UNCHANGED <<xserver, x11>>
    /\ UNCHANGED <<gateway, gost, chrome, workVars, viewVars, tunnelVars, crashes, hiccups, closed>>

\* autorestart: the wrapper ended without having been told to.
WrapperDies ==
    /\ kasm = "RUNNING" /\ crashes < MaxCrashes /\ crashes' = crashes + 1
    /\ xserver' = IF xserver = "owned" THEN "orphan" ELSE xserver
    /\ KasmStarts
    /\ UNCHANGED <<gateway, gost, chrome, workVars, viewVars, tunnelVars, hiccups>>

KasmRestarts ==
    /\ kasm = "RUNNING" /\ xserver # "owned" /\ KasmStarts
    /\ UNCHANGED <<gateway, gost, xserver, chrome, workVars, viewVars, tunnelVars, crashes, hiccups>>

\* OpenClaw's browser tool runs the launcher on its own.
ToolLaunches ==
    /\ gateway = "running" /\ chrome = "none" /\ chrome' = "launching" /\ closed' = FALSE
    /\ UNCHANGED <<gateway, kasm, gost, xserver, x11, workVars, viewVars, tunnelVars, crashes, hiccups>>

LauncherStartsKasm ==
    /\ chrome = "launching" /\ kasm \in {"STOPPED", "FATAL"} /\ KasmStarts
    /\ UNCHANGED <<gateway, gost, xserver, chrome, workVars, viewVars, tunnelVars, crashes, hiccups>>

LauncherEnds ==
    /\ chrome = "launching"
    /\ \/ kasm = "RUNNING" /\ x11 /\ chrome' = "up"
       \/ chrome' = "none"
    /\ UNCHANGED <<gateway, kasm, gost, xserver, x11, workVars, viewVars, tunnelVars, crashes, hiccups, closed>>

-----------------------------------------------------------------------------
(* BrowserViewTunnelManager, and the commands.                              *)

\* A second command for the session a runner serves changes nothing.
TunnelStarts(session) ==
    IF tunnelAt # "done" /\ tunnel = session THEN UNCHANGED tunnelVars
    ELSE tunnel' = session /\ tunnelAt' = "checks"

TunnelStops == tunnel' = NoView /\ tunnelAt' = "done"

Done == work' = "idle" /\ streaming' = FALSE /\ wanted' = NoView /\ stopFailed' = FALSE

\* open_browser is refused while OpenClaw runs, not while it starts.
OpenAllowed == gateway # "running"

OpenCommand ==
    /\ work = "idle" /\ OpenAllowed /\ work' = "starts_kasm" /\ closed' = FALSE
    /\ UNCHANGED <<gateway, displayVars, streaming, wanted, stopFailed, viewVars, tunnelVars,
                   crashes, hiccups>>

\* A program that runs or is on its way is "already started", which is as good as started.
StartsKasm ==
    /\ work = "starts_kasm"
    /\ IF kasm \in {"STARTING", "RUNNING"}
       THEN work' = "starts_gost" /\ UNCHANGED <<kasm, x11, closed>>
       ELSE work' = "awaits_kasm" /\ KasmStarts
    /\ UNCHANGED <<gateway, gost, xserver, chrome, streaming, wanted, stopFailed, viewVars, tunnelVars,
                   crashes, hiccups>>

\* supervisorctl does not answer in time, or cannot be run.
StartUnanswered ==
    /\ work = "starts_kasm" /\ Done
    /\ UNCHANGED <<gateway, displayVars, viewVars, tunnelVars, crashes, hiccups, closed>>

\* supervisorctl returns when the program runs, has failed, or after 60 seconds.
AwaitsKasm ==
    /\ work = "awaits_kasm"
    /\ \/ kasm = "RUNNING" /\ work' = "starts_gost" /\ UNCHANGED <<streaming, wanted, stopFailed>>
       \/ Done
    /\ UNCHANGED <<gateway, displayVars, viewVars, tunnelVars, crashes, hiccups, closed>>

StartsGost ==
    /\ work = "starts_gost"
    /\ \/ gost' = "RUNNING" /\ work' = "waits_display" /\ UNCHANGED <<streaming, wanted, stopFailed>>
       \/ Done /\ UNCHANGED gost
    /\ UNCHANGED <<gateway, kasm, xserver, x11, chrome, viewVars, tunnelVars, crashes, hiccups, closed>>

\* The launcher is left running; a stream goes on to its tunnel.
WaitsForDisplay ==
    /\ work = "waits_display"
    /\ \/ /\ x11 /\ closed' = FALSE
          /\ chrome' = IF chrome = "none" THEN "launching" ELSE chrome
          /\ IF streaming THEN TunnelStarts(wanted) ELSE UNCHANGED tunnelVars
       \/ UNCHANGED <<chrome, tunnelVars, closed>>      \* 60 seconds, or no launcher
    /\ Done
    /\ UNCHANGED <<gateway, kasm, gost, xserver, x11, viewVars, crashes, hiccups>>

CloseCommand ==
    /\ work = "idle" /\ TunnelStops /\ work' = "stops_kasm" /\ closed' = FALSE
    /\ UNCHANGED <<gateway, displayVars, streaming, wanted, stopFailed, viewVars, crashes, hiccups>>

\* Only the wrapper is signalled: the server it spawned lives on.
StopsKasm ==
    /\ work = "stops_kasm"
    /\ \/ /\ kasm' = "STOPPED" /\ xserver' = IF xserver = "owned" THEN "orphan" ELSE xserver
          /\ work' = "stops_gost" /\ UNCHANGED stopFailed
       \/ work' = "cleans" /\ stopFailed' = TRUE /\ UNCHANGED <<kasm, xserver>>
    /\ UNCHANGED <<gateway, gost, x11, chrome, streaming, wanted, viewVars, tunnelVars, crashes, hiccups, closed>>

StopsGost ==
    /\ work = "stops_gost" /\ work' = "cleans"
    /\ \/ gost' = "STOPPED" /\ UNCHANGED stopFailed
       \/ stopFailed' = TRUE /\ UNCHANGED gost
    /\ UNCHANGED <<gateway, kasm, xserver, x11, chrome, streaming, wanted, viewVars, tunnelVars,
                   crashes, hiccups, closed>>

\* Mutant of CleansUp: only what supervisord still owns is killed: the orphan keeps the display.
CleansUpOwned == chrome' = "none" /\ xserver' = (IF xserver = "orphan" THEN "orphan" ELSE "none") /\ x11' = FALSE

\* pkill of Chrome, its launcher and Xvnc, then the locks, whatever stop said.
CleansUp == chrome' = "none" /\ xserver' = "none" /\ x11' = FALSE

Cleans ==
    /\ work = "cleans"
    /\ \/ CleansUp /\ closed' = ~stopFailed
       \/ UNCHANGED <<chrome, xserver, x11>> /\ closed' = FALSE
    /\ Done
    /\ UNCHANGED <<gateway, kasm, gost, viewVars, tunnelVars, crashes, hiccups>>

\* The session is fetched first; none, or no answer, ends the command.
StreamCommand ==
    /\ work = "idle" /\ view # NoView
    /\ work' = "probes" /\ streaming' = TRUE /\ wanted' = view /\ closed' = FALSE
    /\ UNCHANGED <<gateway, displayVars, stopFailed, viewVars, tunnelVars, crashes, hiccups>>

StreamProbes ==
    /\ work = "probes"
    /\ \E young \in BOOLEAN, pages \in Pages :
          IF BrowserProbe(kasm, young, pages).kasmvnc_running THEN TunnelStarts(wanted) /\ Done
          ELSE /\ UNCHANGED tunnelVars
               /\ IF OpenAllowed THEN work' = "starts_kasm" /\ UNCHANGED <<streaming, wanted, stopFailed>>
                                 ELSE Done
    /\ UNCHANGED <<gateway, displayVars, viewVars, crashes, hiccups, closed>>

-----------------------------------------------------------------------------
(* The cloud's session and the runner: check, dial, serve, and again.       *)

OwnerOpensView(v) ==
    /\ v \notin viewed /\ view' = v /\ viewed' = viewed \cup {v}
    /\ UNCHANGED <<gateway, displayVars, workVars, tunnelVars, crashes, hiccups, closed>>

OwnerClosesView ==
    /\ view # NoView /\ view' = NoView
    /\ UNCHANGED <<gateway, displayVars, workVars, viewed, tunnelVars, crashes, hiccups, closed>>

TunnelGoes(step) == tunnelAt' = step /\ UNCHANGED tunnel
OnlyTunnel == UNCHANGED <<gateway, displayVars, workVars, viewVars, crashes, closed>>

\* A check that fails reads as no session, and so does a token that cannot be read.
TunnelChecks ==
    /\ tunnelAt = "checks"
    /\ \/ TunnelGoes(IF view = tunnel THEN "dials" ELSE "done") /\ UNCHANGED hiccups
       \/ hiccups < MaxHiccups /\ hiccups' = hiccups + 1 /\ TunnelGoes("done")
    /\ OnlyTunnel

\* Refused for good (401, 404, 410), or for now, with a longer wait each time.
TunnelDials ==
    /\ tunnelAt = "dials"
    /\ \/ view = tunnel /\ TunnelGoes("parked") /\ UNCHANGED hiccups
       \/ view # tunnel /\ TunnelGoes("done") /\ UNCHANGED hiccups
       \/ hiccups < MaxHiccups /\ hiccups' = hiccups + 1 /\ TunnelGoes("checks")
    /\ OnlyTunnel

\* Mutant of ParkTimesOut: a recv without a bound.
ParkGoesOn == tunnelAt = "parked" /\ UNCHANGED tunnelVars

\* A parked tunnel gives up after 30 seconds, so that the session is checked again.
ParkTimesOut == tunnelAt = "parked" /\ TunnelGoes("checks")

TunnelParked == ParkTimesOut /\ UNCHANGED hiccups /\ OnlyTunnel

\* The local display is dialled only now; without one the dial fails.
ViewerAttaches ==
    /\ tunnelAt = "parked" /\ view = tunnel
    /\ TunnelGoes(IF kasm = "RUNNING" /\ xserver = "owned" THEN "piped" ELSE "checks")
    /\ UNCHANGED hiccups /\ OnlyTunnel

\* Either leg ends.  The closing code of an ended session arrives or is lost.
TunnelBreaks ==
    /\ tunnelAt \in {"parked", "piped"}
    /\ TunnelGoes(IF view # tunnel THEN "done" ELSE "checks") \/ TunnelGoes("checks")
    /\ UNCHANGED hiccups /\ OnlyTunnel

\* The cloud does not leave a viewer on an ended session.
ViewEnds == TunnelBreaks /\ tunnelAt = "piped" /\ view # tunnel

CloudOrRunner ==
    \/ \E v \in Views : OwnerOpensView(v)
    \/ OwnerClosesView \/ TunnelChecks \/ TunnelDials \/ TunnelParked \/ ViewerAttaches \/ TunnelBreaks
Display == KasmSettles \/ WrapperDies \/ KasmRestarts \/ LauncherStartsKasm \/ LauncherEnds
Commands == OpenCommand \/ StartsKasm \/ StartUnanswered \/ AwaitsKasm \/ StartsGost
            \/ WaitsForDisplay \/ CloseCommand \/ StopsKasm \/ StopsGost \/ Cleans \/ StreamCommand \/ StreamProbes

BrowserNext == GatewayMoves \/ ToolLaunches \/ Display \/ Commands \/ CloudOrRunner

RunnerGoesOn == TunnelChecks \/ TunnelDials \/ TunnelParked

BrowserSpec == BrowserInit /\ [][BrowserNext]_browserVars
               /\ WF_browserVars(RunnerGoesOn) /\ WF_browserVars(ViewEnds)

-----------------------------------------------------------------------------
(* Properties.                                                              *)

BrowserTypeOK ==
    /\ gateway \in {"stopped", "starting", "running", "error"}
    /\ {kasm, gost} \subseteq Supervised /\ xserver \in {"none", "owned", "orphan"}
    /\ {x11, streaming, stopFailed, closed} \subseteq BOOLEAN
    /\ chrome \in {"none", "launching", "up"}
    /\ work \in {"idle", "starts_kasm", "awaits_kasm", "starts_gost", "waits_display",
                 "stops_kasm", "stops_gost", "cleans", "probes"}
    /\ {wanted, view, tunnel} \subseteq Views \cup {NoView} /\ viewed \subseteq Views
    /\ tunnelAt \in {"done", "checks", "dials", "parked", "piped"}
    /\ crashes \in 0..MaxCrashes /\ hiccups \in 0..MaxHiccups

\* A close that completed leaves a display the next open can bind: no server
\* that supervisord does not own, no socket of a dead one, no Chrome, and no view
\* carried on, however the wrapper died and whatever OpenClaw's launcher did
\* meanwhile (it may have started the display again behind the stop).
ClosedCanReopen ==
    closed => /\ xserver # "orphan" /\ (x11 => xserver = "owned")
              /\ chrome = "none" /\ tunnelAt = "done"

\* Its strengthening: a command under way has taken the mark back, and a close has no
\* tunnel beside it from its first step on.
Closing == work \in {"stops_kasm", "stops_gost", "cleans"}
CloseIInv ==
    /\ ClosedCanReopen
    /\ work # "idle" => ~closed
    /\ Closing => tunnelAt = "done"

\* A runner of a session that is over comes to its end, the closing code lost
\* or not, viewer attached or not.
TunnelEnds ==
    \A v \in Views :
        (tunnelAt # "done" /\ tunnel = v /\ view # v) ~> ~(tunnelAt # "done" /\ tunnel = v)

\* The runner redials while its session exists: it ends only with the session,
\* or because a command stopped or replaced it.
TunnelLastsAsLong ==
    [][tunnelAt # "done" /\ tunnelAt' = "done" => view # tunnel \/ tunnel' # tunnel]_browserVars

=============================================================================

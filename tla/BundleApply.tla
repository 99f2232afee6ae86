----------------------------- MODULE BundleApply -----------------------------
(***************************************************************************)
(* From a manifest of the cloud to the configuration OpenClaw runs with:   *)
(* the saved manifest, the bundle on disk, the copies OpenClaw reads, the  *)
(* OpenClaw program under supervisord, and the version reported as applied. *)
(*                                                                         *)
(* Two callers use the manager: the command executor (one command at a     *)
(* time, with the cloud's manifest) and the local HTTP routes (with the    *)
(* saved one).  Nothing keeps them apart, and every file write, subprocess *)
(* and cloud call is a step of its own that may fail.                      *)
(***************************************************************************)
EXTENDS Integers

CONSTANTS
    Callers,     \* "executor" and "local", or one of them
    Manifest,    \* the cloud's manifests: version -> [config, files, proxy]
    Contents,    \* values of a manifest's parts
    MaxVersion,  \* bound: versions the owner makes
    MaxFaults    \* bound: failing steps, crashes

Versions == 1 .. MaxVersion
None     == 0     \* no version, and the content of what is not there or half written

ASSUME ManifestAssumption ==
    /\ Callers \subseteq {"executor", "local"}
    /\ MaxVersion \in Nat /\ MaxFaults \in Nat
    /\ None \notin Contents
    /\ Manifest \in [Versions -> [config : Contents, files : Contents, proxy : Contents]]

VARIABLES
    latest,    \* the version the cloud hands out
    saved,     \* the version in manifest.json
    staged,    \* the bundle volume: openclaw.json; workspaces and shared skills
    env,       \* PROXY_URL in the bundle volume's runtime.env
    template,  \* what openclaw_start copied out of the volume
    live,      \* what OpenClaw reads
    gateway,   \* the openclaw program: stopped, booting, loaded (bundle copied out), running
    applied,   \* sellerclaw-config-version
    job,       \* what each caller is doing; alone is history: nobody else was at work meanwhile
    settled,   \* history: the last bundle written was written by one caller, to the end
    faults

vars == <<latest, saved, staged, env, template, live, gateway, applied, job, settled, faults>>

Ops    == {"start", "restart", "update", "stop"}
NoJob  == [op |-> "none", at |-> "idle", v |-> None, alone |-> TRUE]
Part   == Contents \cup {None}
Bundle == [config : Part, files : Part]
Job    == [op : Ops \cup {"none"}, v : Versions \cup {None}, alone : BOOLEAN,
           at : {"idle", "check", "config", "clear", "files", "env", "ctl",
                 "materialize", "activate", "record", "recordUnchanged"}]

TypeOK ==
    /\ latest \in Versions \cup {None} /\ saved \in Versions \cup {None}
    /\ staged \in Bundle /\ template \in Bundle /\ live \in Bundle
    /\ env \in Part
    /\ gateway \in {"stopped", "booting", "loaded", "running"}
    /\ applied \in Versions \cup {None}
    /\ job \in [Callers -> Job]
    /\ \A c \in Callers : job[c].op \notin {"none", "stop"} => job[c].v # None
    /\ settled \in BOOLEAN
    /\ faults \in Nat

NoBundle   == [config |-> None, files |-> None]
Rendered(v) == [config |-> Manifest[v].config, files |-> Manifest[v].files]

Init ==
    /\ latest = None /\ saved = None /\ applied = None
    /\ staged = NoBundle /\ template = NoBundle /\ live = NoBundle /\ env = None
    /\ gateway \in {"stopped", "booting"}
    /\ job = [c \in Callers |-> NoJob]
    /\ settled = FALSE /\ faults = 0

Disturb == faults < MaxFaults /\ faults' = faults + 1

Busy(c) == job[c].at # "idle"
At(c, step) == job[c].at = step

GoTo(c, step) == job' = [job EXCEPT ![c].at = step]
Finish(c)     == job' = [job EXCEPT ![c] = NoJob]

-----------------------------------------------------------------------------
(* A command begins.                                                       *)

\* The jobs a new one or a posted manifest meets are no longer alone.
Met(d) == IF Busy(d) THEN [job[d] EXCEPT !.alone = FALSE] ELSE job[d]

Alone(c) == \A d \in Callers : Busy(d) => d = c

Take(c, op, v) ==
    job' = [d \in Callers |->
              IF d # c THEN Met(d)
              ELSE [op |-> op, v |-> v, at |-> IF op = "stop" THEN "ctl" ELSE "check",
                    alone |-> Alone(c)]]

\* The executor: fetch_edge_manifest, storage.save; stop needs no manifest.
ExecutorBegins(c, op) ==
    /\ c = "executor" /\ ~Busy(c) /\ latest # None
    /\ saved' = IF op = "stop" THEN saved ELSE latest
    /\ Take(c, op, IF op = "stop" THEN None ELSE latest)
    /\ UNCHANGED <<latest, staged, env, template, live, gateway, applied, settled, faults>>

\* POST /openclaw/start, /stop, /restart: with the saved manifest.
LocalBegins(c, op) ==
    /\ c = "local" /\ ~Busy(c) /\ op # "update" /\ (saved # None \/ op = "stop")
    /\ Take(c, op, IF op = "stop" THEN None ELSE saved)
    /\ UNCHANGED <<latest, saved, staged, env, template, live, gateway, applied, settled, faults>>

\* POST /manifest: the manifest is saved, and its proxy put into runtime.env at once.
ManifestPosted ==
    /\ \E v \in Versions : v <= latest /\ saved' = v /\ env' = Manifest[v].proxy
    /\ job' = [d \in Callers |-> Met(d)]
    /\ UNCHANGED <<latest, staged, template, live, gateway, applied, settled, faults>>

-----------------------------------------------------------------------------
(* The manager's start, restart, update_manifest and stop.                 *)

\* start is refused while OpenClaw answers.
RefusedWhileRunning(c) ==
    /\ At(c, "check") /\ job[c].op = "start" /\ gateway = "running"
    /\ Finish(c)
    /\ UNCHANGED <<latest, saved, staged, env, template, live, gateway, applied, settled, faults>>

\* update_manifest refuses a manifest whose proxy is not the one in runtime.env.
RefusedNewProxy(c) ==
    /\ At(c, "check") /\ job[c].op = "update" /\ env # Manifest[job[c].v].proxy
    /\ Finish(c)
    /\ UNCHANGED <<latest, saved, staged, env, template, live, gateway, applied, settled, faults>>

\* Mutant of Unchanged: only openclaw.json is compared.
UnchangedConfig(c) ==
    /\ At(c, "check") /\ job[c].op = "update" /\ env = Manifest[job[c].v].proxy
    /\ staged.config = Manifest[job[c].v].config
    /\ GoTo(c, "recordUnchanged")
    /\ UNCHANGED <<latest, saved, staged, env, template, live, gateway, applied, settled, faults>>

\* update_manifest finds the bundle on disk as it would write it.
Unchanged(c) ==
    /\ At(c, "check") /\ job[c].op = "update" /\ env = Manifest[job[c].v].proxy
    /\ staged = Rendered(job[c].v)
    /\ GoTo(c, "recordUnchanged")
    /\ UNCHANGED <<latest, saved, staged, env, template, live, gateway, applied, settled, faults>>

\* The probe of a running OpenClaw errs, and start goes on as if it were not running.
ProbeErrs(c) ==
    /\ At(c, "check") /\ job[c].op = "start" /\ gateway = "running" /\ Disturb
    /\ GoTo(c, "config")
    /\ UNCHANGED <<latest, saved, staged, env, template, live, gateway, applied, settled>>

\* Nothing stands against writing the bundle.
Proceeds(c) ==
    /\ At(c, "check")
    /\ job[c].op = "start" => gateway # "running"
    /\ job[c].op = "update" => env = Manifest[job[c].v].proxy /\ staged # Rendered(job[c].v)
    /\ GoTo(c, "config")
    /\ UNCHANGED <<latest, saved, staged, env, template, live, gateway, applied, settled, faults>>

\* write_bundle_to_disk: openclaw.json; the old workspaces go; the new ones; runtime.env.
WriteConfig(c) ==
    /\ At(c, "config") /\ GoTo(c, "clear")
    /\ staged' = [staged EXCEPT !.config = Manifest[job[c].v].config]
    /\ settled' = FALSE
    /\ UNCHANGED <<latest, saved, env, template, live, gateway, applied, faults>>

ClearFiles(c) ==
    /\ At(c, "clear") /\ GoTo(c, "files")
    /\ staged' = [staged EXCEPT !.files = None]
    /\ UNCHANGED <<latest, saved, env, template, live, gateway, applied, settled, faults>>

WriteFiles(c) ==
    /\ At(c, "files") /\ GoTo(c, "env")
    /\ staged' = [staged EXCEPT !.files = Manifest[job[c].v].files]
    /\ UNCHANGED <<latest, saved, env, template, live, gateway, applied, settled, faults>>

WriteEnv(c) ==
    /\ At(c, "env")
    /\ env' = Manifest[job[c].v].proxy
    /\ GoTo(c, IF job[c].op = "update" THEN "materialize" ELSE "ctl")
    /\ UNCHANGED <<latest, saved, staged, template, live, gateway, applied, settled, faults>>

\* Mutant of CtlStart: a program already started counts as one just started.
CtlStartAnyway(c) ==
    /\ At(c, "ctl") /\ job[c].op = "start"
    /\ IF gateway = "stopped" THEN gateway' = "booting" ELSE UNCHANGED gateway
    /\ GoTo(c, "record")
    /\ UNCHANGED <<latest, saved, staged, env, template, live, applied, settled, faults>>

\* supervisorctl start: "already started" while a boot is under way, with the bundle rewritten.
CtlStart(c) ==
    /\ At(c, "ctl") /\ job[c].op = "start"
    /\ IF gateway = "stopped" THEN gateway' = "booting" /\ GoTo(c, "record")
                              ELSE UNCHANGED gateway /\ Finish(c)
    /\ UNCHANGED <<latest, saved, staged, env, template, live, applied, settled, faults>>

CtlRestart(c) ==
    /\ At(c, "ctl") /\ job[c].op = "restart"
    /\ gateway' = "booting" /\ GoTo(c, "record")
    /\ UNCHANGED <<latest, saved, staged, env, template, live, applied, settled, faults>>

CtlStop(c) ==
    /\ At(c, "ctl") /\ job[c].op = "stop"
    /\ gateway' = "stopped" /\ Finish(c)
    /\ UNCHANGED <<latest, saved, staged, env, template, live, applied, settled, faults>>

\* materialize_bundle: what is not in the volume leaves its copy alone; workspaces being
\* written are copied half or not at all.
CopiedOut ==
    [config : {IF staged.config = None THEN template.config ELSE staged.config},
     files  : IF staged.files = None THEN {None, template.files} ELSE {staged.files}]

\* copy_runtime_config and sync_all_workspaces.
Activated ==
    [config |-> IF template.config = None THEN live.config ELSE template.config,
     files  |-> template.files]

\* openclaw_start apply-bundle: copy the volume out, then make the copies what OpenClaw reads.
ApplyMaterializes(c) ==
    /\ At(c, "materialize") /\ GoTo(c, "activate")
    /\ template' \in CopiedOut
    /\ UNCHANGED <<latest, saved, staged, env, live, gateway, applied, settled, faults>>

ApplyActivates(c) ==
    /\ At(c, "activate") /\ GoTo(c, "record")
    /\ live' = Activated
    /\ UNCHANGED <<latest, saved, staged, env, template, gateway, applied, settled, faults>>

\* write_applied_config_version, and the command is completed.
Record(c) ==
    /\ At(c, "record") /\ Finish(c)
    /\ applied' = job[c].v
    /\ settled' = job[c].alone
    /\ UNCHANGED <<latest, saved, staged, env, template, live, gateway, faults>>

\* The same for a bundle found unchanged, which nobody copied out.
RecordUnchanged(c) ==
    /\ At(c, "recordUnchanged") /\ Finish(c)
    /\ applied' = job[c].v
    /\ settled' = (settled /\ job[c].alone)
    /\ UNCHANGED <<latest, saved, staged, env, template, live, gateway, faults>>

\* Mutant of Fails: the version is recorded although the command failed.
FailsButRecords(c) ==
    /\ Disturb /\ Busy(c) /\ job[c].v # None
    /\ applied' = job[c].v /\ settled' = job[c].alone
    /\ gateway' = gateway /\ Finish(c)
    /\ UNCHANGED <<latest, saved, staged, env, template, live>>

\* A step fails: the command is over, what was done stays done.  supervisorctl may time out
\* before or after it has stopped or started the program; the version file may not be written.
Fails(c) ==
    /\ Disturb /\ Busy(c)
    /\ gateway' \in IF At(c, "ctl") /\ job[c].op # "start" THEN {gateway, "stopped", "booting"}
                    ELSE IF At(c, "ctl") /\ gateway = "stopped" THEN {"stopped", "booting"}
                    ELSE {gateway}
    /\ settled' = (settled /\ ~At(c, "recordUnchanged"))
    /\ Finish(c)
    /\ UNCHANGED <<latest, saved, staged, env, template, live, applied>>

Command(c) ==
    \/ RefusedWhileRunning(c) \/ RefusedNewProxy(c) \/ ProbeErrs(c) \/ Unchanged(c) \/ Proceeds(c)
    \/ WriteConfig(c) \/ ClearFiles(c) \/ WriteFiles(c) \/ WriteEnv(c)
    \/ CtlStart(c) \/ CtlRestart(c) \/ CtlStop(c) \/ ApplyMaterializes(c) \/ ApplyActivates(c)
    \/ Record(c) \/ RecordUnchanged(c) \/ Fails(c)

-----------------------------------------------------------------------------
(* OpenClaw under supervisord, the agent's process, the cloud.             *)

\* openclaw_start gateway: the same two copies, then OpenClaw answers.
BootMaterializes ==
    /\ gateway = "booting" /\ gateway' = "loaded"
    /\ template' \in CopiedOut
    /\ UNCHANGED <<latest, saved, staged, env, live, applied, job, settled, faults>>

BootActivates ==
    /\ gateway = "loaded" /\ live' = Activated
    /\ live'.config # None /\ gateway' = "running"
    /\ UNCHANGED <<latest, saved, staged, env, template, applied, job, settled, faults>>

\* validate_config finds no configuration; supervisord tries again, and at last gives up.
BootRefused ==
    /\ gateway = "loaded" /\ live' = Activated
    /\ live'.config = None /\ gateway' \in {"booting", "stopped"}
    /\ UNCHANGED <<latest, saved, staged, env, template, applied, job, settled, faults>>

\* autorestart=true, up to startretries.
GatewayCrashes ==
    /\ Disturb /\ gateway # "stopped" /\ gateway' \in {"booting", "stopped"}
    /\ UNCHANGED <<latest, saved, staged, env, template, live, applied, job, settled>>

\* The agent server ends in the middle of its commands; OpenClaw goes on.
AgentDies ==
    /\ Disturb /\ \E c \in Callers : Busy(c)
    /\ job' = [c \in Callers |-> NoJob]
    /\ UNCHANGED <<latest, saved, staged, env, template, live, gateway, applied, settled>>

OwnerChanges ==
    /\ latest < MaxVersion /\ latest' = latest + 1
    /\ UNCHANGED <<saved, staged, env, template, live, gateway, applied, job, settled, faults>>

Next ==
    \/ \E c \in Callers, op \in Ops : ExecutorBegins(c, op) \/ LocalBegins(c, op)
    \/ \E c \in Callers : Command(c)
    \/ ManifestPosted \/ BootMaterializes \/ BootActivates \/ BootRefused \/ GatewayCrashes \/ AgentDies
    \/ OwnerChanges

Spec == Init /\ [][Next]_vars

-----------------------------------------------------------------------------
(* Safety.                                                                 *)

\* Once the last bundle written was written by one caller alone and to the end, OpenClaw, when it
\* answers, runs with the bundle of the version reported as applied, through crashes, boots
\* and later commands that change nothing.
SettledIsLive ==
    settled /\ gateway = "running" => applied # None /\ live = Rendered(applied)

\* A version is recorded only while its whole bundle is on disk, whatever failed before, unless
\* another caller was at work meanwhile.
RecordedIsOnDisk ==
    [][\A c \in Callers : applied' # applied /\ Busy(c) /\ ~Busy(c)' /\ job[c].alone
          => staged = Rendered(applied')]_vars

\* A hot update leaves the proxy as it is, unless somebody else is at work on it.
UpdateKeepsProxy ==
    [][\A c \in Callers : WriteEnv(c) /\ job[c].op = "update" /\ job[c].alone => env' = env]_vars

\* sellerclaw-config-version is what the agent last applied: while OpenClaw answers with the
\* version reported, the next one is reported once it runs with that.  A failed apply followed by
\* its retry breaks it, the retry finding the bundle on disk unchanged.
RecordedAsApplied ==
    [][applied # None /\ gateway = "running" /\ live = Rendered(applied) /\ applied' # applied
          => live = Rendered(applied')]_vars

-----------------------------------------------------------------------------
(* The invariant the proofs rest on.                                       *)

\* Two jobs at once know of each other.
NoneAloneOfTwo ==
    \A c, d \in Callers : c # d /\ Busy(c) /\ Busy(d) => ~job[c].alone

\* The bundle of v is what is on disk and what every later boot or activation makes live.
Served(v) ==
    /\ staged = Rendered(v)
    /\ gateway = "loaded" => template = Rendered(v)
    /\ gateway = "running" => live = Rendered(v)

\* Which commands come by a step.
StepsOfOps ==
    \A c \in Callers :
        /\ Busy(c) <=> job[c].op # "none"
        /\ job[c].op = "stop" => At(c, "ctl")

\* What a job that met nobody has done by the step it is at.
Progress ==
    \A c \in Callers : job[c].alone =>
        /\ job[c].at \in {"clear", "files"} => staged.config = Manifest[job[c].v].config
        /\ job[c].at \in {"env", "materialize", "activate", "recordUnchanged"} => staged = Rendered(job[c].v)
        /\ At(c, "ctl") /\ job[c].op # "stop" => staged = Rendered(job[c].v)
        /\ At(c, "activate") => template = Rendered(job[c].v)
        /\ At(c, "record") => Served(job[c].v)
        /\ job[c].op = "update" /\ ~At(c, "check") => env = Manifest[job[c].v].proxy

\* While a bundle is being written or brought live, no bundle counts as settled.
UnderWay(c) ==
    \/ job[c].at \in {"clear", "files", "env", "materialize", "activate", "record"}
    \/ At(c, "ctl") /\ job[c].op # "stop"

SettledIsServed ==
    settled => /\ applied # None /\ Served(applied)
               /\ \A c \in Callers : ~UnderWay(c)

IInv == TypeOK /\ NoneAloneOfTwo /\ StepsOfOps /\ Progress /\ SettledIsServed

=============================================================================

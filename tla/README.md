# A TLA+ development of the SellerClaw agent

SellerClaw runs an OpenClaw assistant in a container on the owner's machine. A Python *agent
server* (`sellerclaw_agent/`) keeps that container connected to the SellerClaw cloud, carries out
the cloud's remote commands and feeds the owner's messages to OpenClaw; TypeScript *plugins*
inside the OpenClaw gateway (`plugins/`) answer the owner and mirror the owner's scheduled tasks
to the cloud. This directory models the protocols between these parts: the agent server's
concurrent loops and files, the cloud as they use it, the programs they start and stop, and the
plugin's turns, sends and stores.

## Inventory

| Part | Source | State it keeps | Operations | Hard behaviour | Module |
|---|---|---|---|---|---|
| Ping loop | `server/ping_loop.py`, `cloud/connection_client.py` | `edge_session.json`, dispatched command, registry copy of it | connect, ping, report a result, disconnect | lost answers, sessions replaced by other instances, 401/403/409, blocked queue | `EdgeAgent` |
| Command executor | `server/edge_commands.py` | queue of 8, one-slot result store | run a command on the supervisor thread, publish its result | result slot shared with the ping loop, long commands, crashes | `EdgeAgent` |
| SSE listeners | `cloud/unified_listener.py`, `chat_listener.py`, `hooks_listener.py` | last forwarded ids, the session read at start | stream, forward, clear a rejected session | redelivery, late answers, a stop overtaking its message | `ChatPath`, `EdgeAgent` |
| Sign-in | `cloud/service.py`, `credentials.py` | `agent_token.json` | device flow, sign out | races with a 401 in the ping loop | `EdgeAgent` |
| Watchdog | `server/task_watchdog.py`, `runtime_registry.py` | restart counts, liveness shown | respawn, give up, shut down | done callbacks after the stop flag | `Watchdog` |
| Cron standby (agent) | `cloud/cron_standby.py` | `cron_standby.json`, last confirmed state, lock | ask the plugin to be on standby or active | requests abandoned at a timeout go on | `CronStandby` |
| Cron sync (plugin) | `sellerclaw-ui/src/cron-sync.ts` | sync file (epoch, sequence, standby, pending removals), restore queue | project, restore, enter/leave standby, report removals | async workers over one cron store, aborted attempts, restarts | `CronStandby`, `CronMirror` |
| Cron commands | `cloud/cron_commands.py` | recently seen request ids, a lock | execute a frame, report | duplicates, loss between seen and done | `CronMirror` |
| OpenClaw supervision | `cloud/supervisor_manager.py`, `runtime/commands/openclaw_start` | bundle on disk, live config, applied version | start, stop, restart, hot update | partial failure, retries, two callers | `BundleApply` |
| Browser view | `cloud/supervisor_manager.py`, `cloud/browser_tunnel.py` | supervised programs, X socket, tunnel | open, close, stream, redial | crashing wrapper, stop against a launch, polling errors | `BrowserView` |
| WhatsApp session | `cloud/whatsapp_session_backup.py`, `restore_state.py` | session directory, last fingerprint, lock | upload, restore, remove, log out | logout against upload, torn copy, refused removal | `WhatsappSession` |
| WhatsApp link and status | `cloud/whatsapp_link.py`, `whatsapp_channel.py` | the attempt's runner, the monitor's event | show a code, wait for the scan, report; refresh | attempts replaced, reports lost, a refresh during a read | `WhatsappLink` |
| Inbound turns | `sellerclaw-ui/src/inbound.ts`, `run-outcome.ts`, `owner-turns.ts` | messages in flight, stop marks, continuation count | accept, dispatch, stream, resume, ask again, stop | duplicate delivery, stops anywhere, bounded continuation | `InboundTurn` |
| Completion delivery | `sellerclaw-ui/src/completion-delivery.ts` | pending answers, silenced texts, visible texts | replace the report, hold back, send the answer itself | hooks and delivery in any order | `CompletionDelivery` |
| Outgoing messages | `sellerclaw-ui/src/send.ts`, `channel.ts` | a promise chain per chat | upload, start, parts, end, retry | order past a failure, archived chats | `ChatSends` |
| Thinking stream | `sellerclaw-ui/src/thinking-stream.ts`, `reasoning-relay.ts` | buffers, marks per run | stream, relay from the transcript | two paths to one reader, posts that fail | `ThinkingStream` |
| Bundle building | `bundle/` | none | manifest to `openclaw.json` | lists built apart that must agree | `BundleConfig` |
| Activity, messenger, web search, media, secrets, CLI, diagnostics | see *Not modelled* | | | none | |

The agent server's tasks share one asyncio loop: code between two awaits is atomic. OpenClaw is
started, stopped and probed on one supervisor thread; local HTTP routes run on other threads. The
plugin runs in the gateway's Node process, where the same holds of the code between two awaits.
The cloud is not in the repository: it is modelled from `docs/connection-protocol.md` and from the
answers the client distinguishes, and marked external in the map. The same is done for OpenClaw's
engine, supervisord and the WhatsApp plugin, as far as the code under `src/` tells their moves
apart.

How they interact: the ping loop hands commands to the executor through a queue and takes results
from a one-slot store; both run OpenClaw through the supervisor. The listener forwards the owner's
messages over local HTTP to the plugin's inbound route, whose turns post their parts and their end
to the cloud. The standby loop and the command dispatcher call the plugin's cron routes. The
logout, stop and backup of a WhatsApp session share one lock. Every background task runs under
the watchdog. What makes each part correct is the list of properties under *Runs*.

## Modules

| Module | Models |
|---|---|
| `EdgeAgent`, `EdgeAgentMC`, `EdgeAgentProofs` | ping loop, executor, result store, session and token files, SSE loops' use of the session file, cloud |
| `CommandDelivery`, `CommandDeliveryProofs` | abstract: what the remote commands promise the owner; `EdgeAgent` implements it |
| `CronStandby`, `CronStandbyMC` | the standby handover between agent, plugin, scheduler and cloud |
| `BundleApply`, `BundleApplyMC` | manifest, bundle on disk, OpenClaw's copies, applied version; the manager's commands from two callers |
| `MessageLife` | abstract: what the chat promises of one message |
| `InboundTurn`, `InboundTurnMC`, `InboundTurnProofs` | the plugin's turns in one chat; implements `MessageLife` |
| `ChatPath`, `ChatPathMC` | the agent's listener in front of `MessageLife` |
| `OpenclawProofs`, `CronProofs` | theorems about `BundleApply` and `ChatPath`; about `CronStandby` and `CronMirror` |
| `CompletionDelivery`, `ChatSends`, `ThinkingStream`, `CronMirror`; `PluginServicesMC`, `PluginServicesProofs` | the plugin's other services, checked side by side; the proofs are about the first three |
| `Watchdog`, `WhatsappLink`, `BrowserView`, `BundleConfig`; `AgentServicesMC`, `AgentServicesProofs` | the agent server's other services, checked side by side, and proofs about all four |
| `WhatsappSession`, `WhatsappSessionMC`, `WhatsappSessionProofs` | session files, their copy in the cloud, the backup loop, logout and restore |

`PluginServicesMC` and `AgentServicesMC` hold services that share no state: a variable `part`
chooses the one that moves in a behaviour, so that one run covers the sum of their states and not
the product.

### EdgeAgent

The ping loop is `pc`: `top` (start of an iteration), `probe` (OpenClaw and browser probes under
way), `call` (a request to the cloud under way, described by `call`), `put` (blocked in
`command_queue.put`), `stopped` (returned after a remote disconnect), `dead` (given up by the
watchdog). `dispatched` is `dispatched_command_id` together with its copy in the registry, which
the code always sets together and which survives a respawn of the loop. `held` is the command
`put` is blocked with. The executor is `exec`: a phase and the command it holds; `ack` is
`CommandResultStore`'s slot. A file that does not exist is session `0`.

A request is three actions: the loop sends it (`SendPing`, `SendResult`, `ConnectGranted`), the
cloud acts and answers (`CloudAnswers...`), the loop handles the answer (one action per `except`
clause). `AnswerLost` replaces an unhandled answer, or a request the cloud never saw, by a
transport error; the client's timeouts and its lack of a token end the same way. Each probe and
each threaded command occupies the single supervisor thread, so `SendResult` and `BeginProbe`
wait while `exec.phase = "thread"`.

In a command the thread part may be skipped (`SwitchThread` is optional): a command is a
background-thread one (OpenClaw, bundle) or an async one (browser stream, disconnect). What it
did is not in this module; only that it ended and has a result.

`ran`, `ranAgain`, `forgotten`, `lost` are history: commands taken by the executor, taken twice,
forgotten, lost in a crash of the executor. Handling a result resets `dispatched`, whatever is
there. That counts as forgetting another command only if the result is belated (`Belated`): the
cloud had closed its command while the agent was still at it, and handed over the next. A restart
forgets everything. So `RunsOnceUnlessForgotten` also says that a result in time never costs the
memory of another command.

`CommandDelivery` is the abstract specification: a command's status in the cloud, the commands that
ran, the results taken. `KeepsDelivery` states that `EdgeAgent` implements it with `status <- cmd`
and the two histories as they are; sessions, files, queue, result slot and both loops vanish in
the mapping, most of their steps being stutters.

### CronStandby

The agent's side is `wish` (the file), `acked` (`_acked`) and `rpc` (the request it waits for).
The plugin serves a request with a handler of its own; `handler[h].step` names the await it stands
at. Entering standby is mark, list, disable job by job; leaving is confirm, list, remove job by job,
end. The restore worker's items are `restoring`; an item waiting out its pause between two
creations counts as still queued. `adding` are `writer.add` calls in flight, `events` removed-hooks
not yet handled, `resetIds` and `removals` the plugin's two lists of removed job ids. Snapshots and
the cloud's answer are `snapshot`; what the cloud keeps is `tasks`, `known` and `had`. Task content,
run history and the sequence numbers of snapshots are left out.

### Watchdog

One `task` state per background task, the restart counts of holder (`count`) and registry
(`shown`), and the lifespan's shutdown as `phase` and `visited`. A done callback runs in a later
turn than the crash, so shutdown steps fall in between. `Registered` are the tasks the registry
has an entry for: for any other, `increment_restart` raises in the callback, and the task is
`abandoned`.

### BundleApply

`job[c]` is the command of a caller: `executor` (cloud commands, one at a time) or `local` (the
HTTP routes, which run on threads of their own); `job[c].at` is the file write, subprocess or
cloud call it does next. `staged` is the bundle volume (openclaw.json; workspaces and shared
skills as one part), `template` what `materialize_bundle` copied out of it, `live` what OpenClaw
reads, `env` the proxy in `runtime.env`, `applied` the file reported in every ping. `None` stands
for a part that is not there or half written. `gateway` is the supervisord program; it boots in
the same two copies as `apply-bundle`. `Fails(c)` ends a command at any step with what was done so
far left done; a `supervisorctl` that times out may have acted or not. A bundle in the cloud is
its version and `Manifest[v]` its content: two versions may share parts, and `Unchanged` compares
content, as the code does. `alone` and `settled` are history: nobody else worked on the bundle
during a command, and the last bundle written was written alone and to the end.

The model has one local command at a time, and no `CONFIG_BUNDLE_URL`: with it every boot fetches
a bundle of its own into the volume. Which proxy the running programs were started with is left
out (`gost` and Chrome read `runtime.env` at their start), as are the browser program and the
workspace files users own. One file's write counts as one step.

### InboundTurn and MessageLife

All turns of a chat share one session of OpenClaw: one run of the engine (`run`), one stop mark
(`ownerAbort`), one verdict on record (`verdict`), one count of resumptions (`resumed`). A turn is
a record whose `at` is the await it stands at: dispatching, refused admission, running, queued
behind another run, settled or crashed (about to decide its outcome), ending (posting its end).
`inFlight` is the gateway's guard against a second copy of a message; `guarded` says which turn
holds it. `Finish` is the whole decision at the end of a run: report, resume, ask again, or silence
with a reason. A resumed turn keeps the slot or runs outside it as in the code; `apart` remembers
messages of which cloud and gateway once thought differently (a post of the end was lost, or a
copy was written before the end arrived), which are sent again by design. The engine's moves
(admit, steer into a run, queue, drop, end with a verdict) are the environment's.

`MessageLife` is what remains when turns are forgotten: open or closed at the cloud, taken up
under the guard, worked on outside it. `KeepsMessageLife` maps `held` to `inFlight` and `loose` to
the messages with an open turn outside the guard.

### ChatPath

It EXTENDS `MessageLife`, so the gateway's work is the abstract one, and adds the road to it: the
agent's transport is one unified stream or a chat and a hooks stream (chosen at start), `wire` is
what the cloud has written and nobody has read, `handling` the one event a listener is awaiting on.
Forwarding waits for OpenClaw; a post the listener gave up on may still be held by the gateway
(`late`). `forwarded` is the listener's memory of message ids, empty after a restart. On every
connect the cloud sends again what is open. Hooks are reported to the cloud as delivered or
dropped (`heard`).

### CompletionDelivery

One session whose completion runs follow each other. `due` are hooks the engine has still to call
and `road` what it sends on the outbound road; neither is ordered against the other. `messaged`,
`toolFlag`, `seen`, `pending`, `silenced` and `rescue` are the plugin's maps. The time windows of
the code are taken to be longer than the moments they are made for. Runs whose delivery passed
for a tool's own send, or whose rescue failed, are in `excused`; runs whose answer the engine and
the rescue had in hand at once are in `overlapped`.

### ChatSends

A send is prepared (its file uploaded first), queued behind the last promise of its chat's key,
posted as start, parts and end, each request tried `WEBHOOK_MAX_ATTEMPTS` times, and cleared from
the queue in a later turn (`clearing`). A chat is named in three spellings that
`NormalizeTarget` makes one. `line` is the order of queueing.

### ThinkingStream

One run and the origins its session needs. Live thinking is buffered in `buf` and posted through a
FIFO (`chain`); at the end of an attempt the relay reads the transcript and posts the rounds the
stream never saw. `told` counts what the owner was told of each piece, `missed` has the pieces of
the posts that failed: of the stream that post only, of the relay also the blocks behind it, as the
code gives up a relay at its first failure. `early` and `amiss` mark the runs the code itself
declines or gives up.

### CronMirror

The active instance: `file` and `disk` are the sync file in memory and on disk, `projection` the
attempt under way, `flying` the snapshots on their way, which arrive in any order. Removed
events reach the plugin as hooks of their own. The cloud keeps, per task, the epochs of the
store that had it, drops what is not newer, and hands back what this epoch never had. A delete
command goes through the dispatcher's lock and memory of seen ids, may be given up by a timeout
and go on. `forgiven` are the tasks whose removal the gateway lost before it was saved, cut from a
full list, or raced a restore.

### WhatsappSession

`session`, the files on disk, is an account and the write each of its two parts is from, so that a
copy read during a write is torn visibly. `holder` and `step` are the lock and how far its holder
is: the backup loop's tick, the stop command's last copy, the logout. `copy` is the cloud's archive,
`uploaded` and `print` the fingerprints the loop remembers and has just taken. The plugin connects,
writes and notices a missing directory on its own. `looping` turns false when the loop ends
for good: a removal that raises leaves it, and the watchdog does not know it.

### WhatsappLink, BrowserView, BundleConfig

`WhatsappLink` has the manager's runner (`runner`, `at`, with its retries and waits counted), what
the cloud was told of each attempt, and the status monitor with its event (`wake`).
`BrowserView` has supervisord's two programs, the display server that may outlive its wrapper, its
socket file, Chrome as launched by OpenClaw, the browser command under way by steps, and the
tunnel's runner. `BundleConfig` is functional: a manifest of switches, channels, model routing and
team is accepted or refused (`ManifestAccepted`), and `openclaw.json` is rendered from
it; its only steps are the owner's edits and the renders, in which plugins, tools, models and
agents are sets and the texts of prompts and skills are left out.

## How the modules meet

`EdgeAgent`'s executor runs a command as a thread step and a result: `BundleApply`, `BrowserView`
and `WhatsappSession` are what happens in that step, for start, stop, restart and
update_manifest, for the browser commands, and for stop and logout. `EdgeAgent`'s accepted ping and
its 409 are what `CronStandby` calls `PingAccepted` and `ConnectRefused`. `EdgeAgent`'s
crashes are followed by what `Watchdog` models of respawning, with the restart counts repeated in it
because giving up changes what is promised; `WhatsappSession` repeats the watchdog's failure on
an unknown name for the same reason. `ChatPath` and `InboundTurn` meet in `MessageLife`, whose
actions the one conjoins with the listener's and the other implements. `CronStandby` and
`CronMirror` share the plugin's sync file: the one is about instances that hand the session over,
the other about the instance that holds it.

## Runs

| Run | Properties | Shows |
|---|---|---|
| `EdgeFaults` | `NoPutPublishDeadlock`, `NoCommandIgnored`, `RunsOnceUnlessForgotten`, `ResultAccountedFor`, `KeepsDelivery` | with four commands, one a disconnect, a queue of one and any one disturbance: the loops never block each other, no live command is ignored for good, none runs twice unless its id was forgotten (at a restart, or behind a command the cloud had closed), results are kept until they are settled, and every step is one of `CommandDelivery`'s |
| `EdgeLive` | `Reconnects`, `PipelineDrains` | with an SSE loop clearing the session file as well: left alone, the agent reconnects, and queued commands leave the pipeline, with a result or lost in their executor's exception |
| `CronStandbyMoves` | `TasksKept`, `ActiveAgain`, `TasksReturn` | session moves, abandoned requests and failures never make the cloud drop a task the owner did not remove; the plugin gets active again, and, when no request was abandoned, tasks are enabled again |
| `BundleCommands` | `SettledIsLive`, `RecordedIsOnDisk` | executor and local routes over one bundle, a failing step or a crash anywhere: no version recorded over a bundle not wholly on disk; a settled bundle is what OpenClaw runs with |
| `InboundTurns` | `OneTurnPerMessage`, `SlotHasItsTurn`, `StoppedStaysQuiet`, `NeverLeftInSilence`, `KeepsMessageLife` | repeated deliveries, stops, lost posts, crashes, follow-ups to the limit: one turn at a time works on a message, its slot is always given back, a stop sticks, silence has a reason, and every step is one of `MessageLife`'s |
| `InboundLive` | `EveryMessageCloses` | every message taken up is closed at the cloud, however often its run is continued |
| `ChatPath` | `StopNeverOvertakes`, `AcknowledgedOnce`, `EveryMessageGetsThrough` | over streams that drop, repeat and reconnect: a stop never reaches the gateway before the message it was written behind, an acknowledged message is handed over again only when the cloud asks for it or from a post given up, every message gets through |
| `PluginServices` | `RawReportStaysInside`, `AnswerShownOnce`, `SendsKeepOrder`, `OutcomeIsOwn`, `NoThoughtMissed`, `DeletionReachesCloud` | the plugin's other services: an answer shown once and never a raw report, sends in order past failures, thoughts told exactly once but for the posts that fail, deletions that stay deleted |
| `AgentServices` | `NothingRunsWhenDown`, `DeadOnlyWhenGivenUp`, `RefreshNotLost`, `AttemptSettles`, `ClosedCanReopen`, `TunnelEnds`, `PluginsAgree`, `UsedModelsOffered`, `TeamReloadsLive` | the agent server's other services: nothing outlives the shutdown, a link attempt ends and says how, a closed view can be opened again and its tunnel ends, the rendered configuration agrees with itself and a change of the team reloads live |
| `WhatsappSession` | `BelievedCopyIsTheCopy`, `LoggedOutStaysOut`, `DisconnectHolds`, `CopyKeepsUp` | what the loop believes uploaded is what the cloud holds, a logged-out account never comes back, and with the loop alive a disconnect clears the files and a changed session reaches the cloud |
| `BundleRetry` | `RecordedAsApplied` | violation, see below |
| `WhatsappDisconnect` | `DisconnectAlwaysHolds` | violation, see below |

### Bounds

* `EdgeFaults`, `EdgeLive`. `QueueMax` is 8 in the code and 1 here: the cloud has one active command
  at a time, so a short queue is what makes the full case happen; the proofs hold for any size.
  Four commands fill the answer, the put, the queue and the executor at once. `MaxInst` bounds the
  session ids the cloud issues: a reconnect needs one more than the disturbances that end a session,
  so `EdgeLive` has seven for two disturbances. `MaxFaults` bounds losses, crashes, takeovers,
  sign-outs and restarts. `MaxTaskRestarts` is 1 so that giving up happens within two crashes, 3 in
  the watchdog's run. Commands of a kind are symmetric (`SameKind`; no liveness in that run).
* `CronStandbyMoves`. One task suffices since tasks do not interact but through the set of present
  ones; two handlers are the least that lets an old request run beside a new one; `MaxId` 4 bounds
  the ids OpenClaw hands out, `MaxMoves` 2 moves of the session, one abandoned request, one failing
  scheduler call or gateway restart.
* `BundleCommands`. Two versions that differ in everything are enough for a torn bundle, a stale
  copy and a changed proxy; one disturbance is checked, any number is proved. Its VIEW
  (`LiveInUse`) leaves out what OpenClaw read before it stopped, which the next boot overwrites unread.
* `InboundTurns`. Two messages and two turns at once (one steered into, queued behind or beside the
  other), one resumption, one repeated dispatch, one disturbance. Messages and turns are symmetric.
  `InboundLive` has one turn at a time, since liveness is checked without symmetry.
* `ChatPath`. Two messages and a hook, two events on the wire (a message and what overtakes it), one
  mishap.
* `PluginServices`. Two completion runs and one live run; three sends, one with a file, into one
  chat in its three spellings, two attempts and two refusals (enough to give one request up); three
  pieces of thinking in up to two attempts, one post lost; two tasks, one of them deleted by a
  command, snapshot numbers up to 2, one break, a pending list of one (500 in the code), so that it
  is cut.
* `AgentServices`. Three tasks, two of them registered; two link attempts with two lost reports;
  one view, one crash, one hiccup; two edits among the manifests `AgentServicesMC` lists, which
  include every way of being refused.
* `WhatsappSession`. Two accounts, two writes, one each of failing calls, restarts and refused
  removals.

Deadlock checking is off where the bounds, the end of the ping loop or the end of the shutdown stop
the system. The largest runs have about two million states.

### Fairness

* Agent server: every task on the event loop that is ready runs (weak fairness of the ping loop,
  the executor and the done callbacks). Starting to probe needs the supervisor thread, which a
  command takes and gives back again, and the thread pool serves in order (strong fairness). The
  HTTP clients have timeouts, so a request ends with an answer or as lost. The cloud ends a silent
  session as stale. A command in the executor ends: its subprocesses have timeouts. Nothing is
  assumed of the owner, of other instances, or of a disturbance.
* `CronStandbyMoves`: served requests go on, snapshots are answered, hooks run. `TasksReturn` is
  promised when the agent gave up no request (`[](timeouts = 0)` is its premise): a late enter or
  leave, served after its timeout, may disable or enable the jobs after the one that followed it.
  `ActiveAgain` needs no such premise.
* `InboundLive`: the engine decides what it does with a dispatch and ends its runs; posts return;
  the cloud sends an open message again. A queued turn gets its run although other messages keep
  the session busy (strong fairness of `QueuedRuns`): the engine serves its queue in order.
* `ChatPath`: listeners handle the event they hold, streams end and are connected again, OpenClaw
  comes back and ends the work it took up. Reading is strongly fair because the connection goes up
  and down between reads.
* `AgentServices`: the link's runner goes on (each of its waits has a deadline) and the owner's view
  is closed at some time. `TunnelEnds` needs the tunnel's runner alone.
* `WhatsappSession`: weak fairness of the copy's steps, the plugin and the logout's request; strong
  fairness of those who wait for the lock, which asyncio hands over in order, and of a tick that
  meets the files while the plugin is not writing (`CopyKeepsUp` would not hold of a plugin that
  writes at every tick).

## What is proved

Every theorem holds for all values of the constants the modules' ASSUMEs allow: any number of
commands, tasks, messages, turns, sessions, faults. A run checks the same formula on a small
instance. Of the properties the runs check, all invariants and all action properties are proved, and
so are the refinements of `CommandDelivery` and of `MessageLife`; what is left to the runs is
liveness. What each of the two abstract specifications promises is stated at its end and proved there
once, of its few steps; the refinement carries it to the detailed specification.

`EdgeAgentProofs`: `TypeCorrect`, `PutNeverMeetsPublish`, `AckKept`, `StopsReported`. The blocking
pair is not inductive alone. The argument: the main path (probes, connect, ping, the put) starts
only with the slot free. If the executor fills it meanwhile, it becomes idle, and it can come to
publish again only by taking a command from the queue, which leaves room in it
(`RoomWhileUnacked`). The other conjuncts of `IInv` say that whoever is busy holds a command and
whoever is not holds none, and that a report accepted by the cloud is recorded there (`WorkInHand`),
which gives `StopsOnlyAfterReport`. One lemma per group of actions (`PingLoopKeeps`,
`ExecutorKeeps`, `CloudKeeps`, `WorldKeeps`, `LocalKeeps`), one step per action. `AckKept` is an
action property from the type of the slot and the guards of the actions that write it.

`CommandDeliveryProofs`: `DeliveryKept`, `RunsOnceKept`, `NothingIgnored`, `ResultsAccounted`,
`DoneHasRun`, `CommandsEndOnce`.
`HandedOver` says that every id in the last answer, in `put`, in the queue, in the executor and in
the slot is a command handed over, and from the executor on one that ran. With it each step maps to
a step or a stutter of `CommandDelivery` (`StepDelivers`); and since the abstract steps only add to
what was handed over and to what ran (`GivenGrows`), `HandedOver` itself is kept. Through the refinement
the edge agent has what follows of `CommandDelivery`: `Promised` (`DoneHasRun`) and `EndsOnce`
(`CommandsEndOnce`).
That no command runs twice and none is ignored needs two layers more. `SInv` is what agent and cloud
agree on about sessions: a call is made with the session of the file, and a result with the one it
was earned in; a command still open belongs to the session it was handed over in; and once the cloud
has handed over anything in its session, the agent knows of no other and will not be refused
(`TouchIsMutual`). `MInv` is what the loop's one remembered id is good for: what the agent has taken
up and not forgotten is the remembered command, or the cloud is done with it, or holds no session the
agent can still ping in (`UsedIsKnown`). So an offer of something taken up before and
not forgotten is an offer of the remembered command, which the loop passes over; and it is passed
over only while that command is still in the agent, or died with the executor. `BInv` says when the
loop may forget: work of any command but the remembered one is of a closed command or of a forgotten
one (`BehindClosed`), because an offer passes over only what is over, and what is done is out of the
agent by then, unless it was forgotten and taken up again (`DoneIsForgotten`).

`OpenclawProofs`, about `BundleApply` for any manifests and either or both callers: `TypeCorrect`,
`SettledStaysLive`, `RecordedStaysOnDisk`, `ProxyKept`. None of the last three is inductive alone.
`Progress` says, for a job that met nobody, what the volumes hold at the step it is at;
`NoneAloneOfTwo`, that of two jobs at once both know of it, so a job alone is the only one that can
disturb its own progress; `SettledIsServed`, that while a bundle is settled the disk has it, every
copy still to be read is the same, and no job is between its first write and its record. The version
recorded and the content live then agree through every boot (`WholeCopy`).
About `ChatPath`: `StopsComeInOrder` and `NothingGivenTwice`. `OnceSent` says that whatever is on a
wire, in a listener's hand or forwarded was sent by the owner before; a stop names what was sent when
it was written, so nothing written after it can be a message it stops, but for one already forwarded
that the cloud sends again. `StopsInOrder` says this of every stop on a wire or in hand and every
place behind it; reading moves the places by one, and a new connection begins with nothing live.
`ChatPath` takes the gateway's steps from `MessageLife`; `PathIsLife` says that nothing else on the
path touches a message's life, so that composing the two is sound, and `ClosedOnThePath` is what
follows there (`WorkIsWritten`, `ClosedByWork`).

`InboundTurnProofs`: `SlotsAreHeld`, `OneTurnEach`, `StopSticks`, `SilenceIsAnswered`,
`LifeKept`, the refinement of `MessageLife`, and `ClosedByTurns`, what follows of it. The invariant is built in two layers. `TurnIInv`: types, a free
turn is quiet, and a message in flight has exactly one guarded open turn (stated with sets, so that
`FiniteSetTheorems` is needed only where the cardinality is). `RunIsOpen`: the session's run
belongs to an open turn. From these, `Together`: a turn outside the guard goes on only after the
cloud closed its message, unless the two disagree (`apart`). Actions fall into those that leave
message, guard and openness of every turn alone (`KeepsTurns`), which are dealt with at once, and the
three that move a slot: acceptance, the end of a turn, and the end of the gateway.

`WhatsappSessionProofs`: `BelievedIsHeld`, `GoneStaysGone`. The copy believed uploaded is exact only
because each write of the plugin is unlike any before (`SeenOnly`), and because only the holder of
the lock reads, uploads or forgets; what it has read meanwhile is bound to its step.

`AgentServicesProofs`: of `Watchdog`, `NothingOutlivesShutdown` (from `VisitedStayStopped`: what the
shutdown has visited stays stopped, and it ends only when all are visited) and `DeadShownRight`
(from `CountsAgree`: registry and holder count alike); of `WhatsappLink`, `RefreshKept` (from
`RequestIsHeld`: a request is held by the event also while the monitor reads); of `BrowserView`,
`CloseLeavesNothing` (from `CloseIInv`, which says step by step what a close has already removed,
whatever crashed or was launched behind it). Of `BundleConfig`, `PluginsKeptTogether`,
`ModelsKeptOffered` and `TeamsReload`. The invariant `ConfigIInv` only says where a configuration
came from, an accepted manifest; the work is in lemmas about the functions that render it, for every
accepted manifest: the slots, search and WhatsApp follow the same switch wherever they are
written; every group a model is used from is a provider, and the media filter takes away no model
that is not an image or video model too; the tools of the agent that leads depend on the browser
alone.

`CronProofs`, about `CronStandby`: `TasksStayKept`. The cloud forgets a task only for an id it was
told is removed. `OwnIds` says that the ids a task goes by, its job's and the one the cloud knows,
are its own and no other task's; `KeptUnreported`, that none of them is `Reported` unless the owner
removed the task: not on the list of removals, not in a snapshot on its way, and not in a
removed-hook yet to be handled whose id is not among `resetIds`. Most steps only take ids out of what
is reported or leave it alone (`LeavesIds`) and are dealt with at once; four get a lemma each: a
removal by a leaving standby, one by the owner, a creation that lands, and a snapshot that is posted.
About `CronMirror`: `DeletionsArrive`. Snapshots cross, get lost and are answered late, so the
invariant orders them by their numbers: those on their way are of this store with a number handed out
before or of an older store (`NumbersGrow`), and the one being answered is the one the attempt put
together (`AnswerIsOwn`). `ShownIsOwed` says that a snapshot which shows a deleted task and may still
be accepted leaves its removal owed: in the file, or in an event still to run. `ToldApart` says that
no snapshot both shows a task and tells its removal, so what an accepted one told may be dropped from
the file. `OldStoresApart` is why a restart with a lost sync file does no harm. The pending list is a
sequence that is cut and filtered; what cutting, appending and filtering do to its members
(`BoundedIs`, `AppendIs`, `WithoutIs`) is proved for lists of every length, the filter, a recursive
function, by its least counterexample (`NatMin`).

`PluginServicesProofs`, about `ChatSends`: `SendsInOrder` and `OutcomesOwned`. A send waits for one
promise, not for all ahead of it. `LeftInOrder` says that for each earlier send of the chat it is
settled or the later one still waits for a send no earlier than it, which is enough because that one
left the queue only when the same held of it; `EntryIsLast`, that the key's entry is the chat's last
send, or gone with all of them settled. `OutcomesOwned` rests on `TakenSoFar`: up to the request it
is at, the cloud has all of a send's turn while the chat is open.
About `CompletionDelivery`: `ReportsStayInside` and `AnswersOnce`. Runs of a session follow each
other and one delivery at a time is on the road (`OneAtATime`); a report on its way of a run that
wrote anything meets that run's text, the hook that records it, or the record (`ReportsMet`); and of
an answer that was shown none of the ways to show it again is left, its own delivery, the record, a
text taken over, the rescue send (`ShownIsDone`).
About `ThinkingStream`: `ThoughtsAreTold`. A run is spoken for by the stream or by the relay, never by
both (`ByStream`, `ByRelay`). The stream's part is one line of pieces with cut points: told up to the
first but for the posts that failed, then one stretch per post waiting in the FIFO, then what is held
(`LaidOut`). Every step moves cut points or adds one, so nothing falls between two and nothing is told
twice; a post that fails moves the first cut as one that is told does. The relay tells a
round when it takes it off its list, and `EndsOnce` says it is given the list once.

### From which assumptions

The assumptions on constants are typing (bounds are numbers, a set's "none" is not in the set) but
for these. `InboundAssumption`, `BundleApply`'s and `ChatSends`': the code's limits, at least one
attempt per request, a manifest per version. `ChatAssumption`: the messages are finite, so that what
is sent again on a connection can be written out in some order. `CompletionAssumption`: announced and
live runs are apart, and `None` is no record. `CloudAssumption` (`BundleConfig`): the lists of the
cloud's manifests are sequences, and of each section there is an accepted value, without which there
is no configuration to speak of. No theorem assumes anything of fairness.

### Only model-checked

* Liveness: `Reconnects`, `PipelineDrains`, `ActiveAgain`, `TasksReturn`, `EveryMessageCloses`,
  `EveryMessageGetsThrough`, `AttemptSettles`, `TunnelEnds`, `DisconnectHolds`, `CopyKeepsUp`. The
  prover has no rules for fairness and ENABLED.
* Nothing else: every invariant and action property of a passing run has its theorem.

The library's induction theorems take an operator, which the provers cannot instantiate; where data
is gone through step by step (`CronMirror`'s filter), the induction is by a least counterexample,
which the well-foundedness of finite sets under inclusion gives. The modules use no RECURSIVE
operators.

## Disagreements found

Two runs show code against its documentation:

1. `BundleRetry`: after a bundle was written and not brought live, the retried update finds the
   disk unchanged, records the version and completes; OpenClaw keeps running with the old one
   until its next start, and the cloud has no reason to send it again.
2. `WhatsappDisconnect`: an `rmtree` refused once ends the backup loop by its exception; the
   watchdog fails on the loop's name, which the registry does not have (a KeyError in
   `increment_restart`, `task_watchdog.py:42`), and never starts it again. The dropped session stays
   on disk, though "Disconnect holds even when this command was never delivered".

The modules also state, next to their properties, sentences of the source that do not hold of it. No
run has them; add one to the run's cfg to see its counterexample:

| Definition | Module | The sentence and what happens |
|---|---|---|
| `StandbyOnlyWhenReplaced` | `EdgeAgent` | `exceptions.py:55-57`, "a refusal means somebody else is the owner's agent right now": a lost connect answer makes the agent refuse itself |
| `GoodTokenKept` | `EdgeAgent` | `credentials.py:84-86`: the ping loop does clear the token file on a 401, and a token signed in for meanwhile goes with it |
| `ConfirmedStandbyHolds` | `CronStandby` | `cron_standby.py:99`: a leave request the agent timed out of ends a standby confirmed since, and nothing sends standby again |
| `RestartedUpToLimit` | `Watchdog` | `task_watchdog.py:23`: a task the registry does not know is not restarted once |
| `LiveAnswerPasses` | `CompletionDelivery` | `completion-delivery.ts:589-590`, "a normal chat turn's own delivery must pass through untouched": a decision pending for a completion run is taken for a live answer that crosses first (638) |
| `CrashIsReported` | `InboundTurn` | `run-outcome.ts:33-34`: a stop mark can be charged to a later turn and silence its crash |
| `TunnelLastsAsLong` | `BrowserView` | `browser_tunnel.py:183`, "treat cloud hiccups as 'still active'": a poll without an answer ends the tunnel (185, 147-153) |

Behaviours the models contain which no document speaks against:

* An SSE loop clears `edge_session.json` on the rejection of a session it read before waiting for
  OpenClaw, although the file may hold a newer one by then (the agent reconnects).
* A job whose creation was begun before standby may land after it and stay enabled (`AddLands`).
* A task restored and deleted again before the cloud was told comes back; so does one whose removal
  was cut from a full list or lost with the gateway (`forgiven` in `CronMirror`).
* A message that meets OpenClaw down for more than 30 seconds waits for the next reconnect; a hook
  answered late is reported dropped though it ran.
* Thinking that comes before the spawn hook, or of a second attempt after the first one's end, is
  dropped; one relay post that fails drops the rest of its relay.
* An outgoing part that is refused leaves its turn started and never ended; a media upload precedes
  the queueing and may let a later text go first.
* An upload between the cloud's own deletion and the manifest's arrival leaves a copy nobody
  deletes; OpenClaw coming back during a logout writes the files again.
* A link attempt whose last wait times out is reported expired though it was scanned meanwhile.
* A model named both as image or video model and for text, pdf, compaction or flush passes
  `RefResolves` and no provider offers it for the latter; `UsedModelsOffered` is stated for models
  of one role.

## Not modelled, and why

* Agent activity and messenger: a heartbeat payload computed from session files, and a single
  outgoing request; no protocol state of their own.
* Plugin web search: stateless request adapters.
* Media upload and secrets store: single-request file operations.
* Command line tools and watch screen, diagnostics, container, installers: front ends over the
  local API, reports, image building and process wrappers.
* Of the modelled parts: heartbeat payloads; the device flow's polling; command history, status
  routes and the API key; run reports and the back-offs of the cron worker, the run backfill, and
  the add, update and run-now commands; the archive of the agent's state and `CONFIG_BUNDLE_URL`
  (with it every boot fetches a bundle of its own into the volume); the goal brief and the hand-in
  of background results; the texts of messages, prompts and skills.
* A put blocked for ever behind a full queue whose executor was given up: the properties about
  drained commands exempt a dead executor, which the panel shows as dead.

## Plan

1. The run backfill's merged requests, and the add, update and run-now commands, in `CronMirror`.
2. The archive of the agent's state beside `BundleApply`; two views in `BrowserView`.
3. An abstract specification of what the mirror of the tasks promises, implemented by `CronMirror`
   and `CronStandby` alike; `ThinkingStream` and `CompletionDelivery` shown to implement one reader's
   view of the chat.

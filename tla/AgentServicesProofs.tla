------------------------ MODULE AgentServicesProofs ------------------------
(***************************************************************************)
(* Theorems about Watchdog, WhatsappLink's monitor, BrowserView's close    *)
(* and BundleConfig, for any tasks and restart limit, any number of        *)
(* attempts, views, crashes, lost reports and failing calls, and any       *)
(* manifests.                                                              *)
(***************************************************************************)
EXTENDS Watchdog, WhatsappLink, BrowserView, BundleConfig, TLAPS

-----------------------------------------------------------------------------
(* The watchdog.                                                            *)

\* The lifespan starts with every task running and nothing counted.
LEMMA InitWatchIInv == WatchInit => WatchIInv
  BY TasksAssumption DEF WatchInit, WatchIInv, WatchTypeOK, VisitedStayStopped, CountsAgree,
     DeadOnlyWhenGivenUp, StopIsSet

\* A task that crashes or returns changes nothing but its own state, and a running task is never
\* one that was given up.
LEMMA TaskEndsKeeps ==
  ASSUME WatchIInv, NEW t \in Tasks, Crashes(t) \/ Returns(t)
  PROVE  WatchIInv'
  <1> USE TasksAssumption DEF WatchIInv, Crashes, Returns
  <1>1. WatchTypeOK'  BY DEF WatchTypeOK
  <1>2. VisitedStayStopped'  BY DEF WatchTypeOK, VisitedStayStopped, StopIsSet
  <1>3. CountsAgree'  BY DEF WatchTypeOK, CountsAgree
  <1>4. DeadOnlyWhenGivenUp'  BY DEF WatchTypeOK, DeadOnlyWhenGivenUp
  <1> QED  BY <1>1, <1>2, <1>3, <1>4

\* A done callback before stop starts a task only while the shutdown has visited nobody's holder,
\* and gives it up exactly when its count passes the limit.
LEMMA DoneKeeps ==
  ASSUME WatchIInv, NEW t \in Tasks, CallbackDone(t)
  PROVE  WatchIInv'
  <1> USE TasksAssumption DEF WatchIInv
  <1>1. CASE DoneAfterStop(t)
    <2> USE <1>1 DEF DoneAfterStop
    <2>1. WatchTypeOK'  BY DEF WatchTypeOK
    <2>2. VisitedStayStopped'  BY DEF WatchTypeOK, VisitedStayStopped, StopIsSet
    <2>3. CountsAgree'  BY DEF WatchTypeOK, CountsAgree
    <2>4. DeadOnlyWhenGivenUp'  BY DEF WatchTypeOK, DeadOnlyWhenGivenUp
    <2> QED  BY <2>1, <2>2, <2>3, <2>4
  <1>2. CASE DoneRegistered(t)
    <2> USE <1>2 DEF DoneRegistered
    <2>1. count[t] \in 0 .. MaxTaskRestarts /\ shown[t] = count[t]
      BY DEF WatchTypeOK, CountsAgree, DeadOnlyWhenGivenUp
    <2>2. WatchTypeOK'
      <3>1. count[t] + 1 \in 0 .. MaxTaskRestarts + 1 /\ shown[t] + 1 \in 0 .. MaxTaskRestarts + 1
        BY <2>1
      <3>2. count' \in [Tasks -> 0 .. MaxTaskRestarts + 1] /\ shown' \in [Registered -> 0 .. MaxTaskRestarts + 1]
        BY <3>1 DEF WatchTypeOK
      <3>3. CASE count'[t] <= MaxTaskRestarts  BY <3>2, <3>3 DEF WatchTypeOK
      <3>4. CASE ~(count'[t] <= MaxTaskRestarts)  BY <3>2, <3>4 DEF WatchTypeOK
      <3> QED  BY <3>3, <3>4
    <2>3. VisitedStayStopped'  BY DEF WatchTypeOK, VisitedStayStopped, StopIsSet
    <2>4. CountsAgree'  BY <2>1 DEF WatchTypeOK, CountsAgree
    <2>5. DeadOnlyWhenGivenUp'  BY <2>1 DEF WatchTypeOK, DeadOnlyWhenGivenUp
    <2> QED  BY <2>2, <2>3, <2>4, <2>5
  <1>3. CASE DoneUnregistered(t)
    <2> USE <1>3 DEF DoneUnregistered
    <2>1. count[t] = 0  BY DEF CountsAgree
    <2>2. WatchTypeOK'  BY <2>1 DEF WatchTypeOK
    <2>3. VisitedStayStopped'  BY DEF WatchTypeOK, VisitedStayStopped, StopIsSet
    <2>4. CountsAgree'  BY DEF WatchTypeOK, CountsAgree
    <2>5. DeadOnlyWhenGivenUp'  BY DEF WatchTypeOK, DeadOnlyWhenGivenUp
    <2> QED  BY <2>2, <2>3, <2>4, <2>5
  <1> QED  BY <1>1, <1>2, <1>3 DEF CallbackDone

\* Each step of the shutdown leaves what it has dealt with stopped.
LEMMA ShutdownKeeps ==
  ASSUME WatchIInv, ShutdownBegins \/ StopSet \/ ShutdownEnds \/ \E t \in Tasks : CancelHolder(t)
  PROVE  WatchIInv'
  <1> USE TasksAssumption DEF WatchIInv
  <1>1. CASE ShutdownBegins
    BY <1>1 DEF ShutdownBegins, WatchTypeOK, VisitedStayStopped, StopIsSet, CountsAgree,
       DeadOnlyWhenGivenUp
  <1>2. CASE StopSet
    <2> USE <1>2 DEF StopSet
    <2>1. visited = {}  BY DEF VisitedStayStopped, StopIsSet
    <2> QED
      BY <2>1 DEF WatchTypeOK, VisitedStayStopped, StopIsSet, CountsAgree, DeadOnlyWhenGivenUp
  <1>3. CASE ShutdownEnds
    BY <1>3 DEF ShutdownEnds, WatchTypeOK, VisitedStayStopped, StopIsSet, CountsAgree,
       DeadOnlyWhenGivenUp
  <1>4. ASSUME NEW t \in Tasks, CancelHolder(t)
        PROVE  WatchIInv'
    <2> USE <1>4 DEF CancelHolder
    <2>1. WatchTypeOK'  BY DEF WatchTypeOK
    <2>2. VisitedStayStopped'  BY DEF WatchTypeOK, VisitedStayStopped, StopIsSet
    <2>3. CountsAgree'  BY DEF WatchTypeOK, CountsAgree
    <2>4. DeadOnlyWhenGivenUp'  BY DEF WatchTypeOK, DeadOnlyWhenGivenUp
    <2> QED  BY <2>1, <2>2, <2>3, <2>4
  <1> QED  BY <1>1, <1>2, <1>3, <1>4

\* The inductive invariant holds in every behaviour.
THEOREM Invariant == WatchSpec => []WatchIInv
  <1>1. WatchInit => WatchIInv  BY InitWatchIInv
  <1>2. WatchIInv /\ [WatchNext]_watchVars => WatchIInv'
    <2> SUFFICES ASSUME WatchIInv, [WatchNext]_watchVars PROVE WatchIInv'  OBVIOUS
    <2>1. CASE UNCHANGED watchVars
      BY <2>1 DEF watchVars, WatchIInv, WatchTypeOK, VisitedStayStopped, StopIsSet, CountsAgree,
         DeadOnlyWhenGivenUp
    <2>2. CASE WatchNext
      BY <2>2, TaskEndsKeeps, DoneKeeps, ShutdownKeeps DEF WatchNext
    <2> QED  BY <2>1, <2>2
  <1> QED  BY <1>1, <1>2, PTL DEF WatchSpec

\* Once the lifespan's shutdown is over no background task runs: a late done callback starts none.
THEOREM NothingOutlivesShutdown == WatchSpec => []NothingRunsWhenDown
  <1>1. WatchIInv => NothingRunsWhenDown
    BY DEF WatchIInv, VisitedStayStopped, NothingRunsWhenDown, StopIsSet
  <1> QED  BY <1>1, Invariant, PTL

\* The registry shows a task dead exactly when the watchdog has used up its restarts.
THEOREM DeadShownRight == WatchSpec => []DeadOnlyWhenGivenUp
  <1>1. WatchIInv => DeadOnlyWhenGivenUp  BY DEF WatchIInv
  <1> QED  BY <1>1, Invariant, PTL

-----------------------------------------------------------------------------
(* The status monitor.                                                      *)

\* Nothing the owner, the commands or the runner do takes a request back.
LEMMA RunnerKeepsRequest ==
  ASSUME RequestIsHeld,
         \/ \E a \in Attempts : OwnerOpens(a)
         \/ OwnerCloses \/ LinkCommand \/ LogoutStopsRunner \/ RunnerStep
  PROVE  RequestIsHeld'
  <1> USE DEF RequestIsHeld, monitorVars, RefreshSoon
  <1>1. ASSUME NEW a \in Attempts, OwnerOpens(a) PROVE RequestIsHeld'
    BY <1>1 DEF OwnerOpens
  <1>2. CASE OwnerCloses  BY <1>2 DEF OwnerCloses
  <1>3. CASE LinkCommand  BY <1>3 DEF LinkCommand
  <1>4. CASE LogoutStopsRunner  BY <1>4 DEF LogoutStopsRunner
  <1>5. CASE RunnerStep
    <2>1. CASE ReportsPreparing  BY <2>1 DEF ReportsPreparing
    <2>2. CASE PollsPlugin  BY <2>2 DEF PollsPlugin
    <2>3. CASE StartsLogin  BY <2>3 DEF StartsLogin
    <2>4. CASE ShowsCode  BY <2>4 DEF ShowsCode
    <2>5. CASE WaitsForScan  BY <2>5 DEF WaitsForScan
    <2>6. CASE LearnsNumber  BY <2>6 DEF LearnsNumber
    <2>7. CASE ReportsOutcome  BY <2>7 DEF ReportsOutcome
    <2> QED  BY <1>5, <2>1, <2>2, <2>3, <2>4, <2>5, <2>6, <2>7 DEF RunnerStep
  <1> QED  BY <1>1, <1>2, <1>3, <1>4, <1>5

\* The monitor clears its event and the request together, before it reads.
LEMMA MonitorKeepsRequest ==
  ASSUME RequestIsHeld, BeginsRead \/ EndsRead
  PROVE  RequestIsHeld'
  BY DEF RequestIsHeld, BeginsRead, EndsRead

\* A refresh asked for at any moment, also while the status is read, is answered by another read:
\* the monitor never sleeps on it.
THEOREM RefreshKept == LinkSpec => []RefreshNotLost
  <1>1. LinkInit => RequestIsHeld  BY DEF LinkInit, RequestIsHeld
  <1>2. RequestIsHeld /\ [LinkNext]_linkVars => RequestIsHeld'
    <2> SUFFICES ASSUME RequestIsHeld, [LinkNext]_linkVars PROVE RequestIsHeld'  OBVIOUS
    <2>1. CASE UNCHANGED linkVars  BY <2>1 DEF linkVars, RequestIsHeld
    <2>2. CASE LinkNext  BY <2>2, RunnerKeepsRequest, MonitorKeepsRequest DEF LinkNext
    <2> QED  BY <2>1, <2>2
  <1>3. RequestIsHeld => RefreshNotLost  BY DEF RequestIsHeld, RefreshNotLost
  <1> QED  BY <1>1, <1>2, <1>3, PTL DEF LinkSpec

-----------------------------------------------------------------------------
(* The browser's close.                                                     *)

\* OpenClaw, its launcher, supervisord and the display: whatever starts the browser again also
\* takes back that it is closed.
LEMMA DisplayKeepsClosed ==
  ASSUME CloseIInv, GatewayMoves \/ ToolLaunches \/ Display
  PROVE  CloseIInv'
  <1> USE DEF CloseIInv, ClosedCanReopen, Closing, displayVars, workVars, tunnelVars, KasmStarts
  <1>1. CASE GatewayMoves  BY <1>1 DEF GatewayMoves
  <1>2. CASE ToolLaunches  BY <1>2 DEF ToolLaunches
  <1>3. CASE KasmSettles  BY <1>3 DEF KasmSettles
  <1>4. CASE WrapperDies  BY <1>4 DEF WrapperDies
  <1>5. CASE KasmRestarts  BY <1>5 DEF KasmRestarts
  <1>6. CASE LauncherStartsKasm  BY <1>6 DEF LauncherStartsKasm
  <1>7. CASE LauncherEnds  BY <1>7 DEF LauncherEnds
  <1> QED  BY <1>1, <1>2, <1>3, <1>4, <1>5, <1>6, <1>7 DEF Display

\* A command takes the mark back with its first step, and only a close whose stops and cleanup
\* all succeeded sets it.
LEMMA CommandsKeepClosed ==
  ASSUME CloseIInv, Commands
  PROVE  CloseIInv'
  <1> USE DEF CloseIInv, ClosedCanReopen, Closing, displayVars, tunnelVars, Done
  <1>1. CASE OpenCommand  BY <1>1 DEF OpenCommand
  <1>2. CASE StartsKasm \/ StartUnanswered  BY <1>2 DEF StartsKasm, StartUnanswered, KasmStarts
  <1>3. CASE AwaitsKasm  BY <1>3 DEF AwaitsKasm
  <1>4. CASE StartsGost  BY <1>4 DEF StartsGost
  <1>5. CASE WaitsForDisplay
    <2>1. ~closed'  BY <1>5 DEF WaitsForDisplay
    <2>2. work' = "idle"  BY <1>5 DEF WaitsForDisplay
    <2> QED  BY <2>1, <2>2
  <1>6. CASE CloseCommand  BY <1>6 DEF CloseCommand, TunnelStops
  <1>7. CASE StopsKasm  BY <1>7 DEF StopsKasm
  <1>8. CASE StopsGost  BY <1>8 DEF StopsGost
  <1>9. CASE Cleans  BY <1>9 DEF Cleans, CleansUp
  <1>10. CASE StreamCommand  BY <1>10 DEF StreamCommand
  <1>11. CASE StreamProbes
    <2>1. ~closed'  BY <1>11 DEF StreamProbes
    <2>2. work' \in {"idle", "starts_kasm"}  BY <1>11 DEF StreamProbes
    <2> QED  BY <2>1, <2>2
  <1> QED  BY <1>1, <1>2, <1>3, <1>4, <1>5, <1>6, <1>7, <1>8, <1>9, <1>10, <1>11 DEF Commands

\* A runner that has ended does not start by itself.
LEMMA TunnelKeepsClosed ==
  ASSUME CloseIInv, CloudOrRunner
  PROVE  CloseIInv'
  <1> USE DEF CloseIInv, ClosedCanReopen, Closing, displayVars, workVars, tunnelVars, OnlyTunnel, TunnelGoes
  <1>1. ASSUME NEW v \in Views, OwnerOpensView(v) PROVE CloseIInv'
    BY <1>1 DEF OwnerOpensView
  <1>2. CASE OwnerClosesView  BY <1>2 DEF OwnerClosesView
  <1>3. CASE TunnelChecks  BY <1>3 DEF TunnelChecks
  <1>4. CASE TunnelDials  BY <1>4 DEF TunnelDials
  <1>5. CASE TunnelParked  BY <1>5 DEF TunnelParked, ParkTimesOut
  <1>6. CASE ViewerAttaches  BY <1>6 DEF ViewerAttaches
  <1>7. CASE TunnelBreaks  BY <1>7 DEF TunnelBreaks
  <1> QED  BY <1>1, <1>2, <1>3, <1>4, <1>5, <1>6, <1>7 DEF CloudOrRunner

\* After a close that completed, nothing is left that would keep the next open from binding the
\* display, whoever starts and stops what around it.
THEOREM CloseLeavesNothing == BrowserSpec => []ClosedCanReopen
  <1>1. BrowserInit => CloseIInv  BY DEF BrowserInit, CloseIInv, ClosedCanReopen, Closing
  <1>2. CloseIInv /\ [BrowserNext]_browserVars => CloseIInv'
    <2> SUFFICES ASSUME CloseIInv, [BrowserNext]_browserVars PROVE CloseIInv'  OBVIOUS
    <2>1. CASE UNCHANGED browserVars
      BY <2>1 DEF browserVars, displayVars, workVars, tunnelVars, CloseIInv, ClosedCanReopen,
         Closing
    <2>2. CASE BrowserNext
      BY <2>2, DisplayKeepsClosed, CommandsKeepClosed, TunnelKeepsClosed DEF BrowserNext
    <2> QED  BY <2>1, <2>2
  <1>3. CloseIInv => ClosedCanReopen  BY DEF CloseIInv
  <1> QED  BY <1>1, <1>2, <1>3, PTL DEF BrowserSpec

-----------------------------------------------------------------------------
(* The configuration.                                                       *)

\* What a parsed manifest says of its agents.
LEMMA ParsedTeam ==
  ASSUME NEW m \in Manifests, ManifestAccepted(m), NEW ag, ag = Parsed(m).agents
  PROVE  /\ ag \in Seq(ToSet(ag)) /\ Len(ag) # 0 /\ ag[1].is_entry_point
         /\ \A i \in DOMAIN ag : ag[i].is_entry_point => i = 1
         /\ \A i \in DOMAIN ag : ag[i].model \in {"primary", "secondary"}
         /\ \A i, j \in DOMAIN ag : ag[i].id = ag[j].id => i = j
  <1> DEFINE in == m.agents
             lead == in.main_agent
             raws == in.subagents
             subs == [i \in DOMAIN raws |-> ParsedAgent(in, raws[i], FALSE, {})]
             team == {subs[i].id : i \in DOMAIN subs}
             first == ParsedAgent(in, lead, TRUE, team)
             n == Len(raws)
  <1>1. raws \in Seq(ToSet(raws)) /\ AgentsAccepted(in)
    BY CloudAssumption DEF Manifests, ManifestAccepted
  <1>2. n \in Nat /\ DOMAIN raws = 1..n  BY <1>1
  <1>3. ag = <<first>> \o subs  BY DEF Parsed, ParsedAgents
  <1>4. subs \in Seq({subs[i] : i \in 1..n}) /\ Len(subs) = n
    <2>1. subs = [i \in 1..n |-> subs[i]]  BY <1>2
    <2> HIDE DEF subs
    <2> QED BY <1>2, <2>1
  <1>5. first.is_entry_point /\ first.id = lead.id /\ first.model = SpecModel(in, lead)
    BY DEF ParsedAgent
  <1>6. \A i \in 1..n : /\ ~subs[i].is_entry_point /\ subs[i].id = raws[i].id
                        /\ subs[i].model = SpecModel(in, raws[i])
    BY <1>2 DEF ParsedAgent
  <1> HIDE DEF first, subs
  <1> DEFINE S == {first} \cup {subs[i] : i \in 1..n}
  <1>7. /\ ag \in Seq(S) /\ Len(ag) = n + 1 /\ ag[1] = first
        /\ \A i \in 2..(n + 1) : ag[i] = subs[i - 1]
    <2>1. <<first>> \in Seq(S) /\ subs \in Seq(S) /\ Len(<<first>>) = 1 /\ <<first>>[1] = first
      BY <1>4
    <2> HIDE DEF S
    <2>2. ag \in Seq(S) /\ Len(ag) = n + 1  BY <1>2, <1>3, <1>4, <2>1
    <2>3. ag[1] = first  BY <1>2, <1>3, <1>4, <2>1
    <2>4. \A i \in 2..(n + 1) : ag[i] = subs[i - 1]  BY <1>2, <1>3, <1>4, <2>1
    <2> QED BY <2>2, <2>3, <2>4
  <1> HIDE DEF S
  <1>8. DOMAIN ag = 1..(n + 1) /\ ag \in Seq(ToSet(ag))
    <2>1. DOMAIN ag = 1..(n + 1)  BY <1>2, <1>7
    <2>2. ag = [i \in 1..(n + 1) |-> ag[i]]  BY <1>7, <2>1
    <2>3. \A i \in 1..(n + 1) : ag[i] \in ToSet(ag)  BY <2>1 DEF ToSet
    <2> QED BY <1>2, <2>1, <2>2, <2>3
  <1>9. ASSUME NEW i \in 1..(n + 1)
        PROVE  i = 1 \/ (i - 1 \in 1..n /\ ag[i] = subs[i - 1])
    BY <1>2, <1>7
  <1>10. \A i \in DOMAIN ag : ag[i].is_entry_point => i = 1
    BY <1>6, <1>8, <1>9
  <1>11. \A i \in DOMAIN ag : ag[i].model \in {"primary", "secondary"}
    <2>1. SpecModel(in, lead) \in {"primary", "secondary"}  BY <1>1 DEF AgentsAccepted, SpecAccepted
    <2>2. \A i \in 1..n : SpecModel(in, raws[i]) \in {"primary", "secondary"}
      BY <1>1, <1>2 DEF AgentsAccepted, SpecAccepted
    <2>3. ASSUME NEW i \in 1..(n + 1)  PROVE ag[i].model \in {"primary", "secondary"}
      <3>1. CASE i = 1  BY <3>1, <1>5, <1>7, <2>1
      <3>2. CASE i # 1
        <4>1. i - 1 \in 1..n /\ ag[i] = subs[i - 1]  BY <1>9, <3>2
        <4> QED BY <4>1, <1>6, <2>2
      <3> QED BY <3>1, <3>2
    <2> QED BY <1>8, <2>3
  <1>12. \A i, j \in DOMAIN ag : ag[i].id = ag[j].id => i = j
    <2> DEFINE all == <<lead>> \o raws
    <2>1. \A i, j \in DOMAIN all : all[i].id = all[j].id => i = j  BY <1>1 DEF AgentsAccepted
    <2>2. DOMAIN all = 1..(n + 1) /\ all[1] = lead /\ \A i \in 2..(n + 1) : all[i] = raws[i - 1]
      <3> DEFINE R == {lead} \cup ToSet(raws)
      <3>1. <<lead>> \in Seq(R) /\ Len(<<lead>>) = 1 /\ <<lead>>[1] = lead  OBVIOUS
      <3>2. raws \in Seq(R)  BY <1>1
      <3> HIDE DEF R
      <3>3. all \in Seq(R) /\ Len(all) = n + 1  BY <3>1, <3>2
      <3>4. all[1] = lead  BY <3>1, <3>2
      <3>5. \A i \in 2..(n + 1) : all[i] = raws[i - 1]  BY <1>2, <3>1, <3>2
      <3> QED BY <3>3, <3>4, <3>5
    <2> HIDE DEF all
    <2>3. ASSUME NEW i \in 1..(n + 1)  PROVE ag[i].id = all[i].id
      <3>1. CASE i = 1  BY <3>1, <1>5, <1>7, <2>2
      <3>2. CASE i # 1
        <4>1. i - 1 \in 1..n /\ ag[i] = subs[i - 1] /\ i \in 2..(n + 1)  BY <1>2, <1>9, <3>2
        <4> QED BY <4>1, <1>6, <2>2
      <3> QED BY <3>1, <3>2
    <2> QED BY <1>8, <2>1, <2>2, <2>3
  <1> QED BY <1>2, <1>5, <1>7, <1>8, <1>10, <1>11, <1>12

\* What the configuration says of each agent, and of the one that leads.
LEMMA RenderedTeam ==
  ASSUME NEW m \in Manifests, ManifestAccepted(m), NEW p, p = Parsed(m), NEW host,
         NEW c, c = OpenclawConfig(p, host)
  PROVE  /\ EntryPoint(p) = 1 /\ 1 \in DOMAIN p.agents /\ c.hooks = AgentIds(p)
         /\ DOMAIN c.agents = AgentIds(p)
         /\ \A i \in DOMAIN p.agents : c.agents[p.agents[i].id] = AgentEntry(p.llm, p.agents[i])
  <1> DEFINE ag == p.agents
             of(id) == CHOOSE a \in ToSet(ag) : a.id = id
  <1>1. /\ ag \in Seq(ToSet(ag)) /\ Len(ag) # 0 /\ ag[1].is_entry_point
        /\ \A i \in DOMAIN ag : ag[i].is_entry_point => i = 1
        /\ \A i, j \in DOMAIN ag : ag[i].id = ag[j].id => i = j
    BY ParsedTeam
  <1>2. c.agents = [id \in AgentIds(p) |-> AgentEntry(p.llm, of(id))] /\ c.hooks = AgentIds(p)
    BY DEF OpenclawConfig
  <1> HIDE DEF ag
  <1>3. 1 \in DOMAIN ag  BY <1>1
  <1>4. EntryPoint(p) = 1  BY <1>1, <1>3 DEF EntryPoint, ag
  <1>5. ASSUME NEW i \in DOMAIN ag  PROVE of(ag[i].id) = ag[i] /\ ag[i].id \in AgentIds(p)
    <2>1. ag[i] \in ToSet(ag)  BY DEF ToSet
    <2>2. of(ag[i].id) \in ToSet(ag) /\ of(ag[i].id).id = ag[i].id  BY <2>1
    <2>3. PICK j \in DOMAIN ag : of(ag[i].id) = ag[j]  BY <2>2 DEF ToSet
    <2>4. j = i  BY <1>1, <2>2, <2>3
    <2> QED BY <2>3, <2>4 DEF AgentIds, ag
  <1> HIDE DEF of
  <1> QED BY <1>2, <1>3, <1>4, <1>5 DEF ag

\* Nothing is rendered at first.
LEMMA ConfigInitIs == ConfigInit => ConfigIInv
  <1> SUFFICES ASSUME ConfigInit PROVE ConfigIInv  OBVIOUS
  <1>1. (CHOOSE l \in Routings : LlmAccepted(l)) \in Routings  BY CloudAssumption
  <1>2. (CHOOSE t \in Teams : AgentsAccepted(t)) \in Teams  BY CloudAssumption
  <1>3. (CHOOSE c \in Channelings : ChannelsAccepted(c)) \in Channelings  BY CloudAssumption
  <1>4. raw \in Manifests  BY <1>1, <1>2, <1>3 DEF ConfigInit, Manifests
  <1> QED BY <1>4 DEF ConfigInit, ConfigIInv, Rendered

\* An edit leaves what was rendered; a build that is not refused renders an accepted manifest.
LEMMA ConfigKept == ConfigIInv /\ [ConfigNext]_configVars => ConfigIInv'
  <1> SUFFICES ASSUME ConfigIInv, [ConfigNext]_configVars  PROVE ConfigIInv'  OBVIOUS
  <1>1. CASE CloudEdits
    <2>1. raw' \in Manifests  BY <1>1 DEF ConfigIInv, CloudEdits, Manifests
    <2> QED BY <1>1, <2>1 DEF ConfigIInv, CloudEdits, Rendered
  <1>2. CASE Build
    <2>1. UNCHANGED <<raw, hosted>>  BY <1>2 DEF Build
    <2>2. CASE UNCHANGED <<parsed, config>>  BY <2>1, <2>2 DEF ConfigIInv, Rendered
    <2>3. CASE ManifestAccepted(raw) /\ parsed' = Parsed(raw) /\ config' = OpenclawConfig(parsed', hosted)
      BY <2>1, <2>3 DEF ConfigIInv
    <2> QED BY <1>2, <2>2, <2>3 DEF Build
  <1>3. CASE UNCHANGED configVars  BY <1>3 DEF configVars, ConfigIInv, Rendered
  <1> QED BY <1>1, <1>2, <1>3 DEF ConfigNext

\* What comes with a switch, or with WhatsApp, comes everywhere at once.
LEMMA PluginsFit == ConfigIInv => PluginsAgree
  <1> SUFFICES ASSUME ConfigIInv, Rendered  PROVE PluginsAgree  BY DEF PluginsAgree
  <1>1. PICK m \in Manifests : ManifestAccepted(m) /\ parsed = Parsed(m) /\ config = OpenclawConfig(parsed, hosted)
    BY DEF ConfigIInv
  <1> DEFINE on == WhatsappOn(parsed)
             lead == parsed.agents[EntryPoint(parsed)].id
  <1>2. lead \in config.hooks  BY <1>1, RenderedTeam DEF AgentIds
  <1>3. /\ config.plugins = Plugins(parsed) /\ config.channels = RenderedChannels(parsed)
        /\ config.skillsOff = SkillsOff(parsed) /\ config.bindings = Bindings(parsed)
        /\ config.search = IF "web_search" \in parsed.switches THEN {"sellerclaw-web-search"} ELSE {}
    BY <1>1 DEF OpenclawConfig
  <1>4. (\E c \in config.channels : c.name = "whatsapp" /\ c.on) <=> on
    <2> DEFINE telegram == [name |-> "telegram", on |-> parsed.channels.telegram.enabled,
                            policy |-> TelegramPolicy(parsed.channels.telegram)]
               whatsapp == [name |-> "whatsapp", on |-> TRUE, policy |-> "allowlist"]
               sellerclaw == [name |-> "sellerclaw-ui", on |-> TRUE, policy |-> "owner"]
    <2>1. \A c \in config.channels : c.name = "whatsapp" => on
      <3>1. \A c \in config.channels : c \in {sellerclaw, telegram} \/ on
        BY <1>3 DEF RenderedChannels
      <3>2. sellerclaw.name # "whatsapp" /\ telegram.name # "whatsapp"  OBVIOUS
      <3> QED BY <3>1, <3>2
    <2>2. on => whatsapp \in config.channels  BY <1>3 DEF RenderedChannels
    <2> QED BY <2>1, <2>2
  <1>5. "whatsapp" \in config.plugins.allow <=> on  BY <1>3 DEF Plugins, AllowedPlugins, MemorySlot, Ours
  <1>6. "wacli" \in config.skillsOff <=> on  BY <1>3 DEF SkillsOff
  <1>7. (\E a \in config.hooks : <<a, "whatsapp">> \in config.bindings) <=> on
    BY <1>2, <1>3 DEF Bindings
  <1>8. /\ config.plugins.slots \subseteq config.plugins.paths \cap config.plugins.allow \cap config.plugins.entries
        /\ config.plugins.entries \subseteq config.plugins.allow /\ config.search \subseteq config.plugins.entries
    <2> DEFINE memory == IF "memory" \in parsed.switches THEN {"openclaw-mem0"} ELSE {}
               extra == memory \cup (IF "web_search" \in parsed.switches THEN {"sellerclaw-web-search"} ELSE {})
                               \cup (IF on THEN {"whatsapp"} ELSE {})
    <2>1. /\ config.plugins.slots = memory /\ config.plugins.paths = memory
          /\ config.plugins.allow = Ours \cup {"browser"} \cup extra /\ config.plugins.entries = Ours \cup extra
      BY <1>3 DEF Plugins, PluginPaths, MemorySlot, AllowedPlugins, EnteredPlugins
    <2>2. config.search \subseteq extra  BY <1>3
    <2>3. memory \subseteq extra  OBVIOUS
    <2> HIDE DEF memory, extra
    <2> QED BY <2>1, <2>2, <2>3
  <1> QED BY <1>4, <1>5, <1>6, <1>7, <1>8 DEF PluginsAgree

\* A declared model that is neither image nor video is offered.
LEMMA ResolvedOffered ==
  ASSUME NEW llm, NEW host, NEW ref, RefResolves(llm, ref),
         ModelId(llm, ref) \notin {ModelId(llm, r) : r \in MediaRefs(llm)},
         ~(ModelId(llm, ref)[2] # "" /\ ModelId(llm, ref)[3] \in {"image", "video"})
  PROVE  LET offers == Providers(llm, host)
         IN  ModelId(llm, ref) \in UNION {offers[g].models : g \in DOMAIN offers}
  <1> DEFINE g == ref.group
             named == [group |-> g, model |-> ref.model]
             offers == Providers(llm, host)
  <1>1. g \in DOMAIN llm.groups /\ ref.model \in llm.groups[g].models  BY DEF RefResolves
  <1>2. named \notin MediaRefs(llm)
    <2>1. ModelId(llm, named) = ModelId(llm, ref)  BY DEF ModelId
    <2> QED BY <2>1
  <1>3. ref.model \in ProviderModels(llm, g)  BY <1>1, <1>2 DEF ProviderModels, ModelId
  <1>4. g \in DOMAIN offers /\ offers[g].models = {<<g, llm.groups[g].prefix, m>> : m \in ProviderModels(llm, g)}
    BY <1>1 DEF Providers
  <1> QED BY <1>3, <1>4 DEF ModelId

\* Every model in use is one the manifest resolved.
LEMMA ModelsFit == ConfigIInv => UsedModelsOffered
  <1> SUFFICES ASSUME ConfigIInv, Rendered  PROVE UsedModelsOffered  BY DEF UsedModelsOffered
  <1>1. PICK m \in Manifests : ManifestAccepted(m) /\ parsed = Parsed(m) /\ config = OpenclawConfig(parsed, hosted)
    BY DEF ConfigIInv
  <1> DEFINE llm == parsed.llm
             ag == parsed.agents
             used == {config.agents[a].model : a \in DOMAIN config.agents}
                      \cup {config.defaults.model, config.defaults.compaction, config.defaults.flush,
                            config.defaults.heartbeat.model} \cup config.defaults.pdf
             Refs == {ModelId(llm, ref) : ref \in LlmRefs(llm)}
  <1>2. \A ref \in LlmRefs(llm) : RefResolves(llm, ref)
    BY <1>1 DEF Parsed, ManifestAccepted, LlmAccepted
  <1>3. /\ config.defaults = AgentsDefaults(parsed) /\ config.providers = Providers(llm, hosted)
    BY <1>1 DEF OpenclawConfig
  <1>4. ASSUME NEW a \in DOMAIN config.agents  PROVE config.agents[a].model \in Refs
    <2>1. PICK i \in DOMAIN ag : a = ag[i].id  BY <1>1, RenderedTeam DEF AgentIds
    <2>2. config.agents[a] = AgentEntry(llm, ag[i])  BY <1>1, <2>1, RenderedTeam
    <2>3. ag[i].model \in {"primary", "secondary"}  BY <1>1, ParsedTeam
    <2>4. llm.text[ag[i].model] \in LlmRefs(llm)  BY <2>3 DEF LlmRefs
    <2> QED BY <2>2, <2>4 DEF AgentEntry
  <1>5. /\ config.defaults.model \in Refs /\ config.defaults.compaction \in Refs
        /\ config.defaults.flush \in Refs /\ config.defaults.heartbeat.model \in Refs
        /\ config.defaults.pdf \subseteq Refs
    <2>1. {llm.text.primary, Given(llm.compaction, llm.text.primary), Given(llm.flush, llm.text.primary)}
             \subseteq LlmRefs(llm)
      <3>1. llm.text.primary \in LlmRefs(llm)  BY DEF LlmRefs
      <3>2. \A v : v # Absent => v \in Present(v)  BY DEF Present
      <3>3. Present(llm.compaction) \subseteq LlmRefs(llm) /\ Present(llm.flush) \subseteq LlmRefs(llm)
        BY DEF LlmRefs
      <3> HIDE DEF llm
      <3> QED BY <3>1, <3>2, <3>3 DEF Given
    <2>2. BlockRefs(llm.pdf) \subseteq LlmRefs(llm)  BY DEF LlmRefs, MediaBlocks
    <2>3. ModelBlock(llm, llm.pdf) \subseteq Refs  BY <2>2 DEF ModelBlock
    <2> QED BY <1>3, <2>1, <2>3 DEF AgentsDefaults, ModelDefaults, Heartbeat
  <1>6. used \subseteq Refs  BY <1>4, <1>5
  <1> HIDE DEF used, llm
  <1>7. ASSUME NEW id \in used, id \notin {ModelId(llm, ref) : ref \in MediaRefs(llm)},
               ~(id[2] # "" /\ id[3] \in {"image", "video"})
        PROVE  id \in UNION {config.providers[g].models : g \in DOMAIN config.providers}
    <2>1. PICK ref \in LlmRefs(llm) : id = ModelId(llm, ref)  BY <1>6
    <2>2. RefResolves(llm, ref)  BY <1>2, <2>1
    <2>3. id \in UNION {Providers(llm, hosted)[g].models : g \in DOMAIN Providers(llm, hosted)}
      BY <1>7, <2>1, <2>2, ResolvedOffered
    <2> QED BY <1>3, <2>3
  <1> QED BY <1>7 DEF UsedModelsOffered, used, llm

\* The tools of an agent that is bound to a channel follow from its browser.
LEMMA LeadsTools ==
  ASSUME NEW m \in Manifests, ManifestAccepted(m), NEW p, p = Parsed(m), NEW host,
         NEW c, c = OpenclawConfig(p, host), NEW b \in c.bindings
  PROVE  LET allow == c.agents[b[1]].allow
         IN  allow = IF "browser" \in allow THEN AllowedTools(TRUE, TRUE) ELSE AllowedTools(TRUE, FALSE)
  <1> DEFINE lead == p.agents[1]
             allow == c.agents[b[1]].allow
  <1>1. EntryPoint(p) = 1 /\ 1 \in DOMAIN p.agents /\ c.agents[lead.id] = AgentEntry(p.llm, lead)
    BY RenderedTeam
  <1>2. b[1] = lead.id  BY <1>1 DEF OpenclawConfig, Bindings
  <1>3. allow = AllowedTools(lead.is_entry_point, lead.browser_enabled)
    BY <1>1, <1>2 DEF AgentEntry, TeamTools
  <1>4. lead.is_entry_point = TRUE  BY ParsedTeam
  <1>5. "browser" \in allow <=> lead.browser_enabled  BY <1>3, <1>4 DEF AllowedTools, MemoryTools
  <1> QED BY <1>3, <1>4, <1>5 DEF AllowedTools

\* PluginsAgree: no rendered configuration has OpenClaw refuse to boot, or leave out, a plugin
\* it fills a slot with, searches with or is linked with, whatever manifest it came from.
THEOREM PluginsKeptTogether == ConfigSpec => []PluginsAgree
  BY ConfigInitIs, ConfigKept, PluginsFit, PTL DEF ConfigSpec

\* UsedModelsOffered: no agent, default or heartbeat is rendered with a model no provider offers.
THEOREM ModelsKeptOffered == ConfigSpec => []UsedModelsOffered
  BY ConfigInitIs, ConfigKept, ModelsFit, PTL DEF ConfigSpec

\* The tools of one who leads before and after depend on the browser alone.
LEMMA TeamStep ==
  ASSUME ConfigIInv, ConfigIInv', Rendered, config' # NoConfig, NEW a \in config.hooks \cap config'.hooks,
         \E c \in config.bindings : c[1] = a, \E c \in config'.bindings : c[1] = a,
         ("browser" \in config.agents[a].allow) = ("browser" \in config'.agents[a].allow)
  PROVE  config.agents[a].allow = config'.agents[a].allow
  <1> DEFINE Tools(allow) == IF "browser" \in allow THEN AllowedTools(TRUE, TRUE) ELSE AllowedTools(TRUE, FALSE)
  <1>1. config.agents[a].allow = Tools(config.agents[a].allow)
    <2>1. PICK m \in Manifests : ManifestAccepted(m) /\ parsed = Parsed(m) /\ config = OpenclawConfig(parsed, hosted)
      BY DEF ConfigIInv
    <2>2. PICK b \in config.bindings : b[1] = a  OBVIOUS
    <2> QED BY <2>1, <2>2, LeadsTools
  <1>2. config'.agents[a].allow = Tools(config'.agents[a].allow)
    <2>1. PICK m \in Manifests : ManifestAccepted(m) /\ parsed' = Parsed(m) /\ config' = OpenclawConfig(parsed', hosted')
      BY DEF ConfigIInv, Rendered
    <2>2. PICK b \in config'.bindings : b[1] = a  OBVIOUS
    <2> QED BY <2>1, <2>2, LeadsTools
  <1> QED BY <1>1, <1>2

\* TeamReloadsLive: whatever the cloud edits, the tools of the agent that leads stay.
THEOREM TeamsReload == ConfigSpec => TeamReloadsLive
  <1> DEFINE Kept == (Rendered /\ config' # NoConfig) =>
            \A a \in config.hooks \cap config'.hooks :
                ( /\ \E c \in config.bindings : c[1] = a
                  /\ \E c \in config'.bindings : c[1] = a
                  /\ ("browser" \in config.agents[a].allow) = ("browser" \in config'.agents[a].allow) )
                => config.agents[a].allow = config'.agents[a].allow
  <1>1. ConfigIInv /\ ConfigIInv' /\ [ConfigNext]_configVars => [Kept]_configVars
    BY TeamStep
  <1> QED BY <1>1, ConfigInitIs, ConfigKept, PTL DEF ConfigSpec, TeamReloadsLive

=============================================================================

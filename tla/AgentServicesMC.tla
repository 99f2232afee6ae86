---------------------------- MODULE AgentServicesMC ----------------------------
(* Small instances of the agent's other services for TLC.  They share no    *)
(* state, so a behaviour moves one of them and leaves the others as they    *)
(* started.                                                                 *)
EXTENDS Watchdog, WhatsappLink, BrowserView, BundleConfig

VARIABLE part    \* which of them moves

ServiceVars == <<watchVars, linkVars, browserVars, configVars>>
allVars == <<ServiceVars, part>>

----------------------------------------------------------------------------
(* Manifests *)

Ref(g, m) == [group |-> g, model |-> m]
Block(ref, fallbacks) == [primary |-> ref, fallbacks |-> fallbacks]
Flash == Ref("google", "flash")
Veo == Ref("google", "veo")
Groups == [litellm |-> [url |-> "cloud_proxy", key |-> "key", prefix |-> "u:",
                        models |-> {"complex", "simple", "image", "video"}],
           google  |-> [url |-> "direct", key |-> "key", prefix |-> "", models |-> {"flash", "veo"}]]
UsualLlm == [text |-> [primary |-> Ref("litellm", "complex"), secondary |-> Ref("litellm", "simple")],
             image |-> Block(Ref("litellm", "image"), {}), video |-> Block(Veo, {}), pdf |-> Absent,
             compaction |-> Absent, flush |-> Ref("litellm", "simple"), groups |-> Groups]
SomeRoutings ==
    { UsualLlm,
      [UsualLlm EXCEPT !.pdf = Block(Flash, {Veo}), !.flush = Absent],
      [UsualLlm EXCEPT !.image = Absent, !.video = Absent, !.compaction = Flash],
      [UsualLlm EXCEPT !.video = Block(Flash, {Veo}), !.compaction = Flash],   \* also a media model
      [UsualLlm EXCEPT !.compaction = Ref("litellm", "video")],
      [UsualLlm EXCEPT !.text.secondary = Absent],
      [UsualLlm EXCEPT !.pdf = Block(Absent, {Flash})],
      [UsualLlm EXCEPT !.compaction = Ref("google", "gone")],
      [UsualLlm EXCEPT !.text.secondary = Ref("gone", "simple")],
      [UsualLlm EXCEPT !.groups.google.url = "bad"], [UsualLlm EXCEPT !.groups.google.models = {}] }

Content == [instructions |-> "text", documents |-> {"SOUL.md"}, heartbeat |-> TRUE,
            skills |-> {[name |-> "catalog", references |-> {"guide.md"}]}]
Agent(id) == [id |-> id, model |-> Absent, browser |-> Absent, thinking |-> Absent, content |-> Content]
Team(subs) == [main_agent |-> Agent("lead"), subagents |-> subs, model_default |-> Absent,
               browser_default |-> Absent, thinking_default |-> Absent, every |-> Absent, target |-> Absent]
SomeTeams ==
    { Team(<<>>), Team(<<Agent("s1")>>), Team(<<Agent("s1"), Agent("s2")>>),
      [Team(<<Agent("s1")>>) EXCEPT !.model_default = "secondary", !.every = "30m"],
      [Team(<<[Agent("s1") EXCEPT !.model = "secondary", !.browser = TRUE]>>) EXCEPT !.browser_default = FALSE],
      Team(<<Agent("lead")>>), [Team(<<>>) EXCEPT !.main_agent = Absent],
      [Team(<<>>) EXCEPT !.main_agent.model = "other"],
      Team(<<[Agent("s1") EXCEPT !.content.instructions = ""]>>) }

Telegram(enabled, token, users) == [enabled |-> enabled, token |-> token, users |-> users, groups |-> Absent]
Whatsapp(enabled, numbers) == [enabled |-> enabled, numbers |-> numbers]
SomeChannelings ==
    [primary : {"sellerclaw-ui", "telegram"},
     telegram : {Absent, Telegram(TRUE, "token", {"u"}), Telegram(FALSE, "token", Absent), Telegram(TRUE, "", {})},
     whatsapp : {Absent, Whatsapp(TRUE, {"+1", "no digits"}), Whatsapp(FALSE, {"+1"})}]
    \cup [primary : {"sellerclaw-ui", "whatsapp"}, telegram : {Telegram(TRUE, "token", {})},
          whatsapp : {Whatsapp(TRUE, Absent), Whatsapp(TRUE, {}), Whatsapp(TRUE, {"no digits"})}]

Off == [web_search |-> Absent, cron |-> Absent, web_fetch |-> Absent, memory |-> Absent, path |-> "/agent"]
SomeSettings == { Off, [Off EXCEPT !.web_search = "on", !.memory = "on"], [Off EXCEPT !.memory = "on", !.cron = "off"],
                  [Off EXCEPT !.web_search = "malformed"], [Off EXCEPT !.path = "agent"] }

----------------------------------------------------------------------------
MCInit ==
    /\ part \in {"tasks", "link", "browser", "config"}
    /\ WatchInit /\ LinkInit /\ BrowserInit /\ ConfigInit
    /\ part # "config" => raw.settings = Off /\ signedIn /\ hosted

InTasks(A)   == part = "tasks" /\ A /\ UNCHANGED <<linkVars, browserVars, configVars, part>>
InLink(A)    == part = "link" /\ A /\ UNCHANGED <<watchVars, browserVars, configVars, part>>
InBrowser(A) == part = "browser" /\ A /\ UNCHANGED <<watchVars, linkVars, configVars, part>>
InConfig(A)  == part = "config" /\ A /\ UNCHANGED <<watchVars, linkVars, browserVars, part>>

MCNext == InTasks(WatchNext) \/ InLink(LinkNext) \/ InBrowser(BrowserNext) \/ InConfig(ConfigNext)

\* A started link attempt takes its next step, a started tunnel its own, and a
\* viewer's connection ends with its view.
MCSpec ==
    /\ MCInit /\ [][MCNext]_allVars
    /\ WF_allVars(InLink(RunnerStep))
    /\ WF_allVars(InBrowser(RunnerGoesOn)) /\ WF_allVars(InBrowser(ViewEnds))

=============================================================================

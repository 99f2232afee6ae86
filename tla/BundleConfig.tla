---------------------------- MODULE BundleConfig ----------------------------
(* From the cloud's manifest to what OpenClaw runs from: the manifest is    *)
(* parsed or refused, and openclaw.json and the workspaces are rendered     *)
(* from it or refused, again after every edit of the owner's.               *)
(* Sources: bundle/manifest.py, bundle/builder.py,                          *)
(* bundle/config_generator.py, bundle/archive.py, bundle/agent_bearer.py.   *)
EXTENDS Naturals, Sequences, SequencesExt

CONSTANTS
    Routings,   \* llm blocks the cloud may send
    Teams,      \* agents blocks
    Channelings,\* channels blocks
    Settings,   \* the switches and the API's base path
    MaxEdits, Absent, NoConfig

ASSUME ConfigAssumption == MaxEdits \in Nat /\ Absent # NoConfig

VARIABLES
    raw,        \* the cloud's manifest, as a mapping
    signedIn, hosted,   \* an agent key is at hand; SELLERCLAW_API_URL is set
    parsed, config,     \* of the last render that succeeded
    answer,     \* of the last render: "built", "malformed" or "refused"
    edits

configVars == <<raw, signedIn, hosted, parsed, config, answer, edits>>

Given(v, default) == IF v = Absent THEN default ELSE v
Present(v) == IF v = Absent THEN {} ELSE {v}

-----------------------------------------------------------------------------
(* bundle_manifest_from_mapping.                                            *)

\* A group needs an http(s) URL, a key and models.
GroupAccepted(group) == group.url # "bad" /\ group.key # "" /\ group.models # {}

MediaBlocks(llm) == {llm.image, llm.video, llm.pdf}
BlockRefs(block) == IF block = Absent THEN {} ELSE {block.primary} \cup block.fallbacks

LlmRefs(llm) ==
    {llm.text.primary, llm.text.secondary} \cup (UNION {BlockRefs(b) : b \in MediaBlocks(llm)})
        \cup Present(llm.compaction) \cup Present(llm.flush)

\* Mutant of RefResolves: the group is enough.
GroupResolves(llm, ref) == ref.group \in DOMAIN llm.groups

\* Every reference names a declared group and a model of it.
RefResolves(llm, ref) == ref.group \in DOMAIN llm.groups /\ ref.model \in llm.groups[ref.group].models

LlmAccepted(llm) ==
    /\ Absent \notin {llm.text.primary, llm.text.secondary, llm.groups}
    /\ \A b \in MediaBlocks(llm) : b # Absent => b.primary # Absent
    /\ \A g \in DOMAIN llm.groups : GroupAccepted(llm.groups[g])
    /\ \A ref \in LlmRefs(llm) : RefResolves(llm, ref)

SpecModel(agents, spec) == Given(spec.model, Given(agents.model_default, "primary"))

ContentAccepted(content) == content.instructions # "" /\ \A s \in content.skills : s.name # ""

SpecAccepted(agents, spec) ==
    /\ spec # Absent /\ spec.id # "" /\ ContentAccepted(spec.content)
    /\ SpecModel(agents, spec) \in {"primary", "secondary"}

AgentsAccepted(agents) ==
    /\ Given(agents.model_default, "primary") \in {"primary", "secondary"}
    /\ \A i \in DOMAIN agents.subagents : SpecAccepted(agents, agents.subagents[i])
    /\ SpecAccepted(agents, agents.main_agent)
    /\ LET all == <<agents.main_agent>> \o agents.subagents
       IN  \A i, j \in DOMAIN all : all[i].id = all[j].id => i = j

\* The primary channel must be on, and a channel that is on must say who may write.
TelegramAccepted(tg, primary) ==
    /\ primary = "telegram" => tg # Absent /\ tg.enabled
    /\ (tg # Absent /\ tg.enabled) => tg.token # "" /\ tg.users # Absent

WhatsappAccepted(wa, primary) ==
    /\ primary = "whatsapp" => wa # Absent /\ wa.enabled
    /\ (wa # Absent /\ wa.enabled) => wa.numbers # Absent

ChannelsAccepted(channels) ==
    /\ channels.primary \in {"sellerclaw-ui", "telegram", "whatsapp"}
    /\ TelegramAccepted(channels.telegram, channels.primary)
    /\ WhatsappAccepted(channels.whatsapp, channels.primary)

PathAccepted(path) == path \in {Absent, "", "/agent", "/agent/"}

Switches == {"web_search", "cron", "web_fetch", "memory"}
SwitchAccepted(v) == v \in {Absent, "on", "off"}

\* The cloud's lists are lists, and it has a manifest that is accepted.
ASSUME CloudAssumption ==
    /\ \A t \in Teams : t.subagents \in Seq(ToSet(t.subagents))
    /\ \E l \in Routings : LlmAccepted(l)
    /\ \E t \in Teams : AgentsAccepted(t)
    /\ \E c \in Channelings : ChannelsAccepted(c)

ManifestAccepted(m) ==
    /\ PathAccepted(m.settings.path) /\ \A s \in Switches : SwitchAccepted(m.settings[s])
    /\ LlmAccepted(m.llm) /\ AgentsAccepted(m.agents) /\ ChannelsAccepted(m.channels)

\* What is off when the manifest says nothing: search and memory.
SwitchedOn(m, s) == Given(m[s], IF s \in {"cron", "web_fetch"} THEN "on" ELSE "off") = "on"

ParsedAgent(agents, spec, entry, team) ==
    [id |-> spec.id, model |-> SpecModel(agents, spec), is_entry_point |-> entry, subagent_ids |-> team,
     browser_enabled |-> Given(spec.browser, Given(agents.browser_default, TRUE)),
     thinking |-> Given(spec.thinking, Given(agents.thinking_default, "adaptive")),
     content |-> spec.content]

ParsedAgents(agents) ==
    LET subs == [i \in DOMAIN agents.subagents |-> ParsedAgent(agents, agents.subagents[i], FALSE, {})]
        team == {subs[i].id : i \in DOMAIN subs}
    IN  <<ParsedAgent(agents, agents.main_agent, TRUE, team)>> \o subs

ParsedTelegram(tg) ==
    IF tg = Absent THEN [enabled |-> FALSE, token |-> "", users |-> {}, groups |-> {}]
    ELSE [tg EXCEPT !.users = Given(@, {}), !.groups = Given(@, {})]

ParsedWhatsapp(wa) ==
    IF wa = Absent THEN [enabled |-> FALSE, numbers |-> {}] ELSE [wa EXCEPT !.numbers = Given(@, {})]

Parsed(m) ==
    [llm |-> m.llm, agents |-> ParsedAgents(m.agents),
     browser |-> Given(m.agents.browser_default, TRUE),
     heartbeat |-> [every |-> Given(m.agents.every, "0m"), target |-> Given(m.agents.target, "none")],
     channels |-> [telegram |-> ParsedTelegram(m.channels.telegram),
                   whatsapp |-> ParsedWhatsapp(m.channels.whatsapp)],
     path |-> IF m.settings.path \in {Absent, ""} THEN "" ELSE "/agent",
     switches |-> {s \in Switches : SwitchedOn(m.settings, s)}]

-----------------------------------------------------------------------------
(* builder.py: models and agents.                                           *)

\* group/<prefix><model>
ModelId(llm, ref) == <<ref.group, llm.groups[ref.group].prefix, ref.model>>

MediaRefs(llm) == BlockRefs(llm.image) \cup BlockRefs(llm.video)

\* Image and video models are the cloud's own business.
ProviderModels(llm, g) ==
    {m \in llm.groups[g].models :
        /\ [group |-> g, model |-> m] \notin MediaRefs(llm)
        /\ ~(llm.groups[g].prefix # "" /\ m \in {"image", "video"})}

\* The cloud's own proxy is reached over the host the agent already talks to.
LocalizedUrl(url, host) == IF host /\ url = "cloud_proxy" THEN "own_host" ELSE url

Providers(llm, host) ==
    [g \in DOMAIN llm.groups |->
        [url |-> LocalizedUrl(llm.groups[g].url, host),
         models |-> {<<g, llm.groups[g].prefix, m>> : m \in ProviderModels(llm, g)}]]

ModelBlock(llm, block) == IF block = Absent THEN {} ELSE {ModelId(llm, ref) : ref \in BlockRefs(block)}

ModelDefaults(llm) ==
    [model      |-> ModelId(llm, llm.text.primary),
     compaction |-> ModelId(llm, Given(llm.compaction, llm.text.primary)),
     flush      |-> ModelId(llm, Given(llm.flush, llm.text.primary)),
     pdf        |-> ModelBlock(llm, llm.pdf)]

MemoryTools == {"memory_search", "memory_add", "memory_get", "memory_list", "memory_update", "memory_delete"}

\* The entry point keeps its team tools with no team: OpenClaw reloads the
\* roster while it runs, and not an agent's tools.
AllowedTools(entry, browser) ==
    LET own == IF entry
               THEN {"group:sessions", "agents_list", "group:fs", "group:web", "web_search", "message",
                     "browser", "exec", "pdf", "process"}
               ELSE {"group:fs", "exec", "process", "web_fetch", "web_search", "browser", "pdf"}
    IN  (own \cup MemoryTools) \ (IF browser THEN {} ELSE {"browser"})

DeniedTools(entry) ==
    (IF entry THEN {} ELSE {"group:sessions", "group:messaging", "canvas", "nodes", "cron", "gateway"})
        \cup {"image_generate", "video_generate", "music_generate", "tts"}

\* Mutant of TeamTools: the team's tools come with the first specialist.
TeamToolsWithTeam(agent) ==
    AllowedTools(agent.is_entry_point, agent.browser_enabled)
        \ (IF agent.subagent_ids = {} THEN {"group:sessions", "agents_list"} ELSE {})

TeamTools(agent) == AllowedTools(agent.is_entry_point, agent.browser_enabled)

AgentEntry(llm, agent) ==
    [model |-> ModelId(llm, llm.text[agent.model]), thinking |-> agent.thinking,
     allow |-> TeamTools(agent), deny |-> DeniedTools(agent.is_entry_point),
     spawns |-> IF agent.is_entry_point THEN agent.subagent_ids ELSE {}]

\* HEARTBEAT.md is the entry point's alone.
WorkspaceFiles(agent) ==
    {<<agent.id, f>> : f \in {"AGENTS.md", "MEMORY.md"} \cup agent.content.documents}
        \cup (IF agent.is_entry_point /\ agent.content.heartbeat THEN {<<agent.id, "HEARTBEAT.md">>} ELSE {})
        \cup {<<agent.id, s.name>> : s \in agent.content.skills}
        \cup UNION {{<<agent.id, s.name, r>> : r \in s.references} : s \in agent.content.skills}

-----------------------------------------------------------------------------
(* config_generator.py: channels, plugins and the rest of the document.     *)

EntryPoint(m) == (CHOOSE i \in DOMAIN m.agents : m.agents[i].is_entry_point)

\* Telegram's block is there with a token, on or off; its binding only when on.
TelegramOn(m) == m.channels.telegram.enabled /\ m.channels.telegram.token # ""

TelegramPolicy(tg) == IF tg.users # {} \/ tg.groups # {} THEN "allowlist" ELSE "open"

\* A channel that nobody may write to is not rendered.
WhatsappOn(m) == m.channels.whatsapp.enabled /\ m.channels.whatsapp.numbers \ {"no digits"} # {}

RenderedChannels(m) ==
    {[name |-> "sellerclaw-ui", on |-> TRUE, policy |-> "owner"]}
    \cup (IF m.channels.telegram.token = "" THEN {}
          ELSE {[name |-> "telegram", on |-> m.channels.telegram.enabled,
                 policy |-> TelegramPolicy(m.channels.telegram)]})
    \cup (IF WhatsappOn(m) THEN {[name |-> "whatsapp", on |-> TRUE, policy |-> "allowlist"]} ELSE {})

Bindings(m) ==
    LET entry == m.agents[EntryPoint(m)].id
    IN  {<<entry, c>> : c \in {"sellerclaw-ui"} \cup (IF TelegramOn(m) THEN {"telegram"} ELSE {})
                                \cup (IF WhatsappOn(m) THEN {"whatsapp"} ELSE {})}

Ours == {"sellerclaw-ui", "document-extract", "web-readability"}

\* mem0 is found by its path; our own plugins ship with the image.
PluginPaths(m) == IF "memory" \in m.switches THEN {"openclaw-mem0"} ELSE {}

MemorySlot(m) == IF "memory" \in m.switches THEN {"openclaw-mem0"} ELSE {}

\* Mutant of AllowedPlugins: the search plugin is entered, and not allowed.
SearchNotAllowed(m) ==
    Ours \cup {"browser"} \cup MemorySlot(m) \cup (IF WhatsappOn(m) THEN {"whatsapp"} ELSE {})

\* plugins.allow and plugins.entries are written out apart, each with its own conditions.
AllowedPlugins(m) ==
    Ours \cup {"browser"}
         \cup (IF "web_search" \in m.switches THEN {"sellerclaw-web-search"} ELSE {})
         \cup (IF "memory" \in m.switches THEN {"openclaw-mem0"} ELSE {})
         \cup (IF WhatsappOn(m) THEN {"whatsapp"} ELSE {})

EnteredPlugins(m) ==
    Ours \cup (IF "web_search" \in m.switches THEN {"sellerclaw-web-search"} ELSE {})
         \cup (IF "memory" \in m.switches THEN {"openclaw-mem0"} ELSE {})
         \cup (IF WhatsappOn(m) THEN {"whatsapp"} ELSE {})

Plugins(m) ==
    [slots |-> MemorySlot(m), paths |-> PluginPaths(m),
     allow |-> AllowedPlugins(m), entries |-> EnteredPlugins(m)]

SkillsOff(m) ==
    (IF "memory" \in m.switches THEN {"memory-dream", "memory-triage"} ELSE {})
        \cup (IF WhatsappOn(m) THEN {"wacli"} ELSE {})

AgentIds(m) == {m.agents[i].id : i \in DOMAIN m.agents}

\* In a fleet every ambient surface needs an owner by name.
Owner(m) == IF Len(m.agents) > 1 THEN {m.agents[EntryPoint(m)].id} ELSE {}

\* Cadence and target are the cloud's; the model is the cheap tier of memory flush.
Heartbeat(m) == [every |-> m.heartbeat.every, target |-> m.heartbeat.target, model |-> ModelDefaults(m.llm).flush]

AgentsDefaults(m) ==
    LET models == ModelDefaults(m.llm)
    IN  [model |-> models.model, compaction |-> models.compaction, flush |-> models.flush,
         pdf |-> models.pdf, heartbeat |-> Heartbeat(m), owner |-> Owner(m)]

OpenclawConfig(m, host) ==
    [providers |-> Providers(m.llm, host), defaults |-> AgentsDefaults(m),
     agents    |-> [id \in AgentIds(m) |->
                      AgentEntry(m.llm, CHOOSE a \in ToSet(m.agents) : a.id = id)],
     apiBase   |-> <<host, m.path>>,
     hooks     |-> AgentIds(m), bindings |-> Bindings(m),
     channels  |-> RenderedChannels(m), plugins |-> Plugins(m), skillsOff |-> SkillsOff(m),
     browser   |-> m.browser, cron |-> "cron" \in m.switches, fetch |-> "web_fetch" \in m.switches,
     search    |-> IF "web_search" \in m.switches THEN {"sellerclaw-web-search"} ELSE {},
     files     |-> UNION {WorkspaceFiles(a) : a \in ToSet(m.agents)}]

\* agent_token.json, else AGENT_API_KEY; search and memory need the cloud's host.
AgentKeyAtHand == signedIn
BuildRefused(m) == ~AgentKeyAtHand \/ (m.switches \cap {"web_search", "memory"} # {} /\ ~hosted)

-----------------------------------------------------------------------------
ConfigInit ==
    /\ raw \in [llm : {CHOOSE l \in Routings : LlmAccepted(l)},
                agents : {CHOOSE t \in Teams : AgentsAccepted(t)},
                channels : {CHOOSE c \in Channelings : ChannelsAccepted(c)}, settings : Settings]
    /\ signedIn \in BOOLEAN /\ hosted \in BOOLEAN
    /\ parsed = NoConfig /\ config = NoConfig /\ answer = "none" /\ edits = 0

\* The owner, or the cloud's policy, changes one block of the manifest.
CloudEdits ==
    /\ edits < MaxEdits /\ edits' = edits + 1
    /\ \/ \E l \in Routings : raw' = [raw EXCEPT !.llm = l]
       \/ \E t \in Teams : raw' = [raw EXCEPT !.agents = t]
       \/ \E c \in Channelings : raw' = [raw EXCEPT !.channels = c]
    /\ UNCHANGED <<signedIn, hosted, parsed, config, answer>>

\* Parse and build, for a start, a restart or a hot update alike.
Build ==
    /\ IF ~ManifestAccepted(raw)
       THEN answer' = "malformed" /\ UNCHANGED <<parsed, config>>
       ELSE IF BuildRefused(Parsed(raw)) THEN answer' = "refused" /\ UNCHANGED <<parsed, config>>
       ELSE /\ answer' = "built" /\ parsed' = Parsed(raw)
            /\ config' = OpenclawConfig(parsed', hosted)
    /\ UNCHANGED <<raw, signedIn, hosted, edits>>

ConfigNext == CloudEdits \/ Build

ConfigSpec == ConfigInit /\ [][ConfigNext]_configVars

-----------------------------------------------------------------------------
(* Properties, of what was rendered last.                                   *)

Rendered == config # NoConfig

\* OpenClaw refuses to boot on a slot without its plugin, and leaves a plugin off
\* that is missing from the allow list or has no entry: what is filled, provided
\* or configured is loaded, allowed and entered, and WhatsApp's plugin, skill,
\* binding and channel come together or not at all.
PluginsAgree ==
    Rendered =>
        LET p == config.plugins
            whatsapp == \E c \in config.channels : c.name = "whatsapp" /\ c.on
        IN  /\ p.slots \subseteq p.paths \cap p.allow \cap p.entries
            /\ p.entries \subseteq p.allow /\ config.search \subseteq p.entries
            /\ whatsapp <=> "whatsapp" \in p.allow
            /\ whatsapp <=> "wacli" \in config.skillsOff
            /\ whatsapp <=> \E a \in config.hooks : <<a, "whatsapp">> \in config.bindings

\* Every model the agents and the defaults use is one a provider offers, the
\* prefix and the media filter included, unless the manifest itself also names
\* it as an image or video model, or it is one of the proxy's media groups.
UsedModelsOffered ==
    Rendered =>
        LET offered == UNION {config.providers[g].models : g \in DOMAIN config.providers}
            media == {ModelId(parsed.llm, ref) : ref \in MediaRefs(parsed.llm)}
            used == {config.agents[a].model : a \in DOMAIN config.agents}
                      \cup {config.defaults.model, config.defaults.compaction, config.defaults.flush,
                            config.defaults.heartbeat.model} \cup config.defaults.pdf
        IN  \A id \in used \ media :
                id \in offered \/ (id[2] # "" /\ id[3] \in {"image", "video"})

\* A change of the team reaches a running OpenClaw: the tools of the agent that
\* leads it are the same before and after, so the new roster can be used.
TeamReloadsLive ==
    [][ (Rendered /\ config' # NoConfig) =>
            \A a \in config.hooks \cap config'.hooks :
                ( /\ \E c \in config.bindings : c[1] = a
                  /\ \E c \in config'.bindings : c[1] = a
                  /\ ("browser" \in config.agents[a].allow) = ("browser" \in config'.agents[a].allow) )
                => config.agents[a].allow = config'.agents[a].allow ]_configVars

-----------------------------------------------------------------------------
\* What was rendered last was rendered from a manifest of the cloud's that was accepted.
Manifests == [llm : Routings, agents : Teams, channels : Channelings, settings : Settings]

ConfigIInv ==
    /\ raw \in Manifests /\ hosted \in BOOLEAN
    /\ Rendered => \E m \in Manifests :
                      /\ ManifestAccepted(m) /\ parsed = Parsed(m)
                      /\ config = OpenclawConfig(parsed, hosted)

=============================================================================

------------------------------ MODULE Sources -------------------------------
(***************************************************************************)
(* What the discovery of one source makes of what it read: the validated   *)
(* configuration (src/src/config.rs), the dependencies of the prompts, the *)
(* model and the MCP servers (src/src/discovery).  The sessions in which a *)
(* server's catalog is read are in McpDiscovery.                           *)
(*                                                                         *)
(* A declared path is [at, spelled], a URL [scheme, host, user, query,     *)
(* fragment, path, slashes]; aliases and tool names are sequences of        *)
(* characters.                                                             *)
(***************************************************************************)
EXTENDS Declaration

CONSTANTS
    ConfigVersion,    \* config::SUPPORTED_CONFIG_VERSION
    AliasCharacters,  \* what an alias is made of
    MaxAliasLength,   \* config::MAX_ALIAS_BYTES
    Metrics,   \* Metric::ALL
    Unit,      \* policy thresholds are in units of 1/Unit
    Dot,       \* the character that separates an alias from a name
    Hex        \* Hex[c]: what a character is escaped as in an id; plain ones are not in it

-----------------------------------------------------------------------------
(* The keys of agentchecksum.toml.  One that is not known is refused.  (The  *)
(* name of the agent and `fail_on_risk` are left out; a server is kept with  *)
(* what it declares.)                                                        *)

ServerKeys == {"alias", "transport", "command", "args", "env", "url"}
DeclaredByServer == {"version", "supported", "info", "capabilities", "instructions", "tools"}

IsPrompt(prompt) == DOMAIN prompt = {"at", "spelled"}
IsModel(model) == DOMAIN model = {"provider", "id", "endpoint", "params"}

IsServer(server) ==
    /\ DOMAIN server = ServerKeys \union DeclaredByServer
    /\ server.transport \in {"stdio", "streamable-http"}

IsProbes(probes) ==
    /\ DOMAIN probes = {"path", "repeat"}
    /\ probes.repeat \in Nat \union {Absent}

IsMetricPolicy(policy) ==
    /\ DOMAIN policy = {"min", "max", "max_drop"}
    /\ Range(policy) \subseteq Int \union {Absent}

IsConfig(config) ==
    /\ DOMAIN config = {"version", "model", "prompts", "servers", "probes", "policy"}
    /\ config.model # Absent => IsModel(config.model)
    /\ \A i \in DOMAIN config.prompts : IsPrompt(config.prompts[i])
    /\ \A i \in DOMAIN config.servers : IsServer(config.servers[i])
    /\ IsProbes(config.probes)
    /\ \A name \in DOMAIN config.policy : IsMetricPolicy(config.policy[name])

-----------------------------------------------------------------------------
(* Config::validate.                                                         *)

NormalizeRelPath(path) == IF path.spelled = "escaping" THEN Refused ELSE path.at

ValidPrompts(prompts) ==
    LET paths == [i \in DOMAIN prompts |-> NormalizeRelPath(prompts[i])]
    IN  (\A i \in DOMAIN paths : paths[i] # Refused) /\ IsInjective(paths)

\* What a URL must not carry: it would select something the identity does not show.
Plain(url) ==
    /\ url.scheme \in {"http", "https"} /\ url.host # Absent
    /\ url.user = Absent /\ url.query = Absent /\ url.fragment = Absent

ValidAlias(alias) == Len(alias) \in 1..MaxAliasLength /\ Range(alias) \subseteq AliasCharacters

\* A transport needs its own keys and takes no other's.
ValidServer(server) ==
    /\ ValidAlias(server.alias)
    /\ server.transport = "stdio" => server.command # Absent /\ server.url = Absent
    /\ server.transport = "streamable-http" =>
        /\ server.url # Absent /\ Plain(server.url)
        /\ server.command = Absent /\ server.args = {} /\ server.env = {}

ValidServers(servers) ==
    /\ \A i \in DOMAIN servers : ValidServer(servers[i])
    /\ IsInjective([i \in DOMAIN servers |-> servers[i].alias])

\* Thresholds are within 0..1, and a floor is not above the ceiling.
ValidPolicy(policy) ==
    \A name \in DOMAIN policy :
        /\ name \in Metrics
        /\ \A value \in {policy[name].min, policy[name].max, policy[name].max_drop} \ {Absent} :
            value \in 0..Unit
        /\ {policy[name].min, policy[name].max} \intersect {Absent} = {} =>
            policy[name].min <= policy[name].max

ValidConfig(config) ==
    /\ config.version = ConfigVersion
    /\ ValidPrompts(config.prompts) /\ ValidServers(config.servers) /\ ValidPolicy(config.policy)

\* Config::load; which error it is that refuses the file is left out.
Loads(config) == IsConfig(config) /\ ValidConfig(config)

-----------------------------------------------------------------------------
(* Prompts.                                                                  *)

\* An id is its kind and the pieces that follow it.
Dependency(kind, name, facets, source) ==
    [kind |-> kind, id |-> <<kind>> \o name, facets |-> facets, source |-> source]

\* `files` are the texts that can be read as UTF-8.
PromptDependencies(prompts, files) ==
    IF \A i \in DOMAIN prompts : NormalizeRelPath(prompts[i]) \in DOMAIN files
    THEN [i \in DOMAIN prompts |->
            Dependency("prompt", <<NormalizeRelPath(prompts[i])>>,
                       TextFacets(files[NormalizeRelPath(prompts[i])]), Absent)]
    ELSE Refused

-----------------------------------------------------------------------------
(* The model.  Its description is [digest, details, parameters, template,    *)
(* capabilities], each Absent when it was not reported; parameters are the   *)
(* lines of a Modelfile, [key, value].                                       *)

CanonicalEndpoint(url) == IF Plain(url) THEN [url EXCEPT !.slashes = 0] ELSE Refused

\* The first entry of /api/tags that names the model; an untagged id also means `latest`.
TagEntry(tags, id) ==
    LET named == {i \in DOMAIN tags :
                    \/ id \in {tags[i].name, tags[i].model}
                    \/ id.tag = Absent /\ tags[i].name = [id EXCEPT !.tag = "latest"]}
    IN  IF named = {} THEN Absent ELSE tags[Min(named)]

\* The values of a key, in no order.
ParseParameters(lines) ==
    [key \in {lines[i].key : i \in DOMAIN lines} |->
        LET OfKey(line) == line.key = key
            values == SelectSeq(lines, OfKey)
        IN  SortSeq([i \in DOMAIN values |-> values[i].value], LAMBDA v, w : ValueRank[v] < ValueRank[w])]

\* Configured and reported parameters are kept apart; no facet if there are none.
ParamsFacet(configured, reported) ==
    IF DOMAIN configured = {} /\ DOMAIN reported = {} THEN <<>>
    ELSE [params |-> Facet([configured |-> CanonicalTable(configured), reported |-> reported],
                           Absent, [configured |-> configured, reported |-> reported])]

ReportedFacets(m) ==
    Overlay(IF m.template = Absent THEN <<>>
            ELSE [template |-> Facet(NormalizeText(m.template), Absent, Absent)],
            IF m.capabilities = {} THEN <<>>
            ELSE [capabilities |-> Facet(m.capabilities, Absent, m.capabilities)])

\* Fault: the digest of the model is not part of its identity.
NamedDependency(config, m) ==
    IF config.endpoint = Absent \/ m = Absent THEN Refused
    ELSE LET identity == [provider |-> config.provider, id |-> config.id, details |-> m.details]
         IN  Dependency("model", <<config.provider, config.id.name, config.id.tag>>,
                Overlay([identity |-> Facet(identity, Absent, identity)], ReportedFacets(m)), config.provider)

OllamaDependency(config, m) ==
    IF config.endpoint = Absent \/ m = Absent THEN Refused
    ELSE LET identity == [provider |-> config.provider, id |-> config.id, digest |-> m.digest,
                          details |-> m.details]
         IN  Dependency("model", <<config.provider, config.id.name, config.id.tag>>,
                Overlay(Overlay([identity |-> Facet(identity, Absent, identity)], ReportedFacets(m)),
                        ParamsFacet(config.params,
                                    IF m.parameters = Absent THEN <<>> ELSE ParseParameters(m.parameters))),
                config.provider)

CompatibleDependency(config) ==
    IF config.endpoint = Absent \/ CanonicalEndpoint(config.endpoint) = Refused THEN Refused
    ELSE LET identity == [provider |-> config.provider, id |-> config.id,
                          endpoint |-> CanonicalEndpoint(config.endpoint)]
         IN  Dependency("model", <<config.provider, config.id.name, config.id.tag>>,
                Overlay([identity |-> Facet(identity, Absent, identity)], ParamsFacet(config.params, <<>>)),
                config.provider)

ModelDependency(config, metadata) ==
    CASE config.provider = "ollama" -> OllamaDependency(config, metadata)
      [] config.provider = "openai-compatible" -> CompatibleDependency(config)
      [] OTHER -> Refused

-----------------------------------------------------------------------------
(* MCP servers and their tools.                                              *)

EncodeChar(c) == IF c \in DOMAIN Hex THEN <<"%">> \o Hex[c] ELSE <<c>>

\* Fault: a percent sign is left as it is.
EncodeAllButPercent(name) ==
    FlattenSeq([i \in DOMAIN name |-> IF name[i] = "%" THEN <<"%">> ELSE EncodeChar(name[i])])

EncodeToolName(name) ==
    FlattenSeq([i \in DOMAIN name |-> EncodeChar(name[i])])

ToolId(alias, name) == alias \o <<Dot>> \o EncodeToolName(name)

Optional(name, value, facet) == IF value = Absent THEN <<>> ELSE [key \in {name} |-> facet]

\* A description has a digest and a shape, and no payload.
ToolDependency(alias, tool) ==
    Dependency("tool", ToolId(alias, tool.name),
        Overlay(Overlay([input_schema |-> SchemaFacet(tool.input_schema)],
                        Optional("description", tool.description, TextFacet(tool.description))),
                Overlay(Optional("output_schema", tool.output_schema, SchemaFacet(tool.output_schema)),
                        IF tool.capabilities = {} THEN <<>>
                        ELSE [capabilities |-> Facet(tool.capabilities, Absent, tool.capabilities)])),
        alias)

ServerDependency(server) ==
    Dependency("mcp", server.alias,
        Overlay([identity |-> Facet(server.identity, Absent, server.identity)],
                Optional("instructions", server.instructions, TextFacet(server.instructions))),
        server.alias)

\* One discovered server: itself, then its tools.
ServerDependencies(server) ==
    <<ServerDependency(server)>>
    \o [i \in DOMAIN server.tools |-> ToolDependency(server.alias, server.tools[i])]

\* mcp::discover: the first server that cannot be discovered whole fails it.
McpDependencies(servers) ==
    LET discovered == [i \in DOMAIN servers |-> DiscoveredServer(servers[i])]
    IN  IF Refused \in Range(discovered) THEN Refused
        ELSE FlattenSeq([i \in DOMAIN servers |-> ServerDependencies(discovered[i])])

\* discovery::run, once every source has answered.
Dependencies(prompts, model, tools) ==
    LET list == prompts \o model \o tools
    IN  IF prompts = Refused \/ tools = Refused THEN Refused
        ELSE IF VerifyUnique(list) THEN list ELSE Refused
=============================================================================

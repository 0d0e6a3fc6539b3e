---------------------------- MODULE Declaration -----------------------------
(***************************************************************************)
(* What an MCP server declares, reduced to what is fingerprinted           *)
(* (src/src/discovery/mcp/normalize.rs, limits.rs, mod.rs).  The sessions  *)
(* in which it is read are in McpDiscovery.                                *)
(*                                                                         *)
(* A tool is declared as [name, description, input_schema, output_schema,  *)
(* annotations, meta], a server as [alias, env, version, supported, info,  *)
(* capabilities, instructions, tools]; hints, flags and optional parts are *)
(* Absent when they are not there.  A value of the environment is a        *)
(* sequence of pieces, as the strings are in which it may come back.       *)
(***************************************************************************)
EXTENDS Manifest

CONSTANTS
    Oversize,        \* texts and documents that are past the bound of whatever they are given for
    MaxSchemaDepth,  \* limits::MAX_SCHEMA_DEPTH
    StandardHeaders, \* the revision that introduced the stateless lifecycle
    Depth(_),        \* how deep a document nests: Documents!Nesting
    DocumentExposes(_, _)  \* whether a value occurs in a document: Documents!AnyPartExposes

Or(value, default) == IF value = Absent THEN default ELSE value

\* Secrets: the values a server was started with.
Secrets(server) == server.env \ {<<>>}

\* A value that occurs in a text.
Exposes(secrets, pieces) ==
    \E value \in secrets : \E i \in 0..(Len(pieces) - Len(value)) :
        SubSeq(pieces, i + 1, i + Len(value)) = value

TextExposes(secrets, text) == text # Absent /\ Exposes(secrets, <<text.words>>)

-----------------------------------------------------------------------------
(* Tools.                                                                    *)

\* Hints with the defaults of the protocol; what is read-only is neither destructive nor idempotent.
ToolCapabilities(annotations) ==
    LET hints == Or(annotations, [read_only |-> Absent, destructive |-> Absent,
                                  idempotent |-> Absent, open_world |-> Absent])
        writes == {IF Or(hints.destructive, TRUE) THEN "destructive" ELSE "non-destructive",
                   IF Or(hints.idempotent, FALSE) THEN "idempotent" ELSE "non-idempotent"}
    IN  {IF Or(hints.open_world, TRUE) THEN "open-world" ELSE "closed-world"}
        \union (IF Or(hints.read_only, FALSE) THEN {"read-only"} ELSE {"write"} \union writes)

AcceptableSchema(secrets, schema) ==
    schema \notin Oversize /\ Depth(schema) <= MaxSchemaDepth /\ ~DocumentExposes(secrets, schema)

\* normalize::tool: title, icons and `_meta` stay behind.
AcceptableTool(secrets, tool) ==
    /\ tool.name # <<>> /\ tool.name \notin Oversize /\ ~Exposes(secrets, tool.name)
    /\ tool.description \notin Oversize /\ ~TextExposes(secrets, tool.description)
    /\ AcceptableSchema(secrets, tool.input_schema)
    /\ tool.output_schema # Absent => AcceptableSchema(secrets, tool.output_schema)

DiscoveredTool(tool) ==
    [name |-> tool.name, description |-> tool.description, input_schema |-> tool.input_schema,
     output_schema |-> tool.output_schema, capabilities |-> ToolCapabilities(tool.annotations)]

-----------------------------------------------------------------------------
(* Servers.                                                                  *)

Era(version) == IF version >= StandardHeaders THEN "stateless" ELSE "legacy"

Flags(declared) == [flag \in DOMAIN declared |-> Or(declared[flag], FALSE)]

\* Members by name: tools, prompts and resources with their flags, logging and completions by their
\* presence, of extensions the identifiers.
CapabilityPayload(capabilities) ==
    LET flagged == {name \in {"tools", "prompts", "resources"} : capabilities[name] # Absent}
        present == {name \in {"logging", "completions"} : capabilities[name]}
        extended == {name \in {"extensions", "experimental"} : capabilities[name] # {}}
    IN  Overlay([name \in flagged |-> Flags(capabilities[name])],
                Overlay([name \in present |-> <<>>], [name \in extended |-> capabilities[name]]))

AcceptableIdentity(secrets, server) ==
    /\ \A identifier \in server.capabilities["extensions"] \union server.capabilities["experimental"] :
        ~Exposes(secrets, <<identifier>>)
    /\ server.supported # Absent => \A version \in server.supported : ~Exposes(secrets, version)
    /\ server.info # Absent =>
        \A part \in {server.info.name, server.info.version} :
            part \notin Oversize /\ ~Exposes(secrets, <<part>>)

\* What is recorded of a server; the revisions it reports are a set of strings it chose, or Absent.
Identity(server) ==
    [era |-> Era(server.version), protocol_version |-> server.version,
     supported_versions |-> server.supported, server_info |-> server.info,
     capabilities |-> CapabilityPayload(server.capabilities)]

AcceptableInstructions(secrets, instructions) ==
    instructions \notin Oversize /\ ~TextExposes(secrets, instructions)

\* client::discover, once every page is there: anything that is rejected fails the server.
DiscoveredServer(server) ==
    LET secrets == Secrets(server)
        declared == {server.tools[i] : i \in DOMAIN server.tools}
    IN  IF /\ AcceptableIdentity(secrets, server)
           /\ AcceptableInstructions(secrets, server.instructions)
           /\ \A tool \in declared : AcceptableTool(secrets, tool)
           /\ IsInjective([i \in DOMAIN server.tools |-> server.tools[i].name])
        THEN [alias |-> server.alias, identity |-> Identity(server), instructions |-> server.instructions,
              tools |-> [i \in DOMAIN server.tools |-> DiscoveredTool(server.tools[i])]]
        ELSE Refused
=============================================================================

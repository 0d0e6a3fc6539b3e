----------------------------- MODULE MCBehavior -----------------------------
(***************************************************************************)
(* A base project, two of its kind behind a remote endpoint, and projects  *)
(* that differ from the base in one respect each: some in spelling, some   *)
(* in meaning, some past what the program takes.                           *)
(***************************************************************************)
EXTENDS Documents

At(path) == [at |-> path, spelled |-> "plain"]
Unix(words) == Text(words, 1, "lf")
Str(piece) == String(<<piece>>)
One == Number(1, "integer")

Entries == <<Str("n"), Str("q")>>
MCRank == [v \in {Entries[i] : i \in DOMAIN Entries} \union {Str("0.7"), Str("stop"), Str("r")} |->
            CASE v = Str("0.7") -> 1 [] v = Str("stop") -> 2 [] v = Str("n") -> 3 [] v = Str("q") -> 4
              [] v = Str("r") -> 5]
MCPathRank == ("aux" :> 1) @@ ("sys" :> 2)
MCMetrics == {"tool_selection", "argument_validity", "argument_expectation", "forbidden_tool_usage",
              "tool_restraint", "structured_output_validity"}
MCHex == (" " :> <<"2", "0">>) @@ ("%" :> <<"2", "5">>)
MCIndexOf == ("0" :> 0)
Found == Object(("q" :> Str("x")) @@ ("n" :> One))
MCParse == (<<"found">> :> Found) @@ (<<"{}">> :> Object(<<>>)) @@ (<<"null">> :> Null)

-----------------------------------------------------------------------------
(* The base.                                                                 *)

SearchSchema(required) ==
    Object(("type" :> Str("object")) @@ ("required" :> Array(required))
           @@ ("properties" :> Object(("q" :> Object("type" :> Str("string")))
                                      @@ ("n" :> Object("type" :> Str("integer"))))))

Hints == [read_only |-> Absent, destructive |-> Absent, idempotent |-> Absent, open_world |-> Absent]
Tool(name, schema) ==
    [name |-> name, description |-> Unix("use me"), input_schema |-> schema, output_schema |-> Absent,
     annotations |-> Absent]
Search == [Tool(<<"s">>, SearchSchema(Entries)) EXCEPT !.annotations = [Hints EXCEPT !.read_only = TRUE]]
Delete == Tool(<<"d">>, Object("type" :> Str("object")))

Declares == [tools |-> [list_changed |-> Absent], prompts |-> Absent,
             resources |-> [subscribe |-> TRUE, list_changed |-> Absent],
             logging |-> TRUE, completions |-> FALSE, extensions |-> {"ui"}, experimental |-> {}]
Server(alias, tools) ==
    [alias |-> alias, transport |-> "stdio", command |-> "serve", url |-> Absent, args |-> {},
     env |-> {<<"k", "9">>, <<"k9">>, <<>>}, version |-> 2, supported |-> {<<"1">>, <<"2">>},
     info |-> [name |-> "srv", version |-> "1"], capabilities |-> Declares,
     instructions |-> Unix("be brief"), tools |-> tools]

Localhost == [scheme |-> "http", host |-> "localhost", user |-> Absent, query |-> Absent,
          fragment |-> Absent, path |-> "", slashes |-> 0]
Ollama == [provider |-> "ollama", id |-> [name |-> "m", tag |-> Absent], endpoint |-> Localhost, params |-> <<>>]

Key(token) == [pointer |-> TRUE, tokens |-> <<token>>]
Reference(alias, name) == [id |-> <<"tool">> \o alias \o <<".">> \o name, name |-> <<"-">>]
Bare(name) == [id |-> name, name |-> name]

Probe(name, prompt) ==
    [name |-> name, prompt |-> prompt, repeat |-> Absent, expect_tool |-> Absent, expect_args |-> Absent,
     forbid_tools |-> Absent, expect_no_tool |-> Absent, output_schema |-> Absent]
Finds == [Probe("finds", "find it") EXCEPT !.expect_tool = Reference(<<"a">>, <<"s">>),
                                           !.expect_args = (Key("n") :> ("equals" :> One)),
                                           !.forbid_tools = <<Reference(<<"a">>, <<"d">>)>>]
Quiet == [Probe("quiet", "hush") EXCEPT !.expect_no_tool = TRUE]
File(probes) == [is |-> "file", probes |-> probes]

Base ==
    [config |-> [version |-> 1, prompts |-> <<At("sys"), At("aux")>>, servers |-> <<Server(<<"a">>, <<Search, Delete>>)>>,
                 policy |-> ("tool_selection" :> [min |-> 5, max |-> Absent, max_drop |-> 1]),
                 model |-> Ollama, probes |-> [path |-> At("probes"), repeat |-> Absent]],
     files |-> ("sys" :> Unix("careful")) @@ ("aux" :> Unix("kind")),
     directory |-> (1 :> File(<<Finds>>)),
     schemas |-> ("out" :> SearchSchema(Entries))]

WithServer(server) == [Base EXCEPT !.config.servers = <<server>>]
WithTools(tools) == [Base EXCEPT !.config.servers = <<Server(<<"a">>, tools)>>]
WithProbe(probe) == [Base EXCEPT !.directory = (1 :> File(<<probe>>))]
WithParams(params) == [Base EXCEPT !.config.model.params = params]

-----------------------------------------------------------------------------
(* The same, spelled otherwise.                                              *)

Spellings ==
    {[Base EXCEPT !.config.prompts = <<[at |-> "aux", spelled |-> "dotted"], At("sys")>>],
     [Base EXCEPT !.files["sys"] = Text("careful", 1, "crlf")],
     WithTools(<<[Search EXCEPT !.input_schema = SearchSchema(<<Str("q"), Str("n")>>)], Delete>>),
     WithTools(<<Delete, [Search EXCEPT !.annotations.open_world = TRUE, !.annotations.idempotent = TRUE]>>),
     WithServer([Server(<<"a">>, <<Search, Delete>>) EXCEPT !.capabilities.tools.list_changed = FALSE]),
     WithProbe([Finds EXCEPT !.expect_tool = Bare(<<"s">>)]),
     WithProbe([Finds EXCEPT !.forbid_tools = @ \o <<Bare(<<"d">>)>>, !.repeat = 1]),
     WithProbe([Finds EXCEPT !.expect_args = ([Key("n") EXCEPT !.pointer = FALSE] :> ("equals" :> One))]),
     [Base EXCEPT !.directory = (1 :> [is |-> "other"]) @@ (2 :> File(<<Finds>>))],
     [Base EXCEPT !.config.model.endpoint.host = "elsewhere", !.config.model.endpoint.slashes = 1]}

MCRespelled == {Base} \union Spellings

(* Another meaning.                                                          *)

TwoProbes == [Base EXCEPT !.directory = (1 :> File(<<Quiet>>)) @@ (2 :> File(<<Finds>>))]
OneFile == [Base EXCEPT !.directory = (1 :> File(<<Finds, Quiet>>))]
Remote == [Base EXCEPT !.config.model.provider = "openai-compatible"]
Meanings ==
    {[Base EXCEPT !.files["sys"] = Text("careful", 2, "lf")],
     [Base EXCEPT !.files["sys"] = Unix("careless")],
     WithParams("temperature" :> Number(0, "integer")),
     WithParams("temperature" :> Number(7, "float")),
     WithTools(<<Delete, [Search EXCEPT !.description = Unix("do not use me")]>>),
     WithTools(<<Search, [Delete EXCEPT !.annotations = [Hints EXCEPT !.destructive = FALSE]]>>),
     WithServer([Server(<<"a">>, <<Search, Delete>>) EXCEPT !.version = 1]),
     WithTools(<<[Search EXCEPT !.input_schema = SearchSchema(Append(Entries, Str("r")))], Delete>>),
     WithProbe([Finds EXCEPT !.forbid_tools = Absent]),
     WithProbe([Finds EXCEPT !.expect_args = (Key("n") :> ("equals" :> Number(1, "float")))]),
     WithProbe([Finds EXCEPT !.expect_args = (Key("q") :> ("one_of" :> <<Str("x"), Str("y")>>))]),
     WithProbe([Finds EXCEPT !.expect_args = (Key("q") :> ("contains" :> Str("x")))]),
     WithProbe([Finds EXCEPT !.repeat = 2]),
     TwoProbes,
     WithProbe([Quiet EXCEPT !.name = "finds", !.expect_no_tool = Absent, !.output_schema = At("out")]),
     [Base EXCEPT !.config.servers = <<Server(<<"a">>, <<Search, Delete>>), Server(<<"b">>, <<>>)>>]}

(* What the program refuses, or has to tell apart.                           *)

Strange ==
    {[Base EXCEPT !.config.servers = <<Server(<<"a">>, <<Search, Delete>>), Server(<<"b">>, <<Search>>)>>],
     WithTools(<<Search, Delete, Tool(<<"a", " ">>, Delete.input_schema),
                 Tool(<<"a", "%", "2", "0">>, Delete.input_schema)>>),
     [Base EXCEPT !.config.servers = <<Server(<<"a">>, <<Search, Delete, Tool(<<"b", ".", "c">>, Delete.input_schema)>>),
                                       Server(<<"a", ".", "b">>, <<Tool(<<"c">>, Delete.input_schema)>>)>>],
     WithTools(<<Search, Tool(<<"k", "9">>, Delete.input_schema)>>),
     WithTools(<<Search, [Delete EXCEPT !.input_schema = Object("properties" :> Object("k9" :> Null))]>>),
     WithTools(<<Search, [Delete EXCEPT !.description = Unix("k9")]>>),
     WithServer([Server(<<"a">>, <<Search>>) EXCEPT !.supported = @ \union {<<"v", "k9">>}]),
     WithServer([Server(<<"a">>, <<Search>>) EXCEPT !.supported = Absent, !.alias = <<"a", "a", "a">>]),
     [Base EXCEPT !.config.version = 2],
     [Base EXCEPT !.config = ("polcy" :> <<>>) @@ @],
     WithProbe(("forbid_tool" :> <<Bare(<<"d">>)>>) @@ Finds),
     [Base EXCEPT !.config.model = Absent],
     WithTools(<<Search, Search>>),
     WithServer([Server(<<"a">>, <<Search>>) EXCEPT !.transport = "streamable-http"]),
     [Base EXCEPT !.config.prompts = <<At("sys"), [at |-> "sys", spelled |-> "dotted"]>>],
     [Base EXCEPT !.config.policy["tool_selection"].max = 4],
     [Base EXCEPT !.config.model.endpoint.path = "/v2"],
     WithParams("n" :> One),
     WithTools(<<[Search EXCEPT !.input_schema = Object("$ref" :> Str("gone"))], Delete>>),
     WithProbe([Finds EXCEPT !.expect_tool = Bare(<<"x">>)]),
     WithProbe([Finds EXCEPT !.expect_args = (Key("n") :> ("equals" :> One))
                                             @@ ([Key("n") EXCEPT !.pointer = FALSE] :> ("equals" :> Str("x")))]),
     WithProbe([Finds EXCEPT !.repeat = 3]),
     [Base EXCEPT !.directory = (1 :> File(<<Finds>>)) @@ (2 :> File(<<Finds>>))]}

Remotes == {Remote, [Remote EXCEPT !.config.model.endpoint.host = "elsewhere"],
            [Remote EXCEPT !.config.model.endpoint.path = "/v1", !.config.model.endpoint.slashes = 1],
            [Remote EXCEPT !.config.model.endpoint.user = "me"]}

MCProjects == {Base, OneFile} \union Spellings \union Meanings \union Strange \union Remotes
MCEdits == {<<p, q>> \in MCProjects \X MCProjects :
                p # q /\ (Base \in {p, q} \/ {p, q} \subseteq Remotes \/ {p, q} = {TwoProbes, OneFile})}

-----------------------------------------------------------------------------
(* Models and their answers.                                                 *)

Model(digest, template) ==
    [name |-> [name |-> "m", tag |-> "latest"], model |-> Absent, digest |-> digest, details |-> "7b",
     parameters |-> <<[key |-> "temp", value |-> Str("0.7")]>>, template |-> Unix(template), capabilities |-> {"tools"}]
MCInstalled == {Model("one", "chat")}
MCModels == MCInstalled \union {Model("two", "chat"), Model("three", "instruct")}

Says(content, calls) == [delivered |-> TRUE, status |-> "success", body |-> <<[content |-> content, tool_calls |-> calls]>>]
Call(name, arguments) == [name |-> name, arguments |-> arguments]
MCResponses ==
    {Says(Str("found"), <<>>),
     Says(Null, <<Call(<<"s">>, Str("found"))>>),
     Says(Absent, <<Call(<<"s">>, Str("null")), Call(<<"d">>, Object(<<>>))>>),
     Says(Null, <<Call(<<"u">>, Absent)>>),
     [delivered |-> FALSE]}

MCOverrides == {Absent, 2}
=============================================================================

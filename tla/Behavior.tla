------------------------------ MODULE Behavior ------------------------------
(***************************************************************************)
(* `check` over a project, from the configuration to the verdict and the   *)
(* evidence it leaves, and over that evidence again with `--trace`         *)
(* (src/src/cli/cmd/check.rs).  It composes the discovery of the model,    *)
(* the tool catalog, the probe suite, the client, the evaluation and the   *)
(* artifact and the report; the cache is in Capture, and what the lockfile *)
(* and the baseline gate is in Check and Verdict.                          *)
(*                                                                         *)
(* A project is [config, files, directory, schemas]: what is on disk; what *)
(* the MCP servers declare is kept with their configuration.  It is edited *)
(* between two runs; the model behind a local endpoint may be replaced at  *)
(* any time.                                                               *)
(***************************************************************************)
EXTENDS Report

CONSTANTS
    Projects,   \* the projects there are, each of them valid input or not
    Edits,      \* the pairs of projects between which an edit may lead
    Respelled,  \* projects that say the same thing in different bytes
    Models,     \* what a local endpoint may serve
    Installed,  \* what it may serve to begin with
    Responses,  \* what an endpoint may answer to a sample
    Overrides,  \* values of `--repeat`, Absent among them
    Version,    \* runner::RUNNER_VERSION
    MaxChanges, \* bound: edits of the project or the evidence, and replacements of the model
    Pieces(_)   \* what a document says: Documents!EveryPiece

\* What is a vector in the program; how a character is escaped: `%` and two digits of its own; that the
\* digest an endpoint reports is of one model; and the metrics that follow from naming a tool.
ASSUME BehaviorAssumption ==
    /\ \A p \in Projects :
        /\ IsList(p.config.prompts) /\ IsList(p.config.servers)
        /\ \A i \in DOMAIN p.config.servers :
            /\ IsList(p.config.servers[i].alias) /\ IsList(p.config.servers[i].tools)
            /\ \A j \in DOMAIN p.config.servers[i].tools : IsList(p.config.servers[i].tools[j].name)
    /\ \A c \in DOMAIN Hex : IsList(Hex[c]) /\ Len(Hex[c]) = 2
    /\ \A c, d \in DOMAIN Hex : Hex[c] = Hex[d] => c = d
    /\ "%" \in DOMAIN Hex
    /\ Dot \notin AliasCharacters
    /\ MaxRepeat \in Nat /\ MaxFiles \in Nat
    /\ {"tool_selection", "argument_expectation", "forbidden_tool_usage"} \subseteq Metrics
    /\ \A r \in Responses :
        r.delivered /\ r.status = "success" /\ r.body # Refused =>
            IsList(r.body) /\ \A i \in DOMAIN r.body : IsList(r.body[i].tool_calls)
    /\ \A m, n \in Models \union Installed : "digest" \in DOMAIN m /\ (m.digest = n.digest => m = n)

\* The documents of a project that arguments and outputs are checked against.
Yardsticks(disk) ==
    {disk.schemas[path] : path \in DOMAIN disk.schemas}
    \union UNION {{NormalizedSchema(disk.config.servers[i].tools[j].input_schema) :
                        j \in DOMAIN disk.config.servers[i].tools} : i \in DOMAIN disk.config.servers}

\* The ids that its tools may get.
ToolIds(disk) ==
    UNION {{<<"tool">> \o ToolId(disk.config.servers[i].alias, disk.config.servers[i].tools[j].name) :
                j \in DOMAIN disk.config.servers[i].tools} : i \in DOMAIN disk.config.servers}

\* Schemas of one digest are one to a validator: how a number is spelled is nothing to it.  Nothing
\* is no digest and no id.
ASSUME DigestAssumption ==
    LET schemas == UNION {Yardsticks(p) : p \in Projects}
    IN  /\ \A v, w \in schemas : Digest(v) = Digest(w) => Demands(v) = Demands(w)
        /\ Absent \notin {Digest(v) : v \in schemas}
        /\ Absent \notin UNION {ToolIds(p) : p \in Projects}

\* What a server declares as a text is one.
ASSUME TextAssumption ==
    \A p \in Projects : \A i \in DOMAIN p.config.servers :
        LET server == p.config.servers[i]
            texts == {server.instructions} \union {server.tools[j].description : j \in DOMAIN server.tools}
        IN  \A text \in texts \ {Absent} : DOMAIN text = {"words", "spacing", "ends"}

VARIABLES
    project,   \* what is on disk
    served,    \* the model the local endpoint serves
    run,       \* the run there is, or the last one
    evidence,  \* the recorded file that is kept, and how it came about
    baseline,  \* the baseline that was accepted, and the answers it was scored from
    changes    \* how often something was changed

vars == <<project, served, run, evidence, baseline, changes>>

Idle == [stage |-> "over", override |-> Absent, replay |-> FALSE, entry |-> Absent,
         described |-> Absent, seen |-> {}, built |-> Absent, answers |-> <<>>, verdict |-> Absent]

Failed == [Idle EXCEPT !.verdict = Refused]

Init ==
    /\ project \in Projects
    /\ served \in Installed
    /\ run = Idle
    /\ evidence = Absent
    /\ baseline = Absent
    /\ changes = 0

-----------------------------------------------------------------------------
(* What a run makes of what is on disk and of the description of its model.  *)

Discovered(disk, described) ==
    LET prompts == PromptDependencies(disk.config.prompts, disk.files)
        model == IF disk.config.model = Absent THEN <<>>
                 ELSE <<ModelDependency(disk.config.model, described)>>
    IN  IF prompts = Refused \/ model = <<Refused>> THEN Refused
        ELSE Dependencies(prompts, model, McpDependencies(disk.config.servers))

\* The catalog comes from the lockfile, the suite from the catalog; a replay needs no client.
Built(disk, described, override) ==
    LET config == disk.config
        list == Discovered(disk, described)
        lock == FromDependencies(list)
        catalog == FromLockfile(lock)
        suite == LoadSuite(config.probes, disk.directory, disk.schemas, catalog, override)
        client == IF config.model = Absent THEN Refused
                  ELSE Client(config.model, catalog, SystemPrompt(config.prompts, disk.files))
    IN  IF ~Loads(config) \/ list = Refused \/ catalog = Refused \/ suite = Refused THEN Refused
        ELSE [checksum |-> lock.agent_checksum, catalog |-> catalog, suite |-> suite, client |-> client]

\* The samples of a suite, probe by probe.
Plan(suite) ==
    FlattenSeq([i \in DOMAIN suite.probes |->
        [j \in 1..suite.probes[i].repeat |-> [probe |-> suite.probes[i], index |-> j - 1]]])

\* Runner::capture: the trace of each probe.
Traces(built, answers) ==
    LET plan == Plan(built.suite)
        Place(i) == {k \in DOMAIN plan : plan[k].probe = built.suite.probes[i]}
    IN  [i \in DOMAIN built.suite.probes |->
            [trace_version |-> TraceVersion, probe |-> built.suite.probes[i].name,
             probe_digest |-> ProbeDigest(built.suite.probes[i]), agent_checksum |-> built.checksum,
             captured_with |-> CapturedWith(built.client, Version, built.catalog),
             samples |-> SubSeq(answers, Min(Place(i)), Max(Place(i)))]]

\* An outcome for every probe, or an error.
Verdict(built, traces) ==
    LET outcomes == EvaluateAll(built.suite, traces, built.catalog)
    IN  IF traces = Refused \/ \E i \in DOMAIN outcomes : outcomes[i] = Refused THEN Refused ELSE outcomes

\* The samples of each probe, by its name.
Answers(traces) ==
    [name \in {traces[i].probe : i \in DOMAIN traces} |->
        traces[CHOOSE i \in DOMAIN traces : traces[i].probe = name].samples]

\* What baseline.json holds.
Committed == IF baseline = Absent THEN Absent ELSE baseline.file

-----------------------------------------------------------------------------
(* The run.                                                                  *)

Local == project.config.model # Absent /\ project.config.model.provider = "ollama"

\* Bound: a baseline is followed through an edit and one more recording.
Afresh == baseline = Absent

\* `--trace` takes no `--repeat`.  Only a local model is described.  Bound: evidence is not dropped
\* for another recording unless a baseline is followed; that recording would be as a first one.
Begin(override, replay) ==
    /\ run.stage = "over"
    /\ replay => override = Absent /\ evidence # Absent
    /\ ~replay /\ Afresh => evidence = Absent
    /\ ~Afresh => changes > 0 /\ override = Absent /\ ~replay
    /\ run' = [Idle EXCEPT !.stage = IF Local THEN "tags" ELSE "assemble",
                           !.override = override, !.replay = replay, !.seen = {served}]
    /\ evidence' = IF replay THEN evidence ELSE Absent
    /\ UNCHANGED <<project, served, baseline, changes>>

\* model::fetch, the first request.
ReadTags ==
    LET entry == TagEntry(<<served>>, project.config.model.id)
    IN  /\ run.stage = "tags"
        /\ run' = IF entry = Absent THEN Failed ELSE [run EXCEPT !.stage = "show", !.entry = entry]
        /\ UNCHANGED <<project, served, evidence, baseline, changes>>

\* The second: the digest and the details are those of the first.
ReadShow ==
    /\ run.stage = "show"
    /\ run' = [run EXCEPT !.stage = "assemble",
                          !.described = [served EXCEPT !.digest = run.entry.digest,
                                                       !.details = run.entry.details],
                          !.entry = Absent]
    /\ UNCHANGED <<project, served, evidence, baseline, changes>>

\* No answer in time, a status that is no success, or a body that is none.
RequestFails ==
    /\ run.stage \in {"tags", "show"}
    /\ run' = Failed
    /\ UNCHANGED <<project, served, evidence, baseline, changes>>

\* Discovery ends, and with it everything that can be refused before a sample is asked.
Assemble ==
    LET built == Built(project, run.described, run.override)
    IN  /\ run.stage = "assemble"
        /\ run' = IF built = Refused \/ (~run.replay /\ built.client = Refused) THEN Failed
                  ELSE [run EXCEPT !.stage = "assembled", !.described = Absent, !.built = built]
        /\ UNCHANGED <<project, served, evidence, baseline, changes>>

\* One sample, in the order of the suite.
Ask(response) ==
    LET plan == Plan(run.built.suite)
        next == Len(run.answers) + 1
        sample == ReadSample(plan[next].index, response, run.built.client.names)
    IN  /\ run.stage = "assembled" /\ ~run.replay
        /\ next <= Len(plan)
        /\ run' = IF sample = Refused THEN Failed ELSE [run EXCEPT !.answers = Append(@, sample)]
        /\ UNCHANGED <<project, served, evidence, baseline, changes>>

\* The scores, then the artifact under the name of its contents, and with `--accept` the baseline if
\* no policy fails.  (What `--accept` asks of the lockfile before is in Check.)  Bound: one baseline
\* is accepted, before anything changes, and with the declared repeat.
Conclude(accept) ==
    LET traces == Traces(run.built, run.answers)
        verdict == Verdict(run.built, traces)
        artifact == NewArtifact(run.built.checksum, run.built.suite, traces, verdict)
    IN  /\ run.stage = "assembled" /\ ~run.replay
        /\ Len(run.answers) = Len(Plan(run.built.suite))
        /\ IF verdict = Refused \/ artifact = Refused
           THEN run' = Failed /\ UNCHANGED <<evidence, baseline>>
           ELSE /\ run' = [run EXCEPT !.stage = "over", !.verdict = verdict]
                /\ evidence' = [file |-> [name |-> Address(artifact), shape |-> "run", document |-> artifact],
                                touched |-> FALSE, built |-> run.built, seen |-> run.seen,
                                of |-> project]
                /\ baseline' =
                    IF accept /\ PolicyOutcome(project.config.policy, Committed, run.built.suite,
                                               verdict).failures = {}
                    THEN [file |-> NewBaseline(run.built.checksum, run.built.suite, run.built.catalog, verdict),
                          answers |-> Answers(traces)]
                    ELSE baseline
        /\ accept => Afresh /\ changes = 0 /\ run.override = Absent
        /\ UNCHANGED <<project, served, changes>>

\* The evidence instead of the model: nothing is written.
Replay ==
    LET context == Context(run.built.checksum, run.built.suite, run.built.catalog, Version)
        traces == RecordedTraces(evidence.file, run.built.suite, context)
    IN  /\ run.stage = "assembled" /\ run.replay
        /\ run' = [run EXCEPT !.stage = "over",
                              !.verdict = IF traces = Refused THEN Refused ELSE Verdict(run.built, traces)]
        /\ UNCHANGED <<project, served, evidence, baseline, changes>>

-----------------------------------------------------------------------------
(* The world.                                                                *)

Changed == changes < MaxChanges /\ changes' = changes + 1

Edit(next) ==
    /\ run.stage = "over" /\ Changed
    /\ <<project, next>> \in Edits
    /\ project' = next
    /\ run' = Idle
    /\ UNCHANGED <<served, evidence, baseline>>

\* `ollama pull`, at any time.  Bound: under a project that is spelled in several ways.
Replace(model) ==
    /\ model # served /\ Changed /\ Afresh /\ project \in Respelled
    /\ served' = model
    /\ run' = IF run.stage = "over" THEN Idle ELSE [run EXCEPT !.seen = @ \union {model}]
    /\ UNCHANGED <<project, evidence, baseline>>

\* The file is changed by hand: it keeps its name.
Touch(file) ==
    /\ run.stage = "over" /\ Changed /\ Afresh
    /\ evidence' = [evidence EXCEPT !.file = file, !.touched = TRUE]
    /\ run' = Idle
    /\ UNCHANGED <<project, served, baseline>>

WithoutLast(trace) == [trace EXCEPT !.samples = Front(trace.samples)]

\* Each call claims to be of the tool `id`.
Claiming(trace, id) ==
    [trace EXCEPT !.samples = [i \in DOMAIN trace.samples |->
        [trace.samples[i] EXCEPT !.tool_calls =
            [j \in DOMAIN trace.samples[i].tool_calls |-> [trace.samples[i].tool_calls[j] EXCEPT !.tool_id = id]]]]]

\* What was called is forgotten.
Silent(trace) ==
    [trace EXCEPT !.samples = [i \in DOMAIN trace.samples |-> [trace.samples[i] EXCEPT !.tool_calls = <<>>]]]

Retold(trace) ==
    {WithoutLast(trace), Silent(trace)} \union {Claiming(trace, id) : id \in DOMAIN evidence.built.catalog}

\* One trace is kept without the artifact; a sample or its calls are dropped; a
\* call is said to be another's.
EditEvidence ==
    /\ evidence # Absent /\ ~evidence.touched
    /\ LET file == evidence.file
           first == file.document.traces[1]
       IN  IF file.shape = "run"
           THEN \E trace \in Retold(first) :
                    trace # first /\ Touch([file EXCEPT !.document.traces[1] = trace])
           ELSE \E trace \in Retold(file.document) :
                    trace # file.document /\ Touch([file EXCEPT !.document = trace])

ExtractTrace ==
    /\ run.stage = "over" /\ Afresh
    /\ evidence # Absent /\ ~evidence.touched /\ evidence.file.shape = "run"
    /\ \E i \in DOMAIN evidence.file.document.traces :
        evidence' = [evidence EXCEPT !.file = [name |-> Absent, shape |-> "trace",
                                               document |-> evidence.file.document.traces[i]]]
    /\ run' = Idle
    /\ UNCHANGED <<project, served, baseline, changes>>

Next ==
    \/ \E override \in Overrides : \E replay \in BOOLEAN : Begin(override, replay)
    \/ ReadTags
    \/ ReadShow
    \/ RequestFails
    \/ Assemble
    \/ \E response \in Responses : Ask(response)
    \/ \E accept \in BOOLEAN : Conclude(accept)
    \/ Replay
    \/ \E next \in Projects : Edit(next)
    \/ \E model \in Models : Replace(model)
    \/ EditEvidence
    \/ ExtractTrace

Spec == Init /\ [][Next]_vars

-----------------------------------------------------------------------------
(* Properties.                                                               *)

Over == run.stage = "over"
Accepted == Over /\ run.verdict \notin {Absent, Refused}
Replayed == Over /\ run.replay
JustAssembled == run.stage = "assembled" /\ run.answers = <<>>
Recorded == evidence.file.document.probes

\* What a run asks of the model for each of its probes, whatever the spelling of its numbers.  A
\* local model is known by its digest, wherever it is served.
Asked(built) ==
    LET Unspelled(body) == [body EXCEPT !.params = CanonicalTable(@)]
        remote == \E id \in DOMAIN built.checksum : id[1] = "model" /\ id[2] = "openai-compatible"
    IN  [i \in DOMAIN built.suite.probes |->
            [name |-> built.suite.probes[i].name, at |-> IF remote THEN built.client.endpoint ELSE Absent,
             body |-> Unspelled(RequestBody(built.client, built.suite.probes[i].prompt))]]

AsSet(list) == {list[i] : i \in DOMAIN list}

\* A call whose arguments were the text `null`: it is not read back as it was written.
SaysNull(trace) ==
    \E i \in DOMAIN trace.samples : \E j \in DOMAIN trace.samples[i].tool_calls :
        trace.samples[i].tool_calls[j].arguments = Null

\* The artifact as it was written, taken with the repeats that the suite declares.
Genuine ==
    /\ evidence # Absent /\ ~evidence.touched /\ evidence.file.shape = "run"
    /\ \A i \in DOMAIN evidence.built.suite.probes :
        evidence.built.suite.probes[i].repeat = evidence.built.suite.probes[i].declared_repeat
    /\ \A i \in DOMAIN evidence.file.document.traces : ~SaysNull(evidence.file.document.traces[i])

\* What a probe expects, numbers spelled as they are.
Expected(suite) ==
    [name \in {suite.probes[i].name : i \in DOMAIN suite.probes} |->
        suite.probes[CHOOSE i \in DOMAIN suite.probes : suite.probes[i].name = name].expect_args]

\* A run over the agent, the catalog and the suite that an artifact was recorded with comes to the
\* outcomes the artifact records: the green run can be derived again.  Only a matcher that spells a
\* number otherwise may judge otherwise.
ReplayRederives ==
    /\ Replayed /\ run.built # Absent /\ Genuine
    /\ run.built.checksum = evidence.built.checksum
    /\ run.built.suite.digest = evidence.built.suite.digest
    /\ Expected(run.built.suite) = Expected(evidence.built.suite)
    => run.verdict # Refused /\ AsSet(run.verdict) = AsSet(Recorded)

\* Evidence survives an edit that changes no more than how the agent is written: the order of
\* prompts, servers, files and required fields, line endings, spacing of a number.
RespellingKeepsEvidence ==
    /\ Replayed /\ run.built # Absent /\ Genuine
    /\ {project, evidence.of} \subseteq Respelled /\ Cardinality(evidence.seen) = 1
    /\ run.seen = evidence.seen
    => run.verdict # Refused

\* Evidence taken while one local model was served is accepted only by a run during which the same
\* model was served: the digest of one request and the description of the next do not pass for it.
AcceptedWhileServed ==
    /\ Accepted /\ run.replay /\ Cardinality(evidence.seen) = 1
    /\ project.config.model.provider = "ollama"
    => evidence.seen \subseteq run.seen

\* A verdict is over every sample of every probe of the suite, be the evidence whole or one trace;
\* and of an artifact over the samples as they were taken, whatever was done to the file.
WholeSuiteJudged ==
    Accepted =>
        /\ run.replay /\ evidence.file.shape = "run" => ~evidence.touched
        /\ Len(run.verdict) = Len(run.built.suite.probes)
        /\ \A i \in DOMAIN run.verdict :
            /\ run.verdict[i].total = run.built.suite.probes[i].repeat
            /\ {run.verdict[i].samples[j].sample : j \in DOMAIN run.verdict[i].samples}
                 = 0..(run.built.suite.probes[i].repeat - 1)

\* The answers a verdict is over.
Judged(i) ==
    IF run.replay
    THEN TraceFor(IF evidence.file.shape = "run" THEN evidence.file.document.traces
                  ELSE <<evidence.file.document>>, run.verdict[i].probe).samples
    ELSE Traces(run.built, run.answers)[i].samples

\* The tools that the servers declare under a name.
DeclaredAs(name) ==
    UNION {{<<i, j>> : j \in {j \in DOMAIN project.config.servers[i].tools :
                                project.config.servers[i].tools[j].name = name}} :
           i \in DOMAIN project.config.servers}

\* A tool is credited with a call only if the call is by the name that one server declares for it,
\* and by a name that no second server declares.
CreditedToItsTool ==
    Accepted =>
        \A i \in DOMAIN run.verdict : \A k \in DOMAIN run.verdict[i].samples :
            LET checks == run.verdict[i].samples[k].checks
                expected == run.built.suite.probes[i].expect_tool
            IN  "tool_selection" \in DOMAIN checks /\ checks["tool_selection"] =>
                    /\ Cardinality(DeclaredAs(expected.name)) = 1
                    /\ \E c \in DOMAIN Judged(i)[k].tool_calls : Judged(i)[k].tool_calls[c].name = expected.name

\* Tools that a server tells apart by name, and servers that a project tells apart by alias, have
\* different identities, whatever characters the names are made of.
ToolsKeepApart ==
    run = Idle /\ ValidConfig(project.config) /\ McpDependencies(project.config.servers) # Refused
    /\ (\A i \in DOMAIN project.config.servers :
            IsInjective([j \in DOMAIN project.config.servers[i].tools |-> project.config.servers[i].tools[j].name]))
    => VerifyUnique(McpDependencies(project.config.servers))

\* What is recorded of a server, and of a part of the project, in all its strings.
OfItself(identity) ==
    (UNION {{<<identifier>> : identifier \in identity.capabilities[name]} :
            name \in DOMAIN identity.capabilities \intersect {"extensions", "experimental"}})
    \union Or(identity.supported_versions, {})
    \union (IF identity.server_info = Absent THEN {}
            ELSE {<<identity.server_info.name>>, <<identity.server_info.version>>})

Said(id, facets) ==
    LET Those(names) == {facets[name] : name \in DOMAIN facets \intersect names}
    IN  {RemoteName(id)}
        \union {<<text.words>> : text \in Those({"description", "instructions"})}
        \union (UNION {Pieces(schema) : schema \in Those({"input_schema", "output_schema"})})
        \union (UNION {OfItself(identity) : identity \in Those({"identity"})})

\* No value that a server was started with is recorded of it, in a payload or in the text a digest is
\* taken over: the lockfile is committed.
EnvironmentStaysOut ==
    JustAssembled =>
        \A server \in AsSet(project.config.servers) : \A id \in DOMAIN run.built.checksum :
            id = <<"mcp">> \o server.alias \/ IsPrefix(<<"tool">> \o server.alias \o <<Dot>>, id) =>
                \A text \in Said(id, run.built.checksum[id]) : ~Exposes(Secrets(server), text)

\* The keys of the first sample of each probe.
Keys(built) ==
    [i \in DOMAIN built.suite.probes |->
        CacheInputs(built.client, Version, built.catalog, built.checksum, built.suite.probes[i], 0)]

\* What an agent asks the model is all in what its answers are filed under: evidence that is
\* accepted, and a cached sample that is found, answer the very requests this agent would send.
\* (A replay does not look at whether a local endpoint could be sampled at all.)
AnswersAreToTheseRequests ==
    run.built # Absent /\ run.built.client # Refused /\ evidence # Absent =>
        /\ Accepted /\ run.replay /\ ~evidence.touched =>
            AsSet(Asked(run.built)) \subseteq AsSet(Asked(evidence.built))
        /\ JustAssembled => \A i \in DOMAIN run.built.suite.probes : \A j \in DOMAIN evidence.built.suite.probes :
            Keys(run.built)[i] = Keys(evidence.built)[j] => Asked(run.built)[i] = Asked(evidence.built)[j]

\* The report of the run, against the baseline that is committed.
Half ==
    BehaviorHalf(project.config.policy, Committed, run.built.suite, run.built.catalog,
                 run.verdict, [i \in DOMAIN run.verdict |-> Judged(i)])

Unclaimed(samples) ==
    [i \in DOMAIN samples |->
        [samples[i] EXCEPT !.tool_calls = [j \in DOMAIN @ |-> [@[j] EXCEPT !.tool_id = Absent]]]]

\* The same answers to the same suite keep their scores, unless the report names a schema that is not
\* the baseline's, or a tool of the baseline is gone, which the diff reports.  (The arguments that a
\* probe expects are left out: `equals = 1` and `equals = 1.0` have one digest and do not accept the
\* same answers.)
SchemaMovesAreNamed ==
    /\ Accepted /\ baseline # Absent /\ Half.suite_matches
    /\ DOMAIN baseline.file.yardsticks \subseteq DOMAIN run.built.catalog
    /\ \A i \in DOMAIN run.verdict :
        Unclaimed(Judged(i)) = Unclaimed(baseline.answers[run.verdict[i].probe])
    => \/ Half.yardsticks_changed # {}
       \/ \A m \in DOMAIN baseline.file.metrics \ {"argument_expectation"} :
            Aggregate(run.verdict)[m] = baseline.file.metrics[m]

\* The line of a probe names every metric that one of its samples fell short of, and a line is
\* without failures only where all samples passed.
ShortfallsAreNamed ==
    Accepted =>
        \A i \in DOMAIN run.verdict :
            LET row == Half.probes[i]
            IN  /\ {line.metric : line \in row.failures}
                     = {m \in DOMAIN run.verdict[i].metrics :
                            run.verdict[i].metrics[m].passed < run.verdict[i].metrics[m].total}
                /\ row.failures = {} <=> row.passed = row.total

\* What a reader acts upon is in the report: a moved yardstick does not look like a regression of
\* the model, and no metric falls short unnamed.
ReportHidesNothing == SchemaMovesAreNamed /\ ShortfallsAreNamed

\* `inspect` over an up-to-date lockfile tells beforehand what a check scores: the same probes
\* under the same digests, whatever `--repeat` is, by no metric that it does not list, and by every metric that a probe declares.
InspectForetells ==
    Accepted /\ ~run.replay =>
        LET lock == FromDependencies(McpDependencies(project.config.servers))
            inspected == InspectProbes(project.config, project.directory, project.schemas, lock)
        IN  /\ Inspectable(project.config, project.directory, project.schemas, lock)
            /\ inspected.suite_digest = Half.probe_suite_digest
            /\ \A i \in DOMAIN run.verdict :
                LET probe == inspected.probes[i]
                    scored == DOMAIN run.verdict[i].metrics
                    named == UNION {tool.metrics : tool \in probe.tools}
                IN  /\ probe.probe = run.verdict[i].probe /\ probe.digest = run.verdict[i].probe_digest
                    /\ named \subseteq scored /\ scored \subseteq probe.metrics
                    /\ probe.metrics \subseteq scored \union {"argument_validity"}

\* The model is shown the description that the server declares for a tool.
DescriptionsAreShown ==
    run.built # Absent =>
        \A i \in DOMAIN project.config.servers : \A j \in DOMAIN project.config.servers[i].tools :
            LET server == project.config.servers[i]
                id == <<"tool">> \o ToolId(server.alias, server.tools[j].name)
                declared == server.tools[j].description
            IN  run.built.catalog[id].description = IF declared = Absent THEN Absent ELSE NormalizeText(declared)
=============================================================================

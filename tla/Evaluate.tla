------------------------------ MODULE Evaluate -------------------------------
(***************************************************************************)
(* What a recorded answer is worth: the checks that apply to a sample, and *)
(* the counts they add up to (src/src/probes/eval.rs, metrics.rs).         *)
(*                                                                         *)
(* A trace is [trace_version, probe, probe_digest, agent_checksum,         *)
(* captured_with, samples].                                                *)
(***************************************************************************)
EXTENDS Client

\* What a JSON Schema validator accepts.
Conforms(value, schema) ==
    /\ Demands(schema).object => IsObject(value)
    /\ IsObject(value) => Demands(schema).required \subseteq DOMAIN value.object

CallsTo(sample, tool) ==
    {i \in DOMAIN sample.tool_calls : IsCalledBy(tool, sample.tool_calls[i])}

\* ToolCall::arguments_are_parsed.
Parsed(call) == call.arguments # Absent /\ ~call.unparsed

\* Fault: the claimed tool need only exist.
KnownIdentity(call, catalog) == call.tool_id # Absent => call.tool_id \in DOMAIN catalog

\* A call that claims to be a tool is of a tool there is, by its declared name.
TrueIdentity(call, catalog) ==
    call.tool_id # Absent =>
        call.tool_id \in DOMAIN catalog /\ catalog[call.tool_id].name = call.name

\* The id of the tool a call names; a name that several tools have names none.
DeclaredTool(catalog, call) ==
    LET named == ByName(catalog, call.name)
    IN  CASE call.tool_id # Absent -> call.tool_id
          [] call.tool_id = Absent /\ Cardinality(named) = 1 -> CHOOSE id \in named : TRUE
          [] OTHER -> Absent

\* The first call that does not hold decides; a schema that does not compile is an error.
CheckArguments(sample, catalog) ==
    LET tool(i) == DeclaredTool(catalog, sample.tool_calls[i])
        schema(i) == catalog[tool(i)].input_schema
        usable(i) == tool(i) # Absent /\ Parsed(sample.tool_calls[i])
        sound(i) == /\ usable(i) /\ Compiles(schema(i))
                    /\ Conforms(sample.tool_calls[i].arguments, schema(i))
        faults == {i \in DOMAIN sample.tool_calls : ~sound(i)}
    IN  IF faults = {} THEN TRUE
        ELSE IF usable(Min(faults)) /\ ~Compiles(schema(Min(faults))) THEN Refused
        ELSE FALSE

CheckFinalText(text, schema) ==
    text # Absent /\ text.string \in DOMAIN Parse /\ Conforms(Parse[text.string], schema)

SatisfiedBy(sample, probe) ==
    \E i \in CallsTo(sample, probe.expect_tool) :
        /\ Parsed(sample.tool_calls[i])
        /\ Satisfies(sample.tool_calls[i].arguments, probe.expect_args)

\* The metrics that apply to a sample: one that called nothing has no arguments to check.
Applicable(probe, sample) ==
    {m \in Metrics :
        \/ m = "tool_selection" /\ probe.expect_tool # Absent
        \/ m = "argument_expectation" /\ probe.expect_args # <<>>
        \/ m = "forbidden_tool_usage" /\ probe.forbid_tools # {}
        \/ m = "tool_restraint" /\ probe.expect_no_tool
        \/ m = "structured_output_validity" /\ probe.output_schema # Absent
        \/ m = "argument_validity" /\ sample.tool_calls # <<>>}

Check(metric, probe, sample, catalog) ==
    CASE metric = "tool_selection" -> CallsTo(sample, probe.expect_tool) # {}
      [] metric = "argument_expectation" -> SatisfiedBy(sample, probe)
      [] metric = "forbidden_tool_usage" -> \A tool \in probe.forbid_tools : CallsTo(sample, tool) = {}
      [] metric = "tool_restraint" -> sample.tool_calls = <<>>
      [] metric = "structured_output_validity" -> CheckFinalText(sample.final_text, probe.output_schema)
      [] metric = "argument_validity" -> CheckArguments(sample, catalog)

CheckSample(probe, sample, catalog) ==
    [metric \in Applicable(probe, sample) |-> Check(metric, probe, sample, catalog)]

\* MetricScore::record over the samples to which a metric applies.
Tally(checks, metric) ==
    LET applied == {i \in DOMAIN checks : metric \in DOMAIN checks[i]}
    IN  [passed |-> Cardinality({i \in applied : checks[i][metric]}), total |-> Cardinality(applied)]

\* Fault: the number of samples is not compared.
IsTraceOfSome(trace, probe) ==
    trace.probe = probe.name /\ trace.probe_digest = ProbeDigest(probe)

\* The trace is of this probe, in this revision, with this many samples.
IsTraceOf(trace, probe) ==
    /\ trace.probe = probe.name
    /\ trace.probe_digest = ProbeDigest(probe)
    /\ Len(trace.samples) = probe.repeat

Judge(probe, trace, catalog) ==
    LET samples == trace.samples
        checks == [i \in DOMAIN samples |-> CheckSample(probe, samples[i], catalog)]
        passes(i) == \A metric \in DOMAIN checks[i] : checks[i][metric]
    IN  IF \E i \in DOMAIN checks : \E metric \in DOMAIN checks[i] : checks[i][metric] = Refused
        THEN Refused
        ELSE [probe |-> probe.name, probe_digest |-> ProbeDigest(probe),
              samples |-> [i \in DOMAIN samples |->
                            [sample |-> samples[i].index, passed |-> passes(i), checks |-> checks[i]]],
              passed |-> Cardinality({i \in DOMAIN samples : passes(i)}), total |-> probe.repeat,
              metrics |-> [metric \in UNION {DOMAIN checks[i] : i \in DOMAIN checks} |-> Tally(checks, metric)]]

ValidIdentities(trace, catalog) ==
    \A i \in DOMAIN trace.samples : \A j \in DOMAIN trace.samples[i].tool_calls :
        TrueIdentity(trace.samples[i].tool_calls[j], catalog)

\* evaluate: identities are checked before anything is scored.
Evaluation(probe, trace, catalog) ==
    IF IsTraceOf(trace, probe) /\ ValidIdentities(trace, catalog) THEN Judge(probe, trace, catalog)
    ELSE Refused

\* aggregate: counts are added, never averaged.
Aggregate(outcomes) ==
    [metric \in UNION {DOMAIN outcomes[i].metrics : i \in DOMAIN outcomes} |->
        LET measured == {i \in DOMAIN outcomes : metric \in DOMAIN outcomes[i].metrics}
        IN  [passed |-> SumFunction([i \in measured |-> outcomes[i].metrics[metric].passed]),
             total |-> SumFunction([i \in measured |-> outcomes[i].metrics[metric].total])]]

\* Every probe of a suite against the trace at its place.
EvaluateAll(suite, traces, catalog) ==
    [i \in DOMAIN suite.probes |-> Evaluation(suite.probes[i], traces[i], catalog)]
==============================================================================

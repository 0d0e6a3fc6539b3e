------------------------------ MODULE Evidence ------------------------------
(***************************************************************************)
(* The artifact of a run, and what a later `check --trace` accepts as      *)
(* evidence about the agent in front of it (src/src/runner/artifact.rs,    *)
(* evidence.rs, trace.rs, src/src/cli/cmd/check.rs).                       *)
(*                                                                         *)
(* A file is [name, shape, document].  The name of an artifact is the      *)
(* canonical form of its contents.                                         *)
(***************************************************************************)
EXTENDS Evaluate

CONSTANTS
    RunVersion,   \* artifact::RUN_VERSION
    TraceVersion  \* trace::TRACE_VERSION

\* What a call is after it was written and read: serde reads a null as no value.
Reread(call) ==
    [call EXCEPT !.arguments = IF call.arguments = Null THEN Absent ELSE call.arguments]

RereadTrace(trace) ==
    [trace EXCEPT !.samples = [i \in DOMAIN trace.samples |->
        [trace.samples[i] EXCEPT !.tool_calls =
            [j \in DOMAIN trace.samples[i].tool_calls |-> Reread(trace.samples[i].tool_calls[j])]]]]

RereadArtifact(artifact) ==
    [artifact EXCEPT !.traces = [i \in DOMAIN artifact.traces |-> RereadTrace(artifact.traces[i])]]

\* What is hashed of a call: numbers lose their spelling.
HashedCall(call) ==
    [call EXCEPT !.arguments = IF call.arguments = Absent THEN Absent ELSE Canonical(call.arguments)]

HashedTrace(trace) ==
    [trace EXCEPT !.samples = [i \in DOMAIN trace.samples |->
                        [trace.samples[i] EXCEPT !.tool_calls =
                            [j \in DOMAIN trace.samples[i].tool_calls |->
                                HashedCall(trace.samples[i].tool_calls[j])]]],
                  !.captured_with.effective_params = CanonicalTable(@)]

\* RunArtifact::digest, and with it the name of the file.
Address(artifact) ==
    [artifact EXCEPT !.traces = [i \in DOMAIN artifact.traces |-> HashedTrace(artifact.traces[i])],
                     !.captured_with.effective_params = CanonicalTable(@)]

TraceFor(traces, name) ==
    LET of == {i \in DOMAIN traces : traces[i].probe = name}
    IN  IF of = {} THEN Absent ELSE traces[Min(of)]

-----------------------------------------------------------------------------
(* Two parts of one bundle must agree.                                       *)

OneCapture(artifact) ==
    \A i \in DOMAIN artifact.traces :
        LET trace == artifact.traces[i]
        IN  /\ trace.captured_with = artifact.captured_with
            /\ trace.agent_checksum = artifact.agent_checksum
            /\ \A j \in DOMAIN trace.samples : trace.samples[j].index = j - 1

\* The evaluation of a probe is of its trace, sample by sample.
OutcomeAgrees(outcome, trace) ==
    /\ trace # Absent
    /\ outcome.probe_digest = trace.probe_digest
    /\ outcome.total = Len(trace.samples) /\ Len(outcome.samples) = Len(trace.samples)
    /\ \A j \in DOMAIN outcome.samples : outcome.samples[j].sample = trace.samples[j].index

Consistent(artifact) ==
    /\ OneCapture(artifact)
    /\ IsInjective([i \in DOMAIN artifact.traces |-> artifact.traces[i].probe])
    /\ \A i \in DOMAIN artifact.probes :
        OutcomeAgrees(artifact.probes[i], TraceFor(artifact.traces, artifact.probes[i].probe))
    /\ \A i \in DOMAIN artifact.traces : \E j \in DOMAIN artifact.probes :
        artifact.probes[j].probe = artifact.traces[i].probe
    /\ Aggregate(artifact.probes) = artifact.metrics

\* RunArtifact::new, from traces that agree.
NewArtifact(checksum, suite, traces, outcomes) ==
    LET artifact == [run_version |-> RunVersion, agent_checksum |-> checksum,
                     probe_suite_digest |-> suite.digest, captured_with |-> traces[1].captured_with,
                     traces |-> traces, probes |-> outcomes, metrics |-> Aggregate(outcomes)]
    IN  IF traces = <<>> \/ ~Consistent(artifact) THEN Refused ELSE artifact

-----------------------------------------------------------------------------
(* Reading it back.                                                          *)

\* RunArtifact::read: versions, contradictions, and last the name.
ReadArtifact(file) ==
    LET artifact == RereadArtifact(file.document)
    IN  IF /\ artifact.run_version = RunVersion
           /\ \A i \in DOMAIN artifact.traces : artifact.traces[i].trace_version = TraceVersion
           /\ Consistent(artifact)
           /\ file.name = Address(artifact)
        THEN artifact ELSE Refused

\* Trace::read.
ReadTrace(file) ==
    IF file.document.trace_version > TraceVersion THEN Refused ELSE RereadTrace(file.document)

\* context_mismatch: the runner and the catalog of a recording are those of this run.
Matching(captured, context) ==
    /\ captured.runner = Runner
    /\ captured.runner_version = context.runner_version
    /\ captured.tool_catalog_digest = context.tool_catalog_digest

ValidTrace(trace, context) ==
    /\ trace.trace_version = TraceVersion
    /\ Matching(trace.captured_with, context)
    /\ trace.agent_checksum = context.agent_checksum

ValidArtifact(artifact, context) ==
    /\ artifact.run_version = RunVersion
    /\ Matching(artifact.captured_with, context)
    /\ artifact.agent_checksum = context.agent_checksum
    /\ artifact.probe_suite_digest = context.probe_suite_digest
    /\ \A i \in DOMAIN artifact.traces : ValidTrace(artifact.traces[i], context)

\* OwnedContext::new.
Context(checksum, suite, catalog, version) ==
    [agent_checksum |-> checksum, probe_suite_digest |-> suite.digest,
     tool_catalog_digest |-> CatalogDigest(catalog), runner_version |-> version]

\* RecordedEvidence::read and validate: the traces of a file that may be scored.
UsableTraces(file, context) ==
    LET artifact == ReadArtifact(file)
        trace == ReadTrace(file)
    IN  CASE file.shape = "run" /\ artifact # Refused /\ ValidArtifact(artifact, context) -> artifact.traces
          [] file.shape = "trace" /\ trace # Refused /\ ValidTrace(trace, context) -> <<trace>>
          [] OTHER -> Refused

\* recorded_traces: one for every probe of the suite.
RecordedTraces(file, suite, context) ==
    LET traces == UsableTraces(file, context)
        aligned == [i \in DOMAIN suite.probes |-> TraceFor(traces, suite.probes[i].name)]
    IN  IF traces = Refused \/ \E i \in DOMAIN aligned : aligned[i] = Absent THEN Refused ELSE aligned
=============================================================================

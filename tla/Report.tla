------------------------------- MODULE Report --------------------------------
(***************************************************************************)
(* What is told of a suite and its scores: the listing of `inspect`        *)
(* (src/src/cli/cmd/inspect.rs), the baseline that `--accept` writes       *)
(* (src/src/gate/baseline.rs), and the behavioral half of a report         *)
(* (src/src/gate/result.rs).  The judgement itself is in Gate.             *)
(***************************************************************************)
EXTENDS Evidence

CONSTANT Contract  \* openai::RUNNER_CONTRACT

G == INSTANCE Gate WITH Metric <- Metrics, None <- Absent

-----------------------------------------------------------------------------
(* inspect probes.                                                           *)

\* The metrics that a probe may be measured by; any sample may call a tool.
ProbeMetrics(probe) ==
    {m \in Metrics :
        \/ m = "argument_validity"
        \/ m = "tool_selection" /\ probe.expect_tool # Absent
        \/ m = "argument_expectation" /\ probe.expect_args # <<>>
        \/ m = "forbidden_tool_usage" /\ probe.forbid_tools # {}
        \/ m = "tool_restraint" /\ probe.expect_no_tool
        \/ m = "structured_output_validity" /\ probe.output_schema # Absent}

\* The tools a probe names, each with the metrics that its part in the probe feeds.
InspectedTools(probe) ==
    {[id |-> probe.expect_tool.id,
      metrics |-> {"tool_selection"}
                  \union (IF probe.expect_args = <<>> THEN {} ELSE {"argument_expectation"})] :
        part \in {"expected"} \ (IF probe.expect_tool = Absent THEN {"expected"} ELSE {})}
    \union {[id |-> tool.id, metrics |-> {"forbidden_tool_usage"}] : tool \in probe.forbid_tools}

InspectedProbe(probe) ==
    [probe |-> probe.name, repeat |-> probe.repeat, digest |-> ProbeDigest(probe),
     metrics |-> ProbeMetrics(probe), tools |-> InspectedTools(probe)]

\* The suite against the catalog of the lockfile; no repeat but the declared one.
Inspectable(config, directory, schemas, lock) ==
    /\ Loads(config) /\ FromLockfile(lock) # Refused
    /\ Loadable(config.probes, directory, schemas, FromLockfile(lock), Absent)

InspectProbes(config, directory, schemas, lock) ==
    LET suite == LoadSuite(config.probes, directory, schemas, FromLockfile(lock), Absent)
    IN  IF Inspectable(config, directory, schemas, lock)
        THEN [suite_digest |-> suite.digest,
              probes |-> [i \in DOMAIN suite.probes |-> InspectedProbe(suite.probes[i])]]
        ELSE Refused

-----------------------------------------------------------------------------
(* The baseline.                                                             *)

\* BehaviorBaseline::new.
NewBaseline(checksum, suite, catalog, outcomes) ==
    [agent_checksum |-> checksum, suite |-> suite.digest, contract |-> Contract,
     metrics |-> Aggregate(outcomes),
     probes |-> [name \in {outcomes[i].probe : i \in DOMAIN outcomes} |->
                    LET outcome == outcomes[CHOOSE i \in DOMAIN outcomes : outcomes[i].probe = name]
                    IN  G!Score(outcome.passed, outcome.total)],
     yardsticks |-> InputSchemaDigests(catalog)]

\* Fault: of a tool that was there before the schema is not looked at.
AddedYardsticks(baseline, catalog) ==
    {id \in DOMAIN catalog : baseline # Absent /\ id \notin DOMAIN baseline.yardsticks}

\* The tools of this run whose input schema is not the one the baseline was scored against.
ChangedYardsticks(baseline, catalog) ==
    {id \in DOMAIN catalog :
        /\ baseline # Absent
        /\ id \in DOMAIN baseline.yardsticks =>
            baseline.yardsticks[id] # InputSchemaDigests(catalog)[id]}

-----------------------------------------------------------------------------
(* The behavioral half of the report.                                        *)

\* What the sentence about a failed check says, apart from what its probe says of itself.
Wording(metric, probe, sample) ==
    CASE metric = "tool_selection" -> "not called"
      [] metric = "argument_expectation" -> Cardinality(CallsTo(sample, probe.expect_tool))
      [] metric = "forbidden_tool_usage" -> {tool \in probe.forbid_tools : CallsTo(sample, tool) # {}}
      [] metric = "tool_restraint" -> Len(sample.tool_calls)
      [] metric = "structured_output_validity" -> sample.final_text
      [] metric = "argument_validity" -> sample.tool_calls

Fails(outcome, i) == {m \in DOMAIN outcome.samples[i].checks : ~outcome.samples[i].checks[m]}

\* failing_checks: a check that failed in the same words is told about once.  (The words are compared
\* by how a line ends, so "2 tools were called" is also taken for told after "12 tools were called".)
FailingChecks(outcome, probe, samples) ==
    LET Same(i, j, m) == Wording(m, probe, samples[i]) = Wording(m, probe, samples[j])
    IN  UNION {{[sample |-> i, metric |-> m] :
                    m \in {m \in Fails(outcome, i) :
                            \A j \in 1..(i - 1) : m \in Fails(outcome, j) => ~Same(i, j, m)}} :
                i \in DOMAIN samples}

ProbeRow(outcome, probe, samples) ==
    [probe |-> outcome.probe, passed |-> outcome.passed, total |-> outcome.total,
     failures |-> FailingChecks(outcome, probe, samples)]

\* apply_policy of a run.
PolicyOutcome(policy, baseline, suite, outcomes) ==
    G!ApplyPolicy(policy, baseline, suite.digest, Contract, Aggregate(outcomes))

SumOf(outcomes, count) == SumFunction([i \in DOMAIN outcomes |-> outcomes[i][count]])

\* BehaviorHalf::of; `answers` holds the samples of each probe.
BehaviorHalf(policy, baseline, suite, catalog, outcomes, answers) ==
    LET outcome == PolicyOutcome(policy, baseline, suite, outcomes)
    IN  [baseline_present |-> outcome.present,
         suite_matches |-> outcome.suiteMatches,
         runner_contract_matches |-> outcome.contractMatches,
         probe_suite_digest |-> suite.digest,
         probes_passed |-> SumOf(outcomes, "passed"),
         probes_total |-> SumOf(outcomes, "total"),
         metrics |-> G!Rows(policy, Aggregate(outcomes), outcome),
         yardsticks_changed |-> ChangedYardsticks(baseline, catalog),
         failures |-> outcome.failures,
         drift_reasons |-> G!OutcomeReasons(outcome),
         probes |-> [i \in DOMAIN outcomes |-> ProbeRow(outcomes[i], suite.probes[i], answers[i])]]
==============================================================================

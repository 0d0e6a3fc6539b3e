------------------------------- MODULE Verdict -------------------------------
(***************************************************************************)
(* The verdict of `check` over the life of a project: between two runs the *)
(* scores, the committed baseline, the probe suite, the runner contract    *)
(* and the dependency state may move, and the report is a function of      *)
(* where they stand.  Every flag that shapes a verdict is in Mode, so one  *)
(* state shows what every spelling of the command would have concluded.    *)
(***************************************************************************)
EXTENDS Gate

CONSTANTS
    Policies,   \* the configured policies to consider
    Tables,     \* the scores a run can measure
    Suites,     \* probe suite digests
    Contracts,  \* runner contracts
    Reports,    \* dependency reports: [changed, risk]
    Thresholds  \* the risk thresholds a run may be given, None for none

\* Config::validate and MetricScore: thresholds and counts are natural numbers.
ASSUME VerdictAssumption ==
    /\ \A p \in Policies : \A m \in DOMAIN p :
        /\ p[m].min \in Nat \union {None}
        /\ p[m].max \in Nat \union {None}
        /\ p[m].max_drop \in Nat \union {None}
    /\ \A table \in Tables : \A m \in DOMAIN table :
        table[m] # None /\ table[m].passed \in Nat /\ table[m].total \in Nat
    /\ \A report \in Reports : report.changed \in BOOLEAN /\ report.risk \in Nat
    /\ Thresholds \subseteq Nat \union {None}
    /\ None \notin Statuses
    /\ \A s \in Suites : \A k \in Contracts : \A table \in Tables :
        None # [suite |-> s, contract |-> k, metrics |-> table]

VARIABLES
    policy,     \* [policy.metrics], as validated
    scores,     \* what this run measured
    baseline,   \* .agentchecksum/baseline.json, or None
    suite,      \* the digest of the loaded suite
    contract,   \* RUNNER_CONTRACT of the binary
    dependency  \* the diff of the lockfile and the current state

vars == <<policy, scores, baseline, suite, contract, dependency>>

\* --no-probes and --diff-only, --probes-only, --fail-on-drift, --fail-on-risk.
Mode ==
    {mode \in [probes : BOOLEAN, probesOnly : BOOLEAN, failOnDrift : BOOLEAN,
               failOnRisk : Thresholds] : mode.probesOnly => mode.probes}

Outcome == ApplyPolicy(policy, baseline, suite, contract, scores)

Static(mode) == IF mode.probesOnly THEN "pass" ELSE DependencyStatus(dependency, mode.failOnRisk)

Status(mode) ==
    CombinedStatus(Static(mode),
                   IF mode.probes THEN OutcomeStatus(Outcome) ELSE None,
                   ~mode.probesOnly /\ dependency.changed)

Reasons(mode) ==
    DriftReasons(IF mode.probes THEN OutcomeReasons(Outcome) ELSE {}, dependency.changed)

Exit(mode) == ExitCode(Status(mode), mode.failOnDrift)

Record(s, k, table) == [suite |-> s, contract |-> k, metrics |-> table]

Init ==
    /\ policy \in Policies
    /\ scores \in Tables
    /\ baseline = None
    /\ suite \in Suites
    /\ contract \in Contracts
    /\ dependency \in Reports

\* Another run measures other scores.
Measure(table) ==
    /\ scores' = table
    /\ UNCHANGED <<policy, baseline, suite, contract, dependency>>

\* check --accept: refused while the dependency gate does not pass, and nothing is
\* recorded when a constraint failed.
Accept(failOnRisk) ==
    /\ DependencyStatus(dependency, failOnRisk) = "pass"
    /\ Outcome.failures = {}
    /\ baseline' = Record(suite, contract, scores)
    /\ UNCHANGED <<policy, scores, suite, contract, dependency>>

\* The baseline is removed, the suite edited, the binary replaced, the agent changed.
Discard ==
    /\ baseline' = None
    /\ UNCHANGED <<policy, scores, suite, contract, dependency>>

Revise(s) ==
    /\ suite' = s
    /\ UNCHANGED <<policy, scores, baseline, contract, dependency>>

Upgrade(k) ==
    /\ contract' = k
    /\ UNCHANGED <<policy, scores, baseline, suite, dependency>>

Move(report) ==
    /\ dependency' = report
    /\ UNCHANGED <<policy, scores, baseline, suite, contract>>

Next ==
    \/ \E table \in Tables : Measure(table)
    \/ \E failOnRisk \in Thresholds : Accept(failOnRisk)
    \/ Discard
    \/ \E s \in Suites : Revise(s)
    \/ \E k \in Contracts : Upgrade(k)
    \/ \E report \in Reports : Move(report)

Spec == Init /\ [][Next]_vars

\* The state is what the constants say it may be.
TypeOK ==
    /\ policy \in Policies
    /\ scores \in Tables
    /\ baseline \in {None} \union {Record(s, k, table) : s \in Suites, k \in Contracts, table \in Tables}
    /\ suite \in Suites
    /\ contract \in Contracts
    /\ dependency \in Reports

------------------------------------------------------------------------------
(* Reference: when a declared constraint holds, in the words of the docs.    *)

Now(m) == Get(scores, m)
Then(m) == Recorded(baseline, m)

\* A floor demands evidence, a ceiling judges what was measured, and a drop needs both
\* of its sides.
HoldsMin(m, p) ==
    p.min # None => Measured(Now(m)) /\ Now(m).passed * Unit >= p.min * Now(m).total

HoldsMax(m, p) ==
    p.max # None => (Measured(Now(m)) => Now(m).passed * Unit <= p.max * Now(m).total)

HoldsDrop(m, p) ==
    p.max_drop # None =>
        /\ Measured(Now(m)) /\ Measured(Then(m))
        /\ Then(m).passed * Now(m).total * Unit
              <= p.max_drop * Then(m).total * Now(m).total + Now(m).passed * Then(m).total * Unit

\* The constraints of p that are declared hold for metric m.
Holds(m, p) == HoldsMin(m, p) /\ HoldsMax(m, p) /\ HoldsDrop(m, p)

\* The baseline describes this suite under this runner contract.
SameExperiment == baseline # None /\ baseline.suite = suite /\ baseline.contract = contract

\* With --fail-on-drift, exit 0 means everything that was asked was answered: the
\* baseline is of this experiment, every declared constraint of every metric was
\* measured and held, and the agent did not move unless --probes-only set it aside.
GreenIsJudged ==
    \A mode \in Mode : mode.failOnDrift /\ Exit(mode) = 0 =>
        /\ mode.probesOnly \/ ~dependency.changed
        /\ mode.probes => SameExperiment /\ \A m \in DOMAIN policy : Holds(m, policy[m])

\* A floor or a ceiling that is missed fails the gate in every mode that runs
\* probes, whatever became of the baseline, the suite and the contract.
AbsoluteAlwaysGates ==
    \A m \in DOMAIN policy : ~HoldsMin(m, policy[m]) \/ ~HoldsMax(m, policy[m]) =>
        \A mode \in Mode : mode.probes => Exit(mode) = 1

\* This run did worse at m than the one before, and the same at all else.
WorseAt(m) ==
    /\ m \in DOMAIN scores \intersect DOMAIN scores'
    /\ scores'[m].total = scores[m].total
    /\ scores'[m].passed < scores[m].passed
    /\ DOMAIN scores' = DOMAIN scores
    /\ \A o \in DOMAIN scores \ {m} : scores'[o] = scores[o]

\* Doing worse at a metric without a ceiling never turns a failing gate green.
WorseNeverHelps ==
    [][\A m \in Metric :
        (/\ WorseAt(m)
         /\ UNCHANGED <<policy, baseline, suite, contract, dependency>>
         /\ m \in DOMAIN policy => policy[m].max = None)
        => \A mode \in Mode : Exit(mode)' >= Exit(mode)]_vars

\* Some max_drop has no score on one of its two sides.
Unmeasured ==
    \E m \in DOMAIN policy : policy[m].max_drop # None /\ ~(Measured(Now(m)) /\ Measured(Then(m)))

\* Once accepted, the same behavior passes, under every flag, unless a max_drop was
\* declared for a metric that the accepted run did not measure.
AcceptSettles ==
    [][(\E failOnRisk \in Thresholds : Accept(failOnRisk)) =>
        Unmeasured' \/ \A mode \in Mode : Status(mode)' = "pass" /\ Exit(mode)' = 0]_vars

\* A verdict of drift names its reason, unless it is the max_drop of a metric that
\* one of the two sides did not measure.
DriftIsExplained ==
    \A mode \in Mode : Status(mode) = "drift" =>
        Reasons(mode) # {} \/ (SameExperiment /\ Unmeasured)

\* A row says FAIL exactly when a constraint of its metric was missed by a score
\* there is, and a run with such a row never exits 0.
FailRowsGate ==
    LET rows == Rows(policy, scores, Outcome)
    IN  \A m \in DOMAIN rows : rows[m] = "fail" =>
            /\ ~Holds(m, policy[m])
            /\ \A mode \in Mode : mode.probes => Exit(mode) = 1
==============================================================================

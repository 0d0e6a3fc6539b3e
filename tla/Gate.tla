-------------------------------- MODULE Gate --------------------------------
(***************************************************************************)
(* What `check` concludes from a run: each metric judged against its       *)
(* policy (gate::policy), the behavioral outcome and the dependency status *)
(* (gate::mod), and the report and exit code made of both (gate::result).  *)
(* Pure: no state.                                                         *)
(*                                                                         *)
(* A score is a fraction passed/total, a threshold a number of Unit-ths.   *)
(* The comparisons are exact, as the code's f64 ones are for the values of *)
(* the instances (totals and Unit are powers of two).                      *)
(***************************************************************************)
EXTENDS Integers, FiniteSets

CONSTANTS
    Metric,  \* Metric::ALL
    Unit,    \* a threshold t stands for t / Unit
    None     \* Option::None

ASSUME GateAssumption == Unit \in Nat \ {0} /\ None \notin Nat

------------------------------------------------------------------------------
(* Scores.                                                                   *)

Score(passed, total) == [passed |-> passed, total |-> total]

\* A score with no sample behind it is no score.
Measured(score) == score # None /\ score.total > 0

Below(score, threshold) == score.passed * Unit < threshold * score.total

Above(score, threshold) == score.passed * Unit > threshold * score.total

\* Fault: the operands of the drop are swapped.
Rose(before, now, allowed) ==
    (now.passed * before.total - before.passed * now.total) * Unit
        > allowed * before.total * now.total

\* now is more than `allowed` short of before.
Fell(before, now, allowed) ==
    (before.passed * now.total - now.passed * before.total) * Unit
        > allowed * before.total * now.total

Perfect(score) == Measured(score) /\ score.passed = score.total

------------------------------------------------------------------------------
(* One metric: policy::evaluate.  p is a MetricPolicy, now and before the     *)
(* scores of this run and of the baseline.                                    *)

\* Fault: a floor passes when nothing was measured.
FailsMinIfMeasured(p, now) == p.min # None /\ Measured(now) /\ Below(now, p.min)

\* A floor demands evidence: what was not measured does not meet it.
FailsMin(p, now) == p.min # None /\ (Measured(now) => Below(now, p.min))

FailsMax(p, now) == p.max # None /\ Measured(now) /\ Above(now, p.max)

CanCompare(now, before, comparable) == comparable /\ Measured(now) /\ Measured(before)

FailsDrop(p, now, before, comparable) ==
    /\ p.max_drop # None
    /\ CanCompare(now, before, comparable)
    /\ Fell(before, now, p.max_drop)

Undecided(p, now, before, comparable) ==
    p.max_drop # None /\ ~CanCompare(now, before, comparable)

\* The constraints that failed, none of which excuses another.
Failures(p, now, before, comparable) ==
    {c \in {"min", "max", "max_drop"} :
        \/ c = "min" /\ FailsMin(p, now)
        \/ c = "max" /\ FailsMax(p, now)
        \/ c = "max_drop" /\ FailsDrop(p, now, before, comparable)}

------------------------------------------------------------------------------
(* The behavioral half: check::apply_policy and BehaviorOutcome.  policy maps *)
(* the configured metrics to their policies, scores the measured ones to      *)
(* their counts; baseline is None or [suite, contract, metrics].              *)

Get(scores, m) == IF m \in DOMAIN scores THEN scores[m] ELSE None

Recorded(baseline, m) == IF baseline = None THEN None ELSE Get(baseline.metrics, m)

ApplyPolicy(policy, baseline, suite, contract, scores) ==
    LET suiteMatches == baseline # None /\ baseline.suite = suite
        contractMatches == baseline # None /\ baseline.contract = contract
        comparable == suiteMatches /\ contractMatches
        Before(m) == Recorded(baseline, m)
    IN  [present |-> baseline # None,
         suiteMatches |-> suiteMatches,
         contractMatches |-> contractMatches,
         failures |-> {f \in (DOMAIN policy) \X {"min", "max", "max_drop"} :
                          f[2] \in Failures(policy[f[1]], Get(scores, f[1]), Before(f[1]), comparable)},
         undecided |-> \E m \in DOMAIN policy :
                          Undecided(policy[m], Get(scores, m), Before(m), comparable)]

Comparable(outcome) == outcome.present /\ outcome.suiteMatches /\ outcome.contractMatches

OutcomeStatus(outcome) ==
    IF outcome.failures # {} THEN "regression"
    ELSE IF ~Comparable(outcome) \/ outcome.undecided THEN "drift"
    ELSE "pass"

OutcomeReasons(outcome) ==
    {reason \in {"no_baseline", "suite_changed", "contract_changed"} :
        \/ reason = "no_baseline" /\ ~outcome.present
        \/ reason = "suite_changed" /\ outcome.present /\ ~outcome.suiteMatches
        \/ reason = "contract_changed" /\ outcome.present /\ ~outcome.contractMatches}

------------------------------------------------------------------------------
(* The dependency half and the verdict.  A diff report is [changed, risk]     *)
(* with risk a number from 0 (none) to 4 (critical).                          *)

DependencyStatus(report, failOnRisk) ==
    IF failOnRisk # None /\ report.changed /\ report.risk >= failOnRisk THEN "regression"
    ELSE IF report.changed THEN "drift"
    ELSE "pass"

Statuses == {"pass", "drift", "regression"}

Rank(status) == CASE status = "pass" -> 0 [] status = "drift" -> 1 [] OTHER -> 2

Worst(one, other) == IF Rank(other) > Rank(one) THEN other ELSE one

\* behavior is None when no probe was asked for.
CombinedStatus(static, behavior, dependencyDrift) ==
    LET status == IF behavior = None THEN static ELSE Worst(static, behavior)
    IN  IF dependencyDrift /\ status = "pass" THEN "drift" ELSE status

DriftReasons(behavior, dependencyDrift) ==
    behavior \union (IF dependencyDrift THEN {"dependency_drift"} ELSE {})

ExitCode(status, failOnDrift) ==
    CASE status = "regression" -> 1
      [] status = "drift" -> IF failOnDrift THEN 1 ELSE 0
      [] OTHER -> 0

------------------------------------------------------------------------------
(* The metrics table: result::metric_rows.                                    *)

PolicyApplies(p, comparable) ==
    p.min # None \/ p.max # None \/ (p.max_drop # None /\ comparable)

RowVerdict(m, policy, scores, outcome) ==
    LET now == Get(scores, m)
        judged == m \in DOMAIN policy /\ PolicyApplies(policy[m], Comparable(outcome))
    IN  CASE now = None -> "not_measured"
          [] now # None /\ (\E c \in {"min", "max", "max_drop"} : <<m, c>> \in outcome.failures) -> "fail"
          [] OTHER -> IF ~judged /\ ~Perfect(now) THEN "warn" ELSE "pass"

\* A metric neither measured nor constrained has no row.
Rows(policy, scores, outcome) ==
    [m \in (DOMAIN policy \union DOMAIN scores) \intersect Metric |->
        RowVerdict(m, policy, scores, outcome)]
==============================================================================

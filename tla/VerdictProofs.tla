---------------------------- MODULE VerdictProofs ----------------------------
(***************************************************************************)
(* Theorems about Verdict, for any policies, scores, suites, contracts,    *)
(* dependency reports and flags.                                           *)
(***************************************************************************)
EXTENDS Verdict, TLAPS

\* What a score is, where there is one.
IsScore(score) == score.passed \in Nat /\ score.total \in Nat

------------------------------------------------------------------------------
(* Types.                                                                    *)

\* Every history of a project keeps to the policies, scores, suites, contracts and
\* reports there are.
THEOREM TypeCorrect == Spec => []TypeOK
<1>1. Init => TypeOK
  BY DEF Init, TypeOK
<1>2. TypeOK /\ [Next]_vars => TypeOK'
  <2> SUFFICES ASSUME TypeOK, [Next]_vars PROVE TypeOK'
    OBVIOUS
  <2>1. CASE \E table \in Tables : Measure(table)
    BY <2>1 DEF TypeOK, Measure
  <2>2. CASE \E failOnRisk \in Thresholds : Accept(failOnRisk)
    BY <2>2 DEF TypeOK, Accept
  <2>3. CASE Discard
    BY <2>3 DEF TypeOK, Discard
  <2>4. CASE \E s \in Suites : Revise(s)
    BY <2>4 DEF TypeOK, Revise
  <2>5. CASE \E k \in Contracts : Upgrade(k)
    BY <2>5 DEF TypeOK, Upgrade
  <2>6. CASE \E report \in Reports : Move(report)
    BY <2>6 DEF TypeOK, Move
  <2>7. CASE UNCHANGED vars
    BY <2>7 DEF TypeOK, vars
  <2> QED
    BY <2>1, <2>2, <2>3, <2>4, <2>5, <2>6, <2>7 DEF Next
<1> QED
  BY <1>1, <1>2, PTL DEF Spec

\* A score of this run, or none.
LEMMA NowIsScore ==
    ASSUME TypeOK, NEW m
    PROVE  Now(m) = None \/ IsScore(Now(m))
<1>1. m \in DOMAIN scores => IsScore(scores[m])
  BY VerdictAssumption DEF TypeOK, IsScore
<1> QED
  BY <1>1 DEF Now, Get

\* A score of the baseline, or none.
LEMMA ThenIsScore ==
    ASSUME TypeOK, NEW m
    PROVE  Then(m) = None \/ IsScore(Then(m))
<1>1. CASE baseline = None
  BY <1>1 DEF Then, Recorded
<1>2. CASE baseline # None
  <2>1. PICK s \in Suites, k \in Contracts, table \in Tables : baseline = Record(s, k, table)
    BY <1>2 DEF TypeOK
  <2>2. baseline.metrics = table
    BY <2>1 DEF Record
  <2>3. m \in DOMAIN table => IsScore(table[m])
    BY VerdictAssumption DEF IsScore
  <2> QED
    BY <1>2, <2>2, <2>3 DEF Then, Recorded, Get
<1> QED
  BY <1>1, <1>2

------------------------------------------------------------------------------
(* The outcome of a run, field by field.                                     *)

LEMMA OutcomeOfRun ==
    /\ Comparable(Outcome) <=> SameExperiment
    /\ Outcome.failures =
        {f \in (DOMAIN policy) \X {"min", "max", "max_drop"} :
            f[2] \in Failures(policy[f[1]], Now(f[1]), Then(f[1]), SameExperiment)}
    /\ Outcome.undecided <=>
        \E m \in DOMAIN policy : Undecided(policy[m], Now(m), Then(m), SameExperiment)
<1> DEFINE S == baseline # None /\ baseline.suite = suite
           K == baseline # None /\ baseline.contract = contract
<1>1. (S /\ K) = SameExperiment
  BY DEF SameExperiment
<1>2. /\ Outcome.present = (baseline # None)
      /\ Outcome.suiteMatches = S
      /\ Outcome.contractMatches = K
  BY DEF Outcome, ApplyPolicy
<1>3. Outcome.failures =
        {f \in (DOMAIN policy) \X {"min", "max", "max_drop"} :
            f[2] \in Failures(policy[f[1]], Get(scores, f[1]), Recorded(baseline, f[1]), S /\ K)}
  BY DEF Outcome, ApplyPolicy
<1>4. Outcome.undecided =
        \E m \in DOMAIN policy :
            Undecided(policy[m], Get(scores, m), Recorded(baseline, m), S /\ K)
  BY DEF Outcome, ApplyPolicy
<1>5. Comparable(Outcome) <=> SameExperiment
  BY <1>2 DEF Comparable, SameExperiment
<1> HIDE DEF S, K
<1>6. Outcome.failures =
        {f \in (DOMAIN policy) \X {"min", "max", "max_drop"} :
            f[2] \in Failures(policy[f[1]], Now(f[1]), Then(f[1]), SameExperiment)}
  BY <1>1, <1>3 DEF Now, Then
<1>7. Outcome.undecided <=>
        \E m \in DOMAIN policy : Undecided(policy[m], Now(m), Then(m), SameExperiment)
  BY <1>1, <1>4 DEF Now, Then
<1> QED
  BY <1>5, <1>6, <1>7

\* A constraint that failed, of the metric it is declared for.
LEMMA FailureOfRun ==
    ASSUME NEW m \in DOMAIN policy, NEW c \in {"min", "max", "max_drop"}
    PROVE  <<m, c>> \in Outcome.failures <=>
                c \in Failures(policy[m], Now(m), Then(m), SameExperiment)
BY OutcomeOfRun

------------------------------------------------------------------------------
(* The verdict.                                                              *)

LEMMA OutcomeStatusIsStatus == OutcomeStatus(Outcome) \in Statuses
BY DEF OutcomeStatus, Statuses

LEMMA StaticIsStatus ==
    ASSUME NEW mode PROVE Static(mode) \in Statuses
BY DEF Static, DependencyStatus, Statuses

\* The worst of two statuses.
LEMMA WorstOfTwo ==
    ASSUME NEW one \in Statuses, NEW other \in Statuses
    PROVE  /\ Worst(one, other) \in Statuses
           /\ Worst(one, other) = "pass" <=> one = "pass" /\ other = "pass"
           /\ Worst(one, other) = "regression" <=> one = "regression" \/ other = "regression"
<1>1. CASE one = "pass"
  BY <1>1 DEF Worst, Rank, Statuses
<1>2. CASE one = "drift"
  BY <1>2 DEF Worst, Rank, Statuses
<1>3. CASE one = "regression"
  BY <1>3 DEF Worst, Rank, Statuses
<1> QED
  BY <1>1, <1>2, <1>3 DEF Statuses

\* The status of a run, from its two halves.
LEMMA StatusOfRun ==
    ASSUME TypeOK, NEW mode \in Mode
    PROVE  /\ Status(mode) \in Statuses
           /\ Status(mode) = "regression" <=>
                Static(mode) = "regression" \/ (mode.probes /\ OutcomeStatus(Outcome) = "regression")
           /\ Status(mode) = "pass" <=>
                /\ Static(mode) = "pass"
                /\ mode.probes => OutcomeStatus(Outcome) = "pass"
                /\ mode.probesOnly \/ ~dependency.changed
<1> DEFINE drift == ~mode.probesOnly /\ dependency.changed
           behavior == IF mode.probes THEN OutcomeStatus(Outcome) ELSE None
<1>1. mode.probes \in BOOLEAN /\ mode.probesOnly \in BOOLEAN /\ dependency.changed \in BOOLEAN
  BY VerdictAssumption DEF Mode, TypeOK
<1>2. Static(mode) \in Statuses /\ OutcomeStatus(Outcome) \in Statuses
  BY StaticIsStatus, OutcomeStatusIsStatus
<1>3. None \notin Statuses
  BY VerdictAssumption
<1>4. Status(mode) = CombinedStatus(Static(mode), behavior, drift)
  BY DEF Status
<1>5. CASE mode.probes
  <2>1. behavior = OutcomeStatus(Outcome) /\ behavior # None
    BY <1>2, <1>3, <1>5
  <2> DEFINE worst == Worst(Static(mode), OutcomeStatus(Outcome))
  <2>2. Status(mode) = IF drift /\ worst = "pass" THEN "drift" ELSE worst
    BY <1>4, <2>1 DEF CombinedStatus
  <2>3. /\ worst \in Statuses
        /\ worst = "pass" <=> Static(mode) = "pass" /\ OutcomeStatus(Outcome) = "pass"
        /\ worst = "regression" <=> Static(mode) = "regression" \/ OutcomeStatus(Outcome) = "regression"
    BY <1>2, WorstOfTwo
  <2> HIDE DEF worst
  <2> QED
    BY <1>1, <1>5, <2>2, <2>3 DEF Statuses
<1>6. CASE ~mode.probes
  <2>1. Status(mode) = IF drift /\ Static(mode) = "pass" THEN "drift" ELSE Static(mode)
    BY <1>4, <1>6 DEF CombinedStatus
  <2> QED
    BY <1>1, <1>2, <1>6, <2>1 DEF Statuses
<1> QED
  BY <1>1, <1>5, <1>6

LEMMA ExitOfRun ==
    ASSUME TypeOK, NEW mode \in Mode
    PROVE  /\ Exit(mode) \in {0, 1}
           /\ Exit(mode) = 1 <=>
                Status(mode) = "regression" \/ (Status(mode) = "drift" /\ mode.failOnDrift)
<1>1. Status(mode) \in Statuses /\ mode.failOnDrift \in BOOLEAN
  BY StatusOfRun DEF Mode
<1> QED
  BY <1>1 DEF Exit, ExitCode, Statuses

\* A constraint that failed ends every run that judges it with 1.
LEMMA FailureGates ==
    ASSUME TypeOK, NEW mode \in Mode, mode.probes, Outcome.failures # {}
    PROVE  Exit(mode) = 1
<1>1. OutcomeStatus(Outcome) = "regression"
  BY DEF OutcomeStatus
<1> QED
  BY <1>1, StatusOfRun, ExitOfRun

------------------------------------------------------------------------------
(* Constraints as the code decides them, and as they read.                   *)

LEMMA FloorAndCeiling ==
    ASSUME NEW t \in Nat, NEW score, IsScore(score)
    PROVE  /\ Below(score, t) <=> ~(score.passed * Unit >= t * score.total)
           /\ Above(score, t) <=> ~(score.passed * Unit <= t * score.total)
<1>1. Unit \in Nat
  BY GateAssumption
<1>2. score.passed * Unit \in Int /\ t * score.total \in Int
  BY <1>1 DEF IsScore
<1> QED
  BY <1>2 DEF Below, Above

LEMMA DropsOver ==
    ASSUME NEW a \in Nat, NEW b \in Nat, NEW c \in Nat, NEW d \in Nat, NEW u \in Nat, NEW t \in Nat
    PROVE  (a * b - c * d) * u > t * d * b <=> ~(a * b * u <= t * d * b + c * d * u)
OBVIOUS

LEMMA Drop ==
    ASSUME NEW t \in Nat, NEW before, IsScore(before), NEW now, IsScore(now)
    PROVE  Fell(before, now, t) <=>
             ~(before.passed * now.total * Unit
                  <= t * before.total * now.total + now.passed * before.total * Unit)
<1>1. Unit \in Nat
  BY GateAssumption
<1> QED
  BY <1>1, DropsOver DEF Fell, IsScore

\* Where no constraint of a metric failed and none was undecided, all of them hold; a
\* floor or a ceiling that does not hold, or a constraint that failed, is both.
LEMMA WhatHolds ==
    ASSUME TypeOK, NEW m \in DOMAIN policy
    PROVE  /\ FailsMin(policy[m], Now(m)) <=> ~HoldsMin(m, policy[m])
           /\ FailsMax(policy[m], Now(m)) <=> ~HoldsMax(m, policy[m])
           /\ FailsDrop(policy[m], Now(m), Then(m), SameExperiment) => ~HoldsDrop(m, policy[m])
           /\ \/ FailsDrop(policy[m], Now(m), Then(m), SameExperiment)
              \/ Undecided(policy[m], Now(m), Then(m), SameExperiment)
              \/ HoldsDrop(m, policy[m])
<1>1. /\ policy[m].min # None => policy[m].min \in Nat
      /\ policy[m].max # None => policy[m].max \in Nat
      /\ policy[m].max_drop # None => policy[m].max_drop \in Nat
  BY VerdictAssumption DEF TypeOK
<1>2. Measured(Now(m)) => IsScore(Now(m))
  BY NowIsScore DEF Measured
<1>3. Measured(Then(m)) => IsScore(Then(m))
  BY ThenIsScore DEF Measured
<1>4. FailsMin(policy[m], Now(m)) <=> ~HoldsMin(m, policy[m])
  BY <1>1, <1>2, FloorAndCeiling DEF FailsMin, HoldsMin
<1>5. FailsMax(policy[m], Now(m)) <=> ~HoldsMax(m, policy[m])
  BY <1>1, <1>2, FloorAndCeiling DEF FailsMax, HoldsMax
<1>6. policy[m].max_drop # None /\ Measured(Now(m)) /\ Measured(Then(m)) =>
        (Fell(Then(m), Now(m), policy[m].max_drop) <=> ~HoldsDrop(m, policy[m]))
  BY <1>1, <1>2, <1>3, Drop DEF HoldsDrop
<1>7. FailsDrop(policy[m], Now(m), Then(m), SameExperiment) => ~HoldsDrop(m, policy[m])
  BY <1>6 DEF FailsDrop, CanCompare
<1>8. \/ FailsDrop(policy[m], Now(m), Then(m), SameExperiment)
      \/ Undecided(policy[m], Now(m), Then(m), SameExperiment)
      \/ HoldsDrop(m, policy[m])
  <2>1. CASE policy[m].max_drop = None
    BY <2>1 DEF HoldsDrop
  <2>2. CASE policy[m].max_drop # None
    BY <2>2, <1>6 DEF FailsDrop, Undecided, CanCompare
  <2> QED
    BY <2>1, <2>2
<1> QED
  BY <1>4, <1>5, <1>7, <1>8

\* A floor or a ceiling that does not hold is a failure of the outcome.
LEMMA MissedIsFailure ==
    ASSUME TypeOK, NEW m \in DOMAIN policy,
           ~HoldsMin(m, policy[m]) \/ ~HoldsMax(m, policy[m])
    PROVE  Outcome.failures # {}
<1>1. CASE ~HoldsMin(m, policy[m])
  <2>1. "min" \in Failures(policy[m], Now(m), Then(m), SameExperiment)
    BY <1>1, WhatHolds DEF Failures
  <2> QED
    BY <2>1, FailureOfRun
<1>2. CASE ~HoldsMax(m, policy[m])
  <2>1. "max" \in Failures(policy[m], Now(m), Then(m), SameExperiment)
    BY <1>2, WhatHolds DEF Failures
  <2> QED
    BY <2>1, FailureOfRun
<1> QED
  BY <1>1, <1>2

\* A constraint of a metric that failed is one that does not hold.
LEMMA FailureIsMissed ==
    ASSUME TypeOK, NEW m \in DOMAIN policy, NEW c,
           c \in Failures(policy[m], Now(m), Then(m), SameExperiment)
    PROVE  ~Holds(m, policy[m])
BY WhatHolds DEF Failures, Holds

------------------------------------------------------------------------------
(* What the verdict promises.                                                *)

\* With --fail-on-drift, exit 0 means that everything that was asked was answered: in
\* every state the baseline is of this experiment and every declared constraint was
\* measured and held (check::apply_policy, gate::mod, gate::result).
THEOREM GreenMeansJudged == Spec => []GreenIsJudged
<1>1. TypeOK => GreenIsJudged
  <2> SUFFICES ASSUME TypeOK, NEW mode \in Mode, mode.failOnDrift, Exit(mode) = 0
               PROVE  /\ mode.probesOnly \/ ~dependency.changed
                      /\ mode.probes => SameExperiment /\ \A m \in DOMAIN policy : Holds(m, policy[m])
    BY DEF GreenIsJudged
  <2>1. Status(mode) = "pass"
    BY StatusOfRun, ExitOfRun DEF Statuses
  <2>2. mode.probesOnly \/ ~dependency.changed
    BY <2>1, StatusOfRun
  <2>3. ASSUME mode.probes
        PROVE  SameExperiment /\ \A m \in DOMAIN policy : Holds(m, policy[m])
    <3>1. OutcomeStatus(Outcome) = "pass"
      BY <2>1, <2>3, StatusOfRun
    <3>2. Outcome.failures = {} /\ Comparable(Outcome) /\ ~Outcome.undecided
      BY <3>1 DEF OutcomeStatus
    <3>3. SameExperiment
      BY <3>2, OutcomeOfRun
    <3>4. ASSUME NEW m \in DOMAIN policy PROVE Holds(m, policy[m])
      <4>1. HoldsMin(m, policy[m]) /\ HoldsMax(m, policy[m])
        BY <3>2, MissedIsFailure
      <4>2. ~Undecided(policy[m], Now(m), Then(m), SameExperiment)
        BY <3>2, OutcomeOfRun
      <4>3. "max_drop" \notin Failures(policy[m], Now(m), Then(m), SameExperiment)
        BY <3>2, FailureOfRun
      <4>4. ~FailsDrop(policy[m], Now(m), Then(m), SameExperiment)
        BY <4>3 DEF Failures
      <4> QED
        BY <4>1, <4>2, <4>4, WhatHolds DEF Holds
    <3> QED
      BY <3>3, <3>4
  <2> QED
    BY <2>2, <2>3
<1> QED
  BY <1>1, TypeCorrect, PTL

\* A floor or a ceiling that is missed fails every run that judges it, whatever became
\* of the baseline, the suite and the contract (policy::evaluate, BehaviorOutcome::status).
THEOREM AbsolutesAlwaysGate == Spec => []AbsoluteAlwaysGates
<1>1. TypeOK => AbsoluteAlwaysGates
  <2> SUFFICES ASSUME TypeOK, NEW m \in DOMAIN policy,
                      ~HoldsMin(m, policy[m]) \/ ~HoldsMax(m, policy[m]),
                      NEW mode \in Mode, mode.probes
               PROVE  Exit(mode) = 1
    BY DEF AbsoluteAlwaysGates
  <2> QED
    BY MissedIsFailure, FailureGates
<1> QED
  BY <1>1, TypeCorrect, PTL

\* A verdict of drift names its reason, unless it is the max_drop of a metric that one
\* of the two sides did not measure (gate::mod::drift_reasons).
THEOREM DriftHasAReason == Spec => []DriftIsExplained
<1>1. TypeOK => DriftIsExplained
  <2> SUFFICES ASSUME TypeOK, NEW mode \in Mode, Status(mode) = "drift"
               PROVE  Reasons(mode) # {} \/ (SameExperiment /\ Unmeasured)
    BY DEF DriftIsExplained
  <2>1. CASE dependency.changed
    <3>1. "dependency_drift" \in Reasons(mode)
      BY <2>1 DEF Reasons, DriftReasons
    <3> QED
      BY <3>1
  <2>2. CASE ~dependency.changed
    <3>1. Static(mode) = "pass"
      BY <2>2 DEF Static, DependencyStatus
    <3>2. mode.probes /\ OutcomeStatus(Outcome) = "drift"
      BY <2>2, <3>1, StatusOfRun, OutcomeStatusIsStatus DEF Statuses
    <3>3. ~Comparable(Outcome) \/ Outcome.undecided
      BY <3>2 DEF OutcomeStatus
    <3>4. CASE ~Comparable(Outcome)
      <4>1. OutcomeReasons(Outcome) # {}
        BY <3>4 DEF OutcomeReasons, Comparable
      <4> QED
        BY <3>2, <4>1 DEF Reasons, DriftReasons
    <3>5. CASE Comparable(Outcome) /\ Outcome.undecided
      <4>1. SameExperiment
        BY <3>5, OutcomeOfRun
      <4>2. PICK m \in DOMAIN policy : Undecided(policy[m], Now(m), Then(m), SameExperiment)
        BY <3>5, OutcomeOfRun
      <4> QED
        BY <4>1, <4>2 DEF Undecided, CanCompare, Unmeasured
    <3> QED
      BY <3>3, <3>4, <3>5
  <2> QED
    BY <2>1, <2>2
<1> QED
  BY <1>1, TypeCorrect, PTL

\* A row says FAIL only where a constraint of its metric does not hold, and a run with
\* such a row exits 1 (result::metric_rows).
THEOREM FailedRowsGate == Spec => []FailRowsGate
<1>1. TypeOK => FailRowsGate
  <2> DEFINE rows == Rows(policy, scores, Outcome)
  <2> SUFFICES ASSUME TypeOK, NEW m \in DOMAIN rows, rows[m] = "fail"
               PROVE  /\ ~Holds(m, policy[m])
                      /\ \A mode \in Mode : mode.probes => Exit(mode) = 1
    BY DEF FailRowsGate
  <2>1. RowVerdict(m, policy, scores, Outcome) = "fail"
    BY DEF Rows
  <2>2. PICK c \in {"min", "max", "max_drop"} : <<m, c>> \in Outcome.failures
    BY <2>1 DEF RowVerdict
  <2>3. m \in DOMAIN policy
    BY <2>2, OutcomeOfRun
  <2> QED
    BY <2>2, <2>3, FailureOfRun, FailureIsMissed, FailureGates
<1> QED
  BY <1>1, TypeCorrect, PTL

------------------------------------------------------------------------------
(* Doing worse never helps.                                                  *)

LEMMA FewerIsBelow ==
    ASSUME NEW a \in Nat, NEW b \in Nat, NEW u \in Nat, a < b
    PROVE  a * u <= b * u
OBVIOUS

LEMMA FewerFellMore ==
    ASSUME NEW a \in Nat, NEW b \in Nat, NEW d \in Nat, NEW u \in Nat, NEW e \in Nat, a < b
    PROVE  (e - b * d) * u <= (e - a * d) * u
<1>1. a * d \in Nat /\ b * d \in Nat /\ a * d <= b * d
  BY FewerIsBelow
<1> DEFINE x == a * d
           y == b * d
<1>2. x \in Nat /\ y \in Nat /\ x <= y
  BY <1>1
<1> HIDE DEF x, y
<1>3. (e - y) * u <= (e - x) * u
  BY <1>2
<1> QED
  BY <1>3 DEF x, y

\* Fewer passes out of as many misses every floor and every drop that was missed before,
\* and leaves nothing newly undecided.
LEMMA WorseFailsMore ==
    ASSUME NEW p, p.min \in Nat \union {None}, p.max = None, p.max_drop \in Nat \union {None},
           NEW now, now # None, IsScore(now), NEW worse, worse # None, IsScore(worse),
           worse.total = now.total, worse.passed < now.passed,
           NEW before, Measured(before) => IsScore(before), NEW comparable \in BOOLEAN
    PROVE  /\ Failures(p, now, before, comparable) \subseteq Failures(p, worse, before, comparable)
           /\ Undecided(p, now, before, comparable) <=> Undecided(p, worse, before, comparable)
<1>0. Unit \in Nat /\ None \notin Nat
  BY GateAssumption
<1>1. Measured(now) <=> Measured(worse)
  BY DEF Measured
<1>2. FailsMin(p, now) => FailsMin(p, worse)
  <2>1. worse.passed * Unit <= now.passed * Unit
    BY <1>0, FewerIsBelow DEF IsScore
  <2>2. p.min # None /\ Below(now, p.min) => Below(worse, p.min)
    <3> SUFFICES ASSUME p.min # None, Below(now, p.min) PROVE Below(worse, p.min)
      OBVIOUS
    <3>1. /\ now.passed * Unit \in Int /\ worse.passed * Unit \in Int
          /\ p.min * now.total \in Int
      BY <1>0 DEF IsScore
    <3> QED
      BY <2>1, <3>1 DEF Below
  <2> QED
    BY <1>1, <2>2 DEF FailsMin
<1>3. ~FailsMax(p, now)
  BY DEF FailsMax
<1>4. FailsDrop(p, now, before, comparable) => FailsDrop(p, worse, before, comparable)
  <2> SUFFICES ASSUME p.max_drop # None, Measured(before), Fell(before, now, p.max_drop)
               PROVE  Fell(before, worse, p.max_drop)
    BY <1>1 DEF FailsDrop, CanCompare
  <2>1. IsScore(before)
    OBVIOUS
  <2> DEFINE e == before.passed * now.total
             bound == p.max_drop * before.total * now.total
             was == (e - now.passed * before.total) * Unit
             is == (e - worse.passed * before.total) * Unit
  <2>2. e \in Nat
    BY <2>1 DEF IsScore
  <2>3. was <= is
    BY <1>0, <2>1, <2>2, FewerFellMore DEF IsScore
  <2>4. was \in Int /\ is \in Int /\ bound \in Int
    BY <1>0, <2>1, <2>2 DEF IsScore
  <2>5. was > bound
    BY DEF Fell
  <2>6. is > bound
    <3> HIDE DEF was, is, bound
    <3> QED
      BY <2>3, <2>4, <2>5
  <2> QED
    BY <2>6 DEF Fell
<1> QED
  BY <1>1, <1>2, <1>3, <1>4 DEF Failures, Undecided, CanCompare

\* If every failure of one table is one of the other and the same is undecided, the
\* outcome of the other is no better.
LEMMA MoreFailuresIsWorse ==
    ASSUME NEW p, NEW b, NEW s, NEW k, NEW t, NEW u,
           \A m \in DOMAIN p : \A c \in BOOLEAN :
                /\ Failures(p[m], Get(t, m), Recorded(b, m), c)
                     \subseteq Failures(p[m], Get(u, m), Recorded(b, m), c)
                /\ Undecided(p[m], Get(t, m), Recorded(b, m), c)
                     <=> Undecided(p[m], Get(u, m), Recorded(b, m), c)
    PROVE  LET before == OutcomeStatus(ApplyPolicy(p, b, s, k, t))
               after  == OutcomeStatus(ApplyPolicy(p, b, s, k, u))
           IN  /\ before \in Statuses /\ after \in Statuses
               /\ before = "regression" => after = "regression"
               /\ after = "pass" => before = "pass"
<1> DEFINE C == (b # None /\ b.suite = s) /\ (b # None /\ b.contract = k)
           A == ApplyPolicy(p, b, s, k, t)
           B == ApplyPolicy(p, b, s, k, u)
<1>1. A.failures = {f \in (DOMAIN p) \X {"min", "max", "max_drop"} :
                        f[2] \in Failures(p[f[1]], Get(t, f[1]), Recorded(b, f[1]), C)}
  BY DEF ApplyPolicy
<1>2. B.failures = {f \in (DOMAIN p) \X {"min", "max", "max_drop"} :
                        f[2] \in Failures(p[f[1]], Get(u, f[1]), Recorded(b, f[1]), C)}
  BY DEF ApplyPolicy
<1>3. A.undecided = \E m \in DOMAIN p : Undecided(p[m], Get(t, m), Recorded(b, m), C)
  BY DEF ApplyPolicy
<1>4. B.undecided = \E m \in DOMAIN p : Undecided(p[m], Get(u, m), Recorded(b, m), C)
  BY DEF ApplyPolicy
<1>5. A.present = B.present /\ A.suiteMatches = B.suiteMatches /\ A.contractMatches = B.contractMatches
  BY DEF ApplyPolicy
<1>6. C \in BOOLEAN
  OBVIOUS
<1> HIDE DEF A, B, C
<1>7. A.failures \subseteq B.failures
  BY <1>1, <1>2, <1>6
<1>8. A.undecided <=> B.undecided
  BY <1>3, <1>4, <1>6
<1>9. /\ OutcomeStatus(A) \in Statuses /\ OutcomeStatus(B) \in Statuses
      /\ OutcomeStatus(A) = "regression" => OutcomeStatus(B) = "regression"
      /\ OutcomeStatus(B) = "pass" => OutcomeStatus(A) = "pass"
  BY <1>5, <1>7, <1>8 DEF OutcomeStatus, Comparable, Statuses
<1> QED
  BY <1>9 DEF A, B

\* A worse outcome never ends a run with a smaller code.
LEMMA WorseExitsHigher ==
    ASSUME NEW static \in Statuses, NEW before \in Statuses, NEW after \in Statuses,
           before = "regression" => after = "regression", after = "pass" => before = "pass",
           NEW drift \in BOOLEAN, NEW failOnDrift \in BOOLEAN
    PROVE  ExitCode(CombinedStatus(static, after, drift), failOnDrift)
             >= ExitCode(CombinedStatus(static, before, drift), failOnDrift)
<1>1. before # None /\ after # None
  BY VerdictAssumption
<1> DEFINE w == Worst(static, before)
           v == Worst(static, after)
<1>2. w \in Statuses /\ v \in Statuses
  BY WorstOfTwo
<1>3. w = "regression" => v = "regression"
  BY WorstOfTwo
<1>4. v = "pass" => w = "pass"
  BY WorstOfTwo
<1>5. /\ CombinedStatus(static, before, drift) = IF drift /\ w = "pass" THEN "drift" ELSE w
      /\ CombinedStatus(static, after, drift) = IF drift /\ v = "pass" THEN "drift" ELSE v
  BY <1>1 DEF CombinedStatus
<1> HIDE DEF w, v
<1> QED
  BY <1>2, <1>3, <1>4, <1>5 DEF ExitCode, Statuses

\* Whatever the policies, a run that did worse at a metric without a ceiling, all else
\* being equal, never ends with a smaller exit code than the one before.
THEOREM WorseHelpsNobody == Spec => WorseNeverHelps
<1> DEFINE A == \A m \in Metric :
        (/\ WorseAt(m)
         /\ UNCHANGED <<policy, baseline, suite, contract, dependency>>
         /\ m \in DOMAIN policy => policy[m].max = None)
        => \A mode \in Mode : Exit(mode)' >= Exit(mode)
<1>1. TypeOK /\ TypeOK' => A
  <2> SUFFICES ASSUME TypeOK, TypeOK', NEW m \in Metric, WorseAt(m),
                      UNCHANGED <<policy, baseline, suite, contract, dependency>>,
                      m \in DOMAIN policy => policy[m].max = None,
                      NEW mode \in Mode
               PROVE  Exit(mode)' >= Exit(mode)
    OBVIOUS
  <2>1. /\ policy' = policy /\ baseline' = baseline /\ suite' = suite
        /\ contract' = contract /\ dependency' = dependency
    OBVIOUS
  <2>2. ASSUME NEW o \in DOMAIN policy, NEW c \in BOOLEAN
        PROVE  /\ Failures(policy[o], Get(scores, o), Recorded(baseline, o), c)
                     \subseteq Failures(policy[o], Get(scores', o), Recorded(baseline, o), c)
               /\ Undecided(policy[o], Get(scores, o), Recorded(baseline, o), c)
                     <=> Undecided(policy[o], Get(scores', o), Recorded(baseline, o), c)
    <3>1. CASE o = m
      <4>1. /\ Get(scores, o) = scores[m] /\ Get(scores', o) = scores'[m]
            /\ scores'[m].total = scores[m].total /\ scores'[m].passed < scores[m].passed
        BY <3>1 DEF WorseAt, Get
      <4>2. /\ scores[m] # None /\ IsScore(scores[m])
            /\ scores'[m] # None /\ IsScore(scores'[m])
        BY VerdictAssumption DEF TypeOK, WorseAt, IsScore
      <4>3. /\ policy[o].min \in Nat \union {None} /\ policy[o].max = None
            /\ policy[o].max_drop \in Nat \union {None}
        BY <3>1, VerdictAssumption DEF TypeOK
      <4>4. Measured(Recorded(baseline, o)) => IsScore(Recorded(baseline, o))
        BY ThenIsScore DEF Then, Measured
      <4> QED
        BY <4>1, <4>2, <4>3, <4>4, WorseFailsMore
    <3>2. CASE o # m
      <4>1. Get(scores, o) = Get(scores', o)
        BY <3>2 DEF WorseAt, Get
      <4> QED
        BY <4>1
    <3> QED
      BY <3>1, <3>2
  <2> DEFINE before == OutcomeStatus(ApplyPolicy(policy, baseline, suite, contract, scores))
             after == OutcomeStatus(ApplyPolicy(policy, baseline, suite, contract, scores'))
             drift == ~mode.probesOnly /\ dependency.changed
  <2>3. /\ before \in Statuses /\ after \in Statuses
        /\ before = "regression" => after = "regression"
        /\ after = "pass" => before = "pass"
    BY <2>2, MoreFailuresIsWorse
  <2>4. Static(mode)' = Static(mode) /\ Static(mode) \in Statuses
    BY <2>1, StaticIsStatus DEF Static
  <2>5. drift \in BOOLEAN /\ mode.failOnDrift \in BOOLEAN /\ mode.probes \in BOOLEAN
    BY VerdictAssumption DEF Mode, TypeOK
  <2>6. CASE mode.probes
    <3>1. /\ Exit(mode) = ExitCode(CombinedStatus(Static(mode), before, drift), mode.failOnDrift)
          /\ Exit(mode)' = ExitCode(CombinedStatus(Static(mode), after, drift), mode.failOnDrift)
      BY <2>1, <2>4, <2>6 DEF Exit, Status, Outcome
    <3> HIDE DEF before, after, drift
    <3> QED
      BY <2>3, <2>4, <2>5, <3>1, WorseExitsHigher
  <2>7. CASE ~mode.probes
    <3>1. Exit(mode)' = Exit(mode)
      BY <2>1, <2>4, <2>7 DEF Exit, Status
    <3>2. Exit(mode) \in {0, 1}
      BY ExitOfRun
    <3> QED
      BY <3>1, <3>2
  <2> QED
    BY <2>5, <2>6, <2>7
<1> QED
  BY <1>1, TypeCorrect, PTL DEF WorseNeverHelps

------------------------------------------------------------------------------
(* Acceptance settles.                                                       *)

\* A score has not fallen below itself.
LEMMA NotBelowItself ==
    ASSUME NEW now, IsScore(now), NEW t \in Nat
    PROVE  ~Fell(now, now, t)
<1>1. Unit \in Nat
  BY GateAssumption
<1>2. /\ now.passed * now.total - now.passed * now.total = 0
      /\ t * now.total * now.total \in Nat
  BY DEF IsScore
<1> QED
  BY <1>1, <1>2 DEF Fell

\* After `check --accept`, the same behavior passes under every flag, unless a max_drop
\* is declared for a metric that was not measured (check::accept_baseline).
THEOREM AcceptanceSettles == Spec => AcceptSettles
<1> DEFINE A == (\E failOnRisk \in Thresholds : Accept(failOnRisk)) =>
        Unmeasured' \/ \A mode \in Mode : Status(mode)' = "pass" /\ Exit(mode)' = 0
<1>1. TypeOK => A
  <2> SUFFICES ASSUME TypeOK, NEW failOnRisk \in Thresholds, Accept(failOnRisk), ~Unmeasured',
                      NEW mode \in Mode
               PROVE  Status(mode)' = "pass" /\ Exit(mode)' = 0
    OBVIOUS
  <2> DEFINE O == ApplyPolicy(policy, baseline', suite, contract, scores)
  <2>1. /\ policy' = policy /\ scores' = scores /\ suite' = suite
        /\ contract' = contract /\ dependency' = dependency
    BY DEF Accept
  <2>2. ~dependency.changed
    BY VerdictAssumption DEF Accept, DependencyStatus, TypeOK
  <2>3. /\ baseline' = [suite |-> suite, contract |-> contract, metrics |-> scores]
        /\ baseline' # None
    BY VerdictAssumption DEF Accept, Record, TypeOK
  <2>4. O.present = TRUE /\ O.suiteMatches = TRUE /\ O.contractMatches = TRUE
    BY <2>3 DEF ApplyPolicy
  <2>5. ASSUME NEW m \in DOMAIN policy
        PROVE  Recorded(baseline', m) = Get(scores, m)
    BY <2>3 DEF Recorded
  <2>6. ASSUME NEW m \in DOMAIN policy, policy[m].max_drop # None
        PROVE  Measured(Get(scores, m)) /\ IsScore(Get(scores, m))
    <3>1. Measured(Get(scores, m))
      BY <2>1, <2>6 DEF Unmeasured, Now
    <3> QED
      BY <3>1, NowIsScore DEF Now, Measured
  <2>7. ASSUME NEW m \in DOMAIN policy
        PROVE  /\ Failures(policy[m], Get(scores, m), Get(scores, m), TRUE) = {}
               /\ ~Undecided(policy[m], Get(scores, m), Get(scores, m), TRUE)
    <3>1. Failures(policy[m], Now(m), Then(m), SameExperiment) = {}
      <4>1. ASSUME NEW c \in {"min", "max", "max_drop"}
            PROVE  c \notin Failures(policy[m], Now(m), Then(m), SameExperiment)
        BY FailureOfRun DEF Accept
      <4> QED
        BY <4>1 DEF Failures
    <3>2. ~FailsMin(policy[m], Get(scores, m)) /\ ~FailsMax(policy[m], Get(scores, m))
      BY <3>1 DEF Failures, Now
    <3>3. policy[m].max_drop # None => policy[m].max_drop \in Nat
      BY VerdictAssumption DEF TypeOK
    <3>4. ~FailsDrop(policy[m], Get(scores, m), Get(scores, m), TRUE)
      BY <2>6, <3>3, NotBelowItself DEF FailsDrop
    <3>5. ~Undecided(policy[m], Get(scores, m), Get(scores, m), TRUE)
      BY <2>6 DEF Undecided, CanCompare
    <3> QED
      BY <3>2, <3>4, <3>5 DEF Failures
  <2>8. O.failures = {} /\ ~O.undecided
    <3>1. O.failures = {f \in (DOMAIN policy) \X {"min", "max", "max_drop"} :
                          f[2] \in Failures(policy[f[1]], Get(scores, f[1]), Recorded(baseline', f[1]), TRUE)}
      BY <2>3 DEF ApplyPolicy
    <3>2. O.undecided = \E m \in DOMAIN policy :
                          Undecided(policy[m], Get(scores, m), Recorded(baseline', m), TRUE)
      BY <2>3 DEF ApplyPolicy
    <3> HIDE DEF O
    <3>3. ASSUME NEW f \in O.failures PROVE FALSE
      <4>1. /\ f[1] \in DOMAIN policy
            /\ f[2] \in Failures(policy[f[1]], Get(scores, f[1]), Recorded(baseline', f[1]), TRUE)
        BY <3>1
      <4> QED
        BY <2>5, <2>7, <4>1
    <3>4. ~O.undecided
      <4>1. ASSUME NEW m \in DOMAIN policy
            PROVE  ~Undecided(policy[m], Get(scores, m), Recorded(baseline', m), TRUE)
        BY <2>5, <2>7
      <4> QED
        BY <3>2, <4>1
    <3> QED
      BY <3>3, <3>4
  <2>9. OutcomeStatus(O) = "pass"
    <3> HIDE DEF O
    <3> QED
      BY <2>4, <2>8 DEF OutcomeStatus, Comparable
  <2>10. Outcome' = O
    BY <2>1 DEF Outcome
  <2>11. Static(mode)' = "pass"
    BY <2>1, <2>2 DEF Static, DependencyStatus
  <2>12. mode.probes \in BOOLEAN
    BY DEF Mode
  <2> HIDE DEF O
  <2>13. Status(mode)' = "pass"
    BY <2>1, <2>2, <2>9, <2>10, <2>11, <2>12 DEF Status, CombinedStatus, Worst, Rank
  <2> QED
    BY <2>13 DEF Exit, ExitCode
<1> QED
  BY <1>1, TypeCorrect, PTL DEF AcceptSettles
==============================================================================

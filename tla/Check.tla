-------------------------------- MODULE Check --------------------------------
(***************************************************************************)
(* The commands `snapshot` and `check` over one project directory: the     *)
(* order in which a run reads the lockfile, the agent, the probe suite,    *)
(* the prompts it sends and the baseline, what it writes and when, and the *)
(* exit code (src/src/cli/cmd/check.rs, snapshot.rs, src/src/cli/mod.rs).  *)
(*                                                                         *)
(* Several processes may run, the project may be edited between any two    *)
(* steps, and a process may fail or die at any step.  A suite is captured  *)
(* in one step here, as one table of answers: Capture shows that it is     *)
(* captured whole or not at all.  cache and runs are machine-local files   *)
(* that are published whole: Publish.                                      *)
(***************************************************************************)
EXTENDS Gate

CONSTANTS
    Proc,        \* the processes
    Tools,       \* revisions of the MCP catalog and the model
    Prompts,     \* revisions of the prompt files
    Suite,       \* digests of the probe suite
    Contract,    \* Contract[p]: the runner contract of p's binary
    Table,       \* what a capture of a suite can answer
    Scores,      \* Scores[t]: the aggregate of table t
    Policy,      \* [policy.metrics]
    FailOnRisk,  \* [policy] fail_on_risk
    Risk,        \* Risk[<<a, b>>]: overall risk of a change of agent a into b; 0 if it means nothing
    Options,     \* the command lines of `check` to consider
    Snapshot,    \* the command `snapshot`
    Torn,        \* a lockfile that does not parse
    EditDuring,  \* whether the project may be edited while a command runs
    Overlap,     \* whether a command may begin while another runs
    MaxCommands, \* bound: the commands that are run
    MaxEdits     \* bound: the edits that are made

Agent == [tools : Tools, prompts : Prompts]

\* A table under the circumstances it was captured in; `sent` is the revision of
\* the prompts that the model was really sent, which no file records.
Evidence ==
    [agent : Agent, suite : Suite, contract : {Contract[p] : p \in Proc}, table : Table,
     sent : Prompts]

BaselineFile ==
    [agent : Agent, suite : Suite, contract : {Contract[p] : p \in Proc},
     metrics : {Scores[t] : t \in Table}, sent : Prompts]

ASSUME CheckAssumption ==
    /\ \A t \in Table :
        /\ DOMAIN Scores[t] \subseteq Metric
        /\ \A m \in DOMAIN Scores[t] : Scores[t][m] \in [passed : Nat, total : Nat]
    /\ DOMAIN Policy \subseteq Metric
    /\ \A m \in DOMAIN Policy :
        Policy[m] \in [min : Nat \union {None}, max : Nat \union {None},
                      max_drop : Nat \union {None}]
    /\ None \notin Agent \union Table \union BaselineFile \union Statuses
    /\ Snapshot \notin Options
    /\ EditDuring \in BOOLEAN /\ Overlap \in BOOLEAN
    /\ MaxCommands \in Nat /\ MaxEdits \in Nat

VARIABLES
    tree,      \* the agent as it can be discovered now
    suite,     \* the probe suite on disk
    lock,      \* agentchecksum.lock: an agent, None, or Torn
    base,      \* .agentchecksum/baseline.json, or None
    cache,     \* .agentchecksum/cache
    runs,      \* .agentchecksum/runs
    at,        \* at[p]: where process p stands
    mem,       \* mem[p]: what it knows, until it ends:
               \*   opt       its command line, or Snapshot
               \*   locked    the agent of the lockfile it read
               \*   found     the agent it discovered
               \*   evidence  what it is to score, the table None until captured
               \*   seen      the baseline it read
    code,      \* code[p]: its exit code
    commands,  \* the commands begun so far
    edits      \* the edits made so far

files == <<lock, base, cache, runs>>
budget == <<commands, edits>>
vars == <<tree, suite, files, at, mem, code, budget>>

------------------------------------------------------------------------------
(* Command lines.                                                            *)

\* Flags are the names of those given; --fail-on-risk is the level or None.
Given(o, flag) == flag \in o.flags

\* Options::probes.
Probes(o) == ~Given(o, "diff_only") /\ ~Given(o, "no_probes")

Contradictions ==
    {{"diff_only", "probes_only"}, {"probes_only", "no_probes"}, {"accept", "no_probes"},
     {"accept", "diff_only"}, {"accept", "trace"}, {"accept", "from"}, {"trace", "refresh"},
     {"trace", "jobs"}, {"trace", "repeat"}}

Valid(o) == \A pair \in Contradictions : ~(pair \subseteq o.flags)

EffectiveRisk(o) == IF o.risk = None THEN FailOnRisk ELSE o.risk

------------------------------------------------------------------------------
(* What a run concludes from what it read.                                   *)

\* Two agents may differ in their checksums and not in what they mean: diff reports
\* nothing then.
Changed(a, b) == a # b /\ Risk[<<a, b>>] # 0

\* The diff of the lockfile with the current state.
Report(p) ==
    LET change == <<mem[p].locked, mem[p].found>>
    IN  [changed |-> Changed(change[1], change[2]),
         risk |-> IF Changed(change[1], change[2]) THEN Risk[change] ELSE 0]

StaticStatus(p) == DependencyStatus(Report(p), EffectiveRisk(mem[p].opt))

GatedStatic(p) == IF Given(mem[p].opt, "probes_only") THEN "pass" ELSE StaticStatus(p)

Drift(p) == ~Given(mem[p].opt, "probes_only") /\ Report(p).changed

\* Fault: the suite of the baseline is not compared.
OutcomeOfAnySuite(p) ==
    ApplyPolicy(Policy, mem[p].seen,
                IF mem[p].seen = None THEN mem[p].evidence.suite ELSE mem[p].seen.suite,
                Contract[p], Scores[mem[p].evidence.table])

Outcome(p) ==
    ApplyPolicy(Policy, mem[p].seen, mem[p].evidence.suite, Contract[p], Scores[mem[p].evidence.table])

\* The exit code of a report, behavior being None or the status of that half.
Code(p, behavior) ==
    ExitCode(CombinedStatus(GatedStatic(p), behavior, Drift(p)), Given(mem[p].opt, "fail_on_drift"))

------------------------------------------------------------------------------

Nowhere == {"idle", "ended"}
Running(p) == at[p] \notin Nowhere

NoEvidence == [agent |-> None, suite |-> None, contract |-> None, table |-> None, sent |-> None]

Blank == [opt |-> None, locked |-> None, found |-> None, evidence |-> NoEvidence, seen |-> None]

\* These scores meet every floor and every ceiling.
MeetsAbsolutes(metrics) ==
    \A m \in DOMAIN Policy :
        /\ ~FailsMin(Policy[m], Get(metrics, m))
        /\ ~FailsMax(Policy[m], Get(metrics, m))

\* Nothing is installed, or a colleague committed a lockfile and a baseline.
Init ==
    /\ tree \in Agent
    /\ suite \in Suite
    /\ lock \in {None} \union Agent
    /\ \/ base = None
       \/ /\ lock # None
          /\ base \in {b \in BaselineFile : /\ b.agent = lock /\ b.suite = suite
                                          /\ b.sent = lock.prompts
                                          /\ MeetsAbsolutes(b.metrics)}
    /\ cache = {}
    /\ runs = {}
    /\ at = [p \in Proc |-> "idle"]
    /\ mem = [p \in Proc |-> Blank]
    /\ code = [p \in Proc |-> None]
    /\ commands = 0
    /\ edits = 0

\* The process goes on with another step, knowing m, or it is over.
Go(p, step, m) ==
    /\ at' = [at EXCEPT ![p] = step]
    /\ mem' = [mem EXCEPT ![p] = m]
    /\ UNCHANGED code

End(p, c) ==
    /\ at' = [at EXCEPT ![p] = "ended"]
    /\ mem' = [mem EXCEPT ![p] = Blank]
    /\ code' = [code EXCEPT ![p] = c]

Begin(p, o) ==
    /\ ~Running(p)
    /\ commands < MaxCommands
    /\ Overlap \/ \A q \in Proc : ~Running(q)
    /\ commands' = commands + 1
    /\ IF o # Snapshot /\ ~Valid(o)
       THEN End(p, 2)
       ELSE Go(p, IF o = Snapshot THEN "prompts" ELSE "lock", [Blank EXCEPT !.opt = o])
    /\ UNCHANGED <<tree, suite, files, edits>>

\* diff::load_baseline, on the committed lockfile or on the one --from names.
LoadBaseline(p) ==
    /\ at[p] = "lock"
    /\ \E a \in IF Given(mem[p].opt, "from") THEN Agent ELSE {lock} :
        IF a \in Agent
        THEN Go(p, "prompts", [mem[p] EXCEPT !.locked = a])
        ELSE End(p, 3)
    /\ UNCHANGED <<tree, suite, files, budget>>

------------------------------------------------------------------------------
(* discovery::run reads the prompts, then asks the model's and the MCP        *)
(* servers; what follows is decided from the result.                          *)

DiscoverPrompts(p) ==
    /\ at[p] = "prompts"
    /\ Go(p, "tools", [mem[p] EXCEPT !.found = [tools |-> None, prompts |-> tree.prompts]])
    /\ UNCHANGED <<tree, suite, files, budget>>

DiscoverTools(p) ==
    /\ at[p] = "tools"
    /\ Go(p, IF mem[p].opt = Snapshot THEN "write" ELSE "static",
          [mem[p] EXCEPT !.found.tools = tree.tools])
    /\ UNCHANGED <<tree, suite, files, budget>>

\* Fault: --probes-only sets the dependency gate of --accept aside.
RefusedIfGated(p) == Given(mem[p].opt, "accept") /\ GatedStatic(p) # "pass"

Refused(p) == Given(mem[p].opt, "accept") /\ StaticStatus(p) # "pass"

\* The dependency gate: --accept is refused, or the run is over, or goes on.
Compare(p) ==
    /\ at[p] = "static"
    /\ \/ Refused(p) /\ End(p, 2)
       \/ ~Refused(p) /\ ~Probes(mem[p].opt) /\ End(p, Code(p, None))
       \/ ~Refused(p) /\ Probes(mem[p].opt) /\ Go(p, "suite", mem[p])
    /\ UNCHANGED <<tree, suite, files, budget>>

------------------------------------------------------------------------------
(* The behavioral half.                                                      *)

LoadSuite(p) ==
    /\ at[p] = "suite"
    /\ Go(p, IF Given(mem[p].opt, "trace") THEN "replay" ELSE "system",
          [mem[p] EXCEPT !.evidence.suite = suite])
    /\ UNCHANGED <<tree, suite, files, budget>>

\* --trace: evidence of another agent, suite or runner is refused.
Replay(p) ==
    /\ at[p] = "replay"
    /\ \E e \in runs :
        IF e.agent = mem[p].found /\ e.suite = mem[p].evidence.suite /\ e.contract = Contract[p]
        THEN Go(p, "judge", [mem[p] EXCEPT !.evidence = e])
        ELSE End(p, 3)
    /\ UNCHANGED <<tree, suite, files, budget>>

\* The system prompt is read from the prompt files again.
SystemPrompt(p) ==
    /\ at[p] = "system"
    /\ Go(p, "capture", [mem[p] EXCEPT !.evidence =
           [agent |-> mem[p].found, suite |-> @.suite, contract |-> Contract[p], table |-> None,
            sent |-> tree.prompts]])
    /\ UNCHANGED <<tree, suite, files, budget>>

\* Fault: the key of an entry leaves out the agent checksum.
CachedOfAny(p) ==
    {e \in cache : e.suite = mem[p].evidence.suite /\ e.contract = mem[p].evidence.contract}

\* Entries under the key of what p captures.
Cached(p) ==
    {e \in cache : /\ e.agent = mem[p].evidence.agent
                   /\ e.suite = mem[p].evidence.suite
                   /\ e.contract = mem[p].evidence.contract}

Hit(p) ==
    /\ at[p] = "capture"
    /\ ~Given(mem[p].opt, "refresh")
    /\ \E e \in Cached(p) : Go(p, "judge", [mem[p] EXCEPT !.evidence = e])
    /\ UNCHANGED <<tree, suite, files, budget>>

Miss(p) ==
    /\ at[p] = "capture"
    /\ Given(mem[p].opt, "refresh") \/ Cached(p) = {}
    /\ Go(p, "ask", mem[p])
    /\ UNCHANGED <<tree, suite, files, budget>>

\* Fault: an entry that is there is kept, even by --refresh.
AskKeeping(p, t) ==
    /\ at[p] = "ask"
    /\ LET e == [mem[p].evidence EXCEPT !.table = t]
       IN  /\ cache' = IF Cached(p) = {} THEN cache \union {e} ELSE cache
           /\ Go(p, "judge", [mem[p] EXCEPT !.evidence = e])
    /\ UNCHANGED <<tree, suite, lock, base, runs, budget>>

\* The model answers and the answers replace what the cache held.
Ask(p, t) ==
    /\ at[p] = "ask"
    /\ LET e == [mem[p].evidence EXCEPT !.table = t]
       IN  /\ cache' = (cache \ Cached(p)) \union {e}
           /\ Go(p, "judge", [mem[p] EXCEPT !.evidence = e])
    /\ UNCHANGED <<tree, suite, lock, base, runs, budget>>

\* Fault: the contract before the evidence.
ReadBaselineThenRecord(p) ==
    /\ at[p] = "judge"
    /\ Go(p, IF Given(mem[p].opt, "accept") THEN "record" ELSE "artifact",
          [mem[p] EXCEPT !.seen = base])
    /\ UNCHANGED <<tree, suite, files, budget>>

\* The baseline is read only now, after the capture.
ReadBaseline(p) ==
    /\ at[p] = "judge"
    /\ Go(p, IF Given(mem[p].opt, "trace") THEN "report" ELSE "artifact",
          [mem[p] EXCEPT !.seen = base])
    /\ UNCHANGED <<tree, suite, files, budget>>

WriteArtifact(p) ==
    /\ at[p] = "artifact"
    /\ runs' = runs \union {mem[p].evidence}
    /\ Go(p, IF Given(mem[p].opt, "accept") THEN "record" ELSE "report", mem[p])
    /\ UNCHANGED <<tree, suite, lock, base, cache, budget>>

Baseline(p) ==
    [agent |-> mem[p].found, suite |-> mem[p].evidence.suite, contract |-> Contract[p],
     metrics |-> Scores[mem[p].evidence.table], sent |-> mem[p].evidence.sent]

\* Fault: a run that failed its own policy is recorded.
RecordAnything(p) ==
    /\ at[p] = "record"
    /\ base' = Baseline(p)
    /\ Go(p, "report", mem[p])
    /\ UNCHANGED <<tree, suite, lock, cache, runs, budget>>

\* Nothing is written when a constraint failed, and that is not an error.
RecordBaseline(p) ==
    /\ at[p] = "record"
    /\ base' = IF Outcome(p).failures = {} THEN Baseline(p) ELSE base
    /\ Go(p, "report", mem[p])
    /\ UNCHANGED <<tree, suite, lock, cache, runs, budget>>

Conclude(p) ==
    /\ at[p] = "report"
    /\ End(p, Code(p, OutcomeStatus(Outcome(p))))
    /\ UNCHANGED <<tree, suite, files, budget>>

------------------------------------------------------------------------------
(* snapshot writes the lockfile in place: it is truncated, then filled.      *)

Truncate(p) ==
    /\ at[p] = "write"
    /\ lock' = Torn
    /\ Go(p, "fill", mem[p])
    /\ UNCHANGED <<tree, suite, base, cache, runs, budget>>

Fill(p) ==
    /\ at[p] = "fill"
    /\ lock' = mem[p].found
    /\ End(p, 0)
    /\ UNCHANGED <<tree, suite, base, cache, runs, budget>>

------------------------------------------------------------------------------

\* A file, a server or the model cannot be read or written, or makes no sense.
Fail(p) ==
    /\ Running(p)
    /\ at[p] \notin {"static", "report"}
    /\ End(p, 3)
    /\ UNCHANGED <<tree, suite, files, budget>>

Kill(p) ==
    /\ Running(p)
    /\ End(p, None)
    /\ UNCHANGED <<tree, suite, files, budget>>

MayEdit ==
    /\ edits < MaxEdits
    /\ EditDuring \/ \A p \in Proc : ~Running(p)

Edit ==
    /\ MayEdit
    /\ edits' = edits + 1
    /\ \/ tree' \in Agent \ {tree} /\ UNCHANGED suite
       \/ suite' \in Suite \ {suite} /\ UNCHANGED tree
    /\ UNCHANGED <<files, at, mem, code, commands>>

\* The machine-local files are deleted while nothing runs.
Forget ==
    /\ edits < MaxEdits
    /\ \A p \in Proc : ~Running(p)
    /\ edits' = edits + 1
    /\ cache' = {}
    /\ runs' = {}
    /\ UNCHANGED <<tree, suite, lock, base, at, mem, code, commands>>

Step(p) ==
    \/ LoadBaseline(p)
    \/ DiscoverPrompts(p)
    \/ DiscoverTools(p)
    \/ Compare(p)
    \/ LoadSuite(p)
    \/ Replay(p)
    \/ SystemPrompt(p)
    \/ Hit(p)
    \/ Miss(p)
    \/ \E t \in Table : Ask(p, t)
    \/ ReadBaseline(p)
    \/ WriteArtifact(p)
    \/ RecordBaseline(p)
    \/ Conclude(p)
    \/ Truncate(p)
    \/ Fill(p)
    \/ Fail(p)
    \/ Kill(p)

Next ==
    \/ \E p \in Proc : (\E o \in Options \union {Snapshot} : Begin(p, o)) \/ Step(p)
    \/ Edit
    \/ Forget

Spec == Init /\ [][Next]_vars
------------------------------------------------------------------------------

Steps ==
    {"lock", "prompts", "tools", "static", "suite", "replay", "system", "capture", "ask", "judge",
     "artifact", "record", "report", "write", "fill"}

Contracts == {Contract[p] : p \in Proc}

Memory ==
    [opt : Options \union {Snapshot, None},
     locked : Agent \union {None},
     found : [tools : Tools \union {None}, prompts : Prompts] \union {None},
     evidence : [agent : Agent \union {None}, suite : Suite \union {None},
                 contract : Contracts \union {None}, table : Table \union {None},
                 sent : Prompts \union {None}],
     seen : BaselineFile \union {None}]

\* The shapes of the files and of what the processes have read.
TypeOK ==
    /\ tree \in Agent /\ suite \in Suite
    /\ lock \in Agent \union {None, Torn}
    /\ base \in BaselineFile \union {None}
    /\ cache \subseteq Evidence /\ runs \subseteq Evidence
    /\ at \in [Proc -> Steps \union Nowhere]
    /\ mem \in [Proc -> Memory]
    /\ code \in [Proc -> {None, 0, 1, 2, 3}]

\* A baseline records accepted behavior: whatever is committed meets the floors and
\* ceilings, through any interleaving of accepts, failures and deaths.
AcceptedIsAcceptable == base # None => MeetsAbsolutes(base.metrics)

\* What is filed under an agent was captured with the prompts of that agent: the
\* bytes that were fingerprinted are the bytes that were sent (runner/mod.rs).
Honest ==
    /\ \A e \in cache \union runs : e.sent = e.agent.prompts
    /\ base # None => base.sent = base.agent.prompts

\* The baseline is written by this step.
Writes == base' # base

\* Evidence before contract: before a baseline is written, the run it records is on
\* disk, so its scores can be derived again.
EvidenceFirst ==
    [][Writes => \E e \in runs :
        /\ e.agent = base'.agent /\ e.suite = base'.suite /\ e.contract = base'.contract
        /\ Scores[e.table] = base'.metrics]_vars

\* A baseline is recorded only for an agent that the lockfile, as it stands when the
\* baseline is written, means too, if no other command runs meanwhile; edits do not matter.
AcceptMatchesLock == [][Writes => lock \in Agent /\ ~Changed(lock, base'.agent)]_vars

\* Accepting again under the same suite and contract never lets a measured metric
\* fall by more than its max_drop, if no other command runs meanwhile.
RatchetBounded ==
    [][(Writes /\ base # None /\ base'.suite = base.suite /\ base'.contract = base.contract) =>
        \A m \in DOMAIN Policy :
            ~FailsDrop(Policy[m], Get(base'.metrics, m), Recorded(base, m), TRUE)]_vars

\* p ends a check in this step, with a report.
Reports(p) == at[p] # "ended" /\ at'[p] = "ended" /\ mem[p].opt # Snapshot /\ code'[p] \in {0, 1}

\* Exit 0 with --fail-on-drift speaks of the files as they stand when the run ends, if
\* no other command ran meanwhile: the lockfile means the agent that was found, and
\* the baseline is of the suite and contract that ran, which met every constraint.
GreenIsClean ==
    [][\A p \in Proc :
        (Reports(p) /\ code'[p] = 0 /\ {"fail_on_drift"} \subseteq mem[p].opt.flags
            /\ ~Given(mem[p].opt, "from"))
        => /\ Given(mem[p].opt, "probes_only") \/ ~Changed(lock, mem[p].found)
           /\ Probes(mem[p].opt) =>
                /\ base # None
                /\ base.suite = mem[p].evidence.suite /\ base.contract = Contract[p]
                /\ \A m \in DOMAIN Policy :
                    Failures(Policy[m], Get(Scores[mem[p].evidence.table], m),
                             Recorded(base, m), TRUE) = {}]_vars

------------------------------------------------------------------------------
(* The inductive invariant behind AcceptedIsAcceptable, EvidenceFirst,       *)
(* AcceptMatchesLock and RatchetBounded.                                     *)

Judging == {"judge", "artifact", "record", "report"}
Probing == {"suite", "replay", "system", "capture", "ask"} \union Judging

\* What a process that stands at `step` knows: each step finds what it uses, the
\* evidence is of the agent that was found and of this binary, and under --accept
\* the lockfile means that agent.
Known(p, step, m) ==
    /\ step \in {"lock", "static"} \union Probing => m.opt \in Options /\ Valid(m.opt)
    /\ step \in {"prompts", "tools"} =>
        m.opt = Snapshot \/ (m.opt \in Options /\ Valid(m.opt) /\ m.locked \in Agent)
    /\ step = "tools" => m.found \in [tools : {None}, prompts : Prompts]
    /\ step \in {"write", "fill"} => m.opt = Snapshot
    /\ step \in {"write", "fill", "static"} \union Probing => m.found \in Agent
    /\ step \in {"static"} \union Probing => m.locked \in Agent
    /\ step \in Probing /\ Given(m.opt, "accept") => ~Changed(m.locked, m.found)
    /\ step \in {"replay", "system", "capture", "ask"} => m.evidence.suite \in Suite
    /\ step \in {"capture", "ask"} => m.evidence.sent \in Prompts
    /\ step \in {"capture", "ask"} \union Judging =>
        m.evidence.agent = m.found /\ m.evidence.contract = Contract[p]
    /\ step \in Judging => m.evidence \in Evidence
    /\ step = "record" => Given(m.opt, "accept")

\* A process that runs alone knows the lockfile and the baseline as they stand.
Current(p) ==
    /\ /\ at[p] \in {"prompts", "tools", "static"} \union Probing
       /\ mem[p].opt # Snapshot
       /\ ~Given(mem[p].opt, "from")
       => mem[p].locked = lock
    /\ at[p] \in {"artifact", "record"} => mem[p].seen = base

RunInv ==
    /\ TypeOK
    /\ AcceptedIsAcceptable
    /\ \A p \in Proc : Known(p, at[p], mem[p])
    /\ \A p \in Proc : at[p] = "record" => mem[p].evidence \in runs
    /\ ~Overlap => /\ \A p, q \in Proc : Running(p) /\ Running(q) => p = q
                   /\ \A p \in Proc : Current(p)

------------------------------------------------------------------------------

\* The lockfile, the baseline that p judged and the cache agree with what p found, and
\* p would score the cached answers as the baseline did.
InPlace(p) ==
    /\ lock \in Agent /\ ~Changed(lock, mem[p].found)
    /\ base # None /\ base = mem[p].seen
    /\ base.agent = mem[p].found /\ base.suite = mem[p].evidence.suite /\ base.contract = Contract[p]
    /\ \E e \in cache :
        /\ e.agent = mem[p].found /\ e.suite = mem[p].evidence.suite /\ e.contract = Contract[p]
        /\ Scores[e.table] = base.metrics

Undecidable ==
    \E m \in DOMAIN Policy : Policy[m].max_drop # None /\ ~Measured(Recorded(base, m))

\* Accepting settles: it leaves everything in place, and a run that finds everything
\* in place exits 0 even under --fail-on-drift, if no other command runs meanwhile.
\* Exempt are the max_drop of a metric that the baseline lacks, replays and --from.
AcceptSettles ==
    [][\A p \in Proc :
        /\ Writes /\ RecordBaseline(p) =>
            /\ lock \in Agent /\ ~Changed(lock, mem[p].found)
            /\ \E e \in cache :
                /\ e.agent = base'.agent /\ e.suite = base'.suite /\ e.contract = Contract[p]
                /\ Scores[e.table] = base'.metrics
        /\ Reports(p) /\ InPlace(p) /\ mem[p].opt.flags \intersect {"trace", "from"} = {} =>
            code'[p] = 0 \/ Undecidable]_vars
==============================================================================

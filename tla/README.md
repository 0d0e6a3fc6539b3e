# AgentChecksum in TLA+

A verification development for AgentChecksum, a Rust program that fingerprints the
dependencies of an AI agent (prompts, model, MCP tool catalogs) into a lockfile,
captures the agent's behavior on a suite of probes, and gates both in CI. The
modules here model the program's own logic; TLC checks them on small instances and
TLAPS proves the properties that matter most for every value of the constants.
Paths below are relative to the repository (`src/cli/cmd/check.rs` is the file that
`PROJECT.json` calls `src/src/cli/cmd/check.rs`).

## 1. The system

### Parts, state, operations

| Part | Code | State it keeps | Operations |
|---|---|---|---|
| capture of a suite | `cli/cmd/check.rs` `capture_all`, `runner/mod.rs` | a `JoinSet` of tasks, an index, a vector of optional traces | spawn, join, conclude; per task: look up, ask, store |
| sample cache | `runner/cache.rs` | `.agentchecksum/cache/<key>.json`, one file per sample | `get` (hit, miss, refusal), `put` |
| model client | `runner/openai.rs` | none between requests | one request per sample, bounded in time and size, never retried |
| publication of files | `runner::write_atomic`, `gate::write_atomically`, `Lockfile::write` | the file system | open, write, rename |
| gate | `gate/policy.rs`, `gate/mod.rs`, `gate/result.rs` | none: a function of scores, policy and baseline | judge a metric, fold statuses, exit code, metrics table |
| `check` | `cli/cmd/check.rs` `run` | what one run has read so far | see Check below |
| `snapshot`, lockfile | `cli/cmd/snapshot.rs`, `lockfile.rs` | `agentchecksum.lock`, committed | discover, write in place |
| behavioral baseline | `gate/baseline.rs` | `.agentchecksum/baseline.json`, committed | read, record by `check --accept` |
| run artifacts, evidence | `runner/artifact.rs`, `runner/evidence.rs`, `runner/trace.rs` | `.agentchecksum/runs` | write, read, bind to this agent, find contradictions |
| tool catalog | `runner/catalog.rs` | none | from the lockfile, digest, names on the wire |
| probe suite | `probes/load.rs`, `resolve.rs`, `digest.rs`, `model.rs` | none | load, resolve tool names, digest |
| probe evaluation | `probes/eval.rs`, `matchers.rs`, `metrics.rs` | none | score a trace, aggregate |
| discovery | `discovery/mod.rs`, `prompts.rs`, `model.rs`, `mcp/*` | none; MCP sessions while they last | prompts, then model, then each MCP server: connect, era, page the tools |
| diff and risk | `diff/*` | none | verify the lockfile, compare facets, compare schemas, classify, fold the risk |
| fingerprints, manifest | `fingerprint/*`, `manifest/mod.rs` | none | canonical form, digest, agent checksum |
| configuration, CLI, reports, errors | `config.rs`, `cli/*`, `report/*`, `error.rs` | none | parse, validate, dispatch, render |
| `init`, `inspect`, `diff` | `cli/cmd/*` | `init` writes a configuration once | read and print |
| CI | `scripts/*`, `action.yml` | none | packaging, a GitHub action |

### How they interact

A `check` run is one sequence: validate the flags, read the lockfile, load the
configuration, discover the agent (prompts, then model, then MCP servers), compare it
with the lockfile, possibly stop there, load the suite, read the prompts *again*
for the message that is sent, capture every probe (cache or model) on a
multi-threaded executor, score, read the baseline, judge, write the run artifact,
record the baseline under `--accept`, report. The parts share state only through
files; several processes may run over one project root, a user may edit it at any
moment, and a process may fail or die anywhere. Nothing holds a lock.

### What is hard, and what makes each part correct

* capture: tasks finish in any order, fail while others are under way, are aborted
  only where they await. Correct: every trace is the right probe's, whole and
  genuine, or the run has none; no more than `--jobs` at a time; it ends.
* cache: shared by processes that miss, refresh and overwrite at once. Correct: what
  is under a key was answered to that very sample.
* publication: a reader, or the process after a crash, must find a document. Three
  writers keep that promise to three different degrees.
* gate: absent is not zero, drift is not regression, a comparison may be impossible.
  Correct: green means judged, a floor always gates, worse never helps.
* check: the files a verdict speaks of are read at different moments. Correct: no
  contract without evidence, no baseline for another agent, accepting settles.
* MCP discovery: a server is slow, breaks off, or declares nonsense. Correct: its
  catalog is recorded whole or not at all, in the era it speaks, its session is closed.
* diff: digests say that something moved, payloads say what; four analyzers, a bounded schema
  comparison and generic rules share the facets. Correct: nothing that moved is left out, the
  worst part decides, silence about a schema means that it admits the same.
* configuration, discovery, lockfile: the same agent may be written in many ways. Correct: spelling
  does not move a digest, whatever changes a request does, two tools never share an identity,
  nothing of the environment is recorded.
* catalog, suite, client, evaluation: what a probe names is resolved against what a lockfile keeps,
  what is asked and what is scored pass through names on the wire. Correct: the model is shown what
  the server declares, a call is credited to the one tool it can mean, a verdict is over every
  sample of every probe.
* evidence: recorded, replayed later, perhaps after an edit of the project or of the file. Correct:
  what it was taken from leads to the same outcomes again, what it was not is refused.
* report: it is all a reader sees. Correct: no metric falls short unnamed, a moved yardstick is not
  told as a regression.

Every hazard is listed at its line in `PROJECT.json`.

## 2. Modules

```
Experiment <--- Capture <--- CaptureProofs          Gate <--- Verdict <--- MCVerdict
  (refined by)     ^--------- MCCapture               |          ^-------- VerdictProofs
                                                      ^------ Check <----- MCCheck
                                                      |          ^-------- CheckProofs
Register <----- Publish <--- PublishProofs            ^------ Report (below)
  (refined by)     ^--------- MCPublish
RiskTable <---- Diff                                McpDiscovery <--- MCMcpDiscovery
                   ^-------- Contract <--- MCContract    ^------- McpDiscoveryProofs
Schema <----------------------'  ^-------- ContractProofs

Json <- Manifest <- Declaration <- Sources <- Catalog <- ProbeSuite <- Client <- Evaluate <- Evidence <- Report <- Behavior
Json <- Matchers <---------------------------------------'

Behavior <--- Documents <--- MCBehavior
   ^-------- BehaviorProofs <--- EvidenceProofs
```

The last lines are a chain of pure modules, in the order in which a run passes through them;
Behavior puts them in sequence and MCBehavior gives them projects.

* **Capture** — `capture_all` and `Runner::capture`. `phase`, `next` and `traces` are
  the locals of the loop; `at[r][i]`, `samples` and `held` are the task of probe `i`;
  `cache` is the directory, `given` a history of what the model ever answered,
  `asked` a count of requests. `Spawn`, `Join`, `Conclude` are the loop; `Hit`,
  `RefuseEntry`, `Ask`, `Answered`, `AskFailed`, `Store`, `StoreFailed` are one
  sample; `Cancel` is the abort of a dropped `JoinSet`, possible only before the first
  poll and during a request; `Kill` is the death of the process. What the key of an
  entry is computed from is `Inputs[r]` and the slot (probe and sample index).
* **Experiment** — what a capture promises: all of a run's table, of genuine answers
  to its own experiment, or nothing.
* **Publish** — a directory, files with inodes, writers that open, write block by block
  at their own offset, close, rename, and may die anywhere. `Temp` tells the three
  writers of the program apart: own names (`runner::write_atomic`), one fixed name
  (`gate::write_atomically`), the target itself (`Lockfile::write`).
* **Register** — what an atomic write promises.
* **Gate** — the pure functions of the gate: one operator per function of the code.
* **Verdict** — the gate over the life of a project: scores, baseline, suite, contract
  and dependency state move one at a time, and `Mode` ranges over every
  combination of flags, so a state shows what each spelling would have concluded.
* **Check** — `check` and `snapshot` over one directory: one action per read or write,
  in the order of the code, with `mem[p]` what process `p` has read so far. The
  capture is one step here (a whole table), which is what Capture proves of it.
  `sent`, the revision of the prompts that really went to the model, is a history
  no file records.
* **McpDiscovery** — the servers one after the other: `Connect`, `ConnectLegacy` and
  `ConnectFails` are the two handshakes, `SupportedVersions`, `ReadIdentity` and
  `ListTools` are `introspect`, with one step for each turn of the paging loop; `PageFails` and
  `Abandon` are its timeouts and errors, `Close` and `Continue` what follows whatever
  happened. `draft` is the server being described, `cursor`, `cursors` and `pages` the locals
  of the loop, `live` the sessions not yet closed. A server either serves its catalog
  in pages of any size, or is `Rogue` and answers anything.
* **RiskTable** — `diff/risk.rs`: one record per table, from facts to levels.
* **Diff** — `diff/engine.rs`, `analyze.rs`, `mod.rs` over the life of a lockfile. `Report` is the
  engine, `ModifiedRisk` with the operators before it the analyzers, `Verified` what `load_baseline`
  demands of a file. Dependencies are revised one at a time (`Revise`), `Snapshot` records what there
  is, `HandEdit` replaces a kind, a payload, a digest or the checksum in the committed file.
  The comparison of schemas is the constant `SchemaFacts`, so that what Diff promises can
  be proved for any; `quiet` is a history of whether any step since the snapshot was reported.
* **Schema** — `diff/schema.rs`: `CompareNode` and one operator per keyword, and the fact `Generic` for
  the flag `has_unclassified_change`. The descent is a function of the levels that are left (`Compared`), over the
  pairs of `Schemas`, which are closed under what lies within a schema.
* **Contract** — Diff with `SchemaFacts <- Compare`, held against what JSON Schema means: `Accepts` says
  which calls and answers a schema admits, and is no part of the program. It too is a function of the levels of a
  value (`Admitted`).
* **Json** — JSON values by their tags, texts by words, spacing and line ends. A digest *is* the canonical form of
  what is hashed. What is computed by walking through a document of any depth is a constant operator here and in
  Manifest and Declaration: `Canonical`, `NormalizeSchema`, `Depth`, `DocumentExposes`; so is `Pieces`, the strings
  of a document, of which a property of Behavior speaks. The modules up to Behavior use no more of it than that it is a function, and so can be proved about.
* **Documents** — those four as the program computes them, by recursion (`fingerprint/canonical.rs`, `schema.rs`,
  `discovery/mcp/normalize.rs`), and what `Pieces` stands for. `MCBehavior.cfg` gives them to the constants.
* **Matchers** — `probes/matchers.rs`: pointers, and when an argument matches.
* **Manifest** — `fingerprint/normalize.rs`, `schema.rs` and `manifest/mod.rs`: normalized texts and schemas,
  the facets of a dependency, its digest, the agent checksum.
* **Declaration** — `discovery/mcp/normalize.rs` and the rules of `limits.rs`: what a server may declare, what may
  not leave the environment, what is made of capabilities, annotations and tools.
* **Sources** — `config.rs`, `discovery/prompts.rs`, `discovery/model.rs`, `discovery/mcp/mod.rs`: what a configuration
  may say (`Loads`), and the dependencies that prompts, a model and servers become.
* **Catalog** — `runner/catalog.rs`: the tools read back from a lockfile, and how a name is resolved.
* **ProbeSuite** — `probes/load.rs`, `model.rs`, `resolve.rs`, `digest.rs`: from a directory of files to a suite.
* **Client** — `runner/openai.rs` and `runner/cache.rs`: endpoint, parameters, names on the wire, the body of a
  request, what is read from a response, the key a sample is filed under.
* **Evaluate** — `probes/eval.rs`, `metrics.rs`: identities first, then every check of every sample, and the tallies.
* **Evidence** — `runner/artifact.rs`, `evidence.rs`, `trace.rs`: an artifact and its name, what contradicts it, and
  which recorded traces a run takes.
* **Report** — `gate/result.rs`, `gate/baseline.rs`, `cli/cmd/inspect.rs`: what is told of a suite and its scores.
* **Behavior** — the run of `check` as one sequence over all of these: `project` is what the user wrote, `served`
  the local model, `run` the run under way, `evidence` the last file a run left and what it was taken from,
  `baseline` what `--accept` wrote. `Begin`, `ReadTags`, `ReadShow`, `Assemble`, `Ask`, `Conclude` and `Replay` are
  the steps of a run; `Edit`, `Replace`, `EditEvidence`, `ExtractTrace` what others do. It abstracts from
  what Check and Capture have: concurrency, files and deaths.
* **CaptureProofs**, **PublishProofs**, **VerdictProofs**, **CheckProofs**, **ContractProofs** (of Diff too), **McpDiscoveryProofs**,
  **BehaviorProofs**, **EvidenceProofs** — theorems. **MC…** — instances for TLC.

An operator whose comment begins with *Fault:* stands before the definition it spoils
and is used by no specification: it is the plausible bug that the property paired
with it in `PROJECT.json` is shown to catch.

## 3. Runs

| Run | Instance | What it shows |
|---|---|---|
| `capture` | 2 processes, 1 and 2 jobs, one refreshing; 2 probes of 1 and 2 samples; every initial cache over absent, unusable, answered; fair | `CacheGenuine`, `TracesGenuine`, `CapturedIsCached`, `NeverIncomplete`, refinement of Experiment, `CaptureEnds`, `TasksSettle`, `NeverPaidTwice` |
| `publish` | 3 writers with names of their own, documents of 2 and 3 blocks, 4 inodes | `NeverHalfWritten`, refinement of Register |
| `publish_race` | 2 writers with one temporary name | violation: `NeverHalfWritten` |
| `verdict` | 2 metrics, thresholds in quarters, 5 policies, 11 tables, 2 suites, 2 contracts, 3 dependency reports, every flag | `GreenIsJudged`, `WorseNeverHelps` |
| `check` | 1 process, 3 commands out of 9 command lines and `snapshot`, 1 edit at any moment, 2 tables, 3 revisions of the tools of which two mean the same | `AcceptMatchesLock`, `RatchetBounded`, `GreenIsClean`, `AcceptSettles` |
| `check_overlap` | 2 processes at once, 3 commands, an edit while none runs | `Honest`, `AcceptedIsAcceptable`, `EvidenceFirst` |
| `check_prompt` | an edit at any moment | violation: `Honest` |
| `discovery` | 3 servers: both lifecycles and 3 tools, the old one only and 4 tools, and a rogue with 6 pages to choose from; 3 pages, 4 tools allowed; fair | `Whole`, `EraIsSpoken`, `SessionsClosed`, `RefusedForAReason`, `Settles` |
| `contract` | 6 dependencies of all kinds, 4 revisions of most, some 50 schemas of an input (3 to begin with) and 24 of an output; 18 calls and answers; 2 revisions or edits, snapshots at any moment | `NothingDisappears`, `LowIsCosmetic`, `DriftDoesNotAccumulate`, `BreakingIsHigh`, `LostAnswerIsCritical`, `SilenceIsEarned` |
| `contract_required` | the same | violation: `NothingNamedIsNothingThere` |
| `probes` | a base project, 10 spellings of it, 16 other meanings, 23 strange and 4 remote ones; 3 models, 5 responses, `--repeat` or not; one edit of the project, the model or the evidence; one baseline | `ReplayRederives`, `AnswersAreToTheseRequests`, `RespellingKeepsEvidence`, `AcceptedWhileServed`, `WholeSuiteJudged`, `CreditedToItsTool`, `ToolsKeepApart`, `EnvironmentStaysOut`, `ReportHidesNothing`, `InspectForetells` |
| `probes_description` | the same | violation: `DescriptionsAreShown` |

### Bounds, and why they are enough

Two processes are what sharing a cache or a name takes; every safety property of
Capture and Publish is also proved for any number. Two probes with one
job make the loop wait for a join before it spawns, two jobs make completions
overlap, and two samples tell the index of a sample from its probe. Documents of two
and three blocks make one a strict prefix in length of the other, so a truncated and a
mixed file both differ from each. In Verdict, the scores and the thresholds are chosen to meet
each boundary: equal to a floor, a ceiling and an allowed drop. In Check, three
commands make the shortest interesting histories (accept, change, check; accept,
accept, check), `MaxEdits` bounds edits and deletions of local state, and the 9
command lines differ in what they read and write; the remaining flags only meet in
`Valid`, which all nine pass through.

In McpDiscovery the bounds of `limits.rs` are scaled to catalogs that reach them exactly and exceed them by
one: three tools are three pages at most, four tools are as many as are allowed and one page
too many. The pages of the rogue repeat a cursor, repeat a name, are empty, exceed the bound on
tools only together, or carry a declaration that is refused.

In Contract the schemas are every combination of what `properties`, `required` and
`additionalProperties` can say of one object with up to two fields, every spelling of
`additionalProperties`, and every other keyword once, in a property or an item. `MAX_DEPTH` is 8 in the code and
`MaxDepth` 1 here: two levels are compared, the third is beyond the bound, and some schemas differ
only there. A value has two levels and is looked into for three (`Height`): no more could be told of it. Two changes after a snapshot are what a combination of two facets or dependencies, and
a chain of two revisions, take; three revisions add no pair of schemas.

In Behavior a project differs from the base in one respect: what two respects at once would add is
that one edit away from each, which `MCEdits` goes through. `MaxChanges` is 1: one thing moves between
taking evidence and using it. Evidence is not dropped for another recording unless a baseline is followed:
that recording would be as a first one. The model is replaced only under a project that is spelled in
several ways (`Respelled`). A baseline is accepted before anything changes, with the repeats the suite declares, and followed through one edit and one
more recording (`Afresh`). The one edit that changes
nothing but the order of the probes leads from two files to one. Responses are one of each kind the client tells apart: a text, a call that
fits, two calls, a call of a tool nobody declares, none. Every length that the code bounds
(aliases, names, entries, probes, repeats, depth of a schema) has an instance on either side of its bound.

The model's answers are one value in Capture: nothing there looks at what an answer says, only at the slot it
is for, and the theorems hold for any set of answers.

Deadlock is not checked: commands, writers and edits are bounded or happen once, and the system
then rests. In Verdict and in Contract something can always happen, and deadlock is checked.

### Fairness

`capture` assumes weak fairness of the loop of each process and of each of its
tasks: tokio's multi-threaded runtime polls whatever is ready, and every request
carries `MODEL_SAMPLE_TIMEOUT`, so a wait ends with an answer or an error. It does
not assume that the model answers, that a process is started or that it survives.

`discovery` assumes weak fairness of its one thread of control: every wait is under one of
`CONNECT_TIMEOUT`, `PAGE_TIMEOUT`, `SERVER_BUDGET` and `SHUTDOWN_TIMEOUT`, whose expiry is
a step. It does not assume that a server ever answers.

### What the violations say

* `publish_race` — two `check --accept` at once can publish a half-written
  `baseline.json`, because `gate::write_atomically` gives its temporary one fixed name.
  Cache entries and runs are safe: their temporaries carry the pid and a counter.
* `check_prompt` — prompts are read for the fingerprint and again for the request; an
  edit between the two files answers to the new prompt under the old agent, in the
  cache, in the run, and in the baseline if it is accepted.
* `contract_required` — a name in `required` that no property declares belongs to none of the
  loops of the schema comparison, and is no malformed entry either. If it appears, calls without that
  field are refused from then on, and the report says that nothing changed. It is why
  `BreakingIsHigh`, `LostAnswerIsCritical` and `SilenceIsEarned` speak of `DeclaredSchemas`.

* `probes_description` — discovery keeps of a tool's description its digest only, and the catalog is
  read back from that. No request carries a description, so the model chooses among tools by their
  names and schemas, while the lockfile says that the descriptions are guarded.

### Divergences met on the way, without a run

* `gate/mod.rs:165`: a `max_drop` on a metric that one of two comparable runs did not measure is left
  undecided and reported as drift, with an empty list of reasons (`docs/configuration.md:420` promises one).
  Accepting does not help. `DriftHasAReason` proves that it is the only such case, `AcceptSettles` exempts it.
* `check --accept --fail-on-drift` without a baseline records one, and exits 1, the report having been made
  before. `AcceptSettles` of Check therefore speaks of runs that judged the baseline they find.
* `discovery/mcp/client.rs:390`: a timeout of the second request for the revisions of a server is a warning,
  and the revisions are then missing from what is hashed: a slow server has another fingerprint.
* `runner/openai.rs`: arguments that a model writes as the text `null` are kept as `null` and read back
  as absent, so such an artifact fails under its own name. An artifact taken with `--repeat` cannot be replayed.
  A cached sample at temperature `0` is found under the key of `0.0` and then refused.
* `probes/digest.rs`: `equals = 1` and `equals = 1.0` have one digest and do not accept the same answers.
* `runner/catalog.rs`: the name of a tool whose characters had to be encoded is read back encoded, and is
  sent so. A replay does not ask whether its endpoint could be sampled.
* `gate/result.rs`: the doc of `failing_checks` speaks of the first failing check of each sample, the code
  lists all of them, and takes for told what another line ends with. `changed_yardsticks` also names
  tools that are new since the baseline. The details of a failure quote what a model wrote, though
  the head of the module says that a report holds no raw evidence.

## 4. Proofs

`CaptureProofs` assumes only `CaptureAssumption` (counts are positive, the two
non-answers are not answers). The goal invariants are not inductive: a filed trace is
genuine because the task that built it held a genuine prefix, a prefix stays genuine
because hits come from a genuine cache, and a capture that ends has every sample cached
because each taken sample was found or put there and no entry is ever removed. `IInv`
says exactly that (`TypeOK`, `CacheGenuine`, `TaskInv`, `TraceInv`, `LoopInv`);
`Inductive` proves `Spec => []IInv` action by action, the rest follows from it,
and `CaptureKeepsThePromise` maps every step to a step or a stutter of Experiment. `JobsAreBounded`
needs two more facts beside it, `Crowd` (a task enters the set only below `--jobs`) and `Unasked` (a
sample that a task has not come to was not asked for).

`PublishProofs` proves that writing through a temporary is atomic whenever temporaries
are kept `Apart`: by name (`write_atomic`) or by never writing at once, on which
`write_atomically` relies and which the program does not enforce. The invariant
`WriterInv` says that no two names stand for one file and that an open file holds exactly
what its writer has written. `PublishIsAtomic` gives the refinement of Register,
`LockIsTruncated` what remains true of a file written in place.

`VerdictProofs` assumes `VerdictAssumption`: thresholds and counts are natural numbers, and the absent value
is none of the statuses, scores and baselines. Only the type invariant is inductive there, the verdict
being a function of the state. `OutcomeOfRun` and `WhatHolds` say what the outcome is, field by field and
constraint by constraint; `StatusOfRun` and `ExitOfRun` what the fold makes of it. `GreenMeansJudged`, `AbsolutesAlwaysGate`,
`DriftHasAReason` and `FailedRowsGate` follow in every state, and `WorseHelpsNobody` and
`AcceptanceSettles` for every step: fewer passes out of as many miss whatever was missed before
(`WorseFailsMore`), and nothing falls below itself (`NotBelowItself`).

`CheckProofs` assumes `CheckAssumption` (scores count samples, thresholds are numbers, a
metric is one of `Metric`, the absent value is none of the others). `RunInv` says what each
step of a process knows (`Known`): whatever it uses it has read, its evidence is of the agent
it discovered and of its own binary, and past the dependency gate an accepting process found
an agent that the lockfile it read means too (`Changed`: a difference in bytes need not be one). What a process knows of the files (`Current`) is
true only if commands run one at a time, so `AcceptsMatchLock`, `RatchetIsBounded` and
`GreenMeansClean` assume `~Overlap`; `BaselineIsAcceptable` and `EvidenceComesFirst` need
no such assumption, and `GreenMeansClean` needs in addition that a process about to report
has judged the baseline there is or has just recorded it (`Judged`). `EvidenceIsHonest`
assumes instead that nobody edits the project while a command runs (`PromptsHeld`);
`check_prompt` shows that it cannot do without. `AcceptingSettles` assumes `~Overlap` too and needs `Filed`:
no experiment has two tables in the cache, and what a process is about to judge is filed there.

`McpDiscoveryProofs` assumes `DiscoveryAssumption`: bounds are numbers, the tools of a catalog are named by
numbers, which stand for the order of names, and one catalog names no tool twice. `DiscInv` adds to `TypeOK`: `TurnInv`,
the servers before this one are recorded and each record fits its server; `EraInv`, the draft is in the newest era its
server speaks; `SessionInv`, only the server being read has a session, and those that would not close; `ListInv`, what has been listed is the
catalog up to the cursor, a tool a page at least, so that a sound catalog within the bounds never meets them;
`ResultInv`, a result "ok" is a draft that fits, and an error has a reason. Sorting is a choice among the bijections that
put the names in order: that there is one for any number of names is shown by the least number for which there is none
(`LeastOf`, `OneMoreSorts`, `EveryNumberSorts`), which takes the place of an induction.

Of Diff `ContractProofs` assumes `DiffAssumption` and, of the comparison of schemas, only that of what can be recorded it names facts
of the risk table (`FactsAreNamed`). `KindsOK`, that whatever is recorded or found is a dependency of a known kind and of
schemas that could be recorded, however the file was edited, is inductive; the rest is about the functions.
`MaxRiskIsLargest` says what the fold of risk is, the lemmas on the analyzers that each gives what
moved a level, that only a schema found equivalent has none, and only a reflowed text or
a schema is LOW; `ChangeRiskIsLevel` and `LowChange` lift that to a dependency, `SameChecksum` covers
the aggregate's short cut, which is where the verified checksum is needed. `NoFingerprintDisappears` and
`LowRiskIsCosmetic` follow for any set of dependencies and any facets, known or not. `QuietStaysQuiet` speaks of
histories and has an invariant of its own, `QuietInv`: as long as no step was reported, the lockfile holds what could be
found and is `Alike` to what is. One more silent revision keeps it so because to be alike is transitive, which takes that
finding schemas equivalent is (`SilenceIsTransitive`), that a digest which did not move is of a payload which did not
either, and that a tool's schema never loses its payload: a facet without one is never equivalent to anything.

Of Contract it assumes `SchemaAssumption` and `ContractAssumption`: what lies within a schema or a value is one, the
keyword that is absent is no schema, and the payloads of schemas are schemas. The recursive functions are well defined
(`IterationExists`, from which `ComparedIs`, `AdmittedIs`, `DeclaredIs` and `ConstrainedIs`), and what is said of all of their
levels is shown by the least level at which it fails (`LeastOf`, `UpTo`).
`SchemaFactsAreNamed` and `SchemaSilenceIsTransitive` discharge what the theorems about Diff assume of a comparison: the facts about
two nodes are none exactly if they are `Silent`, keyword by keyword (`SilenceIs`), which is symmetric and transitive if what
lies below is. `MildCarries` is the core of `BreakingChangesAreHigh`: at every level of the comparison and
for every depth of the value, schemas with none but `Mild` facts, those below HIGH in the table of inputs, admit in the second what they admit in the
first; the induction is over the depth of the value, for all levels of the comparison at once, because the two meet different bounds: the comparison
gives up below `MAX_DEPTH` and says so. It is where each exemption is used: a name that is required and not declared has no
place in the proof that the fields suffice, and a property that was free has no schema before. `SilenceEarned`
is the same in both directions, and needs that silence constrains nothing (`SilenceConstrainsNothing`). `SchemasInReport`
connects a fact about two schemas to the risk of the whole report: no fold and no short cut loses it.

`BehaviorProofs` assumes `BehaviorAssumption`: what is a vector in the program is a sequence, an escape of a
character is two digits that tell it from every other, `%` is escaped, an alias holds no dot, a digest reported by an
endpoint is of one model, and the metrics of naming a tool are metrics. Nothing is assumed of `Canonical` and the other
walks through documents: equal digests are all that the theorems use of them. None of its invariants is inductive,
because each compares a run with the project, the model or the evidence it was made from, several steps earlier and
perhaps before edits. `BehaviorInv` keeps that origin: `RunIsMade`, what a run has assembled is `Built` from the project
on disk (which is not edited during a run) and from a description of a model in `seen`, and past that point it has a
client; `EvidenceIsMade`, the recorded file is of such a build of some earlier project, its traces hold samples in
their places, and its name is the address of its contents unless it was edited, and then is not; `VerdictIsDerived`, a
verdict is the evaluation of the answers of this run or of those traces of the evidence that were usable.
`EvidenceHasAnOrigin` proves it action by action. The rest says what the operators lose and keep:

* `AnswersAreToTheRequests` and `AcceptedOfTheServed` need that the checksum tells the model, the endpoint, the
  parameters and the system prompt (`ModelIsChecksummed`, `SystemIsChecksummed`), that equal catalog digests mean one
  catalog on the wire (`DigestNamesTell`), and that the key of a sample tells its request (`KeyTells`).
* `AcceptedOverTheSuite` needs that `RecordedTraces` takes one trace per probe, of as many samples as it repeats,
  and that an artifact whose contents changed no longer has its address (`RetoldTells`, `EditedArtifact`).
* `ToolsAreKeptApart` needs that percent-encoding is injective although its pieces differ in length (`EncodedTells`:
  two encodings that agree are cut in the same places), that an alias ends at the first dot, and `Flattening`: what
  `FlattenSeq`, which folds, makes of a list of lists.
* `CreditIsDue` needs in addition that a name which the wire carries is its own encoding, so that the id in a
  recorded call and the name in a request speak of the same tool (`PlainlyEncoded`, `DeclaredOnce`).
* `CheckIsForetold` needs that the catalog read from the committed lockfile is that of a lockfile of all dependencies,
  and that neither the digest of a probe nor its metrics depend on `--repeat` (`CatalogOfServers`, `DigestButRepeat`).
* `ReportIsHonest` has two halves. That no shortfall is left unnamed (`ShortfallsFit`) is about counts: a metric that
  some sample failed passed fewer samples than it applied to (`Smaller`), and a failed check that is not told of had
  the words of an earlier one that was (`FailuresAreTold`). That scores move only with a schema that is named
  (`SchemaMovesFit`) needs where the baseline is from, which `BaselineIsMade` keeps: it was written by a capture over a
  project there is, from the answers that are remembered with it (`BaselineHasAnOrigin`). Under equal suite digests each
  probe has a twin of its name in the other run, wherever it stands (`SuiteTells`), and its twin asks for the same
  (`DigestAsks`); catalogs of one set of names and of equal schema digests are `Alike`; so a probe and its twin, given
  answers that say the same, are measured and met in the same places (`TwinsCount`), and as a score is the size of a set
  of places (`SumOfSizes`, `AggregateIs`), whatever the order of the probes, the scores are equal. `DigestAssumption`
  is needed there: schemas of one digest demand the same, and what is absent is no digest and no id. The attempt
  showed that the answers of the two runs must be compared by the name of a probe: the suite digest forgets
  the order of the files, so the same suite may be asked in another order (`TwoProbes` and `OneFile` in MCBehavior).

`EvidenceProofs` follows the evidence from the run that left it to a run that is given it, and what is recorded of a server
back to what the server said.

* `GreenRunsRederive` (`ReplayRederives`) takes two more invariants: `EvidenceIsWhole`, that an artifact nobody edited
  is what a capture wrote, traces and outcomes; and `ReplayIsPlain`, that a replay takes the repeats that are declared
  and its verdict from this evidence alone. An artifact in which no arguments were the text `null` reads back as it
  was written (`TraceReadBack`, `DocumentReadBack`). For a run of the same checksum, catalog and suite digest it is usable
  (`RecordIsUsable`): every probe finds a trace of its name, in its revision and with as many samples as it repeats.
  The outcomes are those that were recorded, because under one checksum a catalog gives a name one meaning (`OneWire`,
  `ChecksummedCatalogs`) and a check asks of it no more than which tool has a name and whether arguments suit its schema
  (`JudgedTheSame`). The suites may be in different orders, so outcomes are matched by name (`RecordedAligned`).
* `RespellingIsTaken` (`RespellingKeepsEvidence`) is about two projects that say the same (`SaysTheSame`): the prompts,
  the servers and the tools have the same fingerprints, the model is one, and the probes have the same digests and
  matchers, each as a set. That a spelling does not change the fingerprint of a part is for TLC, as it takes the recursion
  over documents: in the instance all eleven of `MCRespelled` say the same as each other, and none of the sixteen `Meanings`
  says the same as the base. The theorem is that nothing but these parts counts. It needs what each run was told of a
  local model, which `RunIsTold` and `EvidenceIsTold` keep: one answer says who it is and the next the rest, so that two
  runs that saw one model were told the same, and two models seen in one run may be mixed into a third. From there the
  checksum is a function of the fingerprints (`ChecksumRetold`, `FingerprintsTell`), the suite of what its probes ask
  (`SuiteRetold`), whatever the `--repeat`, and the evidence is accepted because it is rederived.
* `EnvironmentIsKept` (`EnvironmentStaysOut`) needs no other invariant: what is assembled is of the project that is there.
  The id of a tool begins with the alias of its own server and no other (`AliasOfTool`), and of a server and a tool
  nothing is recorded that was not compared with the environment (`ServerSays`, `ToolSays`). That does not hold of
  every project, and the theorem says of which (`OwnWords`): what the program itself writes, an alias, the `20`
  of an escaped space, the default dialect, is compared with nothing, and must not happen to be a value of
  the environment; and what a normal form says of a schema must be looked at in the schema that was declared, which
  is a matter of recursion over documents. TLC finds `OwnWords` to hold of every server of the instance. `TextAssumption` is
  that a description and instructions are texts.

The first two assume `RefusedIsNoList`, that the value for an error is no sequence. It speaks of every list, so that TLC
cannot evaluate it. What `SaysTheSame` and `OwnWords` ask is a hypothesis of the theorem and no assumption of the module:
a program that fingerprints otherwise, or looks into less of a document, breaks it, and that is what the run is to find.

Out of reach of the prover, and so only model-checked: liveness (`CaptureEnds`, `TasksSettle`, `NeverPaidTwice`,
`Settles`) and what recursion over documents computes for every input, which the two hypotheses stand for. Each
module's `TypeOK` that is proved is not run again.

## 5. Abstractions

* Digests are taken to tell contents apart: an agent, a suite, an answer is a value.
* A score is an exact fraction. The code compares `f64` quotients; the two agree on
  the instances, whose totals and unit are powers of two. Rounding at a boundary that is
  no dyadic fraction is not modelled: in `f64` a drop from 0.8 to 0.7 is beyond an allowed 0.1, one from 0.9 to 0.8 is not.
* In Capture an unusable entry stays unusable until it is overwritten under `--refresh`;
  nobody edits the cache while processes run.
* Publish does not model a power failure that loses unsynced blocks: the program never
  calls `fsync`, and speaks only of interrupted processes.
* In Check a replayed run is a run artifact; what it has to agree with is in Evidence and Behavior.
* Whether a JSON Schema compiles and whether a value conforms to it are external: `Compiles` and `Conforms` know of
  what a schema `Demands` of a value: `$ref`, `type` and `required`. TOML, the parsing of the text a model writes for arguments (`Parse`), and the order of paths and of
  JSON values (`PathRank`, `ValueRank`) are external too.
* Of what the code accepts a sample is modelled where one member of each kind behaves as all do: `NormalForm` knows some of
  the keywords that hold one schema, a map or a list of them (`fingerprint/schema.rs`); `EndpointFor` no path and `/v1`, where
  the program takes any base that ends in `/v1`; `ReadArguments` one bound, where the text on the wire and what it
  parses to are measured each (`runner/openai.rs`). No property tells them apart.
* `FailingChecks` compares the words of one metric as a whole; the program asks whether a line that was told, of
  any metric, ends in them (`gate/result.rs`). They differ when one sentence ends as another does: "2 tools were called" is
  taken for told after "12 tools were called".
* Behavior has no files: that the lockfile is written and read as it is, is Check's and Publish's to say.
* In McpDiscovery a server does not change its declarations while it is read, and a
  declaration is a name and whatever else it says; what the normalization refuses is the set
  `Rejected`. The transport of a failed connection is the SDK's to drop.
* In Diff a facet whose content the lockfile keeps has it as its digest, the keywords of a schema that the analyzer
  does not interpret are one, and a malformed keyword is `Odd` as a whole: a `required` of which some
  entries are strings and others are not is left out. Details, paths and values of a change are not modelled,
  nor is the `source` of a dependency, which no digest covers. A shape edited by hand is not either; nothing verifies it.
* `BreakingIsHigh` exempts (`Constrains`) an optional property that appears where
  undeclared fields were free. Its type now refuses some calls that were accepted; the table makes it LOW by decision.
* Notes, wording and layout of reports are left out; of the words of a failed check Report keeps what
  makes two of them equal.

## 6. Plan

1. *done* Capture, Experiment: the concurrent core; then its proofs.
2. *done* Publish, Register, and their proofs.
3. *done* Gate, Verdict, Check, and their proofs.
4. *done* McpDiscovery: era detection, paging and bounds, timeouts, sessions.
5. *done* RiskTable, Schema, Diff, Contract, and the proofs of Diff and of Contract.
6. *done* Json to Report and Behavior: from a configuration to a verdict, a report and its evidence.
7. *done* Proofs of McpDiscovery: `DiscInv`, then each of its safety properties.
8. *done* Proof of `AcceptSettles` of Check.
9. **Scores** — the boundary of `max_drop` in binary floating point.
10. *done* A Json without RECURSIVE operators, and the proofs of Behavior.
11. *done* Proofs of Report: `ShortfallsAreNamed`, then `SchemaMovesAreNamed`.
12. *done* Proofs of `ReplayRederives`, `RespellingKeepsEvidence` and `EnvironmentStaysOut`, in EvidenceProofs.

## 7. Not modelled

The details, paths and values that a diff prints (`diff/model.rs`, `json_diff`), the layout of reports
and the wording of errors; argument parsing (clap) and TOML; `init`, which writes one
configuration if there is none; the transport of the model client and what the MCP SDK does in a
handshake; SHA-256, which is taken as injective; the CI scripts.

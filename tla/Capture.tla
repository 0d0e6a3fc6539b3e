------------------------------- MODULE Capture -------------------------------
(***************************************************************************)
(* Capturing a probe suite: `capture_all` (src/src/cli/cmd/check.rs)       *)
(* spawns one task per probe into a JoinSet, at most `jobs` at a time; a   *)
(* task takes `repeat` samples one after the other, each a hit in the      *)
(* sample cache or one request to the model (Runner::capture), and the     *)
(* traces are filed under the probe's index as tasks finish.  Several      *)
(* check processes may run over one project root and share its cache.      *)
(*                                                                         *)
(* Tasks run on a multi-threaded executor and can be aborted only where    *)
(* they await: before their first poll and while a request is under way.   *)
(***************************************************************************)
EXTENDS Naturals, Sequences, FiniteSets

CONSTANTS
    Run,       \* the check processes
    NumProbes, \* suite.probes.len()
    Repeat,    \* Repeat[i]: the samples probe i takes
    Jobs,      \* Jobs[r]: --jobs of process r
    Refresh,   \* Refresh[r]: --refresh of process r
    Inputs,    \* Inputs[r]: the agent checksum, catalog digest, parameters and
               \* runner version under which r samples
    Answer,    \* what the model can answer
    Absent,    \* no entry in the cache
    Unusable   \* an entry a read refuses: malformed, or of other inputs

Index == 1..NumProbes

ASSUME CaptureAssumption ==
    /\ NumProbes \in Nat
    /\ Repeat \in [Index -> Nat \ {0}]
    /\ Jobs \in [Run -> Nat \ {0}]
    /\ Refresh \in [Run -> BOOLEAN]
    /\ Absent # Unusable
    /\ Absent \notin Answer
    /\ Unusable \notin Answer

\* Sample s of probe i.
Slot == UNION {{i} \X (1..Repeat[i]) : i \in Index}

Circumstance == {Inputs[r] : r \in Run}

VARIABLES
    phase,   \* phase[r]: how far the process is
    next,    \* next[r]: the next probe to spawn
    at,      \* at[r][i]: where the task that captures probe i stands
    samples, \* samples[r][i]: the samples it has taken
    held,    \* held[r][i]: the answer it is about to store, Absent for none
    traces,  \* traces[r][i]: the filed trace of probe i, <<>> for None
    cache,   \* cache[c][k]: the entry under the key of c and k
    asked,   \* asked[r][k]: the requests r sent for k
    given    \* given[c][k]: the answers the model ever gave under c for k

tasks == <<at, samples, held>>
vars == <<phase, next, at, samples, held, traces, cache, asked, given>>

InSet == {"lookup", "asking", "storing", "ended", "broken"}

\* The tasks in the JoinSet: spawned and not yet joined.
InFlight(r) == {i \in Index : at[r][i] \in InSet}

\* The sample a task is about to take, and the inputs' share of its key.
Current(r, i) == <<i, Len(samples[r][i]) + 1>>

Entry(r, k) == cache[Inputs[r]][k]

Alive(r) == phase[r] \in {"capturing", "failed"}

Init ==
    /\ phase = [r \in Run |-> "idle"]
    /\ next = [r \in Run |-> 1]
    /\ at = [r \in Run |-> [i \in Index |-> "unspawned"]]
    /\ samples = [r \in Run |-> [i \in Index |-> <<>>]]
    /\ held = [r \in Run |-> [i \in Index |-> Absent]]
    /\ traces = [r \in Run |-> [i \in Index |-> <<>>]]
    /\ cache \in [Circumstance -> [Slot -> Answer \union {Absent, Unusable}]]
    /\ asked = [r \in Run |-> [k \in Slot |-> 0]]
    /\ given = [c \in Circumstance |-> [k \in Slot |-> {cache[c][k]} \intersect Answer]]

Start(r) ==
    /\ phase[r] = "idle"
    /\ phase' = [phase EXCEPT ![r] = "capturing"]
    /\ UNCHANGED <<next, tasks, traces, cache, asked, given>>

------------------------------------------------------------------------------
(* The main task: capture_all's loop.                                       *)

CanSpawn(r) == next[r] <= NumProbes /\ Cardinality(InFlight(r)) < Jobs[r]

Spawn(r) ==
    /\ phase[r] = "capturing"
    /\ CanSpawn(r)
    /\ at' = [at EXCEPT ![r][next[r]] = "lookup"]
    /\ next' = [next EXCEPT ![r] = @ + 1]
    /\ UNCHANGED <<phase, samples, held, traces, cache, asked, given>>

\* Fault: traces are filed in the order in which tasks finish.
JoinInOrder(r, i) ==
    /\ phase[r] = "capturing"
    /\ ~CanSpawn(r)
    /\ at[r][i] = "ended"
    /\ \E n \in Index :
        /\ traces[r][n] = <<>>
        /\ \A m \in 1..(n - 1) : traces[r][m] # <<>>
        /\ traces' = [traces EXCEPT ![r][n] = samples[r][i]]
    /\ at' = [at EXCEPT ![r][i] = "joined"]
    /\ UNCHANGED <<phase, next, samples, held, cache, asked, given>>

\* Fault: the error of a task is dropped.
JoinSwallowing(r, i) ==
    /\ phase[r] = "capturing"
    /\ ~CanSpawn(r)
    /\ at[r][i] \in {"ended", "broken"}
    /\ traces' = [traces EXCEPT ![r][i] = IF at[r][i] = "ended" THEN samples[r][i] ELSE <<>>]
    /\ at' = [at EXCEPT ![r][i] = "joined"]
    /\ UNCHANGED <<phase, next, samples, held, cache, asked, given>>

\* Fault: the loop only waits for tasks that succeeded.
JoinEnded(r, i) ==
    /\ phase[r] = "capturing"
    /\ ~CanSpawn(r)
    /\ at[r][i] = "ended"
    /\ traces' = [traces EXCEPT ![r][i] = samples[r][i]]
    /\ at' = [at EXCEPT ![r][i] = "joined"]
    /\ UNCHANGED <<phase, next, samples, held, cache, asked, given>>

\* join_next yields a finished task, whichever it is: its trace is filed under
\* its own index, or its error ends the capture and drops the JoinSet.
Join(r, i) ==
    /\ phase[r] = "capturing"
    /\ ~CanSpawn(r)
    /\ at[r][i] \in {"ended", "broken"}
    /\ IF at[r][i] = "ended"
       THEN /\ traces' = [traces EXCEPT ![r][i] = samples[r][i]]
            /\ UNCHANGED phase
       ELSE /\ phase' = [phase EXCEPT ![r] = "failed"]
            /\ UNCHANGED traces
    /\ at' = [at EXCEPT ![r][i] = "joined"]
    /\ UNCHANGED <<next, samples, held, cache, asked, given>>

\* The loop is over: every trace is there, or the run is refused.
Conclude(r) ==
    /\ phase[r] = "capturing"
    /\ next[r] > NumProbes
    /\ InFlight(r) = {}
    /\ phase' = [phase EXCEPT ![r] =
                    IF \A i \in Index : traces[r][i] # <<>> THEN "captured" ELSE "incomplete"]
    /\ UNCHANGED <<next, tasks, traces, cache, asked, given>>

------------------------------------------------------------------------------
(* A capture task: Runner::capture, one sample at a time.                   *)

\* Sample a is added, and the task goes on with the next one or has finished.
Take(r, i, a) ==
    /\ samples' = [samples EXCEPT ![r][i] = Append(@, a)]
    /\ at' = [at EXCEPT ![r][i] =
                 IF Len(samples[r][i]) + 1 = Repeat[i] THEN "ended" ELSE "lookup"]
    /\ held' = [held EXCEPT ![r][i] = Absent]

\* Fault: the sample index is not part of the key that is looked up.
HitAtFirst(r, i) ==
    /\ Alive(r)
    /\ at[r][i] = "lookup"
    /\ ~Refresh[r]
    /\ Entry(r, <<i, 1>>) \in Answer
    /\ Take(r, i, Entry(r, <<i, 1>>))
    /\ UNCHANGED <<phase, next, traces, cache, asked, given>>

Hit(r, i) ==
    /\ Alive(r)
    /\ at[r][i] = "lookup"
    /\ ~Refresh[r]
    /\ Entry(r, Current(r, i)) \in Answer
    /\ Take(r, i, Entry(r, Current(r, i)))
    /\ UNCHANGED <<phase, next, traces, cache, asked, given>>

\* A present but unusable entry is an error, never a miss.
RefuseEntry(r, i) ==
    /\ Alive(r)
    /\ at[r][i] = "lookup"
    /\ ~Refresh[r]
    /\ Entry(r, Current(r, i)) = Unusable
    /\ at' = [at EXCEPT ![r][i] = "broken"]
    /\ UNCHANGED <<phase, next, samples, held, traces, cache, asked, given>>

\* Fault: the cache is not looked up first.
AskAlways(r, i) ==
    /\ Alive(r)
    /\ at[r][i] = "lookup"
    /\ at' = [at EXCEPT ![r][i] = "asking"]
    /\ asked' = [asked EXCEPT ![r][Current(r, i)] = @ + 1]
    /\ UNCHANGED <<phase, next, samples, held, traces, cache, given>>

Ask(r, i) ==
    /\ Alive(r)
    /\ at[r][i] = "lookup"
    /\ Refresh[r] \/ Entry(r, Current(r, i)) = Absent
    /\ at' = [at EXCEPT ![r][i] = "asking"]
    /\ asked' = [asked EXCEPT ![r][Current(r, i)] = @ + 1]
    /\ UNCHANGED <<phase, next, samples, held, traces, cache, given>>

Answered(r, i, a) ==
    /\ phase[r] = "capturing"
    /\ at[r][i] = "asking"
    /\ at' = [at EXCEPT ![r][i] = "storing"]
    /\ held' = [held EXCEPT ![r][i] = a]
    /\ given' = [given EXCEPT ![Inputs[r]][Current(r, i)] = @ \union {a}]
    /\ UNCHANGED <<phase, next, samples, traces, cache, asked>>

\* The request failed: transport, HTTP status, timeout, bounds, or a body that
\* is not one sample.  There is no retry.
AskFailed(r, i) ==
    /\ phase[r] = "capturing"
    /\ at[r][i] = "asking"
    /\ at' = [at EXCEPT ![r][i] = "broken"]
    /\ UNCHANGED <<phase, next, samples, held, traces, cache, asked, given>>

\* Fault: the key holds how many samples there are for which one this is.
StoreAtLast(r, i) ==
    /\ Alive(r)
    /\ at[r][i] = "storing"
    /\ cache' = [cache EXCEPT ![Inputs[r]][<<i, Repeat[i]>>] = held[r][i]]
    /\ Take(r, i, held[r][i])
    /\ UNCHANGED <<phase, next, traces, asked, given>>

\* Fault: --refresh bypasses the cache both ways.
StoreUnlessRefresh(r, i) ==
    /\ Alive(r)
    /\ at[r][i] = "storing"
    /\ IF Refresh[r] THEN UNCHANGED cache
       ELSE cache' = [cache EXCEPT ![Inputs[r]][Current(r, i)] = held[r][i]]
    /\ Take(r, i, held[r][i])
    /\ UNCHANGED <<phase, next, traces, asked, given>>

Store(r, i) ==
    /\ Alive(r)
    /\ at[r][i] = "storing"
    /\ cache' = [cache EXCEPT ![Inputs[r]][Current(r, i)] = held[r][i]]
    /\ Take(r, i, held[r][i])
    /\ UNCHANGED <<phase, next, traces, asked, given>>

StoreFailed(r, i) ==
    /\ Alive(r)
    /\ at[r][i] = "storing"
    /\ at' = [at EXCEPT ![r][i] = "broken"]
    /\ UNCHANGED <<phase, next, samples, held, traces, cache, asked, given>>

\* Fault: requests under way are not aborted.
CancelUnpolled(r, i) ==
    /\ phase[r] = "failed"
    /\ at[r][i] = "lookup" /\ samples[r][i] = <<>>
    /\ at' = [at EXCEPT ![r][i] = "aborted"]
    /\ UNCHANGED <<phase, next, samples, held, traces, cache, asked, given>>

\* The JoinSet was dropped: a task is cancelled where it awaits.
Cancel(r, i) ==
    /\ phase[r] = "failed"
    /\ \/ at[r][i] = "asking"
       \/ at[r][i] = "lookup" /\ samples[r][i] = <<>>
    /\ at' = [at EXCEPT ![r][i] = "aborted"]
    /\ UNCHANGED <<phase, next, samples, held, traces, cache, asked, given>>

\* The process dies; what it published in the cache stays.
Kill(r) ==
    /\ Alive(r)
    /\ phase' = [phase EXCEPT ![r] = "killed"]
    /\ UNCHANGED <<next, tasks, traces, cache, asked, given>>

------------------------------------------------------------------------------

MainStep(r) == Spawn(r) \/ (\E i \in Index : Join(r, i)) \/ Conclude(r)

TaskStep(r, i) ==
    \/ Hit(r, i)
    \/ RefuseEntry(r, i)
    \/ Ask(r, i)
    \/ \E a \in Answer : Answered(r, i, a)
    \/ AskFailed(r, i)
    \/ Store(r, i)
    \/ StoreFailed(r, i)
    \/ Cancel(r, i)

Next ==
    \E r \in Run :
        \/ Start(r)
        \/ MainStep(r)
        \/ \E i \in Index : TaskStep(r, i)
        \/ Kill(r)

Spec == Init /\ [][Next]_vars

\* The executor runs every task that can run, and the timeout of a request
\* (MODEL_SAMPLE_TIMEOUT) bounds every wait.  Nobody has to start a process.
Fairness ==
    \A r \in Run :
        /\ WF_vars(MainStep(r))
        /\ \A i \in Index : WF_vars(TaskStep(r, i))

FairSpec == Spec /\ Fairness

------------------------------------------------------------------------------

\* The phases of a process and the shapes of its tasks, traces and counts.
Phases == {"idle", "capturing", "captured", "incomplete", "failed", "killed"}

Stands == InSet \union {"unspawned", "joined", "aborted"}

TypeOK ==
    /\ phase \in [Run -> Phases]
    /\ next \in [Run -> 1..NumProbes + 1]
    /\ at \in [Run -> [Index -> Stands]]
    /\ samples \in [Run -> [Index -> Seq(Answer)]]
    /\ held \in [Run -> [Index -> Answer \union {Absent}]]
    /\ traces \in [Run -> [Index -> Seq(Answer)]]
    /\ cache \in [Circumstance -> [Slot -> Answer \union {Absent, Unusable}]]
    /\ asked \in [Run -> [Slot -> Nat]]
    /\ given \in [Circumstance -> [Slot -> SUBSET Answer]]

\* What the cache holds under a key is an answer the model gave to that very
\* sample under those inputs, whoever wrote it and whatever happened since.
CacheGenuine ==
    \A c \in Circumstance, k \in Slot : cache[c][k] \in Answer => cache[c][k] \in given[c][k]

\* Each trace a captured run hands on has exactly `repeat` samples, and its s-th
\* sample answers sample s of that probe in that run's own experiment, whatever
\* the order in which tasks finished.
TracesGenuine ==
    \A r \in Run : phase[r] = "captured" =>
        \A i \in Index :
            /\ Len(traces[r][i]) = Repeat[i]
            /\ \A s \in 1..Repeat[i] : traces[r][i][s] \in given[Inputs[r]][<<i, s>>]

\* The loop never ends without a trace for every probe: the refusal at the end
\* of capture_all is a guard nothing reaches.
NeverIncomplete == \A r \in Run : phase[r] # "incomplete"

\* No more than `jobs` captures are in flight, and no sample is asked for twice
\* by one process: there are no retries.
Bounded ==
    \A r \in Run :
        /\ Cardinality(InFlight(r)) <= Jobs[r]
        /\ \A k \in Slot : asked[r][k] <= 1

\* A captured suite can be captured again without a request: every sample of it
\* is in the cache when the capture ends, whatever other processes did.
CapturedIsCached ==
    \A r \in Run : phase[r] = "captured" =>
        \A k \in Slot : Entry(r, k) \in Answer

\* A process that is not refreshing never asks for a sample that was in the cache
\* before it began, however many other processes hit, refresh or overwrite it.
NeverPaidTwice ==
    \A r \in Run : ~Refresh[r] =>
        \A k \in Slot :
            [](phase[r] = "idle" /\ Entry(r, k) \in Answer => [](asked[r][k] = 0))

\* Every capture that began ends, in one way or another.
CaptureEnds ==
    \A r \in Run : phase[r] = "capturing" ~> phase[r] \in {"captured", "failed", "killed"}

\* After a failure the tasks still in flight come to rest.
TasksSettle ==
    \A r \in Run : phase[r] = "failed" ~>
        \/ phase[r] = "killed"
        \/ \A i \in Index : at[r][i] \notin {"lookup", "asking", "storing"}

------------------------------------------------------------------------------
(* The inductive invariant behind CacheGenuine, TracesGenuine,               *)
(* CapturedIsCached and NeverIncomplete.                                     *)

\* The samples are answers to the first samples of probe i, in order, and each
\* of those samples is in the cache.
Prefix(r, i, taken) ==
    /\ Len(taken) <= Repeat[i]
    /\ \A s \in 1..Len(taken) :
        /\ taken[s] \in given[Inputs[r]][<<i, s>>]
        /\ Entry(r, <<i, s>>) \in Answer

\* A task holds a genuine prefix of its trace, of full length exactly when it has
\* ended, and the answer it is about to store answers its current sample.
TaskInv ==
    \A r \in Run, i \in Index :
        /\ Prefix(r, i, samples[r][i])
        /\ at[r][i] \in {"unspawned", "lookup", "asking", "storing"} =>
               Len(samples[r][i]) < Repeat[i]
        /\ at[r][i] = "ended" => Len(samples[r][i]) = Repeat[i]
        /\ at[r][i] = "storing" => held[r][i] \in given[Inputs[r]][Current(r, i)]

\* A filed trace is whole and genuine.
TraceInv ==
    \A r \in Run, i \in Index :
        traces[r][i] # <<>> =>
            /\ Len(traces[r][i]) = Repeat[i]
            /\ Prefix(r, i, traces[r][i])

\* Exactly the probes before `next` are spawned, and while no error was joined
\* a task has left the set only by having its trace filed.
LoopInv ==
    \A r \in Run :
        /\ phase[r] = "captured" => \A i \in Index : traces[r][i] # <<>>
        /\ phase[r] # "incomplete"
        /\ \A i \in Index :
            /\ at[r][i] = "unspawned" <=> i >= next[r]
            /\ phase[r] \in {"idle", "capturing"} =>
                /\ at[r][i] # "aborted"
                /\ at[r][i] = "joined" => traces[r][i] # <<>>

\* Each of its parts needs the others: a filed trace is genuine because the task
\* that built it was, and a hit is genuine because the cache is.
IInv == TypeOK /\ CacheGenuine /\ TaskInv /\ TraceInv /\ LoopInv

------------------------------------------------------------------------------
(* The capture implements Experiment: all of the table or nothing.          *)

Result(r) ==
    IF phase[r] = "captured"
    THEN [is |-> "table", table |-> [k \in Slot |-> traces[r][k[1]][k[2]]]]
    ELSE [is |-> IF phase[r] \in {"idle", "capturing"} THEN "pending" ELSE "nothing",
          table |-> <<>>]

Promise == INSTANCE Experiment WITH result <- [r \in Run |-> Result(r)]

\* The capture keeps the promise of Experiment.
Implements == Promise!Spec
==============================================================================

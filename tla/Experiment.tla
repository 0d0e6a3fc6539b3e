----------------------------- MODULE Experiment -----------------------------
(***************************************************************************)
(* What capturing a probe suite promises to the rest of `check`, whatever  *)
(* the number of jobs, cache hits, failures and concurrent processes: a    *)
(* run gets a table with one answer for every sample of every probe, each  *)
(* of them an answer the model really gave to that sample of the same      *)
(* experiment, or it gets no table at all.                                 *)
(***************************************************************************)
EXTENDS Naturals

CONSTANTS
    Run,     \* the check processes
    Slot,    \* one sample of one probe
    Inputs,  \* [Run -> what else a sample is a function of]
    Answer   \* what the model can answer

VARIABLES
    given,   \* given[c][k]: the answers the model has given under c for slot k
    result   \* result[r]: what the run has to show

vars == <<given, result>>

Pending == [is |-> "pending", table |-> <<>>]
Nothing == [is |-> "nothing", table |-> <<>>]
Table(table) == [is |-> "table", table |-> table]

\* The tables that hold only genuine answers to the run's own experiment.
Genuine(r) ==
    {table \in [Slot -> Answer] : \A k \in Slot : table[k] \in given[Inputs[r]][k]}

Init ==
    /\ given \in [{Inputs[r] : r \in Run} -> [Slot -> SUBSET Answer]]
    /\ result = [r \in Run |-> Pending]

\* The model answers a request of some run.
Reply(c, k, a) ==
    /\ given' = [given EXCEPT ![c][k] = @ \union {a}]
    /\ UNCHANGED result

\* A run hands over its whole table, once.
Publish(r) ==
    /\ result[r] = Pending
    /\ \E table \in Genuine(r) : result' = [result EXCEPT ![r] = Table(table)]
    /\ UNCHANGED given

\* A run ends with nothing: an error, or a process that died.
Abandon(r) ==
    /\ result[r] = Pending
    /\ result' = [result EXCEPT ![r] = Nothing]
    /\ UNCHANGED given

Next ==
    \/ \E r \in Run, k \in Slot, a \in Answer : Reply(Inputs[r], k, a)
    \/ \E r \in Run : Publish(r) \/ Abandon(r)

Spec == Init /\ [][Next]_vars
=============================================================================

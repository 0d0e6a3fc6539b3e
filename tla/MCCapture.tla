------------------------------ MODULE MCCapture ------------------------------
(* Small instances of Capture for TLC.                                      *)
EXTENDS Capture, TLC

CONSTANTS r1, r2, c1, c2, a

\* Probe 1 takes one sample, the others two.
MCRepeat == [i \in 1..NumProbes |-> IF i = 1 THEN 1 ELSE 2]
OneSample == [i \in 1..NumProbes |-> 1]

\* r1 may run two captures at a time and trusts the cache, r2 refreshes it.
MCJobs == [r \in Run |-> IF r = r1 THEN 2 ELSE 1]
MCRefresh == [r \in Run |-> r = r2]
NoRefresh == [r \in Run |-> FALSE]

\* Both processes check the same agent, or two revisions of it.
OneAgent == [r \in Run |-> c1]
TwoAgents == [r \in Run |-> IF r = r1 THEN c1 ELSE c2]

==============================================================================

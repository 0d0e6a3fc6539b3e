------------------------------ MODULE MCVerdict ------------------------------
(* A small instance of Verdict for TLC: two metrics, thresholds in quarters. *)
EXTENDS Verdict, TLC

CONSTANTS selection, validity, s1, s2, k1, k2

P(min, max, drop) == [min |-> min, max |-> max, max_drop |-> drop]

\* The policies of the first metric, alone or beside one of the second.
First == {P(None, None, 1), P(2, None, None), P(2, None, 1), P(None, 2, 0)}

MCPolicies ==
    {selection :> p : p \in First} \union {(selection :> P(2, None, 1)) @@ (validity :> P(None, None, 2))}

Selections == {Score(0, 2), Score(1, 2), Score(2, 2)}
Validities == {Score(0, 1), Score(1, 1)}

\* The second metric is measured only when some sample called a tool.
MCTables ==
    {selection :> s : s \in Selections}
        \union {(selection :> s) @@ (validity :> v) : s \in Selections, v \in Validities}
        \union {validity :> v : v \in Validities}

MCReports == {[changed |-> FALSE, risk |-> 0], [changed |-> TRUE, risk |-> 1],
              [changed |-> TRUE, risk |-> 3]}
==============================================================================

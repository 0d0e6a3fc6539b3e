------------------------------- MODULE MCCheck -------------------------------
(* Small instances of Check for TLC.                                         *)
EXTENDS Check, TLC

CONSTANTS p1, p2, t1, t2, t3, x1, x2, s1, s2, k1, k2, good, fair, poor, silent, selection

\* p2 is the same binary as p1, or the next release.
OneBinary == [p \in Proc |-> k1]
TwoBinaries == [p \in Proc |-> IF p = p1 THEN k1 ELSE k2]

\* A run in which no sample called a tool measures nothing.
MCScores ==
    [t \in Table |-> CASE t = good -> selection :> Score(4, 4)
                       [] t = fair -> selection :> Score(3, 4)
                       [] t = poor -> selection :> Score(2, 4)
                       [] OTHER -> <<>>]

\* The floor is two quarters, and one quarter may be lost.
FloorAndDrop == selection :> [min |-> 2, max |-> None, max_drop |-> 1]
DropOnly == selection :> [min |-> None, max |-> None, max_drop |-> 1]

\* A change of tools is critical, but t3 means what t1 does; one of prompts is medium.
MCRisk ==
    [ab \in Agent \X Agent |->
        IF ab[1].prompts # ab[2].prompts THEN 2
        ELSE IF ab[1].tools = t2 \/ ab[2].tools = t2 THEN 4 ELSE 0]

Line(flags) == [flags |-> flags, risk |-> None]

\* The command lines that differ in what they read, write and conclude.
Lines ==
    {[flags |-> {}, risk |-> 3], Line({"accept", "fail_on_drift"}), Line({"accept", "refresh", "probes_only"}),
     Line({"fail_on_drift"}), Line({"fail_on_drift", "probes_only"}),
     Line({"no_probes", "fail_on_drift"}), Line({"trace", "fail_on_drift"}),
     Line({"from", "fail_on_drift"}), Line({"accept", "from"})}

\* Those that write, and one that reads.
Writers == {Line({}), Line({"accept"}), Line({"accept", "refresh"}), Line({"accept", "trace"})}
==============================================================================

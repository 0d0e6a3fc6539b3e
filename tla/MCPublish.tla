------------------------------ MODULE MCPublish ------------------------------
(* Small instances of Publish for TLC: three writers of documents of two    *)
(* and three blocks.                                                        *)
EXTENDS Publish, TLC

CONSTANTS w1, w2, w3, long, short, target, t1, t2, t3, f1, f2, f3, f4

MCDoc == [w \in Writer |-> IF w = w1 THEN long ELSE short]
MCBlocks == (long :> 3) @@ (short :> 2)

\* runner::write_atomic and gate::write_atomically.
OwnTemp == [w \in Writer |-> CASE w = w1 -> t1 [] w = w2 -> t2 [] OTHER -> t3]
SharedTemp == [w \in Writer |-> t1]
==============================================================================

------------------------------ MODULE Register ------------------------------
(* What an atomic file write promises: whoever reads the file finds one     *)
(* whole document, the one before or the one after each write.              *)

CONSTANTS
    Writer,  \* the processes that write the file
    Doc,     \* Doc[w]: the document w writes
    Missing  \* there is no file

VARIABLES
    value,   \* what a reader finds
    status   \* status[w]: "writing", or the outcome "written" or "lost"

vars == <<value, status>>

Init ==
    /\ value \in {Missing} \union {Doc[w] : w \in Writer}
    /\ status = [w \in Writer |-> "writing"]

\* The write takes effect at once, or not at all.
Commit(w) ==
    /\ status[w] = "writing"
    /\ value' = Doc[w]
    /\ status' = [status EXCEPT ![w] = "written"]

Lose(w) ==
    /\ status[w] = "writing"
    /\ status' = [status EXCEPT ![w] = "lost"]
    /\ UNCHANGED value

Next == \E w \in Writer : Commit(w) \/ Lose(w)

Spec == Init /\ [][Next]_vars
=============================================================================

------------------------------- MODULE Publish -------------------------------
(***************************************************************************)
(* The three ways the program writes a document at a path:                 *)
(*   - runner::write_atomic (cache entries, run artifacts): a temporary    *)
(*     file named by the process and a counter, then a rename;             *)
(*   - gate::write_atomically (baseline.json): a temporary file of one     *)
(*     fixed name, then a rename;                                          *)
(*   - Lockfile::write (agentchecksum.lock): the file itself.              *)
(* They differ in the name a writer opens: Temp[w].  A document is written *)
(* block by block at the writer's own offset, as fs::write does; opening   *)
(* truncates, and an open file keeps its inode when its name is moved.     *)
(***************************************************************************)
EXTENDS Naturals, Sequences

CONSTANTS
    Writer,   \* the processes that write the file
    Doc,      \* Doc[w]: the document w writes
    Blocks,   \* Blocks[d]: how many blocks document d has
    Name,     \* the names in the directory
    Target,   \* the path being written
    Temp,     \* Temp[w]: the name w opens
    Tidy,     \* whether a writer removes its temporary when the rename fails
    Inode,    \* the files of the file system
    Overlap,  \* whether a write may begin while another is under way
    Missing,  \* a name without a file
    Hole      \* a block nobody wrote

Docs == {Doc[w] : w \in Writer}

ASSUME PublishAssumption ==
    /\ Target \in Name
    /\ Temp \in [Writer -> Name]
    /\ Blocks \in [Docs -> Nat \ {0}]
    /\ Tidy \in BOOLEAN
    /\ Overlap \in BOOLEAN
    /\ Missing \notin Inode \union Docs

VARIABLES
    dir,      \* dir[n]: the inode name n stands for, or Missing
    content,  \* content[f]: the blocks of file f
    pc,       \* pc[w]: how far writer w is
    file,     \* file[w]: the inode w has open
    offset    \* offset[w]: the blocks w has written

vars == <<dir, content, pc, file, offset>>

Block(d, n) == <<d, n>>
Whole(d) == [n \in 1..Blocks[d] |-> Block(d, n)]

\* Blocks of an open or named file may not be given to a new one.
Free(f) ==
    /\ \A n \in Name : dir[n] # f
    /\ \A w \in Writer : pc[w] = "writing" => file[w] # f

\* There is no file yet, or one that was written whole.
Init ==
    /\ pc = [w \in Writer |-> "idle"]
    /\ file = [w \in Writer |-> Missing]
    /\ offset = [w \in Writer |-> 0]
    /\ \/ /\ dir = [n \in Name |-> Missing]
          /\ content = [f \in Inode |-> <<>>]
       \/ \E f \in Inode, d \in Docs :
            /\ dir = [n \in Name |-> IF n = Target THEN f ELSE Missing]
            /\ content = [g \in Inode |-> IF g = f THEN Whole(d) ELSE <<>>]

Busy(w) == pc[w] \in {"writing", "closed"}

\* Fault: the file that is there is not truncated.
OpenKeeping(w) ==
    /\ pc[w] = "idle"
    /\ Overlap \/ \A v \in Writer : ~Busy(v)
    /\ \E f \in Inode :
        /\ IF dir[Temp[w]] = Missing THEN Free(f) ELSE f = dir[Temp[w]]
        /\ dir' = [dir EXCEPT ![Temp[w]] = f]
        /\ file' = [file EXCEPT ![w] = f]
    /\ pc' = [pc EXCEPT ![w] = "writing"]
    /\ UNCHANGED <<content, offset>>

\* Open for writing: create the file, or truncate the one that is there.
Open(w) ==
    /\ pc[w] = "idle"
    /\ Overlap \/ \A v \in Writer : ~Busy(v)
    /\ \E f \in Inode :
        /\ IF dir[Temp[w]] = Missing THEN Free(f) ELSE f = dir[Temp[w]]
        /\ dir' = [dir EXCEPT ![Temp[w]] = f]
        /\ content' = [content EXCEPT ![f] = <<>>]
        /\ file' = [file EXCEPT ![w] = f]
    /\ pc' = [pc EXCEPT ![w] = "writing"]
    /\ UNCHANGED offset

\* The file with block b at offset n, after what is there or a hole.
Put(blocks, n, b) ==
    [k \in 1..(IF n > Len(blocks) THEN n ELSE Len(blocks)) |->
        IF k = n THEN b ELSE IF k <= Len(blocks) THEN blocks[k] ELSE Hole]

WriteBlock(w) ==
    /\ pc[w] = "writing"
    /\ offset[w] < Blocks[Doc[w]]
    /\ content' = [content EXCEPT ![file[w]] =
                       Put(@, offset[w] + 1, Block(Doc[w], offset[w] + 1))]
    /\ offset' = [offset EXCEPT ![w] = @ + 1]
    /\ UNCHANGED <<dir, pc, file>>

\* Fault: the rename does not wait for the write.
CloseEarly(w) ==
    /\ pc[w] = "writing"
    /\ pc' = [pc EXCEPT ![w] = IF Temp[w] = Target THEN "written" ELSE "closed"]
    /\ UNCHANGED <<dir, content, file, offset>>

\* Everything is written; a writer in place is done, the others rename.
Close(w) ==
    /\ pc[w] = "writing"
    /\ offset[w] = Blocks[Doc[w]]
    /\ pc' = [pc EXCEPT ![w] = IF Temp[w] = Target THEN "written" ELSE "closed"]
    /\ UNCHANGED <<dir, content, file, offset>>

\* The rename publishes whatever the temporary name stands for by now, and fails
\* when another writer has moved it away.
Rename(w) ==
    /\ pc[w] = "closed"
    /\ IF dir[Temp[w]] # Missing
       THEN /\ dir' = [dir EXCEPT ![Target] = dir[Temp[w]], ![Temp[w]] = Missing]
            /\ pc' = [pc EXCEPT ![w] = "written"]
       ELSE /\ pc' = [pc EXCEPT ![w] = "failed"]
            /\ UNCHANGED dir
    /\ UNCHANGED <<content, file, offset>>

\* Fault: a failed rename removes the target instead of the temporary.
StopRemovesTarget(w) ==
    /\ Busy(w)
    /\ pc' = [pc EXCEPT ![w] = "failed"]
    /\ \/ UNCHANGED dir
       \/ pc[w] = "closed" /\ dir' = [dir EXCEPT ![Target] = Missing]
    /\ UNCHANGED <<content, file, offset>>

\* The process dies, or a system call fails, at any point before the end.
Stop(w) ==
    /\ Busy(w)
    /\ pc' = [pc EXCEPT ![w] = "failed"]
    /\ \/ UNCHANGED dir
       \/ /\ Tidy
          /\ pc[w] = "closed"
          /\ dir' = [dir EXCEPT ![Temp[w]] = Missing]
    /\ UNCHANGED <<content, file, offset>>

Next == \E w \in Writer : Open(w) \/ WriteBlock(w) \/ Close(w) \/ Rename(w) \/ Stop(w)

Spec == Init /\ [][Next]_vars

------------------------------------------------------------------------------

Contents == Seq((Docs \X Nat) \union {Hole})

\* Names stand for files, writers stand somewhere in their write, and a writer
\* that writes has a file to write to.
TypeOK ==
    /\ dir \in [Name -> Inode \union {Missing}]
    /\ content \in [Inode -> Contents]
    /\ pc \in [Writer -> {"idle", "writing", "closed", "written", "failed"}]
    /\ file \in [Writer -> Inode \union {Missing}]
    /\ offset \in [Writer -> Nat]
    /\ \A w \in Writer : pc[w] = "writing" => file[w] \in Inode

\* A reader of the target never finds part of a document, or two documents
\* mixed, even after a writer died half way.
NeverHalfWritten ==
    dir[Target] # Missing => \E d \in Docs : content[dir[Target]] = Whole(d)

\* What a reader of the target makes of it.
Value ==
    IF dir[Target] = Missing THEN Missing
    ELSE IF \E d \in Docs : content[dir[Target]] = Whole(d)
         THEN CHOOSE d \in Docs : content[dir[Target]] = Whole(d)
         ELSE Hole

------------------------------------------------------------------------------
(* The inductive invariant behind NeverHalfWritten and Implements.           *)

\* What makes a write through a temporary safe: its name is not the target, and
\* two writers under way never open the same one.
Apart ==
    /\ \A w \in Writer : Temp[w] # Target
    /\ ~Overlap \/ \A v, w \in Writer : v # w => Temp[v] # Temp[w]

Begun(d, n) == [k \in 1..n |-> Block(d, k)]

\* No two names stand for one file, the file a writer has open is the one its name
\* stands for and holds exactly what it has written, and a closed one is whole.
WriterInv ==
    /\ \A m, n \in Name : m # n /\ dir[m] # Missing => dir[m] # dir[n]
    /\ \A v, w \in Writer : v # w /\ Busy(v) /\ Busy(w) => Temp[v] # Temp[w]
    /\ \A w \in Writer :
        /\ pc[w] = "idle" => offset[w] = 0
        /\ pc[w] = "writing" =>
            /\ dir[Temp[w]] = file[w]
            /\ file[w] # Missing
            /\ offset[w] <= Blocks[Doc[w]]
            /\ content[file[w]] = Begun(Doc[w], offset[w])
        /\ pc[w] = "closed" =>
            /\ dir[Temp[w]] # Missing
            /\ content[dir[Temp[w]]] = Whole(Doc[w])

WholeInv == TypeOK /\ WriterInv /\ NeverHalfWritten

\* Writing in place, one writer at a time, as Lockfile::write does.
InPlace ==
    /\ \A w \in Writer : Temp[w] = Target
    /\ ~Overlap

\* A reader of a file written in place finds the beginning of one document: what a
\* dead writer leaves is truncated, never a mixture that parses as another agent.
TornIsTruncated ==
    dir[Target] # Missing =>
        \E d \in Docs : \E n \in 0..Blocks[d] : content[dir[Target]] = Begun(d, n)

InPlaceInv ==
    /\ TypeOK
    /\ TornIsTruncated
    /\ \A v, w \in Writer : Busy(v) /\ Busy(w) => v = w
    /\ \A w \in Writer :
        /\ pc[w] # "closed"
        /\ pc[w] = "idle" => offset[w] = 0
        /\ pc[w] = "writing" =>
            /\ dir[Target] = file[w]
            /\ content[file[w]] = Begun(Doc[w], offset[w])

------------------------------------------------------------------------------

\* How the write of each writer ended.
Outcome == [w \in Writer |-> IF pc[w] = "written" THEN "written"
                             ELSE IF pc[w] = "failed" THEN "lost" ELSE "writing"]

Atomic == INSTANCE Register WITH value <- Value, status <- Outcome

\* The write is an atomic one.
Implements == Atomic!Spec
==============================================================================

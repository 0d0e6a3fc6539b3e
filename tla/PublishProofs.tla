--------------------------- MODULE PublishProofs ---------------------------
(***************************************************************************)
(* Writing through a temporary is atomic, for any number of writers and    *)
(* documents of any length, if the temporaries are kept apart: by their    *)
(* names, as runner::write_atomic does, or by writing one at a time, on    *)
(* which gate::write_atomically relies.                                    *)
(***************************************************************************)
EXTENDS Publish, TLAPS

USE PublishAssumption DEF Docs

\* The names and documents of a writer.
LEMMA Names ==
    /\ \A w \in Writer : Temp[w] \in Name /\ Doc[w] \in Docs /\ Blocks[Doc[w]] \in Nat \ {0}
    /\ Target \in Name
    /\ \A f \in Inode : f # Missing
    /\ \A d \in Docs : d # Missing
  OBVIOUS

\* A beginning has the length it should have.
LEMMA BegunLen ==
    ASSUME NEW d \in Docs, NEW n \in Nat
    PROVE  /\ Begun(d, n) \in Contents
           /\ Len(Begun(d, n)) = n
  BY DEF Begun, Block, Contents

LEMMA EmptyFile == <<>> \in Contents
  BY DEF Contents

\* Writing the next block of a beginning gives the next beginning.
LEMMA BegunNext ==
    ASSUME NEW d \in Docs, NEW n \in Nat
    PROVE  Put(Begun(d, n), n + 1, Block(d, n + 1)) = Begun(d, n + 1)
<1> DEFINE b == Begun(d, n)
<1>1. Len(b) = n
  BY BegunLen
<1>2. Put(b, n + 1, Block(d, n + 1)) =
        [k \in 1..(n + 1) |-> IF k = n + 1 THEN Block(d, n + 1) ELSE IF k <= n THEN b[k] ELSE Hole]
  <2>1. n + 1 > Len(b)
    BY <1>1
  <2> HIDE DEF b
  <2> QED  BY <1>1, <2>1 DEF Put
<1>3. \A k \in 1..n : b[k] = Block(d, k)
  BY DEF Begun
<1>4. ASSUME NEW k \in 1..(n + 1)
      PROVE  (IF k = n + 1 THEN Block(d, n + 1) ELSE IF k <= n THEN b[k] ELSE Hole) = Block(d, k)
  <2>1. CASE k = n + 1
    BY <2>1
  <2>2. CASE k # n + 1
    <3>1. k \in 1..n
      BY <2>2
    <3> QED  BY <1>3, <2>2, <3>1
  <2> QED  BY <2>1, <2>2
<1> HIDE DEF b
<1>5. Put(b, n + 1, Block(d, n + 1)) = [k \in 1..(n + 1) |-> Block(d, k)]
  BY <1>2, <1>4
<1> QED  BY <1>5 DEF Begun, b

\* Nothing is half written to begin with.
LEMMA InitWhole == Init => WholeInv
<1> SUFFICES ASSUME Init PROVE WholeInv
  OBVIOUS
<1>1. \A d \in Docs : Whole(d) \in Contents
  <2> SUFFICES ASSUME NEW d \in Docs PROVE Whole(d) \in Contents
    OBVIOUS
  <2>1. Whole(d) = Begun(d, Blocks[d])
    BY DEF Whole, Begun
  <2> QED  BY <2>1, BegunLen
<1>2. /\ pc = [w \in Writer |-> "idle"]
      /\ file = [w \in Writer |-> Missing]
      /\ offset = [w \in Writer |-> 0]
  BY DEF Init
<1>3. CASE /\ dir = [n \in Name |-> Missing]
           /\ content = [f \in Inode |-> <<>>]
  <2>1. TypeOK
    BY <1>2, <1>3, EmptyFile DEF TypeOK
  <2>2. WriterInv /\ NeverHalfWritten
    BY <1>2, <1>3, Names DEF WriterInv, Busy, NeverHalfWritten
  <2> QED  BY <2>1, <2>2 DEF WholeInv
<1>4. ASSUME NEW f \in Inode, NEW d \in Docs,
             dir = [n \in Name |-> IF n = Target THEN f ELSE Missing],
             content = [g \in Inode |-> IF g = f THEN Whole(d) ELSE <<>>]
      PROVE  WholeInv
  <2>1. content \in [Inode -> Contents]
    BY <1>1, <1>4, EmptyFile
  <2>2. TypeOK
    BY <1>2, <1>4, <2>1 DEF TypeOK
  <2>3. WriterInv /\ NeverHalfWritten
    BY <1>2, <1>4, Names DEF WriterInv, Busy, NeverHalfWritten
  <2> QED  BY <2>2, <2>3 DEF WholeInv
<1> QED  BY <1>3, <1>4 DEF Init

\* The step leaves the target the file it is.
TargetKept ==
    /\ dir'[Target] = dir[Target]
    /\ dir[Target] # Missing => content'[dir[Target]] = content[dir[Target]]

\* Opening gives the writer an empty file that no other name stands for.
LEMMA OpenWhole ==
    ASSUME Apart, WholeInv, NEW w \in Writer, Open(w)
    PROVE  WholeInv' /\ TargetKept
<1> USE DEF Busy
<1>1. PICK f \in Inode :
        /\ IF dir[Temp[w]] = Missing THEN Free(f) ELSE f = dir[Temp[w]]
        /\ dir' = [dir EXCEPT ![Temp[w]] = f]
        /\ content' = [content EXCEPT ![f] = <<>>]
        /\ file' = [file EXCEPT ![w] = f]
  BY DEF Open
<1>2. /\ pc[w] = "idle"
      /\ pc' = [pc EXCEPT ![w] = "writing"]
      /\ offset' = offset
      /\ Overlap \/ \A v \in Writer : ~Busy(v)
  BY DEF Open
<1>3. TypeOK /\ WriterInv /\ NeverHalfWritten
  BY DEF WholeInv
<1>4. /\ dir[Target] # f
      /\ \A n \in Name : n # Temp[w] => dir[n] # f
  <2>1. Temp[w] # Target
    BY DEF Apart
  <2>2. CASE dir[Temp[w]] = Missing
    BY <1>1, <2>1, <2>2, Names DEF Free
  <2>3. CASE dir[Temp[w]] # Missing
    BY <1>1, <1>3, <2>1, <2>3, Names DEF WriterInv
  <2> QED  BY <2>2, <2>3
<1>5. \A v \in Writer : v # w /\ Busy(v) => Temp[v] # Temp[w]
  BY <1>2 DEF Apart
<1>6. TypeOK'
  <2>1. content' \in [Inode -> Contents]
    BY <1>1, <1>3, EmptyFile DEF TypeOK
  <2> QED  BY <1>1, <1>2, <1>3, <2>1, Names DEF TypeOK
<1>7. NeverHalfWritten' /\ TargetKept
  <2>1. Temp[w] # Target
    BY DEF Apart
  <2>2. dir'[Target] = dir[Target]
    BY <1>1, <1>3, <2>1, Names DEF TypeOK
  <2>3. dir[Target] # Missing => content'[dir[Target]] = content[dir[Target]]
    BY <1>1, <1>3, <1>4, Names DEF TypeOK
  <2> QED  BY <1>3, <2>2, <2>3 DEF NeverHalfWritten, TargetKept
<1>8. WriterInv'
  <2>1. \A m, n \in Name : m # n /\ dir'[m] # Missing => dir'[m] # dir'[n]
    BY <1>1, <1>3, <1>4, Names DEF WriterInv, TypeOK
  <2>2. \A v, u \in Writer : v # u /\ Busy(v)' /\ Busy(u)' => Temp[v] # Temp[u]
    BY <1>2, <1>3, <1>5 DEF WriterInv, TypeOK
  <2>3. ASSUME NEW v \in Writer, v = w
        PROVE  /\ pc'[v] = "writing"
               /\ dir'[Temp[v]] = file'[v]
               /\ file'[v] # Missing
               /\ offset'[v] <= Blocks[Doc[v]]
               /\ content'[file'[v]] = Begun(Doc[v], offset'[v])
    <3>1. offset[w] = 0
      BY <1>2, <1>3 DEF WriterInv
    <3>2. content'[f] = <<>>
      BY <1>1, <1>3 DEF TypeOK
    <3>3. Begun(Doc[w], 0) = <<>>
      BY DEF Begun
    <3> QED  BY <1>1, <1>2, <1>3, <2>3, <3>1, <3>2, <3>3, Names DEF TypeOK
  <2>4. ASSUME NEW v \in Writer, v # w
        PROVE  /\ pc'[v] = pc[v] /\ offset'[v] = offset[v] /\ file'[v] = file[v]
               /\ Busy(v) => /\ dir'[Temp[v]] = dir[Temp[v]]
                             /\ dir[Temp[v]] # Missing => content'[dir[Temp[v]]] = content[dir[Temp[v]]]
    BY <1>1, <1>2, <1>3, <1>4, <1>5, <2>4, Names DEF TypeOK
  <2>5. ASSUME NEW v \in Writer
        PROVE  /\ pc'[v] = "idle" => offset'[v] = 0
               /\ pc'[v] = "writing" =>
                    /\ dir'[Temp[v]] = file'[v]
                    /\ file'[v] # Missing
                    /\ offset'[v] <= Blocks[Doc[v]]
                    /\ content'[file'[v]] = Begun(Doc[v], offset'[v])
               /\ pc'[v] = "closed" =>
                    /\ dir'[Temp[v]] # Missing
                    /\ content'[dir'[Temp[v]]] = Whole(Doc[v])
    <3>1. CASE v = w
      BY <2>3, <3>1
    <3>2. CASE v # w
      BY <1>3, <2>4, <3>2 DEF WriterInv
    <3> QED  BY <3>1, <3>2
  <2> QED  BY <2>1, <2>2, <2>5 DEF WriterInv
<1> QED  BY <1>6, <1>7, <1>8 DEF WholeInv

\* Writing a block disturbs no other file, and not the one the target names.
LEMMA WriteWhole ==
    ASSUME Apart, WholeInv, NEW w \in Writer, WriteBlock(w)
    PROVE  WholeInv' /\ TargetKept
<1> USE DEF Busy
<1> DEFINE f == file[w]
           n == offset[w]
           d == Doc[w]
<1>1. TypeOK /\ WriterInv /\ NeverHalfWritten
  BY DEF WholeInv
<1>2. /\ pc[w] = "writing" /\ n < Blocks[d]
      /\ content' = [content EXCEPT ![f] = Put(@, n + 1, Block(d, n + 1))]
      /\ offset' = [offset EXCEPT ![w] = n + 1]
      /\ dir' = dir /\ pc' = pc /\ file' = file
  BY DEF WriteBlock
<1>3. /\ f \in Inode /\ f # Missing /\ dir[Temp[w]] = f
      /\ n \in Nat /\ d \in Docs /\ Blocks[d] \in Nat
      /\ content[f] = Begun(d, n)
  BY <1>1, <1>2, Names DEF TypeOK, WriterInv
<1>4. content'[f] = Begun(d, n + 1)
  <2>1. content'[f] = Put(Begun(d, n), n + 1, Block(d, n + 1))
    BY <1>1, <1>2, <1>3 DEF TypeOK
  <2> QED  BY <2>1, <1>3, BegunNext
<1>5. \A g \in Inode : g # f => content'[g] = content[g]
  BY <1>1, <1>2 DEF TypeOK
<1>6. \A m \in Name : m # Temp[w] /\ dir[m] # Missing => dir[m] # f /\ dir[m] \in Inode
  BY <1>1, <1>3, Names DEF WriterInv, TypeOK
<1>7. TypeOK'
  <2>1. content'[f] \in Contents
    <3>1. n + 1 \in Nat
      BY <1>3
    <3> QED  BY <1>3, <1>4, <3>1, BegunLen
  <2>2. content' \in [Inode -> Contents]
    <3> DEFINE b == Put(content[f], n + 1, Block(d, n + 1))
    <3>1. content' = [content EXCEPT ![f] = b]
      BY <1>2
    <3>2. content'[f] = b
      BY <1>1, <1>3, <3>1 DEF TypeOK
    <3>3. b \in Contents
      BY <2>1, <3>2
    <3> HIDE DEF b
    <3> QED  BY <1>1, <3>1, <3>3 DEF TypeOK
  <2>3. offset' \in [Writer -> Nat]
    BY <1>1, <1>2, <1>3 DEF TypeOK
  <2> QED  BY <1>1, <1>2, <2>2, <2>3 DEF TypeOK
<1>8. NeverHalfWritten' /\ TargetKept
  <2>1. Target # Temp[w]
    BY DEF Apart
  <2>2. dir[Target] # Missing => content'[dir[Target]] = content[dir[Target]]
    BY <1>5, <1>6, <2>1, Names
  <2> QED  BY <1>1, <1>2, <2>2 DEF NeverHalfWritten, TargetKept
<1>9. ASSUME NEW v \in Writer, v # w
      PROVE  /\ offset'[v] = offset[v]
             /\ Busy(v) /\ dir[Temp[v]] # Missing => content'[dir[Temp[v]]] = content[dir[Temp[v]]]
  <2>1. offset'[v] = offset[v]
    BY <1>1, <1>2, <1>9 DEF TypeOK
  <2>2. Busy(v) => Temp[v] # Temp[w]
    BY <1>1, <1>2, <1>9 DEF WriterInv
  <2> QED  BY <1>5, <1>6, <2>1, <2>2, Names
<1>10. ASSUME NEW v \in Writer
       PROVE  /\ pc'[v] = "idle" => offset'[v] = 0
              /\ pc'[v] = "writing" =>
                   /\ dir'[Temp[v]] = file'[v]
                   /\ file'[v] # Missing
                   /\ offset'[v] <= Blocks[Doc[v]]
                   /\ content'[file'[v]] = Begun(Doc[v], offset'[v])
              /\ pc'[v] = "closed" =>
                   /\ dir'[Temp[v]] # Missing
                   /\ content'[dir'[Temp[v]]] = Whole(Doc[v])
  <2>1. CASE v = w
    <3>1. offset'[w] = n + 1 /\ n + 1 <= Blocks[d]
      BY <1>1, <1>2, <1>3 DEF TypeOK
    <3> QED  BY <1>2, <1>3, <1>4, <2>1, <3>1
  <2>2. CASE v # w
    BY <1>1, <1>2, <1>9, <2>2 DEF WriterInv
  <2> QED  BY <2>1, <2>2
<1>11. WriterInv'
  BY <1>1, <1>2, <1>10 DEF WriterInv
<1> QED  BY <1>7, <1>8, <1>11 DEF WholeInv

\* A writer that has written all of its document closes a whole file.
LEMMA CloseWhole ==
    ASSUME Apart, WholeInv, NEW w \in Writer, Close(w)
    PROVE  WholeInv' /\ TargetKept
<1> USE DEF Busy
<1>1. TypeOK /\ WriterInv /\ NeverHalfWritten
  BY DEF WholeInv
<1>2. /\ pc[w] = "writing" /\ offset[w] = Blocks[Doc[w]]
      /\ pc' = [pc EXCEPT ![w] = "closed"]
      /\ dir' = dir /\ content' = content /\ file' = file /\ offset' = offset
  BY DEF Close, Apart
<1>3. content[dir[Temp[w]]] = Whole(Doc[w]) /\ dir[Temp[w]] # Missing
  BY <1>1, <1>2 DEF WriterInv, Whole, Begun
<1>4. TypeOK'
  BY <1>1, <1>2 DEF TypeOK
<1>5. NeverHalfWritten' /\ TargetKept
  BY <1>1, <1>2 DEF NeverHalfWritten, TargetKept
<1>6. \A v \in Writer : pc'[v] = IF v = w THEN "closed" ELSE pc[v]
  BY <1>1, <1>2 DEF TypeOK
<1>7. WriterInv'
  BY <1>1, <1>2, <1>3, <1>6 DEF WriterInv
<1> QED  BY <1>4, <1>5, <1>7 DEF WholeInv

\* The rename gives the target a whole file.
LEMMA RenameWhole ==
    ASSUME Apart, WholeInv, NEW w \in Writer, Rename(w)
    PROVE  /\ WholeInv'
           /\ dir' = [dir EXCEPT ![Target] = dir[Temp[w]], ![Temp[w]] = Missing]
           /\ content[dir[Temp[w]]] = Whole(Doc[w])
           /\ pc' = [pc EXCEPT ![w] = "written"]
<1> USE DEF Busy
<1>1. TypeOK /\ WriterInv /\ NeverHalfWritten
  BY DEF WholeInv
<1>2. /\ pc[w] = "closed"
      /\ dir[Temp[w]] # Missing
      /\ content[dir[Temp[w]]] = Whole(Doc[w])
  BY <1>1 DEF Rename, WriterInv
<1>3. /\ dir' = [dir EXCEPT ![Target] = dir[Temp[w]], ![Temp[w]] = Missing]
      /\ pc' = [pc EXCEPT ![w] = "written"]
      /\ content' = content /\ file' = file /\ offset' = offset
  BY <1>2 DEF Rename
<1>4. \A n \in Name : dir'[n] = IF n = Temp[w] THEN Missing
                                ELSE IF n = Target THEN dir[Temp[w]] ELSE dir[n]
  BY <1>1, <1>3, Names DEF TypeOK, Apart
<1>5. \A v \in Writer : pc'[v] = IF v = w THEN "written" ELSE pc[v]
  BY <1>1, <1>3 DEF TypeOK
<1>6. TypeOK'
  BY <1>1, <1>3, Names DEF TypeOK
<1>7. NeverHalfWritten'
  BY <1>2, <1>3, <1>4, Names DEF NeverHalfWritten, Apart
<1>8. WriterInv'
  <2>1. \A m, n \in Name : m # n /\ dir'[m] # Missing => dir'[m] # dir'[n]
    BY <1>1, <1>2, <1>4, Names DEF WriterInv
  <2>2. \A v, u \in Writer : v # u /\ Busy(v)' /\ Busy(u)' => Temp[v] # Temp[u]
    BY <1>1, <1>5 DEF WriterInv
  <2>3. \A v \in Writer : v # w /\ Busy(v) => dir'[Temp[v]] = dir[Temp[v]]
    BY <1>1, <1>2, <1>4, Names DEF WriterInv, Apart
  <2>4. ASSUME NEW v \in Writer
        PROVE  /\ pc'[v] = "idle" => offset[v] = 0
               /\ pc'[v] = "writing" =>
                    /\ dir'[Temp[v]] = file[v]
                    /\ file[v] # Missing
                    /\ offset[v] <= Blocks[Doc[v]]
                    /\ content[file[v]] = Begun(Doc[v], offset[v])
               /\ pc'[v] = "closed" =>
                    /\ dir'[Temp[v]] # Missing
                    /\ content[dir'[Temp[v]]] = Whole(Doc[v])
    <3>1. CASE v = w
      BY <1>5, <3>1
    <3>2. CASE v # w
      BY <1>1, <1>5, <2>3, <3>2 DEF WriterInv
    <3> QED  BY <3>1, <3>2
  <2> QED  BY <1>3, <2>1, <2>2, <2>4 DEF WriterInv
<1> QED  BY <1>2, <1>3, <1>6, <1>7, <1>8 DEF WholeInv

\* A writer that stops leaves the others and the target alone.
LEMMA StopWhole ==
    ASSUME Apart, WholeInv, NEW w \in Writer, Stop(w)
    PROVE  WholeInv' /\ TargetKept
<1> USE DEF Busy
<1>1. TypeOK /\ WriterInv /\ NeverHalfWritten
  BY DEF WholeInv
<1>2. /\ Busy(w)
      /\ pc' = [pc EXCEPT ![w] = "failed"]
      /\ content' = content /\ file' = file /\ offset' = offset
      /\ dir' = dir \/ dir' = [dir EXCEPT ![Temp[w]] = Missing]
  BY DEF Stop
<1>3. \A n \in Name : \/ dir'[n] = dir[n]
                      \/ n = Temp[w] /\ dir'[n] = Missing
  BY <1>1, <1>2, Names DEF TypeOK
<1>4. \A v \in Writer : pc'[v] = IF v = w THEN "failed" ELSE pc[v]
  BY <1>1, <1>2 DEF TypeOK
<1>5. TypeOK'
  BY <1>1, <1>2, Names DEF TypeOK
<1>6. NeverHalfWritten' /\ TargetKept
  BY <1>1, <1>2, <1>3, Names DEF NeverHalfWritten, Apart, TargetKept
<1>7. WriterInv'
  <2>1. \A m, n \in Name : m # n /\ dir'[m] # Missing => dir'[m] # dir'[n]
    BY <1>1, <1>3 DEF WriterInv
  <2>2. \A v, u \in Writer : v # u /\ Busy(v)' /\ Busy(u)' => Temp[v] # Temp[u]
    BY <1>1, <1>4 DEF WriterInv
  <2>3. \A v \in Writer : v # w /\ Busy(v) => dir'[Temp[v]] = dir[Temp[v]]
    BY <1>1, <1>2, <1>3, Names DEF WriterInv
  <2> QED  BY <1>1, <1>2, <1>4, <2>1, <2>2, <2>3 DEF WriterInv
<1> QED  BY <1>5, <1>6, <1>7 DEF WholeInv

------------------------------------------------------------------------------

LEMMA NextWhole == Apart /\ WholeInv /\ [Next]_vars => WholeInv'
<1> SUFFICES ASSUME Apart, WholeInv, [Next]_vars PROVE WholeInv'
  OBVIOUS
<1>1. ASSUME NEW w \in Writer, Open(w) PROVE WholeInv'
  BY <1>1, OpenWhole
<1>2. ASSUME NEW w \in Writer, WriteBlock(w) PROVE WholeInv'
  BY <1>2, WriteWhole
<1>3. ASSUME NEW w \in Writer, Close(w) PROVE WholeInv'
  BY <1>3, CloseWhole
<1>4. ASSUME NEW w \in Writer, Rename(w) PROVE WholeInv'
  BY <1>4, RenameWhole
<1>5. ASSUME NEW w \in Writer, Stop(w) PROVE WholeInv'
  BY <1>5, StopWhole
<1>6. CASE UNCHANGED vars
  BY <1>6 DEF WholeInv, TypeOK, WriterInv, NeverHalfWritten, Busy, vars
<1> QED  BY <1>1, <1>2, <1>3, <1>4, <1>5, <1>6 DEF Next

\* The invariant of the writers holds in every reachable state (write_atomic,
\* write_atomically) when temporaries are kept apart.
THEOREM WritersStayWhole == ASSUME Apart PROVE Spec => []WholeInv
<1>1. Init => WholeInv
  BY InitWhole
<1>2. WholeInv /\ [Next]_vars => WholeInv'
  BY NextWhole
<1> QED  BY <1>1, <1>2, PTL DEF Spec

\* A reader of the target never finds part of a document, or two documents mixed:
\* the promise in the comments of write_atomic and BehaviorBaseline::write.
THEOREM PublishedIsWhole == ASSUME Apart PROVE Spec => []NeverHalfWritten
<1>1. WholeInv => NeverHalfWritten
  BY DEF WholeInv
<1> QED  BY <1>1, WritersStayWhole, PTL

------------------------------------------------------------------------------
(* Writing through a temporary is an atomic write.                           *)

\* No two documents look alike on disk.
LEMMA WholeIsInjective ==
    ASSUME NEW d \in Docs, NEW e \in Docs, Whole(d) = Whole(e)
    PROVE  d = e
<1>1. 1 \in 1..Blocks[d] /\ 1 \in 1..Blocks[e]
  OBVIOUS
<1>2. Whole(d)[1] = <<d, 1>> /\ Whole(e)[1] = <<e, 1>>
  BY <1>1 DEF Whole, Block
<1> QED  BY <1>2

LEMMA ValueOfWhole ==
    ASSUME NEW d \in Docs, dir[Target] # Missing, content[dir[Target]] = Whole(d)
    PROVE  Value = d
<1>1. \E e \in Docs : content[dir[Target]] = Whole(e)
  OBVIOUS
<1>2. Value = CHOOSE e \in Docs : content[dir[Target]] = Whole(e)
  BY <1>1 DEF Value
<1>3. Value \in Docs /\ content[dir[Target]] = Whole(Value)
  BY <1>1, <1>2
<1> QED  BY <1>3, WholeIsInjective

\* Whoever neither moves nor rewrites the target leaves its value alone.
LEMMA ValueKept ==
    ASSUME TargetKept
    PROVE  Value' = Value
  BY DEF Value, TargetKept

LEMMA InitRefines == Init => Atomic!Init
<1> SUFFICES ASSUME Init PROVE Atomic!Init
  OBVIOUS
<1>1. Value \in {Missing} \union Docs
  <2>1. CASE dir[Target] = Missing
    BY <2>1 DEF Value
  <2>2. CASE dir[Target] # Missing
    <3>1. PICK d \in Docs : content[dir[Target]] = Whole(d)
      BY <2>2, InitWhole DEF WholeInv, NeverHalfWritten
    <3> QED  BY <2>2, <3>1, ValueOfWhole
  <2> QED  BY <2>1, <2>2
<1>2. Outcome = [w \in Writer |-> "writing"]
  BY DEF Init, Outcome
<1> QED  BY <1>1, <1>2 DEF Atomic!Init, Outcome

\* A step of the writers is a step of the register, or none at all.
LEMMA NextRefines == Apart /\ WholeInv /\ [Next]_vars => [Atomic!Next]_(Atomic!vars)
<1> SUFFICES ASSUME Apart, WholeInv, [Next]_vars
             PROVE  [Atomic!Next]_(Atomic!vars)
  OBVIOUS
<1> USE DEF Atomic!vars
<1>0. pc \in [Writer -> {"idle", "writing", "closed", "written", "failed"}]
  BY DEF WholeInv, TypeOK
<1>1. ASSUME NEW w \in Writer, Open(w) PROVE UNCHANGED <<Value, Outcome>>
  <2>1. Outcome' = Outcome
    BY <1>0, <1>1 DEF Open, Outcome
  <2> QED  BY <1>1, <2>1, OpenWhole, ValueKept
<1>2. ASSUME NEW w \in Writer, WriteBlock(w) PROVE UNCHANGED <<Value, Outcome>>
  <2>1. Outcome' = Outcome
    BY <1>0, <1>2 DEF WriteBlock, Outcome
  <2> QED  BY <1>2, <2>1, WriteWhole, ValueKept
<1>3. ASSUME NEW w \in Writer, Close(w) PROVE UNCHANGED <<Value, Outcome>>
  <2>1. Outcome' = Outcome
    BY <1>0, <1>3 DEF Close, Apart, Outcome
  <2> QED  BY <1>3, <2>1, CloseWhole, ValueKept
<1>4. ASSUME NEW w \in Writer, Rename(w) PROVE Atomic!Commit(w)
  <2>1. /\ dir' = [dir EXCEPT ![Target] = dir[Temp[w]], ![Temp[w]] = Missing]
        /\ content[dir[Temp[w]]] = Whole(Doc[w])
        /\ pc' = [pc EXCEPT ![w] = "written"]
        /\ pc[w] = "closed" /\ content' = content
        /\ dir[Temp[w]] # Missing
    BY <1>4, RenameWhole DEF Rename, WholeInv, WriterInv
  <2>2. dir'[Target] = dir[Temp[w]]
    BY <2>1, Names DEF Apart, WholeInv, TypeOK
  <2>3. \E d \in Docs : content'[dir'[Target]] = Whole(d) /\ d = Doc[w]
    BY <2>1, <2>2, Names
  <2>4. Value' = Doc[w]
    <3>1. Value' = CHOOSE d \in Docs : content'[dir'[Target]] = Whole(d)
      BY <2>1, <2>2, <2>3 DEF Value
    <3>2. Value' \in Docs /\ content'[dir'[Target]] = Whole(Value')
      BY <2>3, <3>1
    <3>3. Whole(Value') = Whole(Doc[w])
      BY <2>1, <2>2, <3>2
    <3> HIDE DEF Value
    <3> QED  BY <3>2, <3>3, Names, WholeIsInjective
  <2>5. Outcome[w] = "writing" /\ Outcome' = [Outcome EXCEPT ![w] = "written"]
    BY <1>0, <2>1 DEF Outcome
  <2> QED  BY <2>4, <2>5 DEF Atomic!Commit
<1>5. ASSUME NEW w \in Writer, Stop(w) PROVE Atomic!Lose(w)
  <2>1. Value' = Value
    BY <1>5, StopWhole, ValueKept
  <2>2. Outcome[w] = "writing" /\ Outcome' = [Outcome EXCEPT ![w] = "lost"]
    BY <1>0, <1>5 DEF Stop, Busy, Outcome
  <2> QED  BY <2>1, <2>2 DEF Atomic!Lose
<1>6. CASE UNCHANGED vars
  BY <1>6 DEF vars, Value, Outcome
<1> QED  BY <1>1, <1>2, <1>3, <1>4, <1>5, <1>6 DEF Next, Atomic!Next

\* Writing through temporaries kept apart is an atomic write, for write_atomic
\* whatever the writers do at once, and for write_atomically one at a time.
THEOREM PublishIsAtomic == ASSUME Apart PROVE Spec => Implements
<1>1. Init => Atomic!Init
  BY InitRefines
<1>2. WholeInv /\ [Next]_vars => [Atomic!Next]_(Atomic!vars)
  BY NextRefines
<1> QED  BY <1>1, <1>2, WritersStayWhole, PTL DEF Spec, Implements, Atomic!Spec

------------------------------------------------------------------------------
(* Writing in place.                                                         *)

LEMMA InitInPlace == Init => InPlaceInv
<1> SUFFICES ASSUME Init PROVE InPlaceInv
  OBVIOUS
<1>1. TypeOK
  BY InitWhole DEF WholeInv
<1>2. TornIsTruncated
  <2> SUFFICES ASSUME dir[Target] # Missing
               PROVE  \E d \in Docs : \E n \in 0..Blocks[d] : content[dir[Target]] = Begun(d, n)
    BY DEF TornIsTruncated
  <2>1. PICK d \in Docs : content[dir[Target]] = Whole(d)
    BY InitWhole DEF WholeInv, NeverHalfWritten
  <2>2. Whole(d) = Begun(d, Blocks[d]) /\ Blocks[d] \in 0..Blocks[d]
    BY DEF Whole, Begun
  <2> QED  BY <2>1, <2>2
<1> QED  BY <1>1, <1>2 DEF Init, InPlaceInv, Busy

\* Opening leaves the beginning of a document without a block, and nobody else
\* writes the file.
LEMMA OpenInPlace ==
    ASSUME InPlace, InPlaceInv, NEW w \in Writer, Open(w)
    PROVE  InPlaceInv'
<1> USE DEF Busy
<1>1. PICK f \in Inode :
        /\ dir' = [dir EXCEPT ![Target] = f]
        /\ content' = [content EXCEPT ![f] = <<>>]
        /\ file' = [file EXCEPT ![w] = f]
  BY DEF Open, InPlace
<1>2. /\ pc[w] = "idle" /\ pc' = [pc EXCEPT ![w] = "writing"]
      /\ offset' = offset
      /\ \A v \in Writer : ~Busy(v)
  BY DEF Open, InPlace
<1>3. TypeOK /\ offset[w] = 0
  BY <1>2 DEF InPlaceInv
<1>4. /\ dir'[Target] = f /\ content'[f] = <<>> /\ file'[w] = f
      /\ Begun(Doc[w], 0) = <<>>
  BY <1>1, <1>3, Names DEF TypeOK, Begun
<1>5. TypeOK'
  <2>1. content' \in [Inode -> Contents]
    BY <1>1, <1>3, EmptyFile DEF TypeOK
  <2> QED  BY <1>1, <1>2, <1>3, <2>1, Names DEF TypeOK
<1>6. TornIsTruncated'
  <2>1. Doc[w] \in Docs /\ 0 \in 0..Blocks[Doc[w]]
    BY Names
  <2> QED  BY <1>4, <2>1 DEF TornIsTruncated
<1>7. \A v \in Writer : pc'[v] = IF v = w THEN "writing" ELSE pc[v]
  BY <1>2, <1>3 DEF TypeOK
<1> QED  BY <1>2, <1>3, <1>4, <1>5, <1>6, <1>7 DEF InPlaceInv

\* The next block makes the next beginning of the same document.
LEMMA WriteInPlace ==
    ASSUME InPlace, InPlaceInv, NEW w \in Writer, WriteBlock(w)
    PROVE  InPlaceInv'
<1> USE DEF Busy
<1> DEFINE f == file[w]
           n == offset[w]
           d == Doc[w]
           b == Put(content[f], n + 1, Block(d, n + 1))
<1>1. /\ pc[w] = "writing" /\ n < Blocks[d]
      /\ content' = [content EXCEPT ![f] = b]
      /\ offset' = [offset EXCEPT ![w] = n + 1]
      /\ dir' = dir /\ pc' = pc /\ file' = file
  BY DEF WriteBlock
<1>2. /\ TypeOK
      /\ f \in Inode /\ f # Missing /\ dir[Target] = f
      /\ n \in Nat /\ n + 1 \in 0..Blocks[d] /\ d \in Docs
      /\ content[f] = Begun(d, n)
  BY <1>1, Names DEF InPlaceInv, TypeOK
<1>3. b = Begun(d, n + 1) /\ b \in Contents
  BY <1>2, BegunNext, BegunLen
<1>4. offset' \in [Writer -> Nat] /\ offset'[w] = n + 1
  BY <1>1, <1>2 DEF TypeOK
<1> HIDE DEF b
<1>5. content'[f] = Begun(d, n + 1) /\ content' \in [Inode -> Contents]
  BY <1>1, <1>2, <1>3 DEF TypeOK
<1>6. TypeOK'
  BY <1>1, <1>2, <1>4, <1>5 DEF TypeOK
<1>7. TornIsTruncated'
  BY <1>1, <1>2, <1>5 DEF TornIsTruncated
<1>8. \A v \in Writer : Busy(v) => v = w
  BY <1>1 DEF InPlaceInv
<1>9. \A v \in Writer : pc'[v] = "idle" => v # w /\ offset'[v] = 0
  BY <1>1, <1>2 DEF InPlaceInv, TypeOK
<1>10. \A v \in Writer : pc'[v] = "writing" =>
         /\ dir'[Target] = file'[v]
         /\ content'[file'[v]] = Begun(Doc[v], offset'[v])
  BY <1>1, <1>2, <1>4, <1>5, <1>8
<1> QED  BY <1>1, <1>6, <1>7, <1>9, <1>10 DEF InPlaceInv

LEMMA NextInPlace == InPlace /\ InPlaceInv /\ [Next]_vars => InPlaceInv'
<1> SUFFICES ASSUME InPlace, InPlaceInv, [Next]_vars PROVE InPlaceInv'
  OBVIOUS
<1> USE DEF Busy
<1>0. TypeOK
  BY DEF InPlaceInv
<1>1. ASSUME NEW w \in Writer, Open(w) PROVE InPlaceInv'
  BY <1>1, OpenInPlace
<1>2. ASSUME NEW w \in Writer, WriteBlock(w) PROVE InPlaceInv'
  BY <1>2, WriteInPlace
<1>3. ASSUME NEW w \in Writer, NEW step \in {"written", "failed"},
             pc' = [pc EXCEPT ![w] = step], UNCHANGED <<dir, content, file, offset>>
      PROVE  InPlaceInv'
  <2>1. \A v \in Writer : pc'[v] = IF v = w THEN step ELSE pc[v]
    BY <1>0, <1>3 DEF TypeOK
  <2>2. TypeOK'
    BY <1>0, <1>3, <2>1 DEF TypeOK
  <2>3. TornIsTruncated'
    BY <1>3 DEF InPlaceInv, TornIsTruncated
  <2> QED  BY <1>3, <2>1, <2>2, <2>3 DEF InPlaceInv
<1>4. ASSUME NEW w \in Writer, Close(w) PROVE InPlaceInv'
  BY <1>3, <1>4 DEF Close, InPlace
<1>5. ASSUME NEW w \in Writer, Rename(w) PROVE InPlaceInv'
  BY <1>5 DEF Rename, InPlaceInv
<1>6. ASSUME NEW w \in Writer, Stop(w) PROVE InPlaceInv'
  BY <1>3, <1>6 DEF Stop, InPlaceInv
<1>7. CASE UNCHANGED vars
  BY <1>7 DEF InPlaceInv, TypeOK, TornIsTruncated, vars
<1> QED  BY <1>1, <1>2, <1>4, <1>5, <1>6, <1>7 DEF Next

\* A lockfile that Lockfile::write left unfinished is the beginning of one lockfile,
\* if snapshots run one at a time.
THEOREM LockIsTruncated == ASSUME InPlace PROVE Spec => []TornIsTruncated
<1>1. InPlaceInv => TornIsTruncated
  BY DEF InPlaceInv
<1> QED  BY <1>1, InitInPlace, NextInPlace, PTL DEF Spec
=============================================================================

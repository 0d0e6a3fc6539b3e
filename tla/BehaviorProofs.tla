--------------------------- MODULE BehaviorProofs ---------------------------
(***************************************************************************)
(* What is proved of Behavior, for every project, response and model there *)
(* may be.  The invariant says where things come from: what a run has made *)
(* is made of the project on disk while one of the models it has seen was  *)
(* served, the evidence of an earlier run in the same way, and a verdict   *)
(* is derived from answers or from that evidence.  With it go what the     *)
(* operators tell: the checksum of an agent of what it asks, the address   *)
(* of an artifact of its contents, and the id of a tool of its server and  *)
(* its name.                                                               *)
(*                                                                         *)
(* Lists are sequences of no particular set here: IsSeq.                   *)
(***************************************************************************)
EXTENDS Behavior, FiniteSetTheorems, SequenceTheorems, WellFoundedInduction, TLAPS

------------------------------------------------------------------------------
(* Induction over 0..n, and sequences put one after the other.               *)

LessThan == {p \in Nat \X Nat : p[1] < p[2]}

\* A set of naturals has a least member.
LEMMA LeastOf ==
    ASSUME NEW T \in SUBSET Nat, T # {}
    PROVE  \E x \in T : \A y \in T : x <= y
<1>1. IsWellFoundedOn(LessThan, Nat)
  BY NatLessThanWellFounded DEF LessThan, OpToRel
<1>2. PICK x \in T : \A y \in T : <<y, x>> \notin LessThan
  BY <1>1, WFMin
<1>3. ASSUME NEW y \in T
      PROVE  x <= y
  <2>1. <<y, x>> \in LessThan <=> y < x
    BY DEF LessThan
  <2> QED  BY <1>2, <2>1
<1> QED  BY <1>3

\* Induction: what holds at 0, and at i + 1 when at i, holds up to n.
LEMMA UpTo ==
    ASSUME NEW n \in Nat, NEW Good, 0 \in Good, \A i \in 0..n - 1 : i \in Good => i + 1 \in Good
    PROVE  \A i \in 0..n : i \in Good
<1> DEFINE T == {i \in 0..n : i \notin Good}
<1> SUFFICES ASSUME T # {} PROVE FALSE
  OBVIOUS
<1>1. PICK x \in T : \A y \in T : x <= y
  <2>1. T \in SUBSET Nat
    OBVIOUS
  <2> HIDE DEF T
  <2> QED  BY <2>1, LeastOf
<1>2. x # 0 /\ x - 1 \in 0..n - 1 /\ x - 1 \in 0..n /\ x = (x - 1) + 1
  OBVIOUS
<1>3. x - 1 \in Good
  <2>1. x - 1 \notin T
    BY <1>1, <1>2
  <2> QED  BY <2>1, <1>2
<1> QED  BY <1>2, <1>3

IsSeq(s) == Len(s) \in Nat /\ s = [i \in 1..Len(s) |-> s[i]]

\* A list whose items are in a set is a sequence of that set.
LEMMA SeqOver ==
    ASSUME NEW s, NEW S, IsSeq(s), \A i \in 1..Len(s) : s[i] \in S
    PROVE  s \in Seq(S)
<1>1. s \in [1..Len(s) -> S]
  BY DEF IsSeq
<1>2. Len(s) \in Nat
  BY DEF IsSeq
<1> QED  BY <1>1, <1>2, SeqDef

\* A sequence of any set is a list.
LEMMA SeqIsSeq ==
    ASSUME NEW S, NEW s \in Seq(S)
    PROVE  IsSeq(s)
BY DEF IsSeq

\* A function on 1..n is a sequence of length n.
LEMMA FunctionIsSeq ==
    ASSUME NEW n \in Nat, NEW s, s = [i \in 1..n |-> s[i]]
    PROVE  IsSeq(s) /\ Len(s) = n
<1> DEFINE S == {s[i] : i \in 1..n}
<1>1. s \in [1..n -> S]
  OBVIOUS
<1>2. s \in Seq(S) /\ Len(s) = n
  <2> HIDE DEF S
  <2> QED  BY <1>1, SeqDef
<1> HIDE DEF S
<1> QED  BY <1>2, SeqIsSeq

\* Where the items of two sequences are when one is put after the other.
LEMMA Concatenation ==
    ASSUME NEW S, NEW s \in Seq(S), NEW t \in Seq(S)
    PROVE  /\ s \o t \in Seq(S) /\ Len(s) \in Nat /\ Len(t) \in Nat
           /\ Len(s \o t) = Len(s) + Len(t)
           /\ \A j \in 1..Len(s) : (s \o t)[j] = s[j]
           /\ \A j \in 1..Len(t) : (s \o t)[Len(s) + j] = t[j]
<1>1. /\ s \o t \in Seq(S) /\ Len(s) \in Nat /\ Len(t) \in Nat /\ Len(s \o t) = Len(s) + Len(t)
      /\ \A j \in 1..Len(s) + Len(t) : (s \o t)[j] = IF j <= Len(s) THEN s[j] ELSE t[j - Len(s)]
  BY ConcatProperties, LenProperties
<1> DEFINE u == s \o t
           m == Len(s)
           n == Len(t)
<1>2. m \in Nat /\ n \in Nat /\ \A j \in 1..m + n : u[j] = IF j <= m THEN s[j] ELSE t[j - m]
  BY <1>1
<1> HIDE DEF u, m, n
<1>3. \A j \in 1..m : u[j] = s[j]
  BY <1>2
<1>4. ASSUME NEW j \in 1..n
      PROVE  u[m + j] = t[j]
  <2>1. m + j \in 1..m + n /\ ~(m + j <= m) /\ (m + j) - m = j
    BY <1>2
  <2> QED  BY <1>2, <2>1
<1> QED  BY <1>1, <1>3, <1>4 DEF u, m, n

Accumulates(seqs, m, f) ==
    f = [i \in 1..m |-> IF i = 1 THEN seqs[i] ELSE f[i - 1] \o seqs[i]]

\* What is accumulated up to a place: the items there, after those accumulated before.
LEMMA AccumulatesAt ==
    ASSUME NEW seqs, NEW m, NEW f, Accumulates(seqs, m, f)
    PROVE  \A i \in 1..m : f[i] = IF i = 1 THEN seqs[i] ELSE f[i - 1] \o seqs[i]
<1> DEFINE h == [i \in 1..m |-> IF i = 1 THEN seqs[i] ELSE f[i - 1] \o seqs[i]]
<1>1. \A i \in 1..m : h[i] = IF i = 1 THEN seqs[i] ELSE f[i - 1] \o seqs[i]
  OBVIOUS
<1>2. f = h
  BY DEF Accumulates
<1> QED  BY <1>1, <1>2

\* Lists can be accumulated up to any place.
LEMMA AccumulationExists ==
    ASSUME NEW seqs, NEW n \in Nat
    PROVE  \E f : Accumulates(seqs, n, f)
<1> DEFINE Good == {m \in 0..n : \E f : Accumulates(seqs, m, f)}
<1>1. 0 \in Good
  <2> DEFINE f == [i \in 1..0 |-> seqs[i]]
  <2>1. \A i \in 1..0 : FALSE
    OBVIOUS
  <2>2. f = [i \in 1..0 |-> IF i = 1 THEN seqs[i] ELSE f[i - 1] \o seqs[i]]
    BY <2>1
  <2>3. Accumulates(seqs, 0, f)
    BY <2>2 DEF Accumulates
  <2> HIDE DEF f
  <2> QED  BY <2>3
<1>2. ASSUME NEW m \in 0..n - 1, m \in Good
      PROVE  m + 1 \in Good
  <2>1. PICK f : Accumulates(seqs, m, f)
    BY <1>2
  <2> DEFINE g == [i \in 1..m + 1 |-> IF i = 1 THEN seqs[i] ELSE f[i - 1] \o seqs[i]]
  <2>2. \A i \in 1..m : g[i] = f[i]
    <3>1. \A i \in 1..m : i \in 1..m + 1
      OBVIOUS
    <3> QED  BY <2>1, <3>1, AccumulatesAt
  <2>3. \A i \in 1..m + 1 : i # 1 => g[i - 1] = f[i - 1]
    <3>1. \A i \in 1..m + 1 : i # 1 => i - 1 \in 1..m
      OBVIOUS
    <3> HIDE DEF g
    <3> QED  BY <3>1, <2>2
  <2>4. g = [i \in 1..m + 1 |-> IF i = 1 THEN seqs[i] ELSE g[i - 1] \o seqs[i]]
    BY <2>3
  <2>5. Accumulates(seqs, m + 1, g)
    BY <2>4 DEF Accumulates
  <2>6. m + 1 \in 0..n
    OBVIOUS
  <2> HIDE DEF g
  <2> QED  BY <2>5, <2>6
<1>3. n \in Good
  <2> HIDE DEF Good
  <2> QED  BY <1>1, <1>2, UpTo
<1> QED  BY <1>3

\* What follows what: the offset of each part, and no place that is in none.
PlacedAt(seqs, flat, off) ==
    /\ off \in [0..Len(seqs) -> Nat]
    /\ off[0] = 0 /\ off[Len(seqs)] = Len(flat)
    /\ \A i \in 1..Len(seqs) :
        /\ off[i] = off[i - 1] + Len(seqs[i])
        /\ \A j \in 1..Len(seqs[i]) : off[i - 1] + j \in 1..Len(flat) /\ flat[off[i - 1] + j] = seqs[i][j]
    /\ \A k \in 1..Len(flat) : \E i \in 1..Len(seqs) : \E j \in 1..Len(seqs[i]) : k = off[i - 1] + j

\* Lists put one after the other: a list, in which every item of each has its place.
LEMMA Flattening ==
    ASSUME NEW seqs, IsSeq(seqs), \A i \in 1..Len(seqs) : IsSeq(seqs[i])
    PROVE  IsSeq(FlattenSeq(seqs)) /\ \E off : PlacedAt(seqs, FlattenSeq(seqs), off)
<1> DEFINE n == Len(seqs)
           S == UNION {{seqs[i][j] : j \in 1..Len(seqs[i])} : i \in 1..n}
           flat == FlattenSeq(seqs)
<1>n. n \in Nat /\ DOMAIN seqs = 1..n
  BY DEF IsSeq
<1>1. CASE n = 0
  <2>1. flat = seqs
    BY <1>1 DEF FlattenSeq
  <2>2. PlacedAt(seqs, flat, [i \in {0} |-> 0])
    <3>1. 0..0 = {0} /\ 1..0 = {}
      OBVIOUS
    <3> HIDE DEF flat
    <3> QED  BY <2>1, <1>1, <3>1 DEF PlacedAt
  <2> HIDE DEF flat
  <2> QED  BY <2>1, <2>2
<1>2. CASE n # 0
  <2>1. PICK f : /\ f = [i \in 1..n |-> IF i = 1 THEN seqs[i] ELSE f[i - 1] \o seqs[i]]
                 /\ flat = f[n]
    <3>1. \E f : Accumulates(seqs, n, f)
      BY <1>n, AccumulationExists
    <3> QED  BY <3>1, <1>2 DEF FlattenSeq, Accumulates
  <2>s. \A i \in 1..n : seqs[i] \in Seq(S) /\ Len(seqs[i]) \in Nat
    <3> SUFFICES ASSUME NEW i \in 1..n PROVE seqs[i] \in Seq(S) /\ Len(seqs[i]) \in Nat
      OBVIOUS
    <3>1. IsSeq(seqs[i]) /\ \A j \in 1..Len(seqs[i]) : seqs[i][j] \in S
      OBVIOUS
    <3> HIDE DEF S
    <3> QED  BY <3>1, SeqOver DEF IsSeq
  <2> HIDE DEF S, flat, n
  <2>f. f[1] = seqs[1] /\ \A i \in 1..n : i # 1 => f[i] = f[i - 1] \o seqs[i]
    <3>1. \A i \in 1..n : f[i] = IF i = 1 THEN seqs[i] ELSE f[i - 1] \o seqs[i]
      BY <2>1, AccumulatesAt DEF Accumulates
    <3>2. 1 \in 1..n
      BY <1>n, <1>2
    <3> QED  BY <3>1, <3>2
  <2>3. \A i \in 1..n : f[i] \in Seq(S)
    <3> DEFINE Good == {i \in 0..n : i # 0 => f[i] \in Seq(S)}
    <3>1. 0 \in Good
      BY <1>n
    <3>2. ASSUME NEW i \in 0..n - 1, i \in Good
          PROVE  i + 1 \in Good
      <4>1. i + 1 \in 1..n /\ (i + 1) - 1 = i
        BY <1>n
      <4>2. seqs[i + 1] \in Seq(S)
        BY <4>1, <2>s
      <4>3. CASE i = 0
        BY <4>3, <4>1, <4>2, <2>f
      <4>4. CASE i # 0
        <5>1. f[i] \in Seq(S)
          BY <4>4, <3>2
        <5>2. i + 1 # 1 /\ i + 1 \in 0..n
          BY <4>1, <4>4, <1>n
        <5>3. f[i + 1] = f[i] \o seqs[i + 1]
          BY <4>1, <5>2, <2>f
        <5>4. f[i + 1] \in Seq(S)
          BY <4>2, <5>1, <5>3, ConcatProperties
        <5> QED  BY <5>2, <5>4
      <4> QED  BY <4>3, <4>4
    <3>3. \A i \in 0..n : i \in Good
      <4> HIDE DEF Good
      <4> QED  BY <1>n, <3>1, <3>2, UpTo
    <3> QED  BY <3>3, <1>n
  <2> DEFINE off == [i \in 0..n |-> IF i = 0 THEN 0 ELSE Len(f[i])]
  <2>4. off \in [0..n -> Nat] /\ off[0] = 0 /\ off[n] = Len(flat)
    <3>1. \A i \in 1..n : Len(f[i]) \in Nat
      BY <2>3, LenProperties
    <3>2. n \in 0..n /\ n # 0 /\ 0 \in 0..n
      BY <1>n, <1>2
    <3> QED  BY <3>1, <3>2, <2>1, <1>n
  <2>5. \A i \in 1..n :
            /\ off[i] = off[i - 1] + Len(seqs[i])
            /\ \A j \in 1..Len(seqs[i]) : f[i][off[i - 1] + j] = seqs[i][j]
            /\ i # 1 => \A j \in 1..off[i - 1] : f[i][j] = f[i - 1][j]
    <3> SUFFICES ASSUME NEW i \in 1..n
                 PROVE  /\ off[i] = off[i - 1] + Len(seqs[i])
                        /\ \A j \in 1..Len(seqs[i]) : f[i][off[i - 1] + j] = seqs[i][j]
                        /\ i # 1 => \A j \in 1..off[i - 1] : f[i][j] = f[i - 1][j]
      OBVIOUS
    <3>0. i \in 0..n /\ i - 1 \in 0..n /\ i # 0 /\ off[i] = Len(f[i])
      BY <1>n
    <3>1. CASE i = 1
      <4>1. off[i - 1] = 0 /\ f[i] = seqs[i] /\ Len(seqs[i]) \in Nat
        BY <3>1, <3>0, <2>f, <2>s
      <4> HIDE DEF off
      <4> QED  BY <4>1, <3>0, <3>1
    <3>2. CASE i # 1
      <4>1. i - 1 \in 1..n /\ off[i - 1] = Len(f[i - 1])
        BY <3>2, <3>0, <1>n
      <4>2. f[i] = f[i - 1] \o seqs[i]
        BY <3>2, <2>f
      <4>3. f[i - 1] \in Seq(S) /\ seqs[i] \in Seq(S)
        BY <4>1, <2>3, <2>s
      <4> DEFINE g == f[i - 1]
                 p == seqs[i]
      <4>4. g \in Seq(S) /\ p \in Seq(S) /\ f[i] = g \o p
        BY <4>2, <4>3
      <4> HIDE DEF g, p
      <4>5. /\ Len(f[i]) = Len(g) + Len(p)
            /\ \A j \in 1..Len(g) : f[i][j] = g[j]
            /\ \A j \in 1..Len(p) : f[i][Len(g) + j] = p[j]
        BY <4>4, Concatenation
      <4> HIDE DEF off
      <4> QED  BY <3>0, <4>1, <4>5 DEF g, p
    <3> QED  BY <3>1, <3>2
  <2> HIDE DEF off
  <2>6. \A i \in 1..n : \A j \in 1..off[i] : off[i] <= Len(flat) /\ flat[j] = f[i][j]
    <3> DEFINE Below == {d \in 0..n : d < n => \A j \in 1..off[n - d] : off[n - d] <= Len(flat) /\ flat[j] = f[n - d][j]}
    <3>1. 0 \in Below
      <4>1. n - 0 = n /\ 0 \in 0..n /\ n \in 1..n /\ n \in 0..n
        BY <1>n, <1>2
      <4>2. off[n] = Len(flat) /\ off[n] \in Nat /\ flat = f[n]
        BY <4>1, <2>1, <2>4
      <4>3. \A j \in 1..off[n] : off[n] <= Len(flat) /\ flat[j] = f[n][j]
        BY <4>2
      <4> QED  BY <4>1, <4>3
    <3>2. ASSUME NEW d \in 0..n - 1, d \in Below
          PROVE  d + 1 \in Below
      <4> SUFFICES ASSUME d + 1 < n, NEW j \in 1..off[n - (d + 1)]
                   PROVE  off[n - (d + 1)] <= Len(flat) /\ flat[j] = f[n - (d + 1)][j]
        BY <1>n
      <4>1. /\ n - d \in 1..n /\ n - d # 1 /\ (n - d) - 1 = n - (d + 1) /\ n - (d + 1) \in 0..n /\ n - d \in 0..n
            /\ d < n
        BY <1>n
      <4>2. off[n - d] = off[n - (d + 1)] + Len(seqs[n - d])
        BY <4>1, <2>5
      <4>3. /\ Len(seqs[n - d]) \in Nat /\ off[n - d] \in Nat /\ off[n - (d + 1)] \in Nat
        BY <4>1, <2>s, <2>4
      <4>4. j \in 1..off[n - d] /\ off[n - (d + 1)] <= off[n - d]
        BY <4>2, <4>3
      <4>5. off[n - d] <= Len(flat) /\ flat[j] = f[n - d][j]
        BY <3>2, <4>1, <4>4
      <4>6. f[n - d][j] = f[n - (d + 1)][j]
        BY <4>1, <2>5
      <4>7. Len(flat) \in Nat
        BY <2>4, <1>n
      <4> QED  BY <4>3, <4>4, <4>5, <4>6, <4>7
    <3>3. \A d \in 0..n : d \in Below
      <4> HIDE DEF Below
      <4> QED  BY <1>n, <3>1, <3>2, UpTo
    <3> SUFFICES ASSUME NEW i \in 1..n, NEW j \in 1..off[i]
                 PROVE  off[i] <= Len(flat) /\ flat[j] = f[i][j]
      OBVIOUS
    <3>4. n - i \in 0..n /\ n - (n - i) = i /\ n - i < n
      BY <1>n
    <3> QED  BY <3>3, <3>4
  <2>7. \A i \in 1..n : \A j \in 1..Len(seqs[i]) :
            off[i - 1] + j \in 1..Len(flat) /\ flat[off[i - 1] + j] = seqs[i][j]
    <3> SUFFICES ASSUME NEW i \in 1..n, NEW j \in 1..Len(seqs[i])
                 PROVE  off[i - 1] + j \in 1..Len(flat) /\ flat[off[i - 1] + j] = seqs[i][j]
      OBVIOUS
    <3>1. /\ off[i] = off[i - 1] + Len(seqs[i]) /\ f[i][off[i - 1] + j] = seqs[i][j]
          /\ off[i] \in Nat /\ off[i - 1] \in Nat /\ Len(seqs[i]) \in Nat /\ Len(flat) \in Nat
      <4>1. i \in 0..n /\ i - 1 \in 0..n /\ n \in 0..n
        BY <1>n
      <4>2. off[i] \in Nat /\ off[i - 1] \in Nat /\ Len(seqs[i]) \in Nat /\ Len(flat) \in Nat
        BY <4>1, <2>4, <2>s
      <4>3. off[i] = off[i - 1] + Len(seqs[i]) /\ f[i][off[i - 1] + j] = seqs[i][j]
        BY <2>5
      <4> QED  BY <4>2, <4>3
    <3> DEFINE at == off[i - 1] + j
    <3>2. at \in 1..off[i]
      BY <3>1
    <3>3. f[i][at] = seqs[i][j]
      BY <3>1
    <3> HIDE DEF at
    <3>4. off[i] <= Len(flat) /\ flat[at] = f[i][at]
      BY <3>2, <2>6
    <3>5. at \in 1..Len(flat)
      BY <3>1, <3>2, <3>4
    <3> QED  BY <3>3, <3>4, <3>5 DEF at
  <2>8. \A k \in 1..Len(flat) : \E i \in 1..n : \E j \in 1..Len(seqs[i]) : k = off[i - 1] + j
    <3> DEFINE Good == {m \in 0..n : \A k \in 1..off[m] : \E i \in 1..n : \E j \in 1..Len(seqs[i]) : k = off[i - 1] + j}
    <3>1. 0 \in Good
      BY <1>n, <2>4
    <3>2. ASSUME NEW m \in 0..n - 1, m \in Good
          PROVE  m + 1 \in Good
      <4>1. m + 1 \in 1..n /\ (m + 1) - 1 = m /\ m \in 0..n /\ m + 1 \in 0..n
        BY <1>n
      <4>2. off[m + 1] = off[m] + Len(seqs[m + 1]) /\ off[m] \in Nat /\ Len(seqs[m + 1]) \in Nat
        BY <4>1, <2>4, <2>5, <2>s
      <4> SUFFICES ASSUME NEW k \in 1..off[m + 1]
                   PROVE  \E i \in 1..n : \E j \in 1..Len(seqs[i]) : k = off[i - 1] + j
        BY <4>1
      <4>3. CASE k <= off[m]
        BY <4>3, <4>2, <3>2
      <4>4. CASE k > off[m]
        <5>1. k - off[m] \in 1..Len(seqs[m + 1]) /\ k = off[m] + (k - off[m])
          BY <4>4, <4>2
        <5> QED  BY <5>1, <4>1
      <4> QED  BY <4>2, <4>3, <4>4
    <3>3. \A m \in 0..n : m \in Good
      <4> HIDE DEF Good
      <4> QED  BY <1>n, <3>1, <3>2, UpTo
    <3>4. n \in 0..n
      BY <1>n
    <3> QED  BY <3>3, <3>4, <2>4
  <2>9. IsSeq(flat)
    <3>1. flat \in Seq(S)
      BY <2>1, <2>3, <1>n, <1>2
    <3> QED  BY <3>1, SeqIsSeq
  <2>10. PlacedAt(seqs, flat, off)
    BY <2>4, <2>5, <2>7, <2>8 DEF PlacedAt, n
  <2> QED  BY <2>9, <2>10 DEF flat
<1> QED  BY <1>1, <1>2

\* Where ids are unique, a dependency is found by its id.
LEMMA OfUnique ==
    ASSUME NEW list, VerifyUnique(list), NEW k \in DOMAIN list
    PROVE  Of(list, list[k].id) = list[k]
BY DEF VerifyUnique, Of

\* The agent checksum has the digest of each dependency under its id, and nothing else.
LEMMA Checksummed ==
    ASSUME NEW list, VerifyUnique(list)
    PROVE  /\ \A k \in DOMAIN list :
                /\ list[k].id \in DOMAIN AgentChecksum(list)
                /\ AgentChecksum(list)[list[k].id] = DepDigest(list[k].facets)
           /\ \A id \in DOMAIN AgentChecksum(list) : \E k \in DOMAIN list : list[k].id = id
BY OfUnique DEF AgentChecksum, Ids

\* What a run that could be assembled was assembled from.
LEMMA BuiltParts ==
    ASSUME NEW disk, NEW described, NEW override, Built(disk, described, override) # Refused
    PROVE  LET built == Built(disk, described, override)
               list == Discovered(disk, described)
           IN  /\ Loads(disk.config) /\ list # Refused
               /\ built.checksum = AgentChecksum(list)
               /\ built.catalog = FromLockfile(FromDependencies(list)) /\ built.catalog # Refused
               /\ built.suite = LoadSuite(disk.config.probes, disk.directory, disk.schemas,
                                          built.catalog, override)
               /\ built.suite # Refused
               /\ built.client = IF disk.config.model = Absent THEN Refused
                                 ELSE Client(disk.config.model, built.catalog,
                                             SystemPrompt(disk.config.prompts, disk.files))
<1> DEFINE list == Discovered(disk, described)
           catalog == FromLockfile(FromDependencies(list))
           suite == LoadSuite(disk.config.probes, disk.directory, disk.schemas, catalog, override)
           client == IF disk.config.model = Absent THEN Refused
                     ELSE Client(disk.config.model, catalog, SystemPrompt(disk.config.prompts, disk.files))
<1>1. Built(disk, described, override) =
        IF ~Loads(disk.config) \/ list = Refused \/ catalog = Refused \/ suite = Refused THEN Refused
        ELSE [checksum |-> FromDependencies(list).agent_checksum, catalog |-> catalog, suite |-> suite,
              client |-> client]
  BY DEF Built
<1>2. FromDependencies(list).agent_checksum = AgentChecksum(list)
  BY DEF FromDependencies
<1> HIDE DEF list, catalog, suite, client
<1>3. /\ Loads(disk.config) /\ list # Refused /\ catalog # Refused /\ suite # Refused
      /\ Built(disk, described, override).checksum = AgentChecksum(list)
      /\ Built(disk, described, override).catalog = catalog
      /\ Built(disk, described, override).suite = suite
      /\ Built(disk, described, override).client = client
  BY <1>1, <1>2
<1> QED  BY <1>3 DEF list, catalog, suite, client

\* What is a vector in the program is a list.
LEMMA ListIsSeq == ASSUME NEW s, IsList(s) PROVE IsSeq(s)
BY SeqIsSeq DEF IsList

\* Where the items of two lists are when one is put after the other.
LEMMA Joined ==
    ASSUME NEW s, NEW t, IsSeq(s), IsSeq(t)
    PROVE  /\ IsSeq(s \o t) /\ Len(s) \in Nat /\ Len(t) \in Nat
           /\ Len(s \o t) = Len(s) + Len(t)
           /\ \A j \in 1..Len(s) : (s \o t)[j] = s[j]
           /\ \A j \in 1..Len(t) : (s \o t)[Len(s) + j] = t[j]
<1> DEFINE S == {s[j] : j \in 1..Len(s)} \union {t[j] : j \in 1..Len(t)}
<1>1. (\A j \in 1..Len(s) : s[j] \in S) /\ (\A j \in 1..Len(t) : t[j] \in S)
  OBVIOUS
<1> HIDE DEF S
<1>2. s \in Seq(S) /\ t \in Seq(S)
  BY <1>1, SeqOver
<1>3. /\ s \o t \in Seq(S) /\ Len(s) \in Nat /\ Len(t) \in Nat /\ Len(s \o t) = Len(s) + Len(t)
      /\ \A j \in 1..Len(s) : (s \o t)[j] = s[j]
      /\ \A j \in 1..Len(t) : (s \o t)[Len(s) + j] = t[j]
  BY <1>2, Concatenation
<1>4. IsSeq(s \o t)
  BY <1>3, SeqIsSeq
<1> QED  BY <1>3, <1>4

\* A list of one, and of none.
LEMMA Single ==
    ASSUME NEW x
    PROVE  IsSeq(<<x>>) /\ Len(<<x>>) = 1 /\ <<x>>[1] = x /\ IsSeq(<<>>) /\ Len(<<>>) = 0
<1>1. <<x>> \in Seq({x}) /\ <<>> \in Seq({x})
  OBVIOUS
<1> QED  BY <1>1, SeqIsSeq

\* An id is its kind, and then the pieces of the name.
LEMMA IdOf ==
    ASSUME NEW kind, NEW name, NEW facets, NEW source, IsSeq(name)
    PROVE  LET id == Dependency(kind, name, facets, source).id
           IN  /\ id = <<kind>> \o name /\ IsSeq(id) /\ id[1] = kind
               /\ Len(name) \in Nat /\ Len(id) = 1 + Len(name)
               /\ \A j \in 1..Len(name) : id[1 + j] = name[j]
<1>1. Dependency(kind, name, facets, source).id = <<kind>> \o name
  BY DEF Dependency
<1>2. IsSeq(<<kind>>) /\ Len(<<kind>>) = 1 /\ <<kind>>[1] = kind /\ 1 \in 1..1
  BY Single
<1>3. /\ IsSeq(<<kind>> \o name) /\ Len(name) \in Nat /\ Len(<<kind>> \o name) = 1 + Len(name)
      /\ (<<kind>> \o name)[1] = kind
      /\ \A j \in 1..Len(name) : (<<kind>> \o name)[1 + j] = name[j]
  BY <1>2, Joined
<1> QED  BY <1>1, <1>3

\* An encoded name is a list: the escapes of its characters, one after the other.
LEMMA EncodedIsSeq ==
    ASSUME NEW name, IsSeq(name)
    PROVE  /\ IsSeq(EncodeToolName(name))
           /\ \E off : PlacedAt([i \in DOMAIN name |-> EncodeChar(name[i])], EncodeToolName(name), off)
<1>1. ASSUME NEW c PROVE IsSeq(EncodeChar(c))
  <2>1. CASE c \in DOMAIN Hex
    BY <2>1, BehaviorAssumption, ListIsSeq, Single, Joined DEF EncodeChar
  <2>2. CASE c \notin DOMAIN Hex
    BY <2>2, Single DEF EncodeChar
  <2> QED  BY <2>1, <2>2
<1> DEFINE parts == [i \in DOMAIN name |-> EncodeChar(name[i])]
<1>2. DOMAIN name = 1..Len(name) /\ Len(name) \in Nat
  BY DEF IsSeq
<1>3. IsSeq(parts) /\ Len(parts) = Len(name)
  <2>1. parts = [i \in 1..Len(name) |-> parts[i]]
    BY <1>2
  <2> HIDE DEF parts
  <2> QED  BY <2>1, <1>2, FunctionIsSeq
<1>4. \A i \in 1..Len(parts) : IsSeq(parts[i])
  BY <1>1, <1>2, <1>3
<1>5. EncodeToolName(name) = FlattenSeq(parts)
  BY DEF EncodeToolName
<1> HIDE DEF parts
<1>6. IsSeq(FlattenSeq(parts)) /\ \E off : PlacedAt(parts, FlattenSeq(parts), off)
  BY <1>3, <1>4, Flattening
<1> QED  BY <1>5, <1>6 DEF parts

\* The identity of a tool: the alias, a dot, and the encoded name.
LEMMA ToolIdIsSeq ==
    ASSUME NEW alias, NEW name, IsSeq(alias), IsSeq(name)
    PROVE  /\ IsSeq(ToolId(alias, name)) /\ Len(alias) \in Nat /\ Len(EncodeToolName(name)) \in Nat
           /\ Len(ToolId(alias, name)) = Len(alias) + 1 + Len(EncodeToolName(name))
           /\ \A j \in 1..Len(alias) : ToolId(alias, name)[j] = alias[j]
           /\ ToolId(alias, name)[Len(alias) + 1] = Dot
           /\ \A j \in 1..Len(EncodeToolName(name)) :
                ToolId(alias, name)[Len(alias) + 1 + j] = EncodeToolName(name)[j]
<1> DEFINE u == alias \o <<Dot>>
           code == EncodeToolName(name)
           m == Len(alias)
<1>1. IsSeq(<<Dot>>) /\ Len(<<Dot>>) = 1 /\ <<Dot>>[1] = Dot
  BY Single
<1>2. /\ IsSeq(u) /\ m \in Nat /\ Len(u) = m + 1 /\ (\A j \in 1..m : u[j] = alias[j]) /\ u[m + 1] = Dot
  <2>1. 1 \in 1..1
    OBVIOUS
  <2> QED  BY <1>1, <2>1, Joined
<1>3. IsSeq(code)
  BY EncodedIsSeq
<1>4. ToolId(alias, name) = u \o code
  BY DEF ToolId
<1> HIDE DEF u, code, m
<1>5. /\ IsSeq(u \o code) /\ Len(u) \in Nat /\ Len(code) \in Nat /\ Len(u \o code) = Len(u) + Len(code)
      /\ \A j \in 1..Len(u) : (u \o code)[j] = u[j]
      /\ \A j \in 1..Len(code) : (u \o code)[Len(u) + j] = code[j]
  BY <1>2, <1>3, Joined
<1>6. (\A j \in 1..m : j \in 1..m + 1) /\ m + 1 \in 1..m + 1
  BY <1>2
<1> QED  BY <1>2, <1>4, <1>5, <1>6 DEF code, m

PromptDependency(disk, i) ==
    Dependency("prompt", <<NormalizeRelPath(disk.config.prompts[i])>>,
               TextFacets(disk.files[NormalizeRelPath(disk.config.prompts[i])]), Absent)

\* The dependencies of the prompts: one for each, of a file that can be read.
LEMMA PromptList ==
    ASSUME NEW disk \in Projects, PromptDependencies(disk.config.prompts, disk.files) # Refused
    PROVE  LET list == PromptDependencies(disk.config.prompts, disk.files)
           IN  /\ IsSeq(list) /\ Len(list) = Len(disk.config.prompts) /\ IsSeq(disk.config.prompts)
               /\ \A i \in 1..Len(disk.config.prompts) :
                    /\ list[i] = PromptDependency(disk, i)
                    /\ NormalizeRelPath(disk.config.prompts[i]) \in DOMAIN disk.files
<1> DEFINE prompts == disk.config.prompts
           list == PromptDependencies(prompts, disk.files)
<1>1. IsSeq(prompts)
  BY BehaviorAssumption, ListIsSeq
<1>2. DOMAIN prompts = 1..Len(prompts) /\ Len(prompts) \in Nat
  BY <1>1 DEF IsSeq
<1>3. /\ \A i \in DOMAIN prompts : NormalizeRelPath(prompts[i]) \in DOMAIN disk.files
      /\ list = [i \in DOMAIN prompts |-> PromptDependency(disk, i)]
  BY DEF PromptDependencies, PromptDependency
<1>4. list = [i \in 1..Len(prompts) |-> list[i]]
  BY <1>2, <1>3
<1>5. IsSeq(list) /\ Len(list) = Len(prompts)
  <2> HIDE DEF list
  <2> QED  BY <1>2, <1>4, FunctionIsSeq
<1>6. \A i \in 1..Len(prompts) : list[i] = PromptDependency(disk, i)
  BY <1>2, <1>3
<1> HIDE DEF list
<1> QED  BY <1>1, <1>2, <1>3, <1>5, <1>6 DEF list

\* The dependencies of one server.
Part(server) == ServerDependencies(DiscoveredServer(server))

\* The dependencies of one server: itself, and then its tools.
LEMMA ServerPart ==
    ASSUME NEW server, IsSeq(server.tools), DiscoveredServer(server) # Refused
    PROVE  LET part == Part(server)
           IN  /\ IsSeq(part) /\ Len(server.tools) \in Nat /\ Len(part) = 1 + Len(server.tools)
               /\ part[1] = ServerDependency(DiscoveredServer(server))
               /\ \A j \in 1..Len(server.tools) :
                    part[1 + j] = ToolDependency(server.alias, DiscoveredTool(server.tools[j]))
               /\ DiscoveredServer(server).alias = server.alias
               /\ IsInjective([j \in DOMAIN server.tools |-> server.tools[j].name])
<1> DEFINE tools == [j \in DOMAIN server.tools |-> ToolDependency(server.alias, DiscoveredTool(server.tools[j]))]
           head == ServerDependency(DiscoveredServer(server))
<1>1. /\ DiscoveredServer(server).alias = server.alias
      /\ DiscoveredServer(server).tools = [j \in DOMAIN server.tools |-> DiscoveredTool(server.tools[j])]
      /\ IsInjective([j \in DOMAIN server.tools |-> server.tools[j].name])
  BY DEF DiscoveredServer
<1>2. Part(server) = <<head>> \o tools
  BY <1>1 DEF Part, ServerDependencies
<1>3. DOMAIN server.tools = 1..Len(server.tools) /\ Len(server.tools) \in Nat
  BY DEF IsSeq
<1>4. IsSeq(tools) /\ Len(tools) = Len(server.tools)
  <2>1. tools = [j \in 1..Len(server.tools) |-> tools[j]]
    BY <1>3
  <2> HIDE DEF tools
  <2> QED  BY <2>1, <1>3, FunctionIsSeq
<1>5. \A j \in 1..Len(server.tools) : tools[j] = ToolDependency(server.alias, DiscoveredTool(server.tools[j]))
  BY <1>3
<1> HIDE DEF tools, head
<1>6. IsSeq(<<head>>) /\ Len(<<head>>) = 1 /\ <<head>>[1] = head /\ 1 \in 1..1
  BY Single
<1>7. /\ IsSeq(<<head>> \o tools) /\ Len(<<head>> \o tools) = 1 + Len(tools)
      /\ (<<head>> \o tools)[1] = head
      /\ \A j \in 1..Len(tools) : (<<head>> \o tools)[1 + j] = tools[j]
  BY <1>4, <1>6, Joined
<1> QED  BY <1>1, <1>2, <1>3, <1>4, <1>5, <1>7 DEF head

Parts(servers) == [i \in DOMAIN servers |-> Part(servers[i])]

\* The dependencies of the servers: the part of each in its place.
LEMMA ToolList ==
    ASSUME NEW disk \in Projects, McpDependencies(disk.config.servers) # Refused
    PROVE  LET servers == disk.config.servers
           IN  /\ IsSeq(McpDependencies(servers)) /\ IsSeq(servers) /\ Len(Parts(servers)) = Len(servers)
               /\ \E off : PlacedAt(Parts(servers), McpDependencies(servers), off)
               /\ \A i \in 1..Len(servers) :
                    /\ DiscoveredServer(servers[i]) # Refused /\ IsSeq(servers[i].tools)
                    /\ IsSeq(servers[i].alias)
                    /\ Parts(servers)[i] = Part(servers[i])
<1> DEFINE servers == disk.config.servers
           discovered == [i \in DOMAIN servers |-> DiscoveredServer(servers[i])]
           parts == Parts(servers)
<1>1. IsSeq(servers) /\ \A i \in DOMAIN servers : IsSeq(servers[i].tools) /\ IsSeq(servers[i].alias)
  BY BehaviorAssumption, ListIsSeq
<1>2. DOMAIN servers = 1..Len(servers) /\ Len(servers) \in Nat
  BY <1>1 DEF IsSeq
<1>3. \A i \in DOMAIN servers : DiscoveredServer(servers[i]) # Refused
  BY DEF McpDependencies, Range
<1>4. McpDependencies(servers) = FlattenSeq(parts)
  <2>1. [i \in DOMAIN servers |-> ServerDependencies(discovered[i])] = parts
    BY DEF Parts, Part
  <2> QED  BY <2>1, <1>3 DEF McpDependencies, Range
<1>5. IsSeq(parts) /\ Len(parts) = Len(servers)
  <2>1. parts = [i \in 1..Len(servers) |-> parts[i]]
    BY <1>2 DEF Parts
  <2> HIDE DEF parts
  <2> QED  BY <2>1, <1>2, FunctionIsSeq
<1>6. \A i \in 1..Len(servers) : parts[i] = Part(servers[i])
  BY <1>2 DEF Parts
<1>7. \A i \in 1..Len(servers) : IsSeq(parts[i])
  <2> TAKE i \in 1..Len(servers)
  <2>1. IsSeq(servers[i].tools) /\ DiscoveredServer(servers[i]) # Refused
    BY <1>1, <1>2, <1>3
  <2>2. IsSeq(Part(servers[i]))
    BY <2>1, ServerPart
  <2> QED  BY <2>2, <1>6
<1>8. IsSeq(FlattenSeq(parts)) /\ \E off : PlacedAt(parts, FlattenSeq(parts), off)
  <2> HIDE DEF parts
  <2> QED  BY <1>5, <1>7, Flattening
<1> QED  BY <1>1, <1>2, <1>3, <1>4, <1>5, <1>6, <1>8

\* What is in the list of dependencies: the prompts, the model, and every part of every server.
LEMMA Listed ==
    ASSUME NEW disk \in Projects, NEW described, Discovered(disk, described) # Refused
    PROVE  LET list == Discovered(disk, described)
               config == disk.config
           IN  /\ IsSeq(list) /\ VerifyUnique(list)
               /\ PromptDependencies(config.prompts, disk.files) # Refused
               /\ McpDependencies(config.servers) # Refused
               /\ config.model # Absent => ModelDependency(config.model, described) # Refused
               /\ \A i \in 1..Len(config.prompts) : \E k \in DOMAIN list : list[k] = PromptDependency(disk, i)
               /\ config.model # Absent =>
                    \E k \in DOMAIN list : list[k] = ModelDependency(config.model, described)
               /\ \A i \in 1..Len(config.servers) : \A j \in 1..Len(Part(config.servers[i])) :
                    \E k \in DOMAIN list : list[k] = Part(config.servers[i])[j]
               /\ \A k \in DOMAIN list :
                    \/ \E i \in 1..Len(config.prompts) : list[k] = PromptDependency(disk, i)
                    \/ config.model # Absent /\ list[k] = ModelDependency(config.model, described)
                    \/ \E i \in 1..Len(config.servers) : \E j \in 1..Len(Part(config.servers[i])) :
                        list[k] = Part(config.servers[i])[j]
<1> DEFINE config == disk.config
           list == Discovered(disk, described)
           prompts == PromptDependencies(config.prompts, disk.files)
           model == IF config.model = Absent THEN <<>> ELSE <<ModelDependency(config.model, described)>>
           tools == McpDependencies(config.servers)
           parts == Parts(config.servers)
<1>1. /\ prompts # Refused /\ model # <<Refused>> /\ tools # Refused
      /\ list = (prompts \o model) \o tools /\ VerifyUnique((prompts \o model) \o tools)
  <2>1. list = IF prompts = Refused \/ model = <<Refused>> THEN Refused ELSE Dependencies(prompts, model, tools)
    BY DEF Discovered
  <2> HIDE DEF list, prompts, model, tools
  <2>2. list # Refused
    BY DEF list
  <2>3. /\ prompts # Refused /\ model # <<Refused>> /\ Dependencies(prompts, model, tools) # Refused
        /\ list = Dependencies(prompts, model, tools)
    BY <2>1, <2>2
  <2> QED  BY <2>3 DEF Dependencies
<1>2. config.model # Absent => ModelDependency(config.model, described) # Refused
  BY <1>1
<1>3. /\ IsSeq(prompts) /\ Len(prompts) = Len(config.prompts)
      /\ \A i \in 1..Len(config.prompts) : prompts[i] = PromptDependency(disk, i)
  BY <1>1, PromptList
<1>4. /\ IsSeq(model)
      /\ \A i \in 1..Len(model) : config.model # Absent /\ model[i] = ModelDependency(config.model, described)
      /\ config.model # Absent => Len(model) = 1 /\ model[1] = ModelDependency(config.model, described)
  <2>1. CASE config.model = Absent
    <3>1. model = <<>>
      BY <2>1
    <3>2. IsSeq(<<>>) /\ Len(<<>>) = 0
      BY Single
    <3>3. \A i \in 1..0 : FALSE
      OBVIOUS
    <3> HIDE DEF model
    <3> QED  BY <2>1, <3>1, <3>2, <3>3
  <2>2. CASE config.model # Absent
    <3> DEFINE m == ModelDependency(config.model, described)
    <3>1. model = <<m>> /\ IsSeq(<<m>>) /\ Len(<<m>>) = 1 /\ <<m>>[1] = m
      BY <2>2, Single
    <3>2. \A i \in 1..1 : i = 1
      OBVIOUS
    <3> HIDE DEF model, m
    <3> QED  BY <2>2, <3>1, <3>2 DEF m
  <2> QED  BY <2>1, <2>2
<1>5. PICK off : PlacedAt(parts, tools, off)
  BY <1>1, ToolList
<1>6. /\ IsSeq(tools) /\ Len(parts) = Len(config.servers)
      /\ \A i \in 1..Len(config.servers) : parts[i] = Part(config.servers[i])
  BY <1>1, ToolList
<1> HIDE DEF config, list, prompts, model, tools, parts
<1> DEFINE first == prompts \o model
<1>7. /\ IsSeq(first) /\ Len(prompts) \in Nat /\ Len(model) \in Nat /\ Len(first) = Len(prompts) + Len(model)
      /\ \A j \in 1..Len(prompts) : first[j] = prompts[j]
      /\ \A j \in 1..Len(model) : first[Len(prompts) + j] = model[j]
  <2>1. IsSeq(prompts) /\ IsSeq(model)
    BY <1>3, <1>4
  <2> QED  BY <2>1, Joined
<1> HIDE DEF first
<1>8. /\ IsSeq(list) /\ Len(first) \in Nat /\ Len(tools) \in Nat /\ Len(list) = Len(first) + Len(tools)
      /\ \A j \in 1..Len(first) : list[j] = first[j]
      /\ \A j \in 1..Len(tools) : list[Len(first) + j] = tools[j]
  <2>1. list = first \o tools
    BY <1>1 DEF first
  <2>2. IsSeq(first) /\ IsSeq(tools)
    BY <1>6, <1>7
  <2>3. /\ IsSeq(first \o tools) /\ Len(first) \in Nat /\ Len(tools) \in Nat
        /\ Len(first \o tools) = Len(first) + Len(tools)
        /\ \A j \in 1..Len(first) : (first \o tools)[j] = first[j]
        /\ \A j \in 1..Len(tools) : (first \o tools)[Len(first) + j] = tools[j]
    BY <2>2, Joined
  <2> QED  BY <2>1, <2>3
<1>9. DOMAIN list = 1..Len(list)
  BY <1>8 DEF IsSeq
<1>10. VerifyUnique(list)
  BY <1>1
<1>11. \A i \in 1..Len(config.prompts) : \E k \in DOMAIN list : list[k] = PromptDependency(disk, i)
  <2> TAKE i \in 1..Len(config.prompts)
  <2>1. i \in 1..Len(prompts) /\ i \in 1..Len(first) /\ i \in DOMAIN list
    BY <1>3, <1>7, <1>8, <1>9
  <2>2. list[i] = PromptDependency(disk, i)
    BY <2>1, <1>3, <1>7, <1>8
  <2> QED  BY <2>1, <2>2
<1>12. config.model # Absent => \E k \in DOMAIN list : list[k] = ModelDependency(config.model, described)
  <2> HAVE config.model # Absent
  <2> DEFINE k == Len(prompts) + 1
  <2>1. 1 \in 1..Len(model) /\ k \in 1..Len(first) /\ k \in DOMAIN list
    <3>1. Len(model) = 1
      BY <1>4
    <3>2. k \in 1..Len(first) /\ k \in 1..Len(list)
      BY <3>1, <1>7, <1>8
    <3> QED  BY <3>1, <3>2, <1>9
  <2>2. list[k] = ModelDependency(config.model, described)
    BY <2>1, <1>4, <1>7, <1>8
  <2> HIDE DEF k
  <2> QED  BY <2>1, <2>2
<1>13. \A i \in 1..Len(config.servers) : \A j \in 1..Len(Part(config.servers[i])) :
            \E k \in DOMAIN list : list[k] = Part(config.servers[i])[j]
  <2> TAKE i \in 1..Len(config.servers)
  <2> TAKE j \in 1..Len(Part(config.servers[i]))
  <2>1. off[i - 1] + j \in 1..Len(tools) /\ tools[off[i - 1] + j] = Part(config.servers[i])[j]
    BY <1>5, <1>6 DEF PlacedAt
  <2> DEFINE at == off[i - 1] + j
             k == Len(first) + at
  <2>2. at \in 1..Len(tools) /\ tools[at] = Part(config.servers[i])[j]
    BY <2>1
  <2> HIDE DEF at
  <2>3. k \in 1..Len(list)
    BY <2>2, <1>8
  <2>4. list[k] = Part(config.servers[i])[j]
    BY <2>2, <1>8
  <2> HIDE DEF k
  <2> QED  BY <2>3, <2>4, <1>9
<1>14. ASSUME NEW k \in DOMAIN list
       PROVE  \/ \E i \in 1..Len(config.prompts) : list[k] = PromptDependency(disk, i)
              \/ config.model # Absent /\ list[k] = ModelDependency(config.model, described)
              \/ \E i \in 1..Len(config.servers) : \E j \in 1..Len(Part(config.servers[i])) :
                    list[k] = Part(config.servers[i])[j]
  <2>1. k \in 1..Len(list)
    BY <1>9
  <2>2. CASE k <= Len(prompts)
    <3>1. k \in 1..Len(prompts) /\ k \in 1..Len(first)
      BY <2>1, <2>2, <1>7
    <3>2. list[k] = prompts[k]
      BY <3>1, <1>7, <1>8
    <3> QED  BY <3>1, <3>2, <1>3
  <2>3. CASE k > Len(prompts) /\ k <= Len(first)
    <3>1. k \in 1..Len(first) /\ k - Len(prompts) \in 1..Len(model) /\ k = Len(prompts) + (k - Len(prompts))
      BY <2>1, <2>3, <1>7
    <3>2. list[k] = model[k - Len(prompts)]
      BY <3>1, <1>7, <1>8
    <3> QED  BY <3>1, <3>2, <1>4
  <2>4. CASE k > Len(first)
    <3>1. k - Len(first) \in 1..Len(tools) /\ k = Len(first) + (k - Len(first))
      BY <2>1, <2>4, <1>8
    <3>2. list[k] = tools[k - Len(first)]
      BY <3>1, <1>8
    <3>3. PICK i \in 1..Len(parts) : \E j \in 1..Len(parts[i]) : k - Len(first) = off[i - 1] + j
      BY <3>1, <1>5 DEF PlacedAt
    <3>4. PICK j \in 1..Len(parts[i]) : k - Len(first) = off[i - 1] + j
      BY <3>3
    <3>5. tools[k - Len(first)] = parts[i][j]
      BY <3>3, <3>4, <1>5 DEF PlacedAt
    <3> QED  BY <3>2, <3>3, <3>4, <3>5, <1>6
  <2> QED  BY <2>1, <2>2, <2>3, <2>4, <1>7, <1>8
<1> QED  BY <1>1, <1>2, <1>8, <1>10, <1>11, <1>12, <1>13, <1>14 DEF config, list, prompts, tools

\* The kind of a dependency is what its id begins with.
LEMMA PromptId ==
    ASSUME NEW disk, NEW i
    PROVE  LET dep == PromptDependency(disk, i)
               path == NormalizeRelPath(disk.config.prompts[i])
           IN  /\ dep.id = <<"prompt">> \o <<path>> /\ IsSeq(dep.id) /\ dep.id[1] = "prompt" /\ dep.id[2] = path
               /\ dep.kind = "prompt" /\ dep.facets = TextFacets(disk.files[path])
<1> DEFINE path == NormalizeRelPath(disk.config.prompts[i])
           facets == TextFacets(disk.files[path])
<1>1. PromptDependency(disk, i) = Dependency("prompt", <<path>>, facets, Absent)
  BY DEF PromptDependency
<1>2. IsSeq(<<path>>) /\ Len(<<path>>) = 1 /\ <<path>>[1] = path /\ 1 \in 1..1 /\ 1 + 1 = 2
  BY Single
<1> HIDE DEF path, facets
<1>3. LET id == Dependency("prompt", <<path>>, facets, Absent).id
      IN  id = <<"prompt">> \o <<path>> /\ IsSeq(id) /\ id[1] = "prompt" /\ id[2] = path
  BY <1>2, IdOf
<1>4. Dependency("prompt", <<path>>, facets, Absent).kind = "prompt"
      /\ Dependency("prompt", <<path>>, facets, Absent).facets = facets
  BY DEF Dependency
<1> QED  BY <1>1, <1>3, <1>4 DEF path, facets

ModelId(config) == <<"model">> \o <<config.provider, config.id.name, config.id.tag>>

\* The id of the model tells its kind and its provider.
LEMMA ModelIdIs ==
    ASSUME NEW config, NEW described, ModelDependency(config, described) # Refused
    PROVE  LET dep == ModelDependency(config, described)
           IN  /\ dep.id = ModelId(config) /\ IsSeq(dep.id) /\ dep.id[1] = "model" /\ dep.id[2] = config.provider
               /\ dep.kind = "model"
<1> DEFINE name == <<config.provider, config.id.name, config.id.tag>>
           dep == ModelDependency(config, described)
<1>1. \E facets : dep = Dependency("model", name, facets, config.provider)
  BY DEF ModelDependency, OllamaDependency, CompatibleDependency
<1>2. IsSeq(name) /\ Len(name) = 3 /\ name[1] = config.provider
  <2>1. name \in Seq({config.provider, config.id.name, config.id.tag})
    OBVIOUS
  <2> QED  BY <2>1, SeqIsSeq
<1>3. ModelId(config) = <<"model">> \o name
  BY DEF ModelId
<1> HIDE DEF name, dep
<1>4. PICK facets : dep = Dependency("model", name, facets, config.provider)
  BY <1>1
<1>5. 1 \in 1..3 /\ 1 + 1 = 2
  OBVIOUS
<1>6. /\ dep.id = <<"model">> \o name /\ IsSeq(dep.id) /\ dep.id[1] = "model" /\ dep.id[2] = config.provider
  <2> DEFINE source == config.provider
  <2>3. dep = Dependency("model", name, facets, source) /\ IsSeq(name)
    BY <1>2, <1>4
  <2> HIDE DEF source
  <2>1. /\ dep.id = <<"model">> \o name /\ IsSeq(dep.id) /\ dep.id[1] = "model"
        /\ \A j \in 1..Len(name) : dep.id[1 + j] = name[j]
    BY <2>3, IdOf
  <2>2. 1 \in 1..Len(name)
    BY <1>2
  <2> QED  BY <2>1, <2>2, <1>2, <1>4, <1>5
<1>7. dep.kind = "model"
  BY <1>4 DEF Dependency
<1> QED  BY <1>3, <1>6, <1>7 DEF dep

\* The ids of a server and of its tools tell their kind.
LEMMA PartId ==
    ASSUME NEW server, IsSeq(server.alias), IsSeq(server.tools), DiscoveredServer(server) # Refused,
           \A j \in 1..Len(server.tools) : IsSeq(server.tools[j].name)
    PROVE  LET part == Part(server)
           IN  /\ part[1].id = <<"mcp">> \o server.alias /\ IsSeq(part[1].id) /\ part[1].id[1] = "mcp"
               /\ part[1].kind = "mcp"
               /\ \A j \in 1..Len(server.tools) :
                    /\ part[1 + j].id = <<"tool">> \o ToolId(server.alias, server.tools[j].name)
                    /\ IsSeq(part[1 + j].id) /\ part[1 + j].id[1] = "tool"
                    /\ part[1 + j].kind = "tool"
               /\ \A k \in 1..Len(part) : k = 1 \/ (k - 1 \in 1..Len(server.tools) /\ k = 1 + (k - 1))
<1>1. /\ Len(Part(server)) = 1 + Len(server.tools) /\ Len(server.tools) \in Nat
      /\ Part(server)[1] = ServerDependency(DiscoveredServer(server))
      /\ \A j \in 1..Len(server.tools) :
            Part(server)[1 + j] = ToolDependency(server.alias, DiscoveredTool(server.tools[j]))
      /\ DiscoveredServer(server).alias = server.alias
  BY ServerPart
<1>2. \E facets : Part(server)[1] = Dependency("mcp", server.alias, facets, server.alias)
  BY <1>1 DEF ServerDependency
<1>3. PICK facets : Part(server)[1] = Dependency("mcp", server.alias, facets, server.alias)
  BY <1>2
<1>4. /\ Part(server)[1].id = <<"mcp">> \o server.alias /\ IsSeq(Part(server)[1].id)
      /\ Part(server)[1].id[1] = "mcp"
  <2> DEFINE alias == server.alias
             dep == Part(server)[1]
  <2>1. IsSeq(alias) /\ dep = Dependency("mcp", alias, facets, alias)
    BY <1>3
  <2> HIDE DEF alias, dep
  <2>2. dep.id = <<"mcp">> \o alias /\ IsSeq(dep.id) /\ dep.id[1] = "mcp"
    BY <2>1, IdOf
  <2> QED  BY <2>2 DEF alias, dep
<1>5. Part(server)[1].kind = "mcp"
  BY <1>3 DEF Dependency
<1>6. ASSUME NEW j \in 1..Len(server.tools)
      PROVE  /\ Part(server)[1 + j].id = <<"tool">> \o ToolId(server.alias, server.tools[j].name)
             /\ IsSeq(Part(server)[1 + j].id) /\ Part(server)[1 + j].id[1] = "tool"
             /\ Part(server)[1 + j].kind = "tool"
  <2> DEFINE name == ToolId(server.alias, server.tools[j].name)
             dep == Part(server)[1 + j]
  <2>1. DiscoveredTool(server.tools[j]).name = server.tools[j].name
    BY DEF DiscoveredTool
  <2>2. \E f : dep = Dependency("tool", name, f, server.alias)
    BY <1>1, <2>1 DEF ToolDependency
  <2>3. IsSeq(name)
    BY ToolIdIsSeq
  <2> HIDE DEF name, dep
  <2>4. PICK f : dep = Dependency("tool", name, f, server.alias)
    BY <2>2
  <2>5. dep.id = <<"tool">> \o name /\ IsSeq(dep.id) /\ dep.id[1] = "tool"
    BY <2>3, <2>4, IdOf
  <2>6. dep.kind = "tool"
    BY <2>4 DEF Dependency
  <2> QED  BY <2>5, <2>6 DEF name, dep
<1>7. \A k \in 1..Len(Part(server)) : k = 1 \/ (k - 1 \in 1..Len(server.tools) /\ k = 1 + (k - 1))
  BY <1>1
<1> QED  BY <1>4, <1>5, <1>6, <1>7

\* Which dependency it is, by what its id begins with.
OfItsKind(disk, described, dep) ==
    LET config == disk.config
    IN  /\ IsSeq(dep.id) /\ dep.kind = dep.id[1]
        /\ dep.id[1] = "prompt" => \E i \in 1..Len(config.prompts) : dep = PromptDependency(disk, i)
        /\ dep.id[1] = "model" => config.model # Absent /\ dep = ModelDependency(config.model, described)
        /\ dep.id[1] = "tool" =>
             \E i \in 1..Len(config.servers) : \E j \in 1..Len(config.servers[i].tools) :
                 /\ dep = Part(config.servers[i])[1 + j]
                 /\ dep.id = <<"tool">> \o ToolId(config.servers[i].alias, config.servers[i].tools[j].name)

\* Every dependency that is discovered is of the kind its id names.
LEMMA KindOf ==
    ASSUME NEW disk \in Projects, NEW described, Discovered(disk, described) # Refused,
           NEW k \in DOMAIN Discovered(disk, described)
    PROVE  OfItsKind(disk, described, Discovered(disk, described)[k])
<1> DEFINE config == disk.config
           dep == Discovered(disk, described)[k]
<1>1. \/ \E i \in 1..Len(config.prompts) : dep = PromptDependency(disk, i)
      \/ config.model # Absent /\ dep = ModelDependency(config.model, described)
      \/ \E i \in 1..Len(config.servers) : \E j \in 1..Len(Part(config.servers[i])) :
            dep = Part(config.servers[i])[j]
  BY Listed
<1>2. McpDependencies(config.servers) # Refused
      /\ (config.model # Absent => ModelDependency(config.model, described) # Refused)
  BY Listed
<1>3. \A i \in 1..Len(config.servers) :
        /\ DiscoveredServer(config.servers[i]) # Refused
        /\ IsSeq(config.servers[i].alias) /\ IsSeq(config.servers[i].tools)
        /\ \A j \in 1..Len(config.servers[i].tools) : IsSeq(config.servers[i].tools[j].name)
  <2> TAKE i \in 1..Len(config.servers)
  <2>1. /\ IsSeq(config.servers) /\ DiscoveredServer(config.servers[i]) # Refused
        /\ IsSeq(config.servers[i].alias) /\ IsSeq(config.servers[i].tools)
    BY <1>2, ToolList
  <2>2. i \in DOMAIN config.servers /\ DOMAIN config.servers[i].tools = 1..Len(config.servers[i].tools)
    BY <2>1 DEF IsSeq
  <2>3. \A j \in DOMAIN config.servers[i].tools : IsSeq(config.servers[i].tools[j].name)
    BY <2>2, BehaviorAssumption, ListIsSeq
  <2> QED  BY <2>1, <2>2, <2>3
<1> HIDE DEF config, dep
<1>4. ASSUME NEW i \in 1..Len(config.prompts), dep = PromptDependency(disk, i)
      PROVE  IsSeq(dep.id) /\ dep.kind = dep.id[1] /\ dep.id[1] = "prompt"
  BY <1>4, PromptId
<1>5. ASSUME config.model # Absent, dep = ModelDependency(config.model, described)
      PROVE  IsSeq(dep.id) /\ dep.kind = dep.id[1] /\ dep.id[1] = "model"
  BY <1>2, <1>5, ModelIdIs
<1>6. ASSUME NEW i \in 1..Len(config.servers), NEW j \in 1..Len(Part(config.servers[i])),
             dep = Part(config.servers[i])[j]
      PROVE  /\ IsSeq(dep.id) /\ dep.kind = dep.id[1] /\ dep.id[1] \in {"mcp", "tool"}
             /\ dep.id[1] = "tool" =>
                \E n \in 1..Len(config.servers[i].tools) :
                    /\ dep = Part(config.servers[i])[1 + n]
                    /\ dep.id = <<"tool">> \o ToolId(config.servers[i].alias, config.servers[i].tools[n].name)
  <2> DEFINE server == config.servers[i]
  <2>1. /\ IsSeq(server.alias) /\ IsSeq(server.tools) /\ DiscoveredServer(server) # Refused
        /\ \A n \in 1..Len(server.tools) : IsSeq(server.tools[n].name)
    BY <1>3
  <2> HIDE DEF server
  <2>2. /\ IsSeq(Part(server)[1].id) /\ Part(server)[1].id[1] = "mcp" /\ Part(server)[1].kind = "mcp"
        /\ \A n \in 1..Len(server.tools) :
            /\ Part(server)[1 + n].id = <<"tool">> \o ToolId(server.alias, server.tools[n].name)
            /\ IsSeq(Part(server)[1 + n].id) /\ Part(server)[1 + n].id[1] = "tool"
            /\ Part(server)[1 + n].kind = "tool"
        /\ \A n \in 1..Len(Part(server)) : n = 1 \/ (n - 1 \in 1..Len(server.tools) /\ n = 1 + (n - 1))
    BY <2>1, PartId
  <2>3. dep = Part(server)[j] /\ j \in 1..Len(Part(server))
    BY <1>6 DEF server
  <2>4. CASE j = 1
    BY <2>2, <2>3, <2>4
  <2>5. CASE j # 1
    <3>1. j - 1 \in 1..Len(server.tools) /\ j = 1 + (j - 1)
      BY <2>2, <2>3, <2>5
    <3> DEFINE n == j - 1
    <3>2. n \in 1..Len(server.tools) /\ dep = Part(server)[1 + n]
      BY <3>1, <2>3
    <3> HIDE DEF n
    <3>3. /\ dep.id = <<"tool">> \o ToolId(server.alias, server.tools[n].name)
          /\ IsSeq(dep.id) /\ dep.id[1] = "tool" /\ dep.kind = "tool"
      BY <2>2, <3>2
    <3> QED  BY <3>2, <3>3 DEF server
  <2> QED  BY <2>4, <2>5
<1>7. CASE \E i \in 1..Len(config.prompts) : dep = PromptDependency(disk, i)
  BY <1>4, <1>7 DEF config, dep, OfItsKind
<1>8. CASE config.model # Absent /\ dep = ModelDependency(config.model, described)
  BY <1>5, <1>8 DEF config, dep, OfItsKind
<1>9. CASE \E i \in 1..Len(config.servers) : \E j \in 1..Len(Part(config.servers[i])) :
                dep = Part(config.servers[i])[j]
  <2>1. PICK i \in 1..Len(config.servers) : \E j \in 1..Len(Part(config.servers[i])) :
                dep = Part(config.servers[i])[j]
    BY <1>9
  <2>2. /\ IsSeq(dep.id) /\ dep.kind = dep.id[1] /\ dep.id[1] \in {"mcp", "tool"}
        /\ dep.id[1] = "tool" =>
            \E n \in 1..Len(config.servers[i].tools) :
                /\ dep = Part(config.servers[i])[1 + n]
                /\ dep.id = <<"tool">> \o ToolId(config.servers[i].alias, config.servers[i].tools[n].name)
    BY <1>6, <2>1
  <2> QED  BY <2>2 DEF config, dep, OfItsKind
<1> QED  BY <1>1, <1>7, <1>8, <1>9

------------------------------------------------------------------------------
(* What the checksum of an agent tells of what it asks.                      *)

\* The paths of the prompts, their texts and the system message, from the checksum alone.
PromptPaths(checksum) == {id[2] : id \in {d \in DOMAIN checksum : d[1] = "prompt"}}
TextsFrom(checksum) == [path \in PromptPaths(checksum) |-> checksum[<<"prompt">> \o <<path>>]["content"]]

InOrder(paths, texts) ==
    IF paths = {} THEN Absent ELSE [i \in DOMAIN InPathOrder(paths) |-> texts[InPathOrder(paths)[i]]]

SystemFrom(checksum) == InOrder(PromptPaths(checksum), TextsFrom(checksum))

\* A checksum tells the paths of the prompts and their normalized texts.
LEMMA PromptsOf ==
    ASSUME NEW disk \in Projects, NEW described, Discovered(disk, described) # Refused
    PROVE  LET checksum == AgentChecksum(Discovered(disk, described))
               paths == {NormalizeRelPath(disk.config.prompts[i]) : i \in DOMAIN disk.config.prompts}
           IN  /\ PromptPaths(checksum) = paths
               /\ \A path \in paths :
                    /\ path \in DOMAIN disk.files
                    /\ checksum[<<"prompt">> \o <<path>>]["content"] = NormalizeText(disk.files[path])
<1> DEFINE prompts == disk.config.prompts
           list == Discovered(disk, described)
           checksum == AgentChecksum(list)
           paths == {NormalizeRelPath(prompts[i]) : i \in DOMAIN prompts}
<1>1. /\ IsSeq(list) /\ VerifyUnique(list) /\ PromptDependencies(prompts, disk.files) # Refused
      /\ \A i \in 1..Len(prompts) : \E k \in DOMAIN list : list[k] = PromptDependency(disk, i)
  BY Listed
<1>2. IsSeq(prompts) /\ \A i \in 1..Len(prompts) : NormalizeRelPath(prompts[i]) \in DOMAIN disk.files
  BY <1>1, PromptList
<1>3. DOMAIN prompts = 1..Len(prompts)
  BY <1>2 DEF IsSeq
<1>4. \A i \in 1..Len(prompts) :
        LET path == NormalizeRelPath(prompts[i]) IN
        /\ <<"prompt">> \o <<path>> \in DOMAIN checksum
        /\ (<<"prompt">> \o <<path>>)[1] = "prompt" /\ (<<"prompt">> \o <<path>>)[2] = path
        /\ checksum[<<"prompt">> \o <<path>>]["content"] = NormalizeText(disk.files[path])
  <2> TAKE i \in 1..Len(prompts)
  <2> DEFINE path == NormalizeRelPath(prompts[i])
             id == <<"prompt">> \o <<path>>
  <2>1. PICK k \in DOMAIN list : list[k] = PromptDependency(disk, i)
    BY <1>1
  <2>2. list[k].id = id /\ id[1] = "prompt" /\ id[2] = path /\ list[k].facets = TextFacets(disk.files[path])
    BY <2>1, PromptId
  <2>3. id \in DOMAIN checksum /\ checksum[id] = DepDigest(TextFacets(disk.files[path]))
    <3> HIDE DEF list, id
    <3> QED  BY <1>1, <2>2, Checksummed
  <2>4. DepDigest(TextFacets(disk.files[path]))["content"] = NormalizeText(disk.files[path])
    BY DEF DepDigest, TextFacets, Facet
  <2> HIDE DEF id, path, checksum
  <2> QED  BY <2>2, <2>3, <2>4 DEF id, path
<1>5. ASSUME NEW id \in DOMAIN checksum, id[1] = "prompt"
      PROVE  \E i \in 1..Len(prompts) : id[2] = NormalizeRelPath(prompts[i])
  <2>1. PICK k \in DOMAIN list : list[k].id = id
    BY <1>1, Checksummed
  <2>2. PICK i \in 1..Len(prompts) : list[k] = PromptDependency(disk, i)
    BY <1>5, <2>1, KindOf DEF OfItsKind
  <2>3. list[k].id[2] = NormalizeRelPath(prompts[i])
    BY <2>2, PromptId
  <2> QED  BY <2>1, <2>3
<1> HIDE DEF list, checksum
<1>6. PromptPaths(checksum) = paths
  <2>1. \A path \in paths : path \in PromptPaths(checksum)
    <3> TAKE path \in paths
    <3>1. PICK i \in 1..Len(prompts) : path = NormalizeRelPath(prompts[i])
      BY <1>3
    <3> DEFINE id == <<"prompt">> \o <<path>>
    <3>2. id \in DOMAIN checksum /\ id[1] = "prompt" /\ id[2] = path
      BY <1>4, <3>1
    <3> HIDE DEF id
    <3> QED  BY <3>2 DEF PromptPaths
  <2>2. \A path \in PromptPaths(checksum) : path \in paths
    <3> TAKE path \in PromptPaths(checksum)
    <3>1. PICK id \in DOMAIN checksum : id[1] = "prompt" /\ path = id[2]
      BY DEF PromptPaths
    <3>2. PICK i \in 1..Len(prompts) : id[2] = NormalizeRelPath(prompts[i])
      BY <1>5, <3>1
    <3> QED  BY <1>3, <3>1, <3>2
  <2> QED  BY <2>1, <2>2
<1>7. \A path \in paths :
        path \in DOMAIN disk.files /\ checksum[<<"prompt">> \o <<path>>]["content"] = NormalizeText(disk.files[path])
  BY <1>2, <1>3, <1>4
<1> QED  BY <1>6, <1>7 DEF list, checksum

\* The system message is told by the checksum.
LEMMA SystemIsChecksummed ==
    ASSUME NEW disk \in Projects, NEW described, Discovered(disk, described) # Refused
    PROVE  SystemPrompt(disk.config.prompts, disk.files)
             = SystemFrom(AgentChecksum(Discovered(disk, described)))
<1> DEFINE prompts == disk.config.prompts
           checksum == AgentChecksum(Discovered(disk, described))
           paths == {NormalizeRelPath(prompts[i]) : i \in DOMAIN prompts}
           texts == [path \in paths |-> disk.files[path]]
           normalized == [path \in paths |-> NormalizeText(disk.files[path])]
<1>1. /\ PromptPaths(checksum) = paths
      /\ \A path \in paths :
            /\ path \in DOMAIN disk.files
            /\ checksum[<<"prompt">> \o <<path>>]["content"] = NormalizeText(disk.files[path])
  BY PromptsOf
<1>2. SystemPrompt(prompts, disk.files) = AssembleSystemPrompt(texts)
  BY <1>1 DEF SystemPrompt
<1>3. AssembleSystemPrompt(texts) = InOrder(paths, normalized)
  <2>1. DOMAIN texts = paths /\ [path \in DOMAIN texts |-> NormalizeText(texts[path])] = normalized
    OBVIOUS
  <2> HIDE DEF texts, normalized, paths
  <2> QED  BY <2>1 DEF AssembleSystemPrompt, InOrder
<1>4. TextsFrom(checksum) = normalized
  <2> HIDE DEF paths, checksum
  <2> QED  BY <1>1 DEF TextsFrom
<1> HIDE DEF paths, checksum, normalized, texts, prompts
<1>5. SystemFrom(checksum) = InOrder(paths, normalized)
  BY <1>1, <1>4 DEF SystemFrom
<1> QED  BY <1>2, <1>3, <1>5 DEF checksum, prompts

\* The configured parameters, from the digests of the facets of a model.
ParamsFrom(digests) == IF "params" \in DOMAIN digests THEN digests["params"].configured ELSE CanonicalTable(<<>>)

\* The parameters of a model are in its facet, or are none.
LEMMA ParamsFacetTells ==
    ASSUME NEW configured, NEW reported
    PROVE  LET facets == ParamsFacet(configured, reported)
           IN  /\ DOMAIN facets \subseteq {"params"}
               /\ "params" \in DOMAIN facets => facets["params"].digest.configured = CanonicalTable(configured)
               /\ "params" \notin DOMAIN facets => CanonicalTable(configured) = CanonicalTable(<<>>)
<1>1. CASE DOMAIN configured = {} /\ DOMAIN reported = {}
  <2>1. ParamsFacet(configured, reported) = <<>>
    BY <1>1 DEF ParamsFacet
  <2>2. CanonicalTable(configured) = CanonicalTable(<<>>)
    BY <1>1 DEF CanonicalTable
  <2> QED  BY <2>1, <2>2
<1>2. CASE ~(DOMAIN configured = {} /\ DOMAIN reported = {})
  <2> DEFINE facet == Facet([configured |-> CanonicalTable(configured), reported |-> reported],
                            Absent, [configured |-> configured, reported |-> reported])
  <2>1. ParamsFacet(configured, reported) = [params |-> facet]
    BY <1>2 DEF ParamsFacet
  <2>2. facet.digest.configured = CanonicalTable(configured)
    BY DEF Facet
  <2> HIDE DEF facet
  <2> QED  BY <2>1, <2>2
<1> QED  BY <1>1, <1>2

\* The digests of a model tell its id, where it is served or which model it is, and its parameters.
LEMMA ModelTells ==
    ASSUME NEW config, NEW described, ModelDependency(config, described) # Refused
    PROVE  LET digests == DepDigest(ModelDependency(config, described).facets)
           IN  /\ digests["identity"].id = config.id
               /\ config.provider \in {"ollama", "openai-compatible"}
               /\ config.provider = "openai-compatible" =>
                    digests["identity"].endpoint = CanonicalEndpoint(config.endpoint)
               /\ config.provider = "ollama" =>
                    described # Absent /\ digests["identity"].digest = described.digest
               /\ ParamsFrom(digests) = CanonicalTable(config.params)
<1> DEFINE facets == ModelDependency(config, described).facets
<1>1. CASE config.provider = "ollama"
  <2> DEFINE reported == IF described.parameters = Absent THEN <<>> ELSE ParseParameters(described.parameters)
             params == ParamsFacet(config.params, reported)
             identity == [provider |-> config.provider, id |-> config.id, digest |-> described.digest,
                          details |-> described.details]
             first == [identity |-> Facet(identity, Absent, identity)]
             second == ReportedFacets(described)
  <2>1. described # Absent /\ ModelDependency(config, described) = OllamaDependency(config, described)
    BY <1>1 DEF ModelDependency, OllamaDependency
  <2>2. facets = Overlay(Overlay(first, second), params)
    BY <1>1, <2>1 DEF ModelDependency, OllamaDependency, Dependency
  <2>3. DOMAIN second \subseteq {"template", "capabilities"}
    BY DEF ReportedFacets, Overlay
  <2>4. DOMAIN first = {"identity"} /\ first["identity"].digest.id = config.id
        /\ first["identity"].digest.digest = described.digest
    BY DEF Facet
  <2>5. /\ DOMAIN params \subseteq {"params"}
        /\ "params" \in DOMAIN params => params["params"].digest.configured = CanonicalTable(config.params)
        /\ "params" \notin DOMAIN params => CanonicalTable(config.params) = CanonicalTable(<<>>)
    BY ParamsFacetTells
  <2> HIDE DEF facets, params, first, second
  <2>6. /\ "identity" \in DOMAIN facets /\ facets["identity"] = first["identity"]
        /\ "params" \in DOMAIN facets <=> "params" \in DOMAIN params
        /\ "params" \in DOMAIN params => facets["params"] = params["params"]
    BY <2>2, <2>3, <2>4, <2>5 DEF Overlay
  <2>7. /\ DepDigest(facets)["identity"] = first["identity"].digest
        /\ "params" \in DOMAIN DepDigest(facets) <=> "params" \in DOMAIN params
        /\ "params" \in DOMAIN params => DepDigest(facets)["params"] = params["params"].digest
    BY <2>6 DEF DepDigest
  <2>8. ParamsFrom(DepDigest(facets)) = CanonicalTable(config.params)
    BY <2>5, <2>7 DEF ParamsFrom
  <2> QED  BY <1>1, <2>1, <2>4, <2>7, <2>8 DEF facets
<1>2. CASE config.provider = "openai-compatible"
  <2> DEFINE params == ParamsFacet(config.params, <<>>)
             identity == [provider |-> config.provider, id |-> config.id,
                          endpoint |-> CanonicalEndpoint(config.endpoint)]
             first == [identity |-> Facet(identity, Absent, identity)]
  <2>2. facets = Overlay(first, params)
    BY <1>2 DEF ModelDependency, CompatibleDependency, Dependency
  <2>4. DOMAIN first = {"identity"} /\ first["identity"].digest.id = config.id
        /\ first["identity"].digest.endpoint = CanonicalEndpoint(config.endpoint)
    BY DEF Facet
  <2>5. /\ DOMAIN params \subseteq {"params"}
        /\ "params" \in DOMAIN params => params["params"].digest.configured = CanonicalTable(config.params)
        /\ "params" \notin DOMAIN params => CanonicalTable(config.params) = CanonicalTable(<<>>)
    BY ParamsFacetTells
  <2> HIDE DEF facets, params, first
  <2>6. /\ "identity" \in DOMAIN facets /\ facets["identity"] = first["identity"]
        /\ "params" \in DOMAIN facets <=> "params" \in DOMAIN params
        /\ "params" \in DOMAIN params => facets["params"] = params["params"]
    BY <2>2, <2>4, <2>5 DEF Overlay
  <2>7. /\ DepDigest(facets)["identity"] = first["identity"].digest
        /\ "params" \in DOMAIN DepDigest(facets) <=> "params" \in DOMAIN params
        /\ "params" \in DOMAIN params => DepDigest(facets)["params"] = params["params"].digest
    BY <2>6 DEF DepDigest
  <2>8. ParamsFrom(DepDigest(facets)) = CanonicalTable(config.params)
    BY <2>5, <2>7 DEF ParamsFrom
  <2> QED  BY <1>2, <2>4, <2>7, <2>8 DEF facets
<1> QED  BY <1>1, <1>2 DEF ModelDependency

\* Parameters of one canonical form are sent in one canonical form.
LEMMA EffectiveTells ==
    ASSUME NEW p, NEW q, CanonicalTable(p) = CanonicalTable(q),
           EffectiveParams(p) # Refused, EffectiveParams(q) # Refused
    PROVE  CanonicalTable(EffectiveParams(p)) = CanonicalTable(EffectiveParams(q))
<1>1. DOMAIN p = DOMAIN q /\ \A key \in DOMAIN p : Canonical(p[key]) = Canonical(q[key])
  <2> DEFINE cp == [key \in DOMAIN p |-> Canonical(p[key])]
             cq == [key \in DOMAIN q |-> Canonical(q[key])]
  <2>1. cp = cq
    BY DEF CanonicalTable
  <2>2. DOMAIN cp = DOMAIN p /\ DOMAIN cq = DOMAIN q
    OBVIOUS
  <2>3. (\A key \in DOMAIN p : cp[key] = Canonical(p[key])) /\ (\A key \in DOMAIN q : cq[key] = Canonical(q[key]))
    OBVIOUS
  <2> HIDE DEF cp, cq
  <2> QED  BY <2>1, <2>2, <2>3
<1> DEFINE ep == [key \in DOMAIN p \union DOMAIN Defaults |-> IF key \in DOMAIN p THEN p[key] ELSE Defaults[key]]
           eq == [key \in DOMAIN q \union DOMAIN Defaults |-> IF key \in DOMAIN q THEN q[key] ELSE Defaults[key]]
<1>2. EffectiveParams(p) = ep /\ EffectiveParams(q) = eq
  BY DEF EffectiveParams, Overlay
<1>3. DOMAIN ep = DOMAIN eq /\ \A key \in DOMAIN ep : Canonical(ep[key]) = Canonical(eq[key])
  BY <1>1
<1> HIDE DEF ep, eq
<1>4. CanonicalTable(ep) = CanonicalTable(eq)
  BY <1>3 DEF CanonicalTable
<1> QED  BY <1>2, <1>4

\* A configured model is in the checksum under its id, with the digests of its facets; and what the
\* checksum has under the id of a model is the configured model.
LEMMA ModelIsChecksummed ==
    ASSUME NEW disk \in Projects, NEW described, Discovered(disk, described) # Refused
    PROVE  LET checksum == AgentChecksum(Discovered(disk, described))
               config == disk.config.model
           IN  /\ config # Absent => ModelDependency(config, described) # Refused /\ ModelId(config) \in DOMAIN checksum
               /\ \A id \in DOMAIN checksum : id[1] = "model" =>
                    /\ config # Absent /\ ModelDependency(config, described) # Refused
                    /\ id = ModelId(config) /\ id[2] = config.provider
                    /\ checksum[id] = DepDigest(ModelDependency(config, described).facets)
<1> DEFINE list == Discovered(disk, described)
           checksum == AgentChecksum(list)
           config == disk.config.model
           dep == ModelDependency(config, described)
<1>1. /\ VerifyUnique(list)
      /\ config # Absent => dep # Refused
      /\ config # Absent => \E k \in DOMAIN list : list[k] = dep
  BY Listed
<1>2. config # Absent => dep.id = ModelId(config) /\ dep.id[1] = "model" /\ dep.id[2] = config.provider
  BY <1>1, ModelIdIs
<1>3. /\ \A k \in DOMAIN list : list[k].id \in DOMAIN checksum /\ checksum[list[k].id] = DepDigest(list[k].facets)
      /\ \A id \in DOMAIN checksum : \E k \in DOMAIN list : list[k].id = id
  BY <1>1, Checksummed
<1>4. \A k \in DOMAIN list : list[k].id[1] = "model" => config # Absent /\ list[k] = dep
  BY KindOf DEF OfItsKind
<1> HIDE DEF list, checksum, config, dep
<1>5. config # Absent => ModelId(config) \in DOMAIN checksum
  BY <1>1, <1>2, <1>3
<1>6. ASSUME NEW id \in DOMAIN checksum, id[1] = "model"
      PROVE  config # Absent /\ dep # Refused /\ id = ModelId(config) /\ id[2] = config.provider
             /\ checksum[id] = DepDigest(dep.facets)
  <2>1. PICK k \in DOMAIN list : list[k].id = id
    BY <1>3
  <2>2. config # Absent /\ list[k] = dep
    BY <1>4, <1>6, <2>1
  <2> QED  BY <1>1, <1>2, <1>3, <2>1, <2>2
<1> QED  BY <1>1, <1>5, <1>6 DEF list, checksum, config, dep

\* What a client that could be made is made of.
LEMMA ClientParts ==
    ASSUME NEW config, NEW catalog, NEW system, Client(config, catalog, system) # Refused
    PROVE  LET client == Client(config, catalog, system)
           IN  /\ EndpointFor(config.endpoint) # Refused /\ EffectiveParams(config.params) # Refused
               /\ WireCatalog(catalog) # Refused
               /\ client.endpoint = EndpointFor(config.endpoint) /\ client.model_id = config.id
               /\ client.params = EffectiveParams(config.params) /\ client.tools = WireTools(catalog)
               /\ client.names = WireCatalog(catalog) /\ client.system = system
  BY DEF Client

\* Two endpoints that are one to the identity of a model are sampled at one URL.
LEMMA OneEndpoint ==
    ASSUME NEW u, NEW v, CanonicalEndpoint(u) = CanonicalEndpoint(v),
           EndpointFor(u) # Refused, EndpointFor(v) # Refused
    PROVE  EndpointFor(u) = EndpointFor(v)
<1>1. \A w : EndpointFor(w) # Refused =>
            EndpointFor(w) = [CanonicalEndpoint(w) EXCEPT !.path = "/v1/chat/completions"]
  BY DEF EndpointFor
<1> QED  BY <1>1

\* Clients of one checksum and one catalog ask the same: of the same model, behind the same endpoint
\* unless it is known by its digest, with the same system message, tools and parameters.
LEMMA SameClient ==
    ASSUME NEW disk \in Projects, NEW described, NEW override, Built(disk, described, override) # Refused,
           NEW other \in Projects, NEW seen, NEW repeat, Built(other, seen, repeat) # Refused,
           Built(disk, described, override).client # Refused, Built(other, seen, repeat).client # Refused,
           Built(disk, described, override).checksum = Built(other, seen, repeat).checksum,
           CatalogDigest(Built(disk, described, override).catalog) = CatalogDigest(Built(other, seen, repeat).catalog)
    PROVE  LET b == Built(disk, described, override)
               c == Built(other, seen, repeat)
           IN  /\ b.client.model_id = c.client.model_id
               /\ b.client.system = c.client.system
               /\ b.client.tools = c.client.tools
               /\ CanonicalTable(b.client.params) = CanonicalTable(c.client.params)
               /\ (\E id \in DOMAIN b.checksum : id[1] = "model" /\ id[2] = "openai-compatible") =>
                    b.client.endpoint = c.client.endpoint
<1> DEFINE b == Built(disk, described, override)
           c == Built(other, seen, repeat)
           checksum == AgentChecksum(Discovered(disk, described))
           config == disk.config.model
           model == other.config.model
           dep == ModelDependency(config, described)
           dip == ModelDependency(model, seen)
           system == SystemPrompt(disk.config.prompts, disk.files)
           words == SystemPrompt(other.config.prompts, other.files)
<1>1. /\ Discovered(disk, described) # Refused /\ b.checksum = checksum
      /\ b.client = IF config = Absent THEN Refused ELSE Client(config, b.catalog, system)
  <2> HIDE DEF config, system
  <2> QED  BY BuiltParts DEF config, system
<1>2. /\ Discovered(other, seen) # Refused /\ c.checksum = AgentChecksum(Discovered(other, seen))
      /\ c.client = IF model = Absent THEN Refused ELSE Client(model, c.catalog, words)
  BY BuiltParts
<1>3. checksum = AgentChecksum(Discovered(other, seen)) /\ CatalogDigest(b.catalog) = CatalogDigest(c.catalog)
      /\ b.client # Refused /\ c.client # Refused
  BY <1>1, <1>2
<1>4. system = SystemFrom(checksum)
  BY <1>1, SystemIsChecksummed
<1>5. words = SystemFrom(AgentChecksum(Discovered(other, seen)))
  BY <1>2, SystemIsChecksummed
<1>6. /\ config # Absent => dep # Refused /\ ModelId(config) \in DOMAIN checksum
      /\ \A id \in DOMAIN checksum : id[1] = "model" =>
            config # Absent /\ id = ModelId(config) /\ id[2] = config.provider /\ checksum[id] = DepDigest(dep.facets)
  BY <1>1, ModelIsChecksummed
<1>7. /\ model # Absent => dip # Refused
      /\ \A id \in DOMAIN AgentChecksum(Discovered(other, seen)) : id[1] = "model" =>
            id[2] = model.provider
            /\ AgentChecksum(Discovered(other, seen))[id] = DepDigest(dip.facets)
  BY <1>2, ModelIsChecksummed
<1>8. config # Absent => ModelId(config)[1] = "model"
  <2>1. config # Absent => dep.id = ModelId(config) /\ dep.id[1] = "model"
    BY <1>6, ModelIdIs
  <2> QED  BY <2>1
<1> HIDE DEF b, c, checksum, config, model, dep, dip, system, words
<1>9. /\ config # Absent /\ model # Absent /\ dep # Refused /\ dip # Refused
      /\ b.client = Client(config, b.catalog, system) /\ c.client = Client(model, c.catalog, words)
  BY <1>1, <1>2, <1>3, <1>6, <1>7
<1>10. DepDigest(dep.facets) = DepDigest(dip.facets) /\ config.provider = model.provider
  BY <1>3, <1>6, <1>7, <1>8, <1>9
<1>11. /\ DepDigest(dep.facets)["identity"].id = config.id
       /\ config.provider = "openai-compatible" =>
            DepDigest(dep.facets)["identity"].endpoint = CanonicalEndpoint(config.endpoint)
       /\ ParamsFrom(DepDigest(dep.facets)) = CanonicalTable(config.params)
  BY <1>9, ModelTells DEF dep
<1>12. /\ DepDigest(dip.facets)["identity"].id = model.id
       /\ model.provider = "openai-compatible" =>
            DepDigest(dip.facets)["identity"].endpoint = CanonicalEndpoint(model.endpoint)
       /\ ParamsFrom(DepDigest(dip.facets)) = CanonicalTable(model.params)
  BY <1>9, ModelTells DEF dip
<1>13. /\ EndpointFor(config.endpoint) # Refused /\ EffectiveParams(config.params) # Refused
       /\ b.client.endpoint = EndpointFor(config.endpoint) /\ b.client.model_id = config.id
       /\ b.client.params = EffectiveParams(config.params) /\ b.client.tools = WireTools(b.catalog)
       /\ b.client.system = system
  BY <1>3, <1>9, ClientParts
<1>14. /\ EndpointFor(model.endpoint) # Refused /\ EffectiveParams(model.params) # Refused
       /\ c.client.endpoint = EndpointFor(model.endpoint) /\ c.client.model_id = model.id
       /\ c.client.params = EffectiveParams(model.params) /\ c.client.tools = WireTools(c.catalog)
       /\ c.client.system = words
  BY <1>3, <1>9, ClientParts
<1>15. CanonicalTable(b.client.params) = CanonicalTable(c.client.params)
  <2>1. CanonicalTable(config.params) = CanonicalTable(model.params)
    BY <1>10, <1>11, <1>12
  <2> QED  BY <1>13, <1>14, <2>1, EffectiveTells
<1>16. (\E id \in DOMAIN b.checksum : id[1] = "model" /\ id[2] = "openai-compatible") =>
            b.client.endpoint = c.client.endpoint
  <2> SUFFICES ASSUME NEW id \in DOMAIN checksum, id[1] = "model", id[2] = "openai-compatible"
               PROVE  EndpointFor(config.endpoint) = EndpointFor(model.endpoint)
    BY <1>1, <1>13, <1>14
  <2>1. CanonicalEndpoint(config.endpoint) = CanonicalEndpoint(model.endpoint)
    BY <1>6, <1>10, <1>11, <1>12
  <2> QED  BY <1>13, <1>14, <2>1, OneEndpoint
<1>17. b.client.tools = c.client.tools
  BY <1>3, <1>13, <1>14 DEF CatalogDigest
<1>18. b.client.model_id = c.client.model_id /\ b.client.system = c.client.system
  BY <1>3, <1>4, <1>5, <1>10, <1>11, <1>12, <1>13, <1>14
<1> QED  BY <1>15, <1>16, <1>17, <1>18 DEF b, c

\* What is asked for a probe, from the client and the probe.
LEMMA SameRequests ==
    ASSUME NEW disk \in Projects, NEW described, NEW override, Built(disk, described, override) # Refused,
           NEW other \in Projects, NEW seen, NEW repeat, Built(other, seen, repeat) # Refused,
           Built(disk, described, override).client # Refused, Built(other, seen, repeat).client # Refused,
           Built(disk, described, override).checksum = Built(other, seen, repeat).checksum,
           CatalogDigest(Built(disk, described, override).catalog) = CatalogDigest(Built(other, seen, repeat).catalog),
           NEW i \in DOMAIN Built(disk, described, override).suite.probes,
           NEW j \in DOMAIN Built(other, seen, repeat).suite.probes,
           ProbeDigest(Built(disk, described, override).suite.probes[i])
             = ProbeDigest(Built(other, seen, repeat).suite.probes[j])
    PROVE  Asked(Built(disk, described, override))[i] = Asked(Built(other, seen, repeat))[j]
<1> DEFINE b == Built(disk, described, override)
           c == Built(other, seen, repeat)
           Remote(built) == \E id \in DOMAIN built.checksum : id[1] = "model" /\ id[2] = "openai-compatible"
           Request(built, k) ==
              [name |-> built.suite.probes[k].name, at |-> IF Remote(built) THEN built.client.endpoint ELSE Absent,
               body |-> [RequestBody(built.client, built.suite.probes[k].prompt) EXCEPT !.params = CanonicalTable(@)]]
<1>1. /\ b.client.model_id = c.client.model_id /\ b.client.system = c.client.system
      /\ b.client.tools = c.client.tools
      /\ CanonicalTable(b.client.params) = CanonicalTable(c.client.params)
      /\ Remote(b) => b.client.endpoint = c.client.endpoint
  BY SameClient
<1>2. b.suite.probes[i].name = c.suite.probes[j].name /\ b.suite.probes[i].prompt = c.suite.probes[j].prompt
  <2>1. \A probe : ProbeDigest(probe).name = probe.name /\ ProbeDigest(probe).prompt = probe.prompt
    BY DEF ProbeDigest, ProbeIdentity
  <2> QED  BY <2>1
<1>3. Remote(b) <=> Remote(c)
  OBVIOUS
<1> HIDE DEF b, c
<1>4. Asked(b)[i] = Request(b, i) /\ Asked(c)[j] = Request(c, j)
  BY DEF Asked, b, c
<1>5. (IF Remote(b) THEN b.client.endpoint ELSE Absent) = (IF Remote(c) THEN c.client.endpoint ELSE Absent)
  <2> HIDE DEF Remote
  <2> QED  BY <1>1, <1>3
<1>6. [RequestBody(b.client, b.suite.probes[i].prompt) EXCEPT !.params = CanonicalTable(@)]
        = [RequestBody(c.client, c.suite.probes[j].prompt) EXCEPT !.params = CanonicalTable(@)]
  <2> DEFINE Sent(client, prompt) ==
               [model |-> client.model_id, messages |-> <<client.system, prompt>>, tools |-> client.tools,
                params |-> CanonicalTable(client.params)]
  <2>1. ASSUME NEW client, NEW prompt
        PROVE  [RequestBody(client, prompt) EXCEPT !.params = CanonicalTable(@)] = Sent(client, prompt)
    BY DEF RequestBody
  <2>2. Sent(b.client, b.suite.probes[i].prompt) = Sent(c.client, c.suite.probes[j].prompt)
    <3> HIDE DEF Remote, Request
    <3> QED  BY <1>1, <1>2
  <2> HIDE DEF Remote, Request, Sent
  <2>3. [RequestBody(b.client, b.suite.probes[i].prompt) EXCEPT !.params = CanonicalTable(@)]
          = Sent(b.client, b.suite.probes[i].prompt)
    BY <2>1
  <2>4. [RequestBody(c.client, c.suite.probes[j].prompt) EXCEPT !.params = CanonicalTable(@)]
          = Sent(c.client, c.suite.probes[j].prompt)
    BY <2>1
  <2> QED  BY <2>2, <2>3, <2>4
<1>7. Request(b, i) = Request(c, j)
  <2> DEFINE at1 == IF Remote(b) THEN b.client.endpoint ELSE Absent
             at2 == IF Remote(c) THEN c.client.endpoint ELSE Absent
             body1 == [RequestBody(b.client, b.suite.probes[i].prompt) EXCEPT !.params = CanonicalTable(@)]
             body2 == [RequestBody(c.client, c.suite.probes[j].prompt) EXCEPT !.params = CanonicalTable(@)]
  <2>1. /\ Request(b, i) = [name |-> b.suite.probes[i].name, at |-> at1, body |-> body1]
        /\ Request(c, j) = [name |-> c.suite.probes[j].name, at |-> at2, body |-> body2]
    OBVIOUS
  <2>2. at1 = at2 /\ body1 = body2
    BY <1>5, <1>6
  <2> HIDE DEF Request, at1, at2, body1, body2
  <2> QED  BY <1>2, <2>1, <2>2
<1> QED  BY <1>4, <1>7 DEF b, c

------------------------------------------------------------------------------
(* A suite and the samples it asks for.                                       *)

\* A set of numbers up to a bound has a least and a greatest member.
LEMMA Bounded ==
    ASSUME NEW n \in Nat, NEW T \in SUBSET (1..n), T # {}
    PROVE  Min(T) \in T /\ Max(T) \in T /\ \A x \in T : Min(T) <= x /\ x <= Max(T)
<1>1. T \subseteq Nat
  OBVIOUS
<1>2. \E x \in T : \A y \in T : x <= y
  BY <1>1, LeastOf
<1> DEFINE U == {n - x : x \in T}
<1>3. U \subseteq Nat /\ U # {}
  <2>1. \A x \in T : n - x \in Nat
    OBVIOUS
  <2> QED  BY <2>1
<1>4. PICK u \in U : \A y \in U : u <= y
  BY <1>3, LeastOf
<1>5. PICK x \in T : u = n - x
  BY <1>4
<1>6. \A y \in T : n - x <= n - y
  BY <1>4, <1>5
<1>7. \A y \in T : y <= x
  BY <1>1, <1>6
<1>8. Min(T) \in T /\ \A y \in T : Min(T) <= y
  BY <1>2 DEF Min
<1>9. \E z \in T : \A y \in T : z >= y
  BY <1>1, <1>7
<1>10. Max(T) \in T /\ \A y \in T : Max(T) >= y
  BY <1>9 DEF Max
<1> QED  BY <1>1, <1>8, <1>10

\* The first of three repeats that says something, or 1, is at least 1.
LEMMA RepeatIsPositive ==
    ASSUME NEW a, NEW b, NEW c, CheckRepeat(a), CheckRepeat(b), CheckRepeat(c)
    PROVE  FirstOf(<<a, b, c>>, 1) \in Nat \ {0}
<1> DEFINE values == <<a, b, c>>
           said == {i \in DOMAIN values : values[i] # Absent}
<1>1. DOMAIN values = 1..3
  OBVIOUS
<1>2. \A i \in said : values[i] \in 1..MaxRepeat
  <2> TAKE i \in said
  <2>1. values[i] # Absent /\ (i = 1 \/ i = 2 \/ i = 3)
    OBVIOUS
  <2> QED  BY <2>1 DEF CheckRepeat
<1>3. said # {} => Min(said) \in said
  <2>1. said \in SUBSET (1..3)
    BY <1>1
  <2> HIDE DEF said
  <2> QED  BY <2>1, Bounded
<1>4. FirstOf(values, 1) = IF said = {} THEN 1 ELSE values[Min(said)]
  BY DEF FirstOf
<1> HIDE DEF values, said
<1>5. FirstOf(values, 1) = 1 \/ FirstOf(values, 1) \in 1..MaxRepeat
  BY <1>2, <1>3, <1>4
<1>6. \A x \in 1..MaxRepeat : x \in Nat \ {0}
  BY BehaviorAssumption
<1> QED  BY <1>5, <1>6 DEF values

\* The specs of a directory that can be loaded are a list.
LEMMA DeclaredIsSeq ==
    ASSUME NEW directory, ProbeFiles(directory) # Refused,
           \A name \in ToSet(ProbeFiles(directory)) : Readable(directory[name])
    PROVE  IsSeq(Declared(directory))
<1> DEFINE names == ProbeFiles(directory)
           lists == [i \in DOMAIN names |-> directory[names[i]].probes]
<1>1. PICK n \in Nat : names = [i \in 1..n |-> names[i]]
  <2> DEFINE files == {name \in DOMAIN directory : directory[name].is # "other"}
             Place(i) == CHOOSE name \in files : Cardinality({other \in files : other < name}) = i - 1
             pick == [i \in 1..Cardinality(files) |-> Place(i)]
  <2>1. Cardinality(files) \in 1..MaxFiles /\ names = pick
    BY DEF ProbeFiles
  <2>2. Cardinality(files) \in Nat
    BY <2>1, BehaviorAssumption
  <2>3. pick = [i \in 1..Cardinality(files) |-> pick[i]]
    <3> HIDE DEF Place, files
    <3> QED  OBVIOUS
  <2> HIDE DEF pick, files, names
  <2> QED  BY <2>1, <2>2, <2>3
<1>2. DOMAIN names = 1..n
  BY <1>1
<1>3. \A i \in 1..n : IsSeq(lists[i])
  <2> TAKE i \in 1..n
  <2>1. names[i] \in ToSet(names)
    BY <1>2 DEF ToSet
  <2>2. IsList(directory[names[i]].probes)
    BY <2>1 DEF Readable
  <2>3. lists[i] = directory[names[i]].probes
    BY <1>2
  <2> QED  BY <2>2, <2>3, ListIsSeq
<1>4. lists = [i \in 1..n |-> lists[i]]
  BY <1>2
<1>5. Declared(directory) = FlattenSeq(lists)
  BY DEF Declared
<1> HIDE DEF lists, names
<1>6. IsSeq(lists) /\ Len(lists) = n
  BY <1>4, FunctionIsSeq
<1> QED  BY <1>3, <1>5, <1>6, Flattening

\* A suite that loads: every probe of the files, resolved, and asked at least once.
LEMMA SuiteParts ==
    ASSUME NEW config, NEW directory, NEW schemas, NEW catalog, NEW override,
           LoadSuite(config, directory, schemas, catalog, override) # Refused
    PROVE  LET suite == LoadSuite(config, directory, schemas, catalog, override)
               specs == Declared(directory)
           IN  /\ IsSeq(suite.probes) /\ IsSeq(specs) /\ Len(suite.probes) = Len(specs)
               /\ suite.digest = SuiteDigest(suite.probes)
               /\ \A i \in 1..Len(specs) :
                    /\ suite.probes[i] = ResolvedProbe(specs[i], catalog, schemas, config.repeat, override)
                    /\ Resolved(suite.probes[i])
                    /\ suite.probes[i].repeat \in Nat \ {0}
               /\ IsInjective([i \in DOMAIN specs |-> specs[i].name])
<1> DEFINE suite == LoadSuite(config, directory, schemas, catalog, override)
           specs == Declared(directory)
           probes == ResolvedProbes(config, directory, schemas, catalog, override)
<1>1. /\ CheckRepeat(config.repeat) /\ CheckRepeat(override)
      /\ ProbeFiles(directory) # Refused
      /\ \A name \in ToSet(ProbeFiles(directory)) : Readable(directory[name])
      /\ \A i \in DOMAIN specs : Valid(specs[i])
      /\ IsInjective([i \in DOMAIN specs |-> specs[i].name])
      /\ \A i \in DOMAIN probes : Resolved(probes[i])
      /\ suite = [probes |-> probes, digest |-> SuiteDigest(probes)]
  BY DEF LoadSuite, Loadable
<1>2. IsSeq(specs)
  BY <1>1, DeclaredIsSeq
<1>3. Len(specs) \in Nat /\ DOMAIN specs = 1..Len(specs)
  BY <1>2 DEF IsSeq
<1>4. probes = [i \in 1..Len(specs) |-> probes[i]]
  BY <1>3 DEF ResolvedProbes
<1>5. \A i \in 1..Len(specs) : probes[i] = ResolvedProbe(specs[i], catalog, schemas, config.repeat, override)
  BY <1>3 DEF ResolvedProbes
<1>6. \A i \in 1..Len(specs) : probes[i].repeat \in Nat \ {0}
  <2> TAKE i \in 1..Len(specs)
  <2>1. probes[i].repeat = FirstOf(<<override, specs[i].repeat, config.repeat>>, 1)
    <3>1. \A spec : ResolvedProbe(spec, catalog, schemas, config.repeat, override).repeat
                      = FirstOf(<<override, spec.repeat, config.repeat>>, 1)
      BY DEF ResolvedProbe
    <3> HIDE DEF probes
    <3> QED  BY <1>5, <3>1
  <2>2. CheckRepeat(specs[i].repeat)
    BY <1>1, <1>3 DEF Valid
  <2> QED  BY <1>1, <2>1, <2>2, RepeatIsPositive
<1>7. \A i \in 1..Len(specs) : Resolved(probes[i])
  BY <1>1, <1>3, <1>4
<1> HIDE DEF suite, specs, probes
<1>8. IsSeq(probes) /\ Len(probes) = Len(specs)
  BY <1>3, <1>4, FunctionIsSeq
<1>9. suite.probes = probes /\ suite.digest = SuiteDigest(probes)
  BY <1>1
<1> QED  BY <1>1, <1>2, <1>5, <1>6, <1>7, <1>8, <1>9 DEF suite, specs

\* The samples a suite asks for are a list; every probe has a place in it.
LEMMA PlanPlaces ==
    ASSUME NEW suite, IsSeq(suite.probes), \A i \in 1..Len(suite.probes) : suite.probes[i].repeat \in Nat \ {0}
    PROVE  /\ IsSeq(Plan(suite))
           /\ \A i \in DOMAIN suite.probes : \E k \in DOMAIN Plan(suite) : Plan(suite)[k].probe = suite.probes[i]
           /\ \A k \in DOMAIN Plan(suite) : \E i \in DOMAIN suite.probes : Plan(suite)[k].probe = suite.probes[i]
<1> DEFINE probes == suite.probes
           Samples(i) == [j \in 1..probes[i].repeat |-> [probe |-> probes[i], index |-> j - 1]]
           lists == [i \in DOMAIN probes |-> Samples(i)]
           flat == FlattenSeq(lists)
<1>1. Len(probes) \in Nat /\ DOMAIN probes = 1..Len(probes)
  BY DEF IsSeq
<1>2. lists = [i \in 1..Len(probes) |-> lists[i]] /\ \A i \in 1..Len(probes) : lists[i] = Samples(i)
  BY <1>1
<1>3. \A i \in 1..Len(probes) : IsSeq(Samples(i)) /\ Len(Samples(i)) = probes[i].repeat
  <2> TAKE i \in 1..Len(probes)
  <2>1. probes[i].repeat \in Nat /\ Samples(i) = [j \in 1..probes[i].repeat |-> Samples(i)[j]]
    OBVIOUS
  <2> HIDE DEF Samples
  <2> QED  BY <2>1, FunctionIsSeq
<1>4. Plan(suite) = flat
  BY DEF Plan
<1>5. \A i \in 1..Len(probes) : \A j \in 1..probes[i].repeat : Samples(i)[j].probe = probes[i]
  OBVIOUS
<1>6. \A i \in 1..Len(probes) : 1 \in 1..probes[i].repeat
  OBVIOUS
<1> HIDE DEF Samples, lists, flat
<1>7. IsSeq(lists) /\ Len(lists) = Len(probes)
  BY <1>1, <1>2, FunctionIsSeq
<1>8. IsSeq(flat) /\ \E off : PlacedAt(lists, flat, off)
  <2>1. \A i \in 1..Len(lists) : IsSeq(lists[i])
    BY <1>2, <1>3, <1>7
  <2> QED  BY <1>7, <2>1, Flattening DEF flat
<1>9. PICK off : PlacedAt(lists, flat, off)
  BY <1>8
<1>10. DOMAIN flat = 1..Len(flat)
  BY <1>8 DEF IsSeq
<1>11. \A i \in 1..Len(probes) : \A j \in 1..probes[i].repeat :
          off[i - 1] + j \in DOMAIN flat /\ flat[off[i - 1] + j].probe = probes[i]
  <2> TAKE i \in 1..Len(probes)
  <2> TAKE j \in 1..probes[i].repeat
  <2>1. i \in 1..Len(lists) /\ j \in 1..Len(lists[i])
    BY <1>2, <1>3, <1>7
  <2> DEFINE k == off[i - 1] + j
  <2>2. k \in 1..Len(flat) /\ flat[k] = lists[i][j]
    BY <1>9, <2>1 DEF PlacedAt
  <2> HIDE DEF k
  <2>3. lists[i][j].probe = probes[i]
    BY <1>2, <1>5
  <2> QED  BY <1>10, <2>2, <2>3 DEF k
<1>12. \A k \in DOMAIN flat : \E i \in 1..Len(probes) : flat[k].probe = probes[i]
  <2> TAKE k \in DOMAIN flat
  <2>1. PICK i \in 1..Len(lists) : \E j \in 1..Len(lists[i]) : k = off[i - 1] + j
    BY <1>9, <1>10 DEF PlacedAt
  <2>2. PICK j \in 1..Len(lists[i]) : k = off[i - 1] + j
    BY <2>1
  <2>3. i \in 1..Len(probes) /\ j \in 1..probes[i].repeat
    BY <1>2, <1>3, <1>7, <2>1, <2>2
  <2> QED  BY <1>11, <2>2, <2>3
<1>13. \A i \in 1..Len(probes) : \E k \in DOMAIN flat : flat[k].probe = probes[i]
  BY <1>6, <1>11
<1> QED  BY <1>1, <1>4, <1>8, <1>12, <1>13

------------------------------------------------------------------------------
(* The invariant: where what a run has made, what it recorded and what it     *)
(* concluded come from.                                                       *)

RunFields == {"stage", "override", "replay", "entry", "described", "seen", "built", "answers", "verdict"}
TraceFields == {"trace_version", "probe", "probe_digest", "agent_checksum", "captured_with", "samples"}
ArtifactFields == {"run_version", "agent_checksum", "probe_suite_digest", "captured_with", "traces",
                   "probes", "metrics"}

\* Answers as they are read: what a call and a sample are made of.
IsCall(call) ==
    call = [name |-> call.name, tool_id |-> call.tool_id, arguments |-> call.arguments, unparsed |-> call.unparsed]

IsSample(sample) ==
    /\ sample = [index |-> sample.index, final_text |-> sample.final_text, tool_calls |-> sample.tool_calls]
    /\ IsSeq(sample.tool_calls) /\ \A j \in 1..Len(sample.tool_calls) : IsCall(sample.tool_calls[j])

AreSamples(samples) == IsSeq(samples) /\ \A j \in 1..Len(samples) : IsSample(samples[j])

IsLocal(disk) == disk.config.model # Absent /\ disk.config.model.provider = "ollama"

\* What a run made of a project while the models in `seen` were served: the digest of the description
\* is that of one of them.
Made(built, disk, seen) ==
    \E described, override :
        /\ built = Built(disk, described, override) /\ built # Refused
        /\ IsLocal(disk) => \E m \in seen : described.digest = m.digest

\* The models that were served while a run was going on.
SeenIsServed(seen) == IsFiniteSet(seen) /\ seen \subseteq Models \union Installed

RunIsMade ==
    /\ DOMAIN run = RunFields
    /\ SeenIsServed(run.seen) /\ AreSamples(run.answers)
    /\ run.stage # "over" => served \in run.seen /\ run.verdict = Absent
    /\ run.stage = "show" => run.entry \in run.seen
    /\ run.stage = "assemble" /\ IsLocal(project) => \E m \in run.seen : run.described.digest = m.digest
    /\ run.stage = "assembled" \/ run.built # Absent \/ run.verdict \notin {Absent, Refused} =>
        Made(run.built, project, run.seen)
    /\ run.stage = "assembled" /\ ~run.replay => run.built.client # Refused

\* A trace is of the agent, the catalog and one probe of the suite that it was captured with.
TraceIsOf(trace, built) ==
    /\ trace = [field \in TraceFields |-> trace[field]]
    /\ trace.agent_checksum = built.checksum
    /\ trace.captured_with.tool_catalog_digest = CatalogDigest(built.catalog)
    /\ \E j \in DOMAIN built.suite.probes : trace.probe_digest = ProbeDigest(built.suite.probes[j])

\* Its samples are in their places.
TraceIsSampled(trace) == AreSamples(trace.samples) /\ \A j \in 1..Len(trace.samples) : trace.samples[j].index = j - 1

TracesIn(file) ==
    IF file.shape = "run" THEN {file.document.traces[i] : i \in DOMAIN file.document.traces} ELSE {file.document}

EvidenceIsMade ==
    evidence # Absent =>
        /\ DOMAIN evidence = {"file", "touched", "built", "seen", "of"}
        /\ evidence.of \in Projects /\ SeenIsServed(evidence.seen)
        /\ Made(evidence.built, evidence.of, evidence.seen) /\ evidence.built.client # Refused
        /\ DOMAIN evidence.file = {"name", "shape", "document"} /\ evidence.file.shape \in {"run", "trace"}
        /\ evidence.file.shape = "run" =>
            /\ DOMAIN evidence.file.document = ArtifactFields /\ 1 \in DOMAIN evidence.file.document.traces
            /\ DOMAIN evidence.file.document.traces = DOMAIN evidence.built.suite.probes
            /\ ~evidence.touched => evidence.file.name = Address(evidence.file.document)
            /\ evidence.touched => evidence.file.name # Address(RereadArtifact(evidence.file.document))
        /\ \A trace \in TracesIn(evidence.file) : TraceIsOf(trace, evidence.built) /\ TraceIsSampled(trace)

\* What the traces of a replay are, and what a verdict is of.
Usable(built, file) ==
    RecordedTraces(file, built.suite, Context(built.checksum, built.suite, built.catalog, Version))

VerdictIsDerived ==
    run.stage = "over" /\ run.verdict \notin {Absent, Refused} =>
        /\ run.replay =>
            /\ evidence # Absent /\ Usable(run.built, evidence.file) # Refused
            /\ run.verdict = Verdict(run.built, Usable(run.built, evidence.file))
        /\ ~run.replay =>
            /\ run.built.client # Refused /\ Len(run.answers) = Len(Plan(run.built.suite))
            /\ run.verdict = Verdict(run.built, Traces(run.built, run.answers))
            /\ NewArtifact(run.built.checksum, run.built.suite, Traces(run.built, run.answers), run.verdict) # Refused

BehaviorInv ==
    /\ project \in Projects /\ served \in Models \union Installed
    /\ run.replay => evidence # Absent
    /\ RunIsMade /\ EvidenceIsMade /\ VerdictIsDerived

\* The run before the first one, and one that failed.
LEMMA IdleIsMade == DOMAIN Idle = RunFields /\ DOMAIN Failed = RunFields
                    /\ Idle.stage = "over" /\ Idle.built = Absent /\ Idle.verdict = Absent /\ Idle.seen = {}
                    /\ Idle.replay = FALSE /\ Idle.answers = <<>>
                    /\ Failed.stage = "over" /\ Failed.built = Absent /\ Failed.verdict = Refused /\ Failed.seen = {}
                    /\ Failed.replay = FALSE /\ Failed.answers = <<>>
  BY DEF Idle, Failed, RunFields

\* No answers, and no models seen.
LEMMA NothingSampled == AreSamples(<<>>) /\ SeenIsServed({})
<1>1. IsSeq(<<>>) /\ Len(<<>>) = 0
  BY Single
<1>2. \A j \in 1..0 : FALSE
  OBVIOUS
<1> QED  BY <1>1, <1>2, FS_EmptySet DEF AreSamples, SeenIsServed

\* A run that is over and made nothing.
LEMMA NothingMade ==
    ASSUME run' \in {Idle, Failed}
    PROVE  RunIsMade' /\ VerdictIsDerived' /\ run'.replay = FALSE
<1>1. /\ DOMAIN run' = RunFields /\ run'.stage = "over" /\ run'.built = Absent /\ run'.answers = <<>>
      /\ run'.verdict \in {Absent, Refused} /\ run'.seen = {} /\ run'.replay = FALSE
  BY IdleIsMade
<1> QED  BY <1>1, NothingSampled DEF RunIsMade, VerdictIsDerived

\* The invariant holds at first.
LEMMA InitMakesNothing == Init => BehaviorInv
<1> SUFFICES ASSUME Init PROVE BehaviorInv
  OBVIOUS
<1>1. DOMAIN run = RunFields /\ run.stage = "over" /\ run.built = Absent /\ run.verdict = Absent
      /\ run.seen = {} /\ run.replay = FALSE /\ run.answers = <<>>
  BY IdleIsMade DEF Init
<1>3. RunIsMade /\ VerdictIsDerived
  BY <1>1, NothingSampled DEF RunIsMade, VerdictIsDerived
<1> QED  BY <1>1, <1>3 DEF Init, BehaviorInv, EvidenceIsMade

\* The traces of a capture are of what they were captured with.
LEMMA CapturedTraces ==
    ASSUME NEW built, NEW answers, NEW i \in DOMAIN Traces(built, answers)
    PROVE  /\ DOMAIN Traces(built, answers) = DOMAIN built.suite.probes
           /\ TraceIsOf(Traces(built, answers)[i], built)
<1>1. DOMAIN Traces(built, answers) = DOMAIN built.suite.probes
  BY DEF Traces
<1>2. /\ Traces(built, answers)[i] = [field \in TraceFields |-> Traces(built, answers)[i][field]]
      /\ Traces(built, answers)[i].agent_checksum = built.checksum
      /\ Traces(built, answers)[i].captured_with = CapturedWith(built.client, Version, built.catalog)
      /\ Traces(built, answers)[i].probe_digest = ProbeDigest(built.suite.probes[i])
  BY <1>1 DEF Traces, TraceFields
<1>3. CapturedWith(built.client, Version, built.catalog).tool_catalog_digest = CatalogDigest(built.catalog)
  BY DEF CapturedWith
<1> QED  BY <1>1, <1>2, <1>3 DEF TraceIsOf

\* A trace that is edited by hand keeps its head.
LEMMA RetoldHeads ==
    ASSUME NEW built, NEW trace, TraceIsOf(trace, built), NEW told \in Retold(trace)
    PROVE  TraceIsOf(told, built) /\ \E samples : told = [trace EXCEPT !.samples = samples]
<1>1. PICK samples : told = [trace EXCEPT !.samples = samples]
  BY DEF Retold, WithoutLast, Silent, Claiming
<1>2. /\ told = [field \in TraceFields |-> told[field]]
      /\ \A field \in TraceFields \ {"samples"} : told[field] = trace[field]
  <2>1. trace = [field \in TraceFields |-> trace[field]]
    BY DEF TraceIsOf
  <2>2. told = [field \in TraceFields |-> IF field = "samples" THEN samples ELSE trace[field]]
    BY <1>1, <2>1
  <2> QED  BY <2>2
<1>3. {"agent_checksum", "captured_with", "probe_digest"} \subseteq TraceFields \ {"samples"}
  BY DEF TraceFields
<1> QED  BY <1>1, <1>2, <1>3 DEF TraceIsOf

\* A run that begins has made nothing and has seen the model that is served.
LEMMA BeginKeeps ==
    ASSUME BehaviorInv, NEW override, NEW replay \in BOOLEAN, Begin(override, replay)
    PROVE  BehaviorInv'
<1>1. /\ DOMAIN run' = RunFields /\ run'.stage = (IF IsLocal(project) THEN "tags" ELSE "assemble")
      /\ run'.seen = {served} /\ run'.built = Absent /\ run'.replay = replay /\ run'.verdict = Absent
      /\ run'.answers = <<>>
  <2>1. run' = [Idle EXCEPT !.stage = IF IsLocal(project) THEN "tags" ELSE "assemble",
                            !.override = override, !.replay = replay, !.seen = {served}]
    BY DEF Begin, Local, IsLocal
  <2> QED  BY <2>1, IdleIsMade DEF RunFields
<1>2. UNCHANGED <<project, served>> /\ evidence' \in {Absent, evidence} /\ (replay => evidence' # Absent)
  BY DEF Begin
<1>3. SeenIsServed({served})
  BY FS_Singleton DEF BehaviorInv, SeenIsServed
<1>4. RunIsMade'
  BY <1>1, <1>2, <1>3, NothingSampled DEF RunIsMade, IsLocal
<1>5. EvidenceIsMade'
  BY <1>2 DEF EvidenceIsMade, BehaviorInv
<1>6. VerdictIsDerived'
  BY <1>1 DEF VerdictIsDerived
<1> QED  BY <1>1, <1>2, <1>4, <1>5, <1>6 DEF BehaviorInv

\* What the endpoint reports is of a model that was served during the run.
LEMMA EntryIsServed ==
    ASSUME NEW model, NEW id, TagEntry(<<model>>, id) # Absent
    PROVE  TagEntry(<<model>>, id) = model
<1> DEFINE tags == <<model>>
           named == {i \in DOMAIN tags :
                       \/ id \in {tags[i].name, tags[i].model}
                       \/ id.tag = Absent /\ tags[i].name = [id EXCEPT !.tag = "latest"]}
<1>1. TagEntry(tags, id) = tags[Min(named)] /\ named # {}
  BY DEF TagEntry
<1>2. DOMAIN tags = {1} /\ tags[1] = model
  OBVIOUS
<1>3. named = {1}
  BY <1>1, <1>2
<1>4. Min({1}) = 1
  BY DEF Min
<1> QED  BY <1>1, <1>2, <1>3, <1>4

\* The entry of the model is that of one that was served.
LEMMA ReadTagsKeeps == BehaviorInv /\ ReadTags => BehaviorInv'
<1> SUFFICES ASSUME BehaviorInv, ReadTags PROVE BehaviorInv'
  OBVIOUS
<1> DEFINE entry == TagEntry(<<served>>, project.config.model.id)
<1>1. UNCHANGED <<project, served, evidence>> /\ run.stage = "tags"
      /\ run' = IF entry = Absent THEN Failed ELSE [run EXCEPT !.stage = "show", !.entry = entry]
  BY DEF ReadTags
<1>2. EvidenceIsMade'
  BY <1>1 DEF EvidenceIsMade, BehaviorInv
<1>3. CASE entry = Absent
  <2>1. RunIsMade' /\ VerdictIsDerived' /\ run'.replay = FALSE
    BY <1>1, <1>3, NothingMade
  <2> QED  BY <1>1, <1>2, <2>1 DEF BehaviorInv
<1>4. CASE entry # Absent
  <2>1. entry = served
    BY <1>4, EntryIsServed
  <2>2. /\ DOMAIN run' = RunFields /\ run'.stage = "show" /\ run'.entry = served /\ run'.seen = run.seen
        /\ run'.built = run.built /\ run'.replay = run.replay /\ run'.verdict = run.verdict /\ run'.answers = run.answers
    <3> HIDE DEF entry
    <3> QED  BY <1>1, <1>4, <2>1 DEF BehaviorInv, RunIsMade, RunFields
  <2>3. RunIsMade'
    BY <1>1, <2>2 DEF BehaviorInv, RunIsMade
  <2>4. VerdictIsDerived'
    BY <2>2 DEF VerdictIsDerived
  <2> QED  BY <1>1, <1>2, <2>2, <2>3, <2>4 DEF BehaviorInv
<1> QED  BY <1>3, <1>4

\* The description has the digest of a model that was seen, even if another is served by now.
LEMMA ReadShowKeeps == BehaviorInv /\ ReadShow => BehaviorInv'
<1> SUFFICES ASSUME BehaviorInv, ReadShow PROVE BehaviorInv'
  OBVIOUS
<1> DEFINE described == [served EXCEPT !.digest = run.entry.digest, !.details = run.entry.details]
<1>1. UNCHANGED <<project, served, evidence>> /\ run.stage = "show"
      /\ run' = [run EXCEPT !.stage = "assemble", !.described = described, !.entry = Absent]
  BY DEF ReadShow
<1>2. run.entry \in run.seen /\ served \in Models \union Installed
  BY <1>1 DEF BehaviorInv, RunIsMade
<1>3. described.digest = run.entry.digest
  <2>1. "digest" \in DOMAIN served
    BY <1>2, BehaviorAssumption
  <2> QED  BY <2>1
<1> HIDE DEF described
<1>4. /\ DOMAIN run' = RunFields /\ run'.stage = "assemble" /\ run'.described = described /\ run'.seen = run.seen
      /\ run'.built = run.built /\ run'.replay = run.replay /\ run'.verdict = run.verdict /\ run'.answers = run.answers
  BY <1>1 DEF BehaviorInv, RunIsMade, RunFields
<1>5. RunIsMade'
  BY <1>1, <1>2, <1>3, <1>4 DEF BehaviorInv, RunIsMade
<1>6. EvidenceIsMade' /\ VerdictIsDerived'
  BY <1>1, <1>4 DEF EvidenceIsMade, VerdictIsDerived, BehaviorInv
<1> QED  BY <1>1, <1>4, <1>5, <1>6 DEF BehaviorInv

\* A request that fails ends the run.
LEMMA RequestFailsKeeps == BehaviorInv /\ RequestFails => BehaviorInv'
<1> SUFFICES ASSUME BehaviorInv, RequestFails PROVE BehaviorInv'
  OBVIOUS
<1>1. UNCHANGED <<project, served, evidence>> /\ run' = Failed
  BY DEF RequestFails
<1>2. RunIsMade' /\ VerdictIsDerived' /\ run'.replay = FALSE
  BY <1>1, NothingMade
<1>3. EvidenceIsMade'
  BY <1>1 DEF EvidenceIsMade, BehaviorInv
<1> QED  BY <1>1, <1>2, <1>3 DEF BehaviorInv

\* What is assembled is made of the project and of that description.
LEMMA AssembleKeeps == BehaviorInv /\ Assemble => BehaviorInv'
<1> SUFFICES ASSUME BehaviorInv, Assemble PROVE BehaviorInv'
  OBVIOUS
<1> DEFINE built == Built(project, run.described, run.override)
<1>1. UNCHANGED <<project, served, evidence>> /\ run.stage = "assemble"
      /\ run' = IF built = Refused \/ (~run.replay /\ built.client = Refused) THEN Failed
                ELSE [run EXCEPT !.stage = "assembled", !.described = Absent, !.built = built]
  BY DEF Assemble
<1>2. EvidenceIsMade'
  BY <1>1 DEF EvidenceIsMade, BehaviorInv
<1>3. CASE built = Refused \/ (~run.replay /\ built.client = Refused)
  <2>1. RunIsMade' /\ VerdictIsDerived' /\ run'.replay = FALSE
    BY <1>1, <1>3, NothingMade
  <2> QED  BY <1>1, <1>2, <2>1 DEF BehaviorInv
<1>4. CASE ~(built = Refused \/ (~run.replay /\ built.client = Refused))
  <2>1. Made(built, project, run.seen)
    BY <1>1, <1>4 DEF BehaviorInv, RunIsMade, Made
  <2> HIDE DEF built
  <2>2. /\ DOMAIN run' = RunFields /\ run'.stage = "assembled" /\ run'.built = built /\ run'.seen = run.seen
        /\ run'.replay = run.replay /\ run'.verdict = run.verdict /\ run'.answers = run.answers
    BY <1>1, <1>4 DEF BehaviorInv, RunIsMade, RunFields
  <2>3. RunIsMade'
    BY <1>1, <1>4, <2>1, <2>2 DEF BehaviorInv, RunIsMade
  <2>4. VerdictIsDerived'
    BY <2>2 DEF VerdictIsDerived
  <2> QED  BY <1>1, <1>2, <2>2, <2>3, <2>4 DEF BehaviorInv
<1> QED  BY <1>3, <1>4

\* What is read of an answer is a sample under its index.
LEMMA ReadIsSample ==
    ASSUME NEW index, NEW response \in Responses, NEW names, ReadSample(index, response, names) # Refused
    PROVE  IsSample(ReadSample(index, response, names))
<1> DEFINE choice == response.body[1]
           calls == [i \in DOMAIN choice.tool_calls |-> ReadToolCall(choice.tool_calls[i], names)]
           text == IF choice.content = Null THEN Absent ELSE choice.content
           sample == [index |-> index, final_text |-> text, tool_calls |-> calls]
<1>1. /\ response.delivered /\ response.status = "success" /\ response.body # Refused /\ Len(response.body) = 1
      /\ ReadSample(index, response, names) = sample
  BY DEF ReadSample
<1>2. 1 \in DOMAIN response.body => IsList(choice.tool_calls)
  BY <1>1, BehaviorAssumption
<1>3. IsSeq(choice.tool_calls)
  <2>1. IsSeq(response.body)
    BY <1>1, BehaviorAssumption, ListIsSeq
  <2>2. 1 \in DOMAIN response.body
    BY <1>1, <2>1 DEF IsSeq
  <2> QED  BY <1>2, <2>2, ListIsSeq
<1>4. Len(choice.tool_calls) \in Nat /\ DOMAIN choice.tool_calls = 1..Len(choice.tool_calls)
  BY <1>3 DEF IsSeq
<1>5. calls = [i \in 1..Len(choice.tool_calls) |-> calls[i]]
  BY <1>4
<1>6. \A i \in 1..Len(choice.tool_calls) : IsCall(calls[i])
  <2> TAKE i \in 1..Len(choice.tool_calls)
  <2>1. \A call : IsCall(ReadToolCall(call, names))
    BY DEF ReadToolCall, IsCall
  <2>2. calls[i] = ReadToolCall(choice.tool_calls[i], names)
    BY <1>4
  <2> QED  BY <2>1, <2>2
<1> HIDE DEF calls, text, choice
<1>7. IsSeq(calls) /\ Len(calls) = Len(choice.tool_calls)
  BY <1>4, <1>5, FunctionIsSeq
<1>8. sample.index = index /\ sample.final_text = text /\ sample.tool_calls = calls
  OBVIOUS
<1> QED  BY <1>1, <1>6, <1>7, <1>8 DEF IsSample

\* An answer that is read is a sample.
LEMMA AskKeeps ==
    ASSUME BehaviorInv, NEW response \in Responses, Ask(response)
    PROVE  BehaviorInv'
<1> DEFINE sample == ReadSample(Plan(run.built.suite)[Len(run.answers) + 1].index, response, run.built.client.names)
<1>1. UNCHANGED <<project, served, evidence>> /\ run.stage = "assembled"
      /\ run' = IF sample = Refused THEN Failed ELSE [run EXCEPT !.answers = Append(@, sample)]
  BY DEF Ask
<1>2. EvidenceIsMade'
  BY <1>1 DEF EvidenceIsMade, BehaviorInv
<1>3. CASE sample = Refused
  <2>1. RunIsMade' /\ VerdictIsDerived' /\ run'.replay = FALSE
    BY <1>1, <1>3, NothingMade
  <2> QED  BY <1>1, <1>2, <2>1 DEF BehaviorInv
<1>4. CASE sample # Refused
  <2>1. IsSample(sample)
    BY <1>4, ReadIsSample
  <2> HIDE DEF sample
  <2>2. AreSamples(run.answers)
    BY DEF BehaviorInv, RunIsMade
  <2>3. AreSamples(Append(run.answers, sample))
    <3> DEFINE n == Len(run.answers)
               S == {run.answers[i] : i \in 1..n} \union {sample}
               more == Append(run.answers, sample)
    <3>1. IsSeq(run.answers) /\ n \in Nat
      BY <2>2 DEF AreSamples, IsSeq
    <3>2. run.answers \in Seq(S)
      BY <3>1, SeqOver
    <3>3. more \in Seq(S) /\ Len(more) = n + 1 /\ (\A i \in 1..n : more[i] = run.answers[i]) /\ more[n + 1] = sample
      BY <3>2, AppendProperties
    <3>4. \A i \in 1..n : IsSample(run.answers[i])
      BY <2>2 DEF AreSamples
    <3> HIDE DEF n, more, S
    <3>5. \A i \in 1..n + 1 : IsSample(more[i])
      BY <2>1, <3>1, <3>3, <3>4
    <3> QED  BY <3>3, <3>5, SeqIsSeq DEF AreSamples, more
  <2>4. /\ DOMAIN run' = RunFields /\ run'.stage = "assembled" /\ run'.built = run.built /\ run'.seen = run.seen
        /\ run'.replay = run.replay /\ run'.verdict = run.verdict /\ run'.answers = Append(run.answers, sample)
    BY <1>1, <1>4 DEF BehaviorInv, RunIsMade, RunFields
  <2>5. RunIsMade'
    BY <1>1, <2>3, <2>4 DEF BehaviorInv, RunIsMade
  <2>6. VerdictIsDerived'
    BY <2>4 DEF VerdictIsDerived
  <2> QED  BY <1>1, <1>2, <2>4, <2>5, <2>6 DEF BehaviorInv
<1> QED  BY <1>3, <1>4

\* An edit takes place between two runs: what was made is gone.
LEMMA EditKeeps ==
    ASSUME BehaviorInv, NEW next \in Projects, Edit(next)
    PROVE  BehaviorInv'
<1>1. UNCHANGED <<served, evidence>> /\ project' = next /\ run' = Idle
  BY DEF Edit
<1>2. RunIsMade' /\ VerdictIsDerived' /\ run'.replay = FALSE
  BY <1>1, NothingMade
<1>3. EvidenceIsMade'
  BY <1>1 DEF EvidenceIsMade, BehaviorInv
<1> QED  BY <1>1, <1>2, <1>3 DEF BehaviorInv

\* A model that replaces another is seen by the run that goes on.
LEMMA ReplaceKeeps ==
    ASSUME BehaviorInv, NEW model \in Models, Replace(model)
    PROVE  BehaviorInv'
<1>1. UNCHANGED <<project, evidence>> /\ served' = model
      /\ run' = IF run.stage = "over" THEN Idle ELSE [run EXCEPT !.seen = @ \union {model}]
  BY DEF Replace
<1>2. EvidenceIsMade'
  BY <1>1 DEF EvidenceIsMade, BehaviorInv
<1>3. CASE run.stage = "over"
  <2>1. RunIsMade' /\ VerdictIsDerived' /\ run'.replay = FALSE
    BY <1>1, <1>3, NothingMade
  <2> QED  BY <1>1, <1>2, <2>1 DEF BehaviorInv
<1>4. CASE run.stage # "over"
  <2>1. /\ DOMAIN run' = RunFields /\ run'.stage = run.stage /\ run'.built = run.built
        /\ run'.seen = run.seen \union {model} /\ run'.entry = run.entry /\ run'.described = run.described
        /\ run'.replay = run.replay /\ run'.verdict = run.verdict /\ run'.answers = run.answers
    BY <1>1, <1>4 DEF BehaviorInv, RunIsMade, RunFields
  <2>2. SeenIsServed(run.seen \union {model})
    BY FS_AddElement DEF BehaviorInv, RunIsMade, SeenIsServed
  <2>3. Made(run.built, project, run.seen) => Made(run.built, project, run.seen \union {model})
    BY DEF Made
  <2>4. RunIsMade'
    BY <1>1, <1>4, <2>1, <2>2, <2>3 DEF BehaviorInv, RunIsMade
  <2>5. VerdictIsDerived'
    BY <1>4, <2>1 DEF VerdictIsDerived
  <2> QED  BY <1>1, <1>2, <2>1, <2>4, <2>5 DEF BehaviorInv
<1> QED  BY <1>3, <1>4

\* A step of nothing keeps the invariant.
LEMMA StutteringKeeps == BehaviorInv /\ UNCHANGED vars => BehaviorInv'
  BY DEF BehaviorInv, vars, RunIsMade, EvidenceIsMade, VerdictIsDerived

------------------------------------------------------------------------------
(* Traces that are read, hashed and edited.                                   *)

\* Samples whose calls are replaced, sample by sample.
WithCalls(samples, calls) == [i \in DOMAIN samples |-> [samples[i] EXCEPT !.tool_calls = calls[i]]]

AreCalls(calls) == IsSeq(calls) /\ \A j \in 1..Len(calls) : IsCall(calls[j])

\* Samples whose calls are replaced keep their places, their indices and their texts.
LEMMA Recalled ==
    ASSUME NEW samples, AreSamples(samples), NEW calls, \A i \in 1..Len(samples) : AreCalls(calls[i])
    PROVE  LET other == WithCalls(samples, calls)
           IN  /\ AreSamples(other) /\ Len(other) = Len(samples) /\ Len(samples) \in Nat
               /\ DOMAIN other = 1..Len(samples) /\ DOMAIN samples = 1..Len(samples)
               /\ \A i \in 1..Len(samples) :
                    /\ other[i].index = samples[i].index /\ other[i].final_text = samples[i].final_text
                    /\ other[i].tool_calls = calls[i]
<1> DEFINE n == Len(samples)
           other == WithCalls(samples, calls)
<1>1. n \in Nat /\ DOMAIN samples = 1..n
  BY DEF AreSamples, IsSeq
<1>2. other = [i \in 1..n |-> other[i]] /\ \A i \in 1..n : other[i] = [samples[i] EXCEPT !.tool_calls = calls[i]]
  BY <1>1 DEF WithCalls
<1>3. \A i \in 1..n :
        /\ other[i] = [index |-> samples[i].index, final_text |-> samples[i].final_text, tool_calls |-> calls[i]]
        /\ other[i].index = samples[i].index /\ other[i].final_text = samples[i].final_text
        /\ other[i].tool_calls = calls[i]
  <2> TAKE i \in 1..n
  <2>1. samples[i] = [index |-> samples[i].index, final_text |-> samples[i].final_text,
                      tool_calls |-> samples[i].tool_calls]
    BY DEF AreSamples, IsSample
  <2>2. [samples[i] EXCEPT !.tool_calls = calls[i]]
          = [index |-> samples[i].index, final_text |-> samples[i].final_text, tool_calls |-> calls[i]]
    BY <2>1
  <2> HIDE DEF other
  <2> QED  BY <1>2, <2>2
<1> HIDE DEF other
<1>4. IsSeq(other) /\ Len(other) = n
  BY <1>1, <1>2, FunctionIsSeq
<1>5. \A i \in 1..n : IsSample(other[i])
  BY <1>3 DEF IsSample, AreCalls
<1>6. DOMAIN other = 1..n
  BY <1>2
<1> QED  BY <1>1, <1>3, <1>4, <1>5, <1>6 DEF AreSamples, other

\* A call of which the arguments, or the tool it claims to be of, are replaced.
Alters(call, other) ==
    \E a : other = [call EXCEPT !.arguments = a] \/ other = [call EXCEPT !.tool_id = a]

\* A call that is altered is a call of the same name.
LEMMA Altered ==
    ASSUME NEW call, IsCall(call), NEW other, Alters(call, other)
    PROVE  IsCall(other) /\ other.name = call.name
  BY DEF IsCall, Alters

\* Calls that are altered one by one are calls.
LEMMA Rewritten ==
    ASSUME NEW calls, AreCalls(calls), NEW others, others = [j \in DOMAIN calls |-> others[j]],
           \A j \in DOMAIN calls : Alters(calls[j], others[j])
    PROVE  AreCalls(others) /\ DOMAIN others = DOMAIN calls
<1>1. Len(calls) \in Nat /\ DOMAIN calls = 1..Len(calls)
  BY DEF AreCalls, IsSeq
<1>2. \A j \in 1..Len(calls) : IsCall(others[j])
  <2> TAKE j \in 1..Len(calls)
  <2>1. IsCall(calls[j]) /\ Alters(calls[j], others[j])
    BY <1>1 DEF AreCalls
  <2> QED  BY <2>1, Altered
<1>3. IsSeq(others) /\ Len(others) = Len(calls)
  BY <1>1, FunctionIsSeq
<1> QED  BY <1>1, <1>2, <1>3 DEF AreCalls

\* The calls of samples, each as it is read or hashed, or claimed to be of a tool.
RereadCalls(samples) ==
    [i \in DOMAIN samples |-> [j \in DOMAIN samples[i].tool_calls |-> Reread(samples[i].tool_calls[j])]]
HashedCalls(samples) ==
    [i \in DOMAIN samples |-> [j \in DOMAIN samples[i].tool_calls |-> HashedCall(samples[i].tool_calls[j])]]
Claimed(call, id) == [call EXCEPT !.tool_id = id]
ClaimedCalls(samples, id) ==
    [i \in DOMAIN samples |-> [j \in DOMAIN samples[i].tool_calls |-> Claimed(samples[i].tool_calls[j], id)]]

\* The calls of samples are calls.
LEMMA CallsOf ==
    ASSUME NEW samples, AreSamples(samples)
    PROVE  /\ DOMAIN samples = 1..Len(samples)
           /\ \A i \in 1..Len(samples) :
                /\ AreCalls(samples[i].tool_calls)
                /\ \A j \in DOMAIN samples[i].tool_calls : IsCall(samples[i].tool_calls[j])
<1>1. DOMAIN samples = 1..Len(samples)
  BY DEF AreSamples, IsSeq
<1>2. ASSUME NEW i \in 1..Len(samples)
      PROVE  /\ AreCalls(samples[i].tool_calls)
             /\ \A j \in DOMAIN samples[i].tool_calls : IsCall(samples[i].tool_calls[j])
  <2>1. AreCalls(samples[i].tool_calls)
    BY DEF AreSamples, IsSample, AreCalls
  <2>2. DOMAIN samples[i].tool_calls = 1..Len(samples[i].tool_calls)
    BY <2>1 DEF AreCalls, IsSeq
  <2> QED  BY <2>1, <2>2 DEF AreCalls
<1> QED  BY <1>1, <1>2

\* The calls as they are read back, one for one.
LEMMA RereadCallsOf ==
    ASSUME NEW samples, AreSamples(samples), NEW i \in 1..Len(samples)
    PROVE  /\ AreCalls(RereadCalls(samples)[i]) /\ DOMAIN RereadCalls(samples)[i] = DOMAIN samples[i].tool_calls
           /\ \A j \in DOMAIN samples[i].tool_calls :
                RereadCalls(samples)[i][j] = Reread(samples[i].tool_calls[j])
<1> DEFINE calls == samples[i].tool_calls
           others == RereadCalls(samples)[i]
<1>1. AreCalls(calls) /\ DOMAIN samples = 1..Len(samples)
  BY CallsOf
<1>2. others = [j \in DOMAIN calls |-> Reread(calls[j])]
  BY <1>1 DEF RereadCalls
<1>3. \A call : Alters(call, Reread(call))
  BY DEF Alters, Reread
<1> HIDE DEF calls, others
<1>4. others = [j \in DOMAIN calls |-> others[j]] /\ \A j \in DOMAIN calls : others[j] = Reread(calls[j])
  BY <1>2
<1>5. \A j \in DOMAIN calls : Alters(calls[j], others[j])
  BY <1>3, <1>4
<1>6. AreCalls(others) /\ DOMAIN others = DOMAIN calls
  BY <1>1, <1>4, <1>5, Rewritten
<1> QED  BY <1>4, <1>6 DEF calls, others

\* The calls as they are hashed, one for one.
LEMMA HashedCallsOf ==
    ASSUME NEW samples, AreSamples(samples), NEW i \in 1..Len(samples)
    PROVE  /\ AreCalls(HashedCalls(samples)[i]) /\ DOMAIN HashedCalls(samples)[i] = DOMAIN samples[i].tool_calls
           /\ \A j \in DOMAIN samples[i].tool_calls :
                HashedCalls(samples)[i][j] = HashedCall(samples[i].tool_calls[j])
<1> DEFINE calls == samples[i].tool_calls
           others == HashedCalls(samples)[i]
<1>1. AreCalls(calls) /\ DOMAIN samples = 1..Len(samples)
  BY CallsOf
<1>2. others = [j \in DOMAIN calls |-> HashedCall(calls[j])]
  BY <1>1 DEF HashedCalls
<1>3. \A call : Alters(call, HashedCall(call))
  BY DEF Alters, HashedCall
<1> HIDE DEF calls, others
<1>4. others = [j \in DOMAIN calls |-> others[j]] /\ \A j \in DOMAIN calls : others[j] = HashedCall(calls[j])
  BY <1>2
<1>5. \A j \in DOMAIN calls : Alters(calls[j], others[j])
  BY <1>3, <1>4
<1>6. AreCalls(others) /\ DOMAIN others = DOMAIN calls
  BY <1>1, <1>4, <1>5, Rewritten
<1> QED  BY <1>4, <1>6 DEF calls, others

\* The calls that are said to be of one tool, one for one.
LEMMA ClaimedCallsOf ==
    ASSUME NEW samples, AreSamples(samples), NEW i \in 1..Len(samples), NEW id
    PROVE  /\ AreCalls(ClaimedCalls(samples, id)[i])
           /\ DOMAIN ClaimedCalls(samples, id)[i] = DOMAIN samples[i].tool_calls
           /\ \A j \in DOMAIN samples[i].tool_calls :
                ClaimedCalls(samples, id)[i][j] = Claimed(samples[i].tool_calls[j], id)
<1> DEFINE calls == samples[i].tool_calls
           others == ClaimedCalls(samples, id)[i]
<1>1. AreCalls(calls) /\ DOMAIN samples = 1..Len(samples)
  BY CallsOf
<1>2. others = [j \in DOMAIN calls |-> Claimed(calls[j], id)]
  BY <1>1 DEF ClaimedCalls
<1>3. \A call : Alters(call, Claimed(call, id))
  BY DEF Alters, Claimed
<1> HIDE DEF calls, others
<1>4. others = [j \in DOMAIN calls |-> others[j]] /\ \A j \in DOMAIN calls : others[j] = Claimed(calls[j], id)
  BY <1>2
<1>5. \A j \in DOMAIN calls : Alters(calls[j], others[j])
  BY <1>3, <1>4
<1>6. AreCalls(others) /\ DOMAIN others = DOMAIN calls
  BY <1>1, <1>4, <1>5, Rewritten
<1> QED  BY <1>4, <1>6 DEF calls, others

\* What is read of a trace is in the same places, by the same names and of the same tools.
LEMMA RereadKeeps ==
    ASSUME NEW trace, trace = [field \in TraceFields |-> trace[field]], AreSamples(trace.samples)
    PROVE  LET read == RereadTrace(trace)
           IN  /\ read = [field \in TraceFields |-> read[field]]
               /\ \A field \in TraceFields \ {"samples"} : read[field] = trace[field]
               /\ read.samples = WithCalls(trace.samples, RereadCalls(trace.samples))
               /\ AreSamples(read.samples) /\ Len(read.samples) = Len(trace.samples)
               /\ \A i \in 1..Len(trace.samples) :
                    /\ read.samples[i].index = trace.samples[i].index
                    /\ DOMAIN read.samples[i].tool_calls = DOMAIN trace.samples[i].tool_calls
                    /\ \A j \in DOMAIN trace.samples[i].tool_calls :
                        /\ read.samples[i].tool_calls[j].name = trace.samples[i].tool_calls[j].name
                        /\ read.samples[i].tool_calls[j].tool_id = trace.samples[i].tool_calls[j].tool_id
<1> DEFINE samples == trace.samples
           read == RereadTrace(trace)
           calls == RereadCalls(samples)
<1>1. \A i \in 1..Len(samples) :
        /\ AreCalls(calls[i]) /\ DOMAIN calls[i] = DOMAIN samples[i].tool_calls
        /\ \A j \in DOMAIN samples[i].tool_calls :
            IsCall(samples[i].tool_calls[j]) /\ calls[i][j] = Reread(samples[i].tool_calls[j])
  <2> HIDE DEF samples
  <2> SUFFICES ASSUME AreSamples(samples)
               PROVE  \A i \in 1..Len(samples) :
                        /\ AreCalls(calls[i]) /\ DOMAIN calls[i] = DOMAIN samples[i].tool_calls
                        /\ \A j \in DOMAIN samples[i].tool_calls :
                            IsCall(samples[i].tool_calls[j]) /\ calls[i][j] = Reread(samples[i].tool_calls[j])
    BY DEF samples
  <2> QED  BY CallsOf, RereadCallsOf
<1>2. read = [trace EXCEPT !.samples = WithCalls(samples, calls)]
  <2>1. DOMAIN samples = 1..Len(samples)
    BY CallsOf
  <2>2. [i \in DOMAIN samples |-> [samples[i] EXCEPT !.tool_calls =
            [j \in DOMAIN samples[i].tool_calls |-> Reread(samples[i].tool_calls[j])]]] = WithCalls(samples, calls)
    BY DEF WithCalls, RereadCalls
  <2> HIDE DEF calls
  <2> QED  BY <2>2 DEF RereadTrace
<1>3. \A call : IsCall(call) => Reread(call).name = call.name /\ Reread(call).tool_id = call.tool_id
  BY DEF IsCall, Reread
<1> HIDE DEF calls, read, samples
<1>4. /\ read = [field \in TraceFields |-> read[field]]
      /\ \A field \in TraceFields \ {"samples"} : read[field] = trace[field]
      /\ read.samples = WithCalls(samples, calls)
  <2>1. read = [field \in TraceFields |-> IF field = "samples" THEN WithCalls(samples, calls) ELSE trace[field]]
    BY <1>2
  <2>2. "samples" \in TraceFields
    BY DEF TraceFields
  <2> QED  BY <2>1, <2>2
<1>5. /\ AreSamples(read.samples) /\ Len(read.samples) = Len(samples)
      /\ \A i \in 1..Len(samples) :
            read.samples[i].index = samples[i].index /\ read.samples[i].tool_calls = calls[i]
  <2>1. AreSamples(samples) /\ \A i \in 1..Len(samples) : AreCalls(calls[i])
    BY <1>1 DEF samples
  <2> QED  BY <1>4, <2>1, Recalled
<1>6. \A i \in 1..Len(samples) :
        /\ read.samples[i].index = samples[i].index
        /\ DOMAIN read.samples[i].tool_calls = DOMAIN samples[i].tool_calls
        /\ \A j \in DOMAIN samples[i].tool_calls :
            /\ read.samples[i].tool_calls[j].name = samples[i].tool_calls[j].name
            /\ read.samples[i].tool_calls[j].tool_id = samples[i].tool_calls[j].tool_id
  <2> TAKE i \in 1..Len(samples)
  <2>1. read.samples[i].index = samples[i].index /\ read.samples[i].tool_calls = calls[i]
        /\ DOMAIN calls[i] = DOMAIN samples[i].tool_calls
    BY <1>1, <1>5
  <2>2. ASSUME NEW j \in DOMAIN samples[i].tool_calls
        PROVE  /\ calls[i][j].name = samples[i].tool_calls[j].name
               /\ calls[i][j].tool_id = samples[i].tool_calls[j].tool_id
    BY <1>1, <1>3
  <2> QED  BY <2>1, <2>2
<1> QED  BY <1>4, <1>5, <1>6 DEF samples, read, calls

\* What is hashed of a trace tells how many samples it has, how many calls, and of which tools.
LEMMA HashTells ==
    ASSUME NEW trace, trace = [field \in TraceFields |-> trace[field]], AreSamples(trace.samples)
    PROVE  LET hashed == HashedTrace(trace)
           IN  /\ DOMAIN hashed.samples = DOMAIN trace.samples
               /\ \A i \in DOMAIN trace.samples :
                    /\ DOMAIN hashed.samples[i].tool_calls = DOMAIN trace.samples[i].tool_calls
                    /\ \A j \in DOMAIN trace.samples[i].tool_calls :
                        hashed.samples[i].tool_calls[j].tool_id = trace.samples[i].tool_calls[j].tool_id
<1> DEFINE samples == trace.samples
           hashed == HashedTrace(trace)
           calls == HashedCalls(samples)
<1>1. /\ DOMAIN samples = 1..Len(samples)
      /\ \A i \in 1..Len(samples) :
        /\ AreCalls(calls[i]) /\ DOMAIN calls[i] = DOMAIN samples[i].tool_calls
        /\ \A j \in DOMAIN samples[i].tool_calls :
            IsCall(samples[i].tool_calls[j]) /\ calls[i][j] = HashedCall(samples[i].tool_calls[j])
  <2> HIDE DEF samples
  <2> SUFFICES ASSUME AreSamples(samples)
               PROVE  /\ DOMAIN samples = 1..Len(samples)
                      /\ \A i \in 1..Len(samples) :
                        /\ AreCalls(calls[i]) /\ DOMAIN calls[i] = DOMAIN samples[i].tool_calls
                        /\ \A j \in DOMAIN samples[i].tool_calls :
                            IsCall(samples[i].tool_calls[j]) /\ calls[i][j] = HashedCall(samples[i].tool_calls[j])
    BY DEF samples
  <2> QED  BY CallsOf, HashedCallsOf
<1>2. hashed.samples = WithCalls(samples, calls)
  <2>1. [i \in DOMAIN samples |-> [samples[i] EXCEPT !.tool_calls =
            [j \in DOMAIN samples[i].tool_calls |-> HashedCall(samples[i].tool_calls[j])]]] = WithCalls(samples, calls)
    BY DEF WithCalls, HashedCalls
  <2>2. "samples" \in DOMAIN trace
    BY DEF TraceFields
  <2> HIDE DEF calls
  <2>3. hashed = [trace EXCEPT !.samples = WithCalls(samples, calls), !.captured_with.effective_params = CanonicalTable(@)]
    BY <2>1 DEF HashedTrace
  <2> QED  BY <2>2, <2>3
<1>3. \A call : IsCall(call) => HashedCall(call).tool_id = call.tool_id
  BY DEF IsCall, HashedCall
<1> HIDE DEF calls, hashed, samples
<1>4. /\ DOMAIN hashed.samples = DOMAIN samples
      /\ \A i \in DOMAIN samples : hashed.samples[i].tool_calls = calls[i]
  <2>1. AreSamples(samples) /\ \A i \in 1..Len(samples) : AreCalls(calls[i])
    BY <1>1 DEF samples
  <2> QED  BY <1>1, <1>2, <2>1, Recalled
<1>5. \A i \in DOMAIN samples :
        /\ DOMAIN hashed.samples[i].tool_calls = DOMAIN samples[i].tool_calls
        /\ \A j \in DOMAIN samples[i].tool_calls :
            hashed.samples[i].tool_calls[j].tool_id = samples[i].tool_calls[j].tool_id
  <2> TAKE i \in DOMAIN samples
  <2>1. hashed.samples[i].tool_calls = calls[i] /\ DOMAIN calls[i] = DOMAIN samples[i].tool_calls
    BY <1>1, <1>4
  <2>2. ASSUME NEW j \in DOMAIN samples[i].tool_calls
        PROVE  calls[i][j].tool_id = samples[i].tool_calls[j].tool_id
    BY <1>1, <1>3
  <2> QED  BY <2>1, <2>2
<1> QED  BY <1>4, <1>5 DEF samples, hashed

\* The three ways in which a trace is edited.
LEMMA RetoldAs ==
    ASSUME NEW trace, NEW told \in Retold(trace)
    PROVE  \/ told = [trace EXCEPT !.samples = Front(trace.samples)]
           \/ told = [trace EXCEPT !.samples = WithCalls(trace.samples, [i \in DOMAIN trace.samples |-> <<>>])]
           \/ \E id : told = [trace EXCEPT !.samples = WithCalls(trace.samples, ClaimedCalls(trace.samples, id))]
<1>1. [i \in DOMAIN trace.samples |-> [trace.samples[i] EXCEPT !.tool_calls = <<>>]]
        = WithCalls(trace.samples, [i \in DOMAIN trace.samples |-> <<>>])
  BY DEF WithCalls
<1>2. ASSUME NEW id
      PROVE  [i \in DOMAIN trace.samples |->
                [trace.samples[i] EXCEPT !.tool_calls =
                    [j \in DOMAIN trace.samples[i].tool_calls |-> [trace.samples[i].tool_calls[j] EXCEPT !.tool_id = id]]]]
               = WithCalls(trace.samples, ClaimedCalls(trace.samples, id))
  BY DEF WithCalls, ClaimedCalls, Claimed
<1>3. \A id : Claiming(trace, id) = [trace EXCEPT !.samples = WithCalls(trace.samples, ClaimedCalls(trace.samples, id))]
  BY <1>2 DEF Claiming
<1>4. Silent(trace) = [trace EXCEPT !.samples = WithCalls(trace.samples, [i \in DOMAIN trace.samples |-> <<>>])]
  BY <1>1 DEF Silent
<1>5. \/ told = WithoutLast(trace) \/ told = Silent(trace) \/ \E id : told = Claiming(trace, id)
  BY DEF Retold
<1>6. CASE told = WithoutLast(trace)
  BY <1>6 DEF WithoutLast
<1>7. CASE told = Silent(trace)
  BY <1>4, <1>7
<1>8. CASE \E id : told = Claiming(trace, id)
  BY <1>3, <1>8
<1> QED  BY <1>5, <1>6, <1>7, <1>8

\* Samples without the last: the others are in their places.
LEMMA Shortened ==
    ASSUME NEW samples, AreSamples(samples)
    PROVE  /\ AreSamples(Front(samples))
           /\ \A j \in 1..Len(Front(samples)) : j \in 1..Len(samples) /\ Front(samples)[j] = samples[j]
           /\ DOMAIN Front(samples) = DOMAIN samples => Front(samples) = samples
<1> DEFINE n == Len(samples)
           front == Front(samples)
           S == {samples[i] : i \in 1..n}
<1>1. n \in Nat /\ samples = [i \in 1..n |-> samples[i]] /\ \A i \in 1..n : IsSample(samples[i])
  BY DEF AreSamples, IsSeq
<1>2. front = SubSeq(samples, 1, n - 1) /\ 1 \in Int /\ n - 1 \in Int
  BY <1>1 DEF Front
<1>3. \A i \in 1..n - 1 : samples[i] \in S
  BY <1>1
<1>4. /\ front \in Seq(S) /\ Len(front) = IF 1 <= n - 1 THEN (n - 1) - 1 + 1 ELSE 0
      /\ \A i \in 1..(n - 1) - 1 + 1 : front[i] = samples[1 + i - 1]
  <2> HIDE DEF front, S, n
  <2> QED  BY <1>2, <1>3, SubSeqProperties
<1> HIDE DEF front, S, n
<1>5. Len(front) = IF n = 0 THEN 0 ELSE n - 1
  BY <1>1, <1>4
<1>6. \A i \in 1..Len(front) : i \in 1..n /\ front[i] = samples[i]
  <2> TAKE i \in 1..Len(front)
  <2>1. Len(front) \in Nat /\ i \in Nat /\ 1 <= i /\ i <= Len(front)
    BY <1>1, <1>5
  <2>2. i <= n - 1
    BY <1>1, <1>5, <2>1
  <2>3. i \in 1..(n - 1) - 1 + 1 /\ 1 + i - 1 = i /\ i \in 1..n
    BY <1>1, <2>1, <2>2
  <2> QED  BY <1>4, <2>3
<1>7. IsSeq(front)
  BY <1>4, SeqIsSeq
<1>8. ASSUME DOMAIN front = DOMAIN samples
      PROVE  front = samples
  <2>1. DOMAIN front = 1..Len(front) /\ DOMAIN samples = 1..n /\ front = [i \in 1..Len(front) |-> front[i]]
    BY <1>1, <1>7 DEF IsSeq
  <2>2. n = 0
    <3> SUFFICES ASSUME n # 0 PROVE FALSE
      OBVIOUS
    <3>1. n \in 1..n /\ n \notin 1..Len(front)
      BY <1>1, <1>5
    <3> QED  BY <1>8, <2>1, <3>1
  <2>3. Len(front) = n
    BY <1>5, <2>2
  <2> QED  BY <1>1, <1>6, <2>1, <2>3
<1> QED  BY <1>1, <1>6, <1>7, <1>8 DEF AreSamples, front, n

\* A trace that is edited by hand is of what it was captured with, its samples in their places.
LEMMA RetoldSamples ==
    ASSUME NEW built, NEW trace, TraceIsOf(trace, built), TraceIsSampled(trace), NEW told \in Retold(trace)
    PROVE  TraceIsOf(told, built) /\ TraceIsSampled(told)
<1> DEFINE samples == trace.samples
           none == [i \in DOMAIN samples |-> <<>>]
<1>1. TraceIsOf(told, built)
  BY RetoldHeads
<1>2. AreSamples(samples) /\ DOMAIN samples = 1..Len(samples) /\ \A j \in 1..Len(samples) : samples[j].index = j - 1
  BY CallsOf DEF TraceIsSampled
<1>3. \A other : told = [trace EXCEPT !.samples = other] => told.samples = other
  <2>1. "samples" \in DOMAIN trace
    BY DEF TraceIsOf, TraceFields
  <2> QED  BY <2>1
<1>4. \A i \in 1..Len(samples) : AreCalls(none[i])
  <2>1. AreCalls(<<>>)
    <3>1. \A j \in 1..0 : FALSE
      OBVIOUS
    <3> QED  BY <3>1, Single DEF AreCalls
  <2> QED  BY <1>2, <2>1
<1> HIDE DEF samples, none
<1>5. CASE told.samples = Front(samples)
  <2>1. /\ AreSamples(Front(samples))
        /\ \A j \in 1..Len(Front(samples)) : j \in 1..Len(samples) /\ Front(samples)[j] = samples[j]
    BY <1>2, Shortened
  <2>2. \A j \in 1..Len(Front(samples)) : Front(samples)[j].index = j - 1
    BY <1>2, <2>1
  <2>3. TraceIsSampled(told)
    BY <1>5, <2>1, <2>2 DEF TraceIsSampled
  <2> QED  BY <1>1, <2>3
<1>6. ASSUME NEW calls, \A i \in 1..Len(samples) : AreCalls(calls[i]), told.samples = WithCalls(samples, calls)
      PROVE  TraceIsSampled(told)
  <2>1. /\ AreSamples(told.samples) /\ Len(told.samples) = Len(samples)
        /\ \A i \in 1..Len(samples) : told.samples[i].index = samples[i].index
    BY <1>2, <1>6, Recalled
  <2> QED  BY <1>2, <2>1 DEF TraceIsSampled
<1>7. \A id : \A i \in 1..Len(samples) : AreCalls(ClaimedCalls(samples, id)[i])
  BY <1>2, ClaimedCallsOf
<1>8. \/ told.samples = Front(samples)
      \/ told.samples = WithCalls(samples, none)
      \/ \E id : told.samples = WithCalls(samples, ClaimedCalls(samples, id))
  BY <1>3, RetoldAs DEF samples, none
<1> QED  BY <1>1, <1>4, <1>5, <1>6, <1>7, <1>8

\* A sample with the calls it has is the sample.
LEMMA SameCalls ==
    ASSUME NEW samples, AreSamples(samples), NEW calls, \A i \in 1..Len(samples) : samples[i].tool_calls = calls[i]
    PROVE  WithCalls(samples, calls) = samples
<1>1. DOMAIN samples = 1..Len(samples) /\ samples = [i \in 1..Len(samples) |-> samples[i]]
  BY DEF AreSamples, IsSeq
<1>2. \A i \in 1..Len(samples) : [samples[i] EXCEPT !.tool_calls = calls[i]] = samples[i]
  <2> TAKE i \in 1..Len(samples)
  <2>1. samples[i] = [index |-> samples[i].index, final_text |-> samples[i].final_text,
                      tool_calls |-> samples[i].tool_calls]
    BY DEF AreSamples, IsSample
  <2>2. samples[i].tool_calls = calls[i]
    OBVIOUS
  <2> QED  BY <2>1, <2>2
<1>3. WithCalls(samples, calls) = [i \in 1..Len(samples) |-> [samples[i] EXCEPT !.tool_calls = calls[i]]]
  BY <1>1 DEF WithCalls
<1> QED  BY <1>1, <1>2, <1>3

\* An edited trace is hashed otherwise.
LEMMA RetoldTells ==
    ASSUME NEW built, NEW trace, TraceIsOf(trace, built), TraceIsSampled(trace), NEW told \in Retold(trace),
           HashedTrace(RereadTrace(told)) = HashedTrace(trace)
    PROVE  told = trace
<1> DEFINE samples == trace.samples
           none == [i \in DOMAIN samples |-> <<>>]
           hashed == HashedTrace(trace)
           read == RereadTrace(told)
<1>1. /\ trace = [field \in TraceFields |-> trace[field]] /\ AreSamples(samples)
      /\ DOMAIN samples = 1..Len(samples) /\ "samples" \in DOMAIN trace
  BY CallsOf DEF TraceIsOf, TraceIsSampled, TraceFields
<1>2. told = [field \in TraceFields |-> told[field]] /\ AreSamples(told.samples)
  <2>1. TraceIsOf(told, built) /\ TraceIsSampled(told)
    BY RetoldSamples
  <2> QED  BY <2>1 DEF TraceIsOf, TraceIsSampled
<1>3. /\ DOMAIN hashed.samples = DOMAIN samples
      /\ \A i \in DOMAIN samples :
            /\ DOMAIN hashed.samples[i].tool_calls = DOMAIN samples[i].tool_calls
            /\ \A j \in DOMAIN samples[i].tool_calls :
                hashed.samples[i].tool_calls[j].tool_id = samples[i].tool_calls[j].tool_id
  BY <1>1, HashTells
<1>4. /\ read = [field \in TraceFields |-> read[field]] /\ AreSamples(read.samples)
      /\ Len(read.samples) = Len(told.samples)
      /\ \A i \in 1..Len(told.samples) :
            /\ DOMAIN read.samples[i].tool_calls = DOMAIN told.samples[i].tool_calls
            /\ \A j \in DOMAIN told.samples[i].tool_calls :
                read.samples[i].tool_calls[j].tool_id = told.samples[i].tool_calls[j].tool_id
  BY <1>2, RereadKeeps
<1>5. DOMAIN read.samples = 1..Len(read.samples) /\ DOMAIN told.samples = 1..Len(told.samples)
  BY <1>2, <1>4, CallsOf
<1>6. /\ DOMAIN HashedTrace(read).samples = DOMAIN read.samples
      /\ \A i \in DOMAIN read.samples :
            /\ DOMAIN HashedTrace(read).samples[i].tool_calls = DOMAIN read.samples[i].tool_calls
            /\ \A j \in DOMAIN read.samples[i].tool_calls :
                HashedTrace(read).samples[i].tool_calls[j].tool_id = read.samples[i].tool_calls[j].tool_id
  BY <1>4, HashTells
<1>7. HashedTrace(read) = hashed
  OBVIOUS
<1>8. \A other : told = [trace EXCEPT !.samples = other] => told.samples = other
  BY <1>1
<1>9. \/ told = [trace EXCEPT !.samples = Front(samples)]
      \/ told = [trace EXCEPT !.samples = WithCalls(samples, none)]
      \/ \E id : told = [trace EXCEPT !.samples = WithCalls(samples, ClaimedCalls(samples, id))]
  BY RetoldAs
<1>10. told = [trace EXCEPT !.samples = samples] => told = trace
  BY <1>1
<1>11. \A i \in 1..Len(samples) : none[i] = <<>>
  BY <1>1
<1> HIDE DEF samples, none, hashed, read
<1>12. DOMAIN told.samples = DOMAIN samples
  BY <1>3, <1>4, <1>5, <1>6, <1>7
<1>13. \A i \in DOMAIN samples :
         /\ DOMAIN told.samples[i].tool_calls = DOMAIN samples[i].tool_calls
         /\ \A j \in DOMAIN samples[i].tool_calls :
             told.samples[i].tool_calls[j].tool_id = samples[i].tool_calls[j].tool_id
  <2> TAKE i \in DOMAIN samples
  <2>1. i \in DOMAIN read.samples /\ i \in 1..Len(told.samples)
    BY <1>4, <1>5, <1>12
  <2>2. /\ DOMAIN hashed.samples[i].tool_calls = DOMAIN read.samples[i].tool_calls
        /\ DOMAIN hashed.samples[i].tool_calls = DOMAIN samples[i].tool_calls
        /\ DOMAIN read.samples[i].tool_calls = DOMAIN told.samples[i].tool_calls
    BY <1>3, <1>4, <1>6, <1>7, <2>1
  <2>3. ASSUME NEW j \in DOMAIN samples[i].tool_calls
        PROVE  told.samples[i].tool_calls[j].tool_id = samples[i].tool_calls[j].tool_id
    <3>1. hashed.samples[i].tool_calls[j].tool_id = samples[i].tool_calls[j].tool_id
      BY <1>3
    <3>2. hashed.samples[i].tool_calls[j].tool_id = read.samples[i].tool_calls[j].tool_id
      BY <1>6, <1>7, <2>1, <2>2
    <3>3. read.samples[i].tool_calls[j].tool_id = told.samples[i].tool_calls[j].tool_id
      BY <1>4, <2>1, <2>2
    <3> QED  BY <3>1, <3>2, <3>3
  <2> QED  BY <2>2, <2>3
<1>14. CASE told = [trace EXCEPT !.samples = Front(samples)]
  <2>1. Front(samples) = samples
    BY <1>1, <1>8, <1>12, <1>14, Shortened
  <2> QED  BY <1>10, <1>14, <2>1
<1>15. CASE told = [trace EXCEPT !.samples = WithCalls(samples, none)]
  <2>1. \A i \in 1..Len(samples) : AreCalls(none[i])
    <3>1. \A j \in 1..0 : FALSE
      OBVIOUS
    <3> QED  BY <1>11, <3>1, Single DEF AreCalls
  <2>2. \A i \in 1..Len(samples) : told.samples[i].tool_calls = none[i]
    BY <1>1, <1>8, <1>15, <2>1, Recalled
  <2>3. \A i \in 1..Len(samples) : samples[i].tool_calls = none[i]
    <3> TAKE i \in 1..Len(samples)
    <3>1. DOMAIN samples[i].tool_calls = DOMAIN <<>>
      BY <1>1, <1>11, <1>13, <2>2
    <3>2. IsSeq(samples[i].tool_calls) /\ IsSeq(<<>>) /\ Len(<<>>) = 0
      BY <1>1, Single DEF AreSamples, IsSample
    <3>3. samples[i].tool_calls = [j \in {} |-> samples[i].tool_calls[j]] /\ <<>> = [j \in {} |-> samples[i].tool_calls[j]]
      <4>1. DOMAIN <<>> = 1..0 /\ <<>> = [j \in 1..0 |-> <<>>[j]]
        BY <3>2 DEF IsSeq
      <4>2. 1..0 = {}
        OBVIOUS
      <4>3. samples[i].tool_calls = [j \in DOMAIN samples[i].tool_calls |-> samples[i].tool_calls[j]]
        BY <3>2 DEF IsSeq
      <4> QED  BY <3>1, <4>1, <4>2, <4>3
    <3> QED  BY <1>11, <3>3
  <2>4. WithCalls(samples, none) = samples
    BY <1>1, <2>3, SameCalls
  <2> QED  BY <1>10, <1>15, <2>4
<1>16. ASSUME NEW id, told = [trace EXCEPT !.samples = WithCalls(samples, ClaimedCalls(samples, id))]
       PROVE  told = trace
  <2> DEFINE calls == ClaimedCalls(samples, id)
  <2>1. \A i \in 1..Len(samples) :
          /\ AreCalls(calls[i]) /\ DOMAIN calls[i] = DOMAIN samples[i].tool_calls
          /\ \A j \in DOMAIN samples[i].tool_calls : calls[i][j] = Claimed(samples[i].tool_calls[j], id)
    <3> TAKE i \in 1..Len(samples)
    <3>1. /\ AreCalls(ClaimedCalls(samples, id)[i])
          /\ DOMAIN ClaimedCalls(samples, id)[i] = DOMAIN samples[i].tool_calls
      BY <1>1, ClaimedCallsOf
    <3>2. \A j \in DOMAIN samples[i].tool_calls :
            ClaimedCalls(samples, id)[i][j] = Claimed(samples[i].tool_calls[j], id)
      BY <1>1, ClaimedCallsOf
    <3> QED  BY <3>1, <3>2
  <2> HIDE DEF calls
  <2>2. \A i \in 1..Len(samples) : told.samples[i].tool_calls = calls[i]
    BY <1>1, <1>8, <1>16, <2>1, Recalled DEF calls
  <2>3. \A i \in 1..Len(samples) : samples[i].tool_calls = calls[i]
    <3> TAKE i \in 1..Len(samples)
    <3> DEFINE mine == samples[i].tool_calls
    <3>1. AreCalls(mine) /\ \A j \in DOMAIN mine : IsCall(mine[j])
      BY <1>1, CallsOf
    <3>2. \A j \in DOMAIN mine : calls[i][j] = Claimed(mine[j], id) /\ calls[i][j].tool_id = mine[j].tool_id
      BY <1>1, <1>13, <2>1, <2>2
    <3>3. \A j \in DOMAIN mine : calls[i][j] = mine[j]
      <4> TAKE j \in DOMAIN mine
      <4>1. IsCall(mine[j]) /\ calls[i][j] = Claimed(mine[j], id) /\ calls[i][j].tool_id = mine[j].tool_id
        BY <3>1, <3>2
      <4> HIDE DEF mine
      <4>2. Claimed(mine[j], id).tool_id = id
        BY <4>1 DEF IsCall, Claimed
      <4> QED  BY <4>1, <4>2 DEF IsCall, Claimed
    <3>4. mine = [j \in DOMAIN mine |-> mine[j]] /\ calls[i] = [j \in DOMAIN mine |-> calls[i][j]]
      BY <2>1, <3>1 DEF AreCalls, IsSeq
    <3> HIDE DEF mine
    <3>5. mine = calls[i]
      BY <3>3, <3>4
    <3> QED  BY <3>5 DEF mine
  <2>4. WithCalls(samples, calls) = samples
    BY <1>1, <2>3, SameCalls
  <2> QED  BY <1>10, <1>16, <2>4 DEF calls
<1> QED  BY <1>9, <1>14, <1>15, <1>16

\* What a run could be made of has a suite that is a list of probes.
LEMMA MadeSuite ==
    ASSUME NEW built, NEW disk, NEW seen, Made(built, disk, seen)
    PROVE  /\ built # Refused /\ built.suite # Refused
           /\ IsSeq(built.suite.probes) /\ DOMAIN built.suite.probes = 1..Len(built.suite.probes)
           /\ \A i \in 1..Len(built.suite.probes) : built.suite.probes[i].repeat \in Nat \ {0}
           /\ built.suite.digest = SuiteDigest(built.suite.probes)
           /\ IsInjective([i \in DOMAIN built.suite.probes |-> built.suite.probes[i].name])
<1>1. PICK described, override : built = Built(disk, described, override) /\ built # Refused
  BY DEF Made
<1> DEFINE suite == LoadSuite(disk.config.probes, disk.directory, disk.schemas, built.catalog, override)
           specs == Declared(disk.directory)
<1>2. built.suite = suite /\ suite # Refused
  BY <1>1, BuiltParts
<1>3. /\ IsSeq(suite.probes) /\ IsSeq(specs) /\ Len(suite.probes) = Len(specs)
      /\ suite.digest = SuiteDigest(suite.probes)
      /\ \A i \in 1..Len(specs) :
            /\ suite.probes[i] = ResolvedProbe(specs[i], built.catalog, disk.schemas, disk.config.probes.repeat, override)
            /\ suite.probes[i].repeat \in Nat \ {0}
      /\ IsInjective([i \in DOMAIN specs |-> specs[i].name])
  BY <1>2, SuiteParts
<1> HIDE DEF suite, specs
<1>4. DOMAIN suite.probes = 1..Len(specs) /\ DOMAIN specs = 1..Len(specs)
  BY <1>3 DEF IsSeq
<1>5. \A i \in 1..Len(specs) : suite.probes[i].name = specs[i].name
  <2>1. \A spec, catalog, schemas, declared, over : ResolvedProbe(spec, catalog, schemas, declared, over).name = spec.name
    BY DEF ResolvedProbe
  <2> QED  BY <1>3, <2>1
<1>6. [i \in DOMAIN suite.probes |-> suite.probes[i].name] = [i \in DOMAIN specs |-> specs[i].name]
  BY <1>4, <1>5
<1> QED  BY <1>1, <1>2, <1>3, <1>4, <1>6

\* The samples of a probe are where its samples were asked for.
LEMMA CapturedSamples ==
    ASSUME NEW built, NEW disk, NEW seen, Made(built, disk, seen),
           NEW answers, AreSamples(answers), Len(answers) = Len(Plan(built.suite)),
           NEW i \in DOMAIN Traces(built, answers)
    PROVE  AreSamples(Traces(built, answers)[i].samples)
<1> DEFINE plan == Plan(built.suite)
           n == Len(plan)
           place == {k \in DOMAIN plan : plan[k].probe = built.suite.probes[i]}
           S == {answers[k] : k \in 1..n}
           mine == SubSeq(answers, Min(place), Max(place))
<1>1. /\ IsSeq(built.suite.probes) /\ DOMAIN built.suite.probes = 1..Len(built.suite.probes)
      /\ \A k \in 1..Len(built.suite.probes) : built.suite.probes[k].repeat \in Nat \ {0}
  BY MadeSuite
<1>2. i \in DOMAIN built.suite.probes
  BY CapturedTraces
<1>3. /\ IsSeq(plan)
      /\ \A k \in DOMAIN built.suite.probes : \E l \in DOMAIN plan : plan[l].probe = built.suite.probes[k]
  BY <1>1, PlanPlaces
<1>4. Traces(built, answers)[i].samples = mine
  BY <1>2 DEF Traces
<1>5. n \in Nat /\ DOMAIN plan = 1..n
  BY <1>3 DEF IsSeq
<1>6. place \in SUBSET (1..n) /\ place # {}
  BY <1>2, <1>3, <1>5
<1>7. \A k \in 1..n : answers[k] \in S /\ IsSample(answers[k])
  BY <1>5 DEF AreSamples
<1> HIDE DEF plan, n, place, S, mine
<1>8. Min(place) \in 1..n /\ Max(place) \in 1..n /\ Min(place) <= Max(place)
  BY <1>5, <1>6, Bounded
<1> DEFINE lo == Min(place)
           hi == Max(place)
<1>9. /\ mine = SubSeq(answers, lo, hi) /\ lo \in 1..n /\ hi \in 1..n /\ lo <= hi
  BY <1>8 DEF mine
<1> HIDE DEF lo, hi
<1>10. lo \in Int /\ hi \in Int /\ 1 <= lo /\ hi <= n
  BY <1>5, <1>9
<1>11. \A k \in lo..hi : answers[k] \in S
  BY <1>5, <1>7, <1>10
<1>12. /\ mine \in Seq(S) /\ Len(mine) = IF lo <= hi THEN hi - lo + 1 ELSE 0
       /\ \A k \in 1..hi - lo + 1 : mine[k] = answers[lo + k - 1]
  BY <1>9, <1>10, <1>11, SubSeqProperties
<1>13. Len(mine) = hi - lo + 1
  BY <1>9, <1>12
<1>14. \A k \in 1..Len(mine) : IsSample(mine[k])
  <2> TAKE k \in 1..Len(mine)
  <2>1. k \in 1..hi - lo + 1 /\ lo + k - 1 \in 1..n
    BY <1>5, <1>10, <1>13
  <2> QED  BY <1>7, <1>12, <2>1
<1> QED  BY <1>4, <1>12, <1>14, SeqIsSeq DEF AreSamples

\* An artifact there is bundles what it was made of; its traces are consistent.
LEMMA ArtifactParts ==
    ASSUME NEW checksum, NEW suite, NEW traces, NEW outcomes,
           NewArtifact(checksum, suite, traces, outcomes) # Refused
    PROVE  LET artifact == NewArtifact(checksum, suite, traces, outcomes)
           IN  /\ DOMAIN artifact = ArtifactFields /\ artifact.traces = traces /\ artifact.probes = outcomes
               /\ artifact.probe_suite_digest = suite.digest /\ artifact.agent_checksum = checksum
               /\ traces # <<>> /\ Consistent(artifact)
<1> DEFINE artifact == [run_version |-> RunVersion, agent_checksum |-> checksum,
                        probe_suite_digest |-> suite.digest, captured_with |-> traces[1].captured_with,
                        traces |-> traces, probes |-> outcomes, metrics |-> Aggregate(outcomes)]
<1>1. NewArtifact(checksum, suite, traces, outcomes)
        = IF traces = <<>> \/ ~Consistent(artifact) THEN Refused ELSE artifact
  BY DEF NewArtifact
<1>2. /\ DOMAIN artifact = ArtifactFields /\ artifact.traces = traces /\ artifact.probes = outcomes
      /\ artifact.probe_suite_digest = suite.digest /\ artifact.agent_checksum = checksum
  BY DEF ArtifactFields
<1> HIDE DEF artifact
<1> QED  BY <1>1, <1>2

\* The verdict is derived from the answers, and the evidence is made of the same run.
LEMMA ConcludeKeeps ==
    ASSUME BehaviorInv, NEW accept \in BOOLEAN, Conclude(accept)
    PROVE  BehaviorInv'
<1> DEFINE built == run.built
           traces == Traces(run.built, run.answers)
           verdict == Verdict(run.built, traces)
           artifact == NewArtifact(run.built.checksum, run.built.suite, traces, verdict)
<1>1. UNCHANGED <<project, served>> /\ run.stage = "assembled" /\ ~run.replay
      /\ Len(run.answers) = Len(Plan(run.built.suite))
  BY DEF Conclude
<1>2. /\ verdict = Refused \/ artifact = Refused => run' = Failed /\ evidence' = evidence
      /\ verdict # Refused /\ artifact # Refused =>
            /\ run' = [run EXCEPT !.stage = "over", !.verdict = verdict]
            /\ evidence' = [file |-> [name |-> Address(artifact), shape |-> "run", document |-> artifact],
                            touched |-> FALSE, built |-> run.built, seen |-> run.seen, of |-> project]
  BY DEF Conclude
<1>3. /\ Made(run.built, project, run.seen) /\ run.built.client # Refused /\ AreSamples(run.answers)
      /\ SeenIsServed(run.seen) /\ DOMAIN run = RunFields /\ project \in Projects
  BY <1>1 DEF BehaviorInv, RunIsMade
<1>4. CASE verdict = Refused \/ artifact = Refused
  <2>1. run' = Failed /\ evidence' = evidence
    BY <1>2, <1>4
  <2>2. RunIsMade' /\ VerdictIsDerived' /\ run'.replay = FALSE
    BY <2>1, NothingMade
  <2>3. EvidenceIsMade'
    BY <2>1 DEF EvidenceIsMade, BehaviorInv
  <2> QED  BY <1>1, <2>2, <2>3 DEF BehaviorInv
<1>5. CASE verdict # Refused /\ artifact # Refused
  <2>1. /\ run' = [run EXCEPT !.stage = "over", !.verdict = verdict]
        /\ evidence' = [file |-> [name |-> Address(artifact), shape |-> "run", document |-> artifact],
                        touched |-> FALSE, built |-> run.built, seen |-> run.seen, of |-> project]
    BY <1>2, <1>5
  <2>2. DOMAIN artifact = ArtifactFields /\ artifact.traces = traces /\ traces # <<>> /\ Consistent(artifact)
    BY <1>5, ArtifactParts
  <2>3. /\ DOMAIN traces = DOMAIN built.suite.probes
        /\ \A i \in DOMAIN traces : TraceIsOf(traces[i], built) /\ AreSamples(traces[i].samples)
    <3>1. DOMAIN traces = DOMAIN built.suite.probes
      BY DEF Traces
    <3> QED  BY <1>1, <1>3, <3>1, CapturedTraces, CapturedSamples
  <2>4. \A i \in DOMAIN traces : TraceIsSampled(traces[i])
    <3> TAKE i \in DOMAIN traces
    <3>1. \A j \in DOMAIN traces[i].samples : traces[i].samples[j].index = j - 1
      <4> HIDE DEF traces, artifact
      <4> QED  BY <2>2 DEF Consistent, OneCapture
    <3>2. AreSamples(traces[i].samples)
      BY <2>3
    <3> HIDE DEF traces
    <3>3. DOMAIN traces[i].samples = 1..Len(traces[i].samples)
      BY <3>2 DEF AreSamples, IsSeq
    <3> QED  BY <3>1, <3>2, <3>3 DEF TraceIsSampled
  <2>5. 1 \in DOMAIN traces
    <3>1. Len(built.suite.probes) \in Nat /\ DOMAIN built.suite.probes = 1..Len(built.suite.probes)
      BY <1>3, MadeSuite DEF IsSeq
    <3>2. traces = [i \in 1..Len(built.suite.probes) |-> traces[i]]
      BY <3>1 DEF Traces
    <3> HIDE DEF traces, built
    <3>3. Len(built.suite.probes) # 0
      <4> SUFFICES ASSUME Len(built.suite.probes) = 0 PROVE FALSE
        OBVIOUS
      <4>1. IsSeq(traces) /\ Len(traces) = 0
        BY <3>1, <3>2, FunctionIsSeq
      <4>2. traces \in Seq({})
        <5>1. \A i \in 1..0 : FALSE
          OBVIOUS
        <5> QED  BY <4>1, <5>1, SeqOver
      <4>3. traces = <<>>
        BY <4>1, <4>2, EmptySeq
      <4> QED  BY <2>2, <4>3
    <3> QED  BY <3>1, <3>2, <3>3
  <2> HIDE DEF verdict, traces, artifact, built
  <2>6. /\ DOMAIN run' = RunFields /\ run'.stage = "over" /\ run'.built = run.built /\ run'.seen = run.seen
        /\ run'.replay = FALSE /\ run'.verdict = verdict /\ run'.answers = run.answers
    <3>1. run.replay \in BOOLEAN => run.replay = FALSE
      BY <1>1
    <3> QED  BY <1>1, <1>3, <2>1 DEF RunFields
  <2>7. RunIsMade'
    BY <1>1, <1>3, <2>6 DEF RunIsMade
  <2>8. VerdictIsDerived'
    BY <1>1, <1>3, <1>5, <2>6 DEF VerdictIsDerived, verdict, artifact, traces
  <2>9. EvidenceIsMade'
    <3>1. /\ DOMAIN evidence' = {"file", "touched", "built", "seen", "of"} /\ evidence'.of = project
          /\ evidence'.seen = run.seen /\ evidence'.built = built /\ evidence'.touched = FALSE
          /\ DOMAIN evidence'.file = {"name", "shape", "document"} /\ evidence'.file.shape = "run"
          /\ evidence'.file.document = artifact /\ evidence'.file.name = Address(artifact)
      BY <2>1 DEF built
    <3>2. \A trace \in TracesIn(evidence'.file) : TraceIsOf(trace, evidence'.built) /\ TraceIsSampled(trace)
      BY <2>2, <2>3, <2>4, <3>1 DEF TracesIn
    <3>3. DOMAIN artifact.traces = DOMAIN built.suite.probes /\ 1 \in DOMAIN artifact.traces
      BY <2>2, <2>3, <2>5
    <3>4. /\ SeenIsServed(evidence'.seen) /\ evidence'.of \in Projects
          /\ Made(evidence'.built, evidence'.of, evidence'.seen) /\ evidence'.built.client # Refused
      BY <1>3, <3>1 DEF built
    <3> HIDE DEF EvidenceIsMade
    <3>5. evidence'.file.shape = "run" =>
            /\ DOMAIN evidence'.file.document = ArtifactFields /\ 1 \in DOMAIN evidence'.file.document.traces
            /\ DOMAIN evidence'.file.document.traces = DOMAIN evidence'.built.suite.probes
            /\ ~evidence'.touched => evidence'.file.name = Address(evidence'.file.document)
            /\ evidence'.touched => evidence'.file.name # Address(RereadArtifact(evidence'.file.document))
      BY <2>2, <3>1, <3>3
    <3>6. DOMAIN evidence'.file = {"name", "shape", "document"} /\ evidence'.file.shape \in {"run", "trace"}
          /\ DOMAIN evidence' = {"file", "touched", "built", "seen", "of"}
      BY <3>1
    <3> QED  BY <3>2, <3>4, <3>5, <3>6 DEF EvidenceIsMade
  <2> QED  BY <1>1, <2>6, <2>7, <2>8, <2>9 DEF BehaviorInv
<1> QED  BY <1>4, <1>5

\* The verdict of a replay is derived from the evidence that is there.
LEMMA ReplayKeeps == BehaviorInv /\ Replay => BehaviorInv'
<1> SUFFICES ASSUME BehaviorInv, Replay PROVE BehaviorInv'
  OBVIOUS
<1> DEFINE traces == Usable(run.built, evidence.file)
           verdict == IF traces = Refused THEN Refused ELSE Verdict(run.built, traces)
<1>1. /\ UNCHANGED <<project, served, evidence>> /\ run.stage = "assembled" /\ run.replay
      /\ run' = [run EXCEPT !.stage = "over", !.verdict = verdict]
  BY DEF Replay, Usable
<1>2. /\ Made(run.built, project, run.seen) /\ AreSamples(run.answers)
      /\ SeenIsServed(run.seen) /\ DOMAIN run = RunFields /\ evidence # Absent
  BY <1>1 DEF BehaviorInv, RunIsMade
<1>3. verdict # Refused => traces # Refused /\ verdict = Verdict(run.built, traces)
  OBVIOUS
<1> HIDE DEF verdict, traces
<1>4. /\ DOMAIN run' = RunFields /\ run'.stage = "over" /\ run'.built = run.built /\ run'.seen = run.seen
      /\ run'.replay = run.replay /\ run'.verdict = verdict /\ run'.answers = run.answers
  BY <1>1, <1>2 DEF RunFields
<1>5. RunIsMade'
  BY <1>1, <1>2, <1>4 DEF RunIsMade
<1>6. VerdictIsDerived'
  BY <1>1, <1>2, <1>3, <1>4 DEF VerdictIsDerived, traces
<1>7. EvidenceIsMade'
  BY <1>1 DEF EvidenceIsMade, BehaviorInv
<1> QED  BY <1>1, <1>2, <1>4, <1>5, <1>6, <1>7 DEF BehaviorInv

\* What the name of an artifact tells of its traces, and what is read of them.
LEMMA AddressTells ==
    ASSUME NEW document, DOMAIN document = ArtifactFields
    PROVE  /\ DOMAIN Address(document).traces = DOMAIN document.traces
           /\ \A i \in DOMAIN document.traces : Address(document).traces[i] = HashedTrace(document.traces[i])
<1> DEFINE hashed == [i \in DOMAIN document.traces |-> HashedTrace(document.traces[i])]
<1>1. Address(document) = [document EXCEPT !.traces = hashed, !.captured_with.effective_params = CanonicalTable(@)]
  BY DEF Address
<1>2. DOMAIN hashed = DOMAIN document.traces /\ \A i \in DOMAIN document.traces : hashed[i] = HashedTrace(document.traces[i])
  OBVIOUS
<1>3. "traces" \in DOMAIN document
  BY DEF ArtifactFields
<1> HIDE DEF hashed
<1>4. Address(document).traces = hashed
  BY <1>1, <1>3
<1> QED  BY <1>2, <1>4

\* An artifact that is read back to the same address is of the traces that were written.
LEMMA ReadingTells ==
    ASSUME NEW document, DOMAIN document = ArtifactFields
    PROVE  LET read == RereadArtifact(document)
           IN  /\ DOMAIN read = ArtifactFields /\ DOMAIN read.traces = DOMAIN document.traces
               /\ \A i \in DOMAIN document.traces : read.traces[i] = RereadTrace(document.traces[i])
               /\ \A field \in ArtifactFields \ {"traces"} : read[field] = document[field]
<1> DEFINE traces == [i \in DOMAIN document.traces |-> RereadTrace(document.traces[i])]
           read == RereadArtifact(document)
<1>1. read = [document EXCEPT !.traces = traces]
  BY DEF RereadArtifact
<1>2. DOMAIN traces = DOMAIN document.traces /\ \A i \in DOMAIN document.traces : traces[i] = RereadTrace(document.traces[i])
  OBVIOUS
<1>3. "traces" \in DOMAIN document
  BY DEF ArtifactFields
<1> HIDE DEF traces, read
<1>4. /\ read.traces = traces /\ DOMAIN read = ArtifactFields
      /\ \A field \in ArtifactFields \ {"traces"} : read[field] = document[field]
  BY <1>1, <1>3
<1> QED  BY <1>2, <1>4 DEF read

\* A trace that is kept without its artifact is of the same run.
LEMMA ExtractTraceKeeps == BehaviorInv /\ ExtractTrace => BehaviorInv'
<1> SUFFICES ASSUME BehaviorInv, ExtractTrace PROVE BehaviorInv'
  OBVIOUS
<1>1. UNCHANGED <<project, served>> /\ run' = Idle /\ evidence # Absent /\ evidence.file.shape = "run"
  BY DEF ExtractTrace
<1>2. PICK i \in DOMAIN evidence.file.document.traces :
        evidence' = [evidence EXCEPT !.file = [name |-> Absent, shape |-> "trace",
                                               document |-> evidence.file.document.traces[i]]]
  BY DEF ExtractTrace
<1> DEFINE trace == evidence.file.document.traces[i]
<1>3. DOMAIN evidence = {"file", "touched", "built", "seen", "of"}
  BY <1>1 DEF BehaviorInv, EvidenceIsMade
<1>4. TraceIsOf(trace, evidence.built) /\ TraceIsSampled(trace)
  BY <1>1 DEF BehaviorInv, EvidenceIsMade, TracesIn
<1> HIDE DEF trace
<1>5. /\ DOMAIN evidence' = {"file", "touched", "built", "seen", "of"} /\ evidence'.of = evidence.of
      /\ evidence'.seen = evidence.seen /\ evidence'.built = evidence.built
      /\ evidence'.file = [name |-> Absent, shape |-> "trace", document |-> trace]
  BY <1>2, <1>3 DEF trace
<1>6. /\ DOMAIN evidence'.file = {"name", "shape", "document"} /\ evidence'.file.shape = "trace"
      /\ evidence'.file.document = trace
  BY <1>5
<1>7. \A other \in TracesIn(evidence'.file) : TraceIsOf(other, evidence'.built) /\ TraceIsSampled(other)
  <2>1. evidence'.file.shape # "run"
    BY <1>6
  <2> QED  BY <1>4, <1>5, <1>6, <2>1 DEF TracesIn
<1>8. EvidenceIsMade'
  BY <1>1, <1>5, <1>6, <1>7 DEF EvidenceIsMade, BehaviorInv
<1>9. RunIsMade' /\ VerdictIsDerived' /\ run'.replay = FALSE
  BY <1>1, NothingMade
<1> QED  BY <1>1, <1>8, <1>9 DEF BehaviorInv

\* A trace of an artifact is edited: the artifact is not the one its name tells.
LEMMA EditedArtifact ==
    ASSUME NEW built, NEW document, DOMAIN document = ArtifactFields, 1 \in DOMAIN document.traces,
           TraceIsOf(document.traces[1], built), TraceIsSampled(document.traces[1]),
           NEW told \in Retold(document.traces[1]), told # document.traces[1]
    PROVE  LET edited == [document EXCEPT !.traces[1] = told]
           IN  /\ DOMAIN edited = ArtifactFields /\ DOMAIN edited.traces = DOMAIN document.traces
               /\ edited.traces[1] = told
               /\ \A i \in DOMAIN document.traces \ {1} : edited.traces[i] = document.traces[i]
               /\ Address(document) # Address(RereadArtifact(edited))
<1> DEFINE edited == [document EXCEPT !.traces[1] = told]
           first == document.traces[1]
           read == RereadArtifact(edited)
<1>1. /\ DOMAIN edited = ArtifactFields /\ edited.traces = [document.traces EXCEPT ![1] = told]
  BY DEF ArtifactFields
<1> HIDE DEF edited
<1>2. /\ DOMAIN edited.traces = DOMAIN document.traces /\ edited.traces[1] = told
      /\ \A i \in DOMAIN document.traces \ {1} : edited.traces[i] = document.traces[i]
  BY <1>1
<1>3. DOMAIN read = ArtifactFields /\ DOMAIN read.traces = DOMAIN document.traces /\ read.traces[1] = RereadTrace(told)
  BY <1>1, <1>2, ReadingTells
<1> HIDE DEF read
<1>4. Address(document).traces[1] = HashedTrace(first) /\ Address(read).traces[1] = HashedTrace(RereadTrace(told))
  BY <1>3, AddressTells
<1>5. HashedTrace(RereadTrace(told)) # HashedTrace(first)
  BY RetoldTells
<1>6. Address(document) # Address(read)
  BY <1>4, <1>5
<1> QED  BY <1>1, <1>2, <1>6 DEF edited, read

\* An artifact that is edited is no longer at its address.
LEMMA EditEvidenceKeeps == BehaviorInv /\ EditEvidence => BehaviorInv'
<1> SUFFICES ASSUME BehaviorInv, EditEvidence PROVE BehaviorInv'
  OBVIOUS
<1> DEFINE file == evidence.file
           first == file.document.traces[1]
<1>1. evidence # Absent /\ ~evidence.touched
  BY DEF EditEvidence
<1>2. /\ DOMAIN evidence = {"file", "touched", "built", "seen", "of"}
      /\ DOMAIN file = {"name", "shape", "document"} /\ file.shape \in {"run", "trace"}
      /\ file.shape = "run" =>
            /\ DOMAIN file.document = ArtifactFields /\ 1 \in DOMAIN file.document.traces
            /\ DOMAIN file.document.traces = DOMAIN evidence.built.suite.probes
            /\ file.name = Address(file.document)
      /\ \A trace \in TracesIn(file) : TraceIsOf(trace, evidence.built) /\ TraceIsSampled(trace)
  BY <1>1 DEF BehaviorInv, EvidenceIsMade
<1>3. ASSUME NEW other, Touch(other), DOMAIN other = {"name", "shape", "document"}, other.shape = file.shape,
             other.shape = "run" =>
                /\ DOMAIN other.document = ArtifactFields /\ 1 \in DOMAIN other.document.traces
                /\ DOMAIN other.document.traces = DOMAIN evidence.built.suite.probes
                /\ other.name # Address(RereadArtifact(other.document)),
             \A trace \in TracesIn(other) : TraceIsOf(trace, evidence.built) /\ TraceIsSampled(trace)
      PROVE  BehaviorInv'
  <2>1. UNCHANGED <<project, served>> /\ run' = Idle /\ evidence' = [evidence EXCEPT !.file = other, !.touched = TRUE]
    BY <1>3 DEF Touch
  <2>2. /\ DOMAIN evidence' = {"file", "touched", "built", "seen", "of"} /\ evidence'.of = evidence.of
        /\ evidence'.seen = evidence.seen /\ evidence'.built = evidence.built /\ evidence'.touched = TRUE
        /\ evidence'.file = other
    BY <1>2, <2>1
  <2>3. EvidenceIsMade'
    BY <1>1, <1>2, <1>3, <2>1, <2>2 DEF EvidenceIsMade, BehaviorInv
  <2>4. RunIsMade' /\ VerdictIsDerived' /\ run'.replay = FALSE
    BY <2>1, NothingMade
  <2> QED  BY <2>1, <2>3, <2>4 DEF BehaviorInv
<1>4. CASE file.shape = "run"
  <2>1. PICK told \in Retold(first) : told # first /\ Touch([file EXCEPT !.document.traces[1] = told])
    BY <1>4 DEF EditEvidence
  <2> DEFINE document == file.document
             edited == [document EXCEPT !.traces[1] = told]
             other == [file EXCEPT !.document = edited]
  <2>2. \A i \in DOMAIN document.traces :
            TraceIsOf(document.traces[i], evidence.built) /\ TraceIsSampled(document.traces[i])
    BY <1>2, <1>4 DEF TracesIn
  <2>3. /\ DOMAIN edited = ArtifactFields /\ DOMAIN edited.traces = DOMAIN document.traces
        /\ edited.traces[1] = told
        /\ \A i \in DOMAIN document.traces \ {1} : edited.traces[i] = document.traces[i]
        /\ Address(document) # Address(RereadArtifact(edited))
    <3> HIDE DEF document
    <3> SUFFICES ASSUME told \in Retold(document.traces[1]), told # document.traces[1],
                        DOMAIN document = ArtifactFields, 1 \in DOMAIN document.traces
                 PROVE  /\ DOMAIN edited = ArtifactFields /\ DOMAIN edited.traces = DOMAIN document.traces
                        /\ edited.traces[1] = told
                        /\ \A i \in DOMAIN document.traces \ {1} : edited.traces[i] = document.traces[i]
                        /\ Address(document) # Address(RereadArtifact(edited))
      BY <1>2, <1>4, <2>1 DEF document
    <3> QED  BY <2>2, EditedArtifact
  <2>4. TraceIsOf(told, evidence.built) /\ TraceIsSampled(told)
    BY <1>2, <1>4, <2>1, <2>2, RetoldSamples
  <2>5. \A i \in DOMAIN edited.traces : TraceIsOf(edited.traces[i], evidence.built) /\ TraceIsSampled(edited.traces[i])
    <3> HIDE DEF edited, document
    <3> QED  BY <2>2, <2>3, <2>4
  <2>6. Touch(other)
    <3>1. other = [file EXCEPT !.document.traces[1] = told]
      OBVIOUS
    <3> QED  BY <2>1, <3>1
  <2> HIDE DEF edited
  <2>7. /\ DOMAIN other = {"name", "shape", "document"} /\ other.shape = file.shape /\ other.name = file.name
        /\ other.document = edited
    BY <1>2
  <2> HIDE DEF other
  <2>8. \A trace \in TracesIn(other) : TraceIsOf(trace, evidence.built) /\ TraceIsSampled(trace)
    BY <1>4, <2>5, <2>7 DEF TracesIn
  <2>9. /\ DOMAIN other.document = ArtifactFields /\ 1 \in DOMAIN other.document.traces
        /\ DOMAIN other.document.traces = DOMAIN evidence.built.suite.probes
        /\ other.name # Address(RereadArtifact(other.document))
    BY <1>2, <1>4, <2>3, <2>7
  <2> QED  BY <1>3, <2>6, <2>7, <2>8, <2>9
<1>5. CASE file.shape # "run"
  <2>1. PICK told \in Retold(file.document) : Touch([file EXCEPT !.document = told])
    BY <1>5 DEF EditEvidence
  <2> DEFINE other == [file EXCEPT !.document = told]
  <2>2. /\ DOMAIN other = {"name", "shape", "document"} /\ other.shape = file.shape /\ other.document = told
    BY <1>2
  <2>3. TraceIsOf(told, evidence.built) /\ TraceIsSampled(told)
    <3>1. TraceIsOf(file.document, evidence.built) /\ TraceIsSampled(file.document)
      BY <1>2, <1>5 DEF TracesIn
    <3> QED  BY <3>1, RetoldSamples
  <2>4. Touch(other)
    BY <2>1
  <2> HIDE DEF other
  <2>5. \A trace \in TracesIn(other) : TraceIsOf(trace, evidence.built) /\ TraceIsSampled(trace)
    BY <1>5, <2>2, <2>3 DEF TracesIn
  <2> QED  BY <1>3, <1>5, <2>2, <2>4, <2>5
<1> QED  BY <1>4, <1>5

\* Every step keeps the invariant.
LEMMA BehaviorInductive == BehaviorInv /\ [Next]_vars => BehaviorInv'
<1> SUFFICES ASSUME BehaviorInv, [Next]_vars PROVE BehaviorInv'
  OBVIOUS
<1>1. ASSUME NEW override \in Overrides, NEW replay \in BOOLEAN, Begin(override, replay) PROVE BehaviorInv'
  BY <1>1, BeginKeeps
<1>2. CASE ReadTags
  BY <1>2, ReadTagsKeeps
<1>3. CASE ReadShow
  BY <1>3, ReadShowKeeps
<1>4. CASE RequestFails
  BY <1>4, RequestFailsKeeps
<1>5. CASE Assemble
  BY <1>5, AssembleKeeps
<1>6. ASSUME NEW response \in Responses, Ask(response) PROVE BehaviorInv'
  BY <1>6, AskKeeps
<1>7. ASSUME NEW accept \in BOOLEAN, Conclude(accept) PROVE BehaviorInv'
  BY <1>7, ConcludeKeeps
<1>8. CASE Replay
  BY <1>8, ReplayKeeps
<1>9. ASSUME NEW next \in Projects, Edit(next) PROVE BehaviorInv'
  BY <1>9, EditKeeps
<1>10. ASSUME NEW model \in Models, Replace(model) PROVE BehaviorInv'
  BY <1>10, ReplaceKeeps
<1>11. CASE EditEvidence
  BY <1>11, EditEvidenceKeeps
<1>12. CASE ExtractTrace
  BY <1>12, ExtractTraceKeeps
<1>13. CASE UNCHANGED vars
  BY <1>13, StutteringKeeps
<1> QED  BY <1>1, <1>2, <1>3, <1>4, <1>5, <1>6, <1>7, <1>8, <1>9, <1>10, <1>11, <1>12, <1>13 DEF Next

\* A run and its evidence are made of the project and the model that were there; a verdict is derived
\* from the answers of the run or from the evidence.
THEOREM EvidenceHasAnOrigin == Spec => []BehaviorInv
<1>1. Init => BehaviorInv
  BY InitMakesNothing
<1>2. BehaviorInv /\ [Next]_vars => BehaviorInv'
  BY BehaviorInductive
<1> QED  BY <1>1, <1>2, PTL DEF Spec

------------------------------------------------------------------------------
(* What a verdict of a replay is of.                                          *)

\* The traces of a file as they were written.
Written(file) == IF file.shape = "run" THEN file.document.traces ELSE <<file.document>>

\* A trace is found among the traces.
LEMMA TraceIsFound ==
    ASSUME NEW traces, NEW n \in Nat, DOMAIN traces = 1..n, NEW name, TraceFor(traces, name) # Absent
    PROVE  \E k \in DOMAIN traces : TraceFor(traces, name) = traces[k] /\ traces[k].probe = name
<1> DEFINE of == {i \in DOMAIN traces : traces[i].probe = name}
<1>1. TraceFor(traces, name) = IF of = {} THEN Absent ELSE traces[Min(of)]
  BY DEF TraceFor
<1>2. of \in SUBSET (1..n)
  OBVIOUS
<1>3. \A k \in of : k \in DOMAIN traces /\ traces[k].probe = name
  OBVIOUS
<1> HIDE DEF of
<1>4. of # {}
  BY <1>1
<1>5. Min(of) \in of
  BY <1>2, <1>4, Bounded
<1> QED  BY <1>1, <1>3, <1>4, <1>5

\* Found among the traces as they are read is what is read of what is found as they are written.
LEMMA FoundAsRead ==
    ASSUME NEW written, NEW n \in Nat, DOMAIN written = 1..n, NEW read, DOMAIN read = 1..n,
           \A k \in 1..n : read[k] = RereadTrace(written[k]) /\ read[k].probe = written[k].probe,
           NEW name, TraceFor(read, name) # Absent
    PROVE  /\ TraceFor(read, name) = RereadTrace(TraceFor(written, name))
           /\ \E k \in 1..n : TraceFor(written, name) = written[k]
<1> DEFINE of == {i \in DOMAIN read : read[i].probe = name}
           other == {i \in DOMAIN written : written[i].probe = name}
<1>1. of = other /\ of \in SUBSET (1..n)
  OBVIOUS
<1>2. /\ TraceFor(read, name) = IF of = {} THEN Absent ELSE read[Min(of)]
      /\ TraceFor(written, name) = IF other = {} THEN Absent ELSE written[Min(other)]
  BY DEF TraceFor
<1> HIDE DEF of, other
<1>3. of # {}
  BY <1>2
<1>4. Min(of) \in of
  BY <1>1, <1>3, Bounded
<1> QED  BY <1>1, <1>2, <1>3, <1>4

\* The part of BehaviorInv that is about a run over the evidence there is.
LEMMA EvidenceParts ==
    ASSUME BehaviorInv, evidence # Absent
    PROVE  /\ evidence.of \in Projects /\ SeenIsServed(evidence.seen)
           /\ Made(evidence.built, evidence.of, evidence.seen) /\ evidence.built.client # Refused
           /\ evidence.file.shape \in {"run", "trace"}
           /\ evidence.file.shape = "run" =>
                /\ DOMAIN evidence.file.document = ArtifactFields
                /\ ~evidence.touched => evidence.file.name = Address(evidence.file.document)
                /\ evidence.touched => evidence.file.name # Address(RereadArtifact(evidence.file.document))
           /\ \E n \in Nat : DOMAIN Written(evidence.file) = 1..n
           /\ 1 \in DOMAIN Written(evidence.file)
           /\ \A k \in DOMAIN Written(evidence.file) :
                Written(evidence.file)[k] \in TracesIn(evidence.file)
           /\ \A trace \in TracesIn(evidence.file) : TraceIsOf(trace, evidence.built) /\ TraceIsSampled(trace)
<1>1. /\ evidence.of \in Projects /\ SeenIsServed(evidence.seen)
      /\ Made(evidence.built, evidence.of, evidence.seen) /\ evidence.built.client # Refused
      /\ evidence.file.shape \in {"run", "trace"}
      /\ evidence.file.shape = "run" =>
            /\ DOMAIN evidence.file.document = ArtifactFields /\ 1 \in DOMAIN evidence.file.document.traces
            /\ DOMAIN evidence.file.document.traces = DOMAIN evidence.built.suite.probes
            /\ ~evidence.touched => evidence.file.name = Address(evidence.file.document)
            /\ evidence.touched => evidence.file.name # Address(RereadArtifact(evidence.file.document))
      /\ \A trace \in TracesIn(evidence.file) : TraceIsOf(trace, evidence.built) /\ TraceIsSampled(trace)
  BY DEF BehaviorInv, EvidenceIsMade
<1>2. Len(evidence.built.suite.probes) \in Nat /\ DOMAIN evidence.built.suite.probes = 1..Len(evidence.built.suite.probes)
  BY <1>1, MadeSuite DEF IsSeq
<1>3. CASE evidence.file.shape = "run"
  <2>1. Written(evidence.file) = evidence.file.document.traces
    BY <1>3 DEF Written
  <2>2. DOMAIN Written(evidence.file) = 1..Len(evidence.built.suite.probes) /\ 1 \in DOMAIN Written(evidence.file)
    BY <1>1, <1>2, <1>3, <2>1
  <2>3. \A k \in DOMAIN Written(evidence.file) : Written(evidence.file)[k] \in TracesIn(evidence.file)
    BY <1>3, <2>1 DEF TracesIn
  <2> QED  BY <1>1, <1>2, <2>2, <2>3
<1>4. CASE evidence.file.shape # "run"
  <2>1. Written(evidence.file) = <<evidence.file.document>>
    BY <1>4 DEF Written
  <2>2. DOMAIN Written(evidence.file) = 1..1 /\ 1 \in DOMAIN Written(evidence.file) /\ Written(evidence.file)[1] = evidence.file.document /\ 1 \in Nat
    BY <2>1
  <2>3. \A k \in DOMAIN Written(evidence.file) : Written(evidence.file)[k] \in TracesIn(evidence.file)
    BY <1>4, <2>2 DEF TracesIn
  <2> QED  BY <1>1, <2>2, <2>3
<1> QED  BY <1>3, <1>4

\* The traces of a file that may be scored: all of them, as they are read, of this agent and this
\* catalog; an artifact has the name it was given.
LEMMA UsableIsRead ==
    ASSUME BehaviorInv, evidence # Absent, NEW context, UsableTraces(evidence.file, context) # Refused
    PROVE  LET written == Written(evidence.file)
               read == UsableTraces(evidence.file, context)
           IN  /\ DOMAIN read = DOMAIN written
               /\ \A k \in DOMAIN written :
                    /\ read[k] = RereadTrace(written[k])
                    /\ read[k].agent_checksum = context.agent_checksum
                    /\ read[k].captured_with.tool_catalog_digest = context.tool_catalog_digest
               /\ evidence.file.shape = "run" =>
                    /\ evidence.file.name = Address(RereadArtifact(evidence.file.document))
                    /\ evidence.file.document.probe_suite_digest = context.probe_suite_digest
<1> DEFINE file == evidence.file
           written == Written(evidence.file)
           read == UsableTraces(evidence.file, context)
           artifact == RereadArtifact(file.document)
<1>0. /\ file.shape \in {"run", "trace"}
      /\ file.shape = "run" => DOMAIN file.document = ArtifactFields
  BY EvidenceParts
<1>1. CASE file.shape = "run"
  <2>1. /\ ReadArtifact(file) # Refused /\ ValidArtifact(ReadArtifact(file), context)
        /\ read = ReadArtifact(file).traces
    BY <1>1 DEF UsableTraces
  <2>2. ReadArtifact(file) = artifact /\ file.name = Address(artifact)
    BY <2>1 DEF ReadArtifact
  <2>3. /\ DOMAIN artifact.traces = DOMAIN file.document.traces
        /\ \A i \in DOMAIN file.document.traces : artifact.traces[i] = RereadTrace(file.document.traces[i])
        /\ artifact["probe_suite_digest"] = file.document["probe_suite_digest"]
    <3>1. "probe_suite_digest" \in ArtifactFields \ {"traces"}
      BY DEF ArtifactFields
    <3> HIDE DEF file, artifact
    <3> QED  BY <1>0, <1>1, <3>1, ReadingTells DEF artifact
  <2> HIDE DEF artifact
  <2>4. /\ artifact.probe_suite_digest = context.probe_suite_digest
        /\ \A i \in DOMAIN artifact.traces :
            /\ artifact.traces[i].agent_checksum = context.agent_checksum
            /\ artifact.traces[i].captured_with.tool_catalog_digest = context.tool_catalog_digest
    BY <2>1, <2>2 DEF ValidArtifact, ValidTrace, Matching
  <2>5. written = file.document.traces /\ read = artifact.traces
    BY <1>1, <2>1, <2>2 DEF Written
  <2> HIDE DEF read, written
  <2>6. file.document.probe_suite_digest = context.probe_suite_digest
    BY <2>3, <2>4
  <2> QED  BY <2>2, <2>3, <2>4, <2>5, <2>6 DEF read, written, artifact
<1>2. CASE file.shape # "run"
  <2> DEFINE trace == ReadTrace(file)
  <2>1. trace # Refused /\ ValidTrace(trace, context) /\ read = <<trace>>
    BY <1>0, <1>2 DEF UsableTraces
  <2>2. trace = RereadTrace(file.document)
    BY <2>1 DEF ReadTrace
  <2> HIDE DEF trace
  <2>3. /\ trace.agent_checksum = context.agent_checksum
        /\ trace.captured_with.tool_catalog_digest = context.tool_catalog_digest
    BY <2>1 DEF ValidTrace, Matching
  <2>4. written = <<file.document>>
    BY <1>2 DEF Written
  <2>5. DOMAIN read = DOMAIN written /\ DOMAIN written = {1} /\ read[1] = trace /\ written[1] = file.document
    BY <2>1, <2>4
  <2> HIDE DEF read, written
  <2> QED  BY <1>2, <2>2, <2>3, <2>5 DEF read, written
<1> QED  BY <1>1, <1>2

\* A verdict there is has the outcome of every probe, of the trace at its place.
LEMMA VerdictParts ==
    ASSUME NEW built, NEW traces, Verdict(built, traces) # Refused
    PROVE  /\ traces # Refused /\ DOMAIN Verdict(built, traces) = DOMAIN built.suite.probes
           /\ \A i \in DOMAIN built.suite.probes :
                /\ Verdict(built, traces)[i] = Judge(built.suite.probes[i], traces[i], built.catalog)
                /\ Verdict(built, traces)[i] # Refused
                /\ IsTraceOf(traces[i], built.suite.probes[i])
                /\ ValidIdentities(traces[i], built.catalog)
<1> DEFINE outcomes == EvaluateAll(built.suite, traces, built.catalog)
<1>1. /\ traces # Refused /\ Verdict(built, traces) = outcomes
      /\ \A i \in DOMAIN outcomes : outcomes[i] # Refused
  BY DEF Verdict
<1>2. /\ DOMAIN outcomes = DOMAIN built.suite.probes
      /\ \A i \in DOMAIN built.suite.probes :
            outcomes[i] = Evaluation(built.suite.probes[i], traces[i], built.catalog)
  BY DEF EvaluateAll
<1> HIDE DEF outcomes
<1>3. \A i \in DOMAIN built.suite.probes :
        /\ outcomes[i] = Judge(built.suite.probes[i], traces[i], built.catalog)
        /\ outcomes[i] # Refused
        /\ IsTraceOf(traces[i], built.suite.probes[i])
        /\ ValidIdentities(traces[i], built.catalog)
  <2> TAKE i \in DOMAIN built.suite.probes
  <2>1. outcomes[i] = Evaluation(built.suite.probes[i], traces[i], built.catalog) /\ outcomes[i] # Refused
    BY <1>1, <1>2
  <2> QED  BY <2>1 DEF Evaluation
<1> QED  BY <1>1, <1>2, <1>3

\* What a replay that was accepted judged.
LEMMA ReplayedParts ==
    ASSUME BehaviorInv, Accepted, run.replay
    PROVE  LET built == run.built
               probes == run.built.suite.probes
               file == evidence.file
               traces == Usable(run.built, evidence.file)
           IN  /\ evidence # Absent /\ Made(built, project, run.seen)
               /\ DOMAIN run.verdict = DOMAIN probes
               /\ \A i \in DOMAIN probes :
                    /\ traces[i] = RereadTrace(TraceFor(Written(file), probes[i].name))
                    /\ TraceFor(Written(file), probes[i].name) \in TracesIn(file)
                    /\ traces[i].agent_checksum = built.checksum
                    /\ traces[i].captured_with.tool_catalog_digest = CatalogDigest(built.catalog)
                    /\ run.verdict[i] = Judge(probes[i], traces[i], built.catalog) /\ run.verdict[i] # Refused
                    /\ IsTraceOf(traces[i], probes[i]) /\ ValidIdentities(traces[i], built.catalog)
               /\ file.shape = "run" =>
                    /\ file.name = Address(RereadArtifact(file.document))
                    /\ file.document.probe_suite_digest = built.suite.digest
<1> DEFINE built == run.built
           probes == built.suite.probes
           file == evidence.file
           context == Context(built.checksum, built.suite, built.catalog, Version)
           read == UsableTraces(file, context)
           traces == Usable(built, file)
           written == Written(file)
<1>1. /\ run.stage = "over" /\ run.verdict \notin {Absent, Refused} /\ Made(built, project, run.seen)
      /\ evidence # Absent /\ run.verdict = Verdict(built, traces)
  BY DEF BehaviorInv, Accepted, Over, RunIsMade, VerdictIsDerived
<1>2. /\ traces # Refused /\ DOMAIN run.verdict = DOMAIN probes
      /\ \A i \in DOMAIN probes :
            /\ run.verdict[i] = Judge(probes[i], traces[i], built.catalog) /\ run.verdict[i] # Refused
            /\ IsTraceOf(traces[i], probes[i]) /\ ValidIdentities(traces[i], built.catalog)
  <2>1. Verdict(built, traces) # Refused
    BY <1>1
  <2> HIDE DEF traces, built
  <2> QED  BY <1>1, <2>1, VerdictParts
<1>3. /\ read # Refused
      /\ \A i \in DOMAIN probes : traces[i] = TraceFor(read, probes[i].name) /\ traces[i] # Absent
  <2> DEFINE aligned == [i \in DOMAIN probes |-> TraceFor(read, probes[i].name)]
  <2>1. traces = IF read = Refused \/ \E i \in DOMAIN aligned : aligned[i] = Absent THEN Refused ELSE aligned
    BY DEF Usable, RecordedTraces
  <2>2. DOMAIN aligned = DOMAIN probes /\ \A i \in DOMAIN probes : aligned[i] = TraceFor(read, probes[i].name)
    OBVIOUS
  <2> HIDE DEF aligned, traces, read
  <2> QED  BY <1>2, <2>1, <2>2
<1>4. /\ context.agent_checksum = built.checksum /\ context.probe_suite_digest = built.suite.digest
      /\ context.tool_catalog_digest = CatalogDigest(built.catalog)
  BY DEF Context
<1> HIDE DEF context, traces
<1>5. /\ DOMAIN read = DOMAIN written
      /\ \A k \in DOMAIN written :
            /\ read[k] = RereadTrace(written[k])
            /\ read[k].agent_checksum = built.checksum
            /\ read[k].captured_with.tool_catalog_digest = CatalogDigest(built.catalog)
      /\ file.shape = "run" =>
            /\ file.name = Address(RereadArtifact(file.document))
            /\ file.document.probe_suite_digest = built.suite.digest
  BY <1>1, <1>3, <1>4, UsableIsRead
<1>6. /\ \E n \in Nat : DOMAIN written = 1..n
      /\ \A k \in DOMAIN written : written[k] \in TracesIn(file)
      /\ \A trace \in TracesIn(file) : TraceIsOf(trace, evidence.built) /\ TraceIsSampled(trace)
  BY <1>1, EvidenceParts
<1>7. PICK n \in Nat : DOMAIN written = 1..n
  BY <1>6
<1>8. \A k \in DOMAIN written : read[k].probe = written[k].probe
  <2> TAKE k \in DOMAIN written
  <2>1. written[k] = [field \in TraceFields |-> written[k][field]] /\ AreSamples(written[k].samples)
    BY <1>6 DEF TraceIsOf, TraceIsSampled
  <2>2. "probe" \in TraceFields \ {"samples"}
    BY DEF TraceFields
  <2> HIDE DEF read, written
  <2>3. RereadTrace(written[k])["probe"] = written[k]["probe"]
    BY <2>1, <2>2, RereadKeeps
  <2> QED  BY <1>5, <2>3
<1> HIDE DEF read, written, file
<1>9. \A i \in DOMAIN probes :
        /\ traces[i] = RereadTrace(TraceFor(written, probes[i].name))
        /\ TraceFor(written, probes[i].name) \in TracesIn(file)
        /\ traces[i].agent_checksum = built.checksum
        /\ traces[i].captured_with.tool_catalog_digest = CatalogDigest(built.catalog)
  <2> TAKE i \in DOMAIN probes
  <2> DEFINE name == probes[i].name
  <2>1. traces[i] = TraceFor(read, name) /\ TraceFor(read, name) # Absent
    BY <1>3
  <2> HIDE DEF name
  <2>2. DOMAIN read = 1..n /\ DOMAIN written = 1..n
        /\ \A k \in 1..n : read[k] = RereadTrace(written[k]) /\ read[k].probe = written[k].probe
    BY <1>5, <1>7, <1>8
  <2>3. TraceFor(read, name) = RereadTrace(TraceFor(written, name)) /\ \E k \in 1..n : TraceFor(written, name) = written[k]
    BY <2>1, <2>2, FoundAsRead
  <2>4. \E k \in DOMAIN read : TraceFor(read, name) = read[k]
    BY <2>1, <2>2, TraceIsFound
  <2> QED  BY <1>5, <1>6, <2>1, <2>2, <2>3, <2>4 DEF name
<1> QED  BY <1>1, <1>2, <1>5, <1>9 DEF file, traces, written

\* Runs of one checksum and one catalog put one and the same request for a probe of one digest.
LEMMA SameAnswers ==
    ASSUME NEW built, NEW disk \in Projects, NEW seen, Made(built, disk, seen), built.client # Refused,
           NEW other, NEW from \in Projects, NEW seen2, Made(other, from, seen2), other.client # Refused,
           built.checksum = other.checksum, CatalogDigest(built.catalog) = CatalogDigest(other.catalog),
           NEW i \in DOMAIN built.suite.probes, NEW j \in DOMAIN other.suite.probes,
           ProbeDigest(built.suite.probes[i]) = ProbeDigest(other.suite.probes[j])
    PROVE  Asked(built)[i] = Asked(other)[j]
<1>1. PICK described, override : built = Built(disk, described, override) /\ built # Refused
  BY DEF Made
<1>2. PICK told, repeat : other = Built(from, told, repeat) /\ other # Refused
  BY DEF Made
<1> QED  BY <1>1, <1>2, SameRequests

\* A request for each probe.
LEMMA AskedPlaces == ASSUME NEW built PROVE DOMAIN Asked(built) = DOMAIN built.suite.probes
  BY DEF Asked

\* What answers are filed under has the agent, the catalog and the probe in it.
LEMMA KeyTells ==
    ASSUME NEW built, NEW other, NEW i \in DOMAIN built.suite.probes, NEW j \in DOMAIN other.suite.probes,
           Keys(built)[i] = Keys(other)[j]
    PROVE  /\ built.checksum = other.checksum /\ CatalogDigest(built.catalog) = CatalogDigest(other.catalog)
           /\ ProbeDigest(built.suite.probes[i]) = ProbeDigest(other.suite.probes[j])
<1>1. /\ Keys(built)[i] = CacheInputs(built.client, Version, built.catalog, built.checksum, built.suite.probes[i], 0)
      /\ Keys(other)[j] = CacheInputs(other.client, Version, other.catalog, other.checksum, other.suite.probes[j], 0)
  BY DEF Keys
<1>2. \A client, version, catalog, checksum, probe, index :
        LET key == CacheInputs(client, version, catalog, checksum, probe, index)
        IN  /\ key.agent_checksum = checksum /\ key.tool_catalog_digest = CatalogDigest(catalog)
            /\ key.probe_digest = ProbeDigest(probe)
  BY DEF CacheInputs
<1> DEFINE k1 == CacheInputs(built.client, Version, built.catalog, built.checksum, built.suite.probes[i], 0)
           k2 == CacheInputs(other.client, Version, other.catalog, other.checksum, other.suite.probes[j], 0)
<1>3. /\ k1.agent_checksum = built.checksum /\ k1.tool_catalog_digest = CatalogDigest(built.catalog)
      /\ k1.probe_digest = ProbeDigest(built.suite.probes[i])
  BY <1>2
<1>4. /\ k2.agent_checksum = other.checksum /\ k2.tool_catalog_digest = CatalogDigest(other.catalog)
      /\ k2.probe_digest = ProbeDigest(other.suite.probes[j])
  BY <1>2
<1>5. k1 = k2
  BY <1>1
<1> HIDE DEF k1, k2
<1> QED  BY <1>3, <1>4, <1>5

\* What an agent asks is all in what its answers are filed under, by the invariant.
LEMMA AnswersFit == BehaviorInv => AnswersAreToTheseRequests
<1> SUFFICES ASSUME BehaviorInv, run.built # Absent, run.built.client # Refused, evidence # Absent
             PROVE  /\ Accepted /\ run.replay /\ ~evidence.touched =>
                        AsSet(Asked(run.built)) \subseteq AsSet(Asked(evidence.built))
                    /\ JustAssembled =>
                        \A i \in DOMAIN run.built.suite.probes : \A j \in DOMAIN evidence.built.suite.probes :
                            Keys(run.built)[i] = Keys(evidence.built)[j]
                            => Asked(run.built)[i] = Asked(evidence.built)[j]
  BY DEF AnswersAreToTheseRequests
<1> DEFINE built == run.built
           other == evidence.built
<1>1. /\ Made(built, project, run.seen) /\ project \in Projects
      /\ Made(other, evidence.of, evidence.seen) /\ other.client # Refused /\ evidence.of \in Projects
  BY EvidenceParts DEF BehaviorInv, RunIsMade
<1>2. ASSUME NEW i \in DOMAIN built.suite.probes, NEW j \in DOMAIN other.suite.probes,
             built.checksum = other.checksum, CatalogDigest(built.catalog) = CatalogDigest(other.catalog),
             ProbeDigest(built.suite.probes[i]) = ProbeDigest(other.suite.probes[j])
      PROVE  Asked(built)[i] = Asked(other)[j]
  <2> HIDE DEF built, other
  <2>1. built.client # Refused
    BY DEF built
  <2> QED  BY <1>1, <1>2, <2>1, SameAnswers
<1>3. ASSUME Accepted, run.replay, NEW i \in DOMAIN built.suite.probes
      PROVE  \E j \in DOMAIN other.suite.probes : Asked(built)[i] = Asked(other)[j]
  <2> DEFINE trace == TraceFor(Written(evidence.file), built.suite.probes[i].name)
  <2>1. /\ trace \in TracesIn(evidence.file)
        /\ RereadTrace(trace).agent_checksum = built.checksum
        /\ RereadTrace(trace).captured_with.tool_catalog_digest = CatalogDigest(built.catalog)
        /\ RereadTrace(trace).probe_digest = ProbeDigest(built.suite.probes[i])
    BY <1>3, ReplayedParts DEF IsTraceOf
  <2> HIDE DEF trace
  <2>2. TraceIsOf(trace, other) /\ TraceIsSampled(trace)
    BY <2>1, EvidenceParts
  <2>3. /\ RereadTrace(trace)["agent_checksum"] = trace["agent_checksum"]
        /\ RereadTrace(trace)["captured_with"] = trace["captured_with"]
        /\ RereadTrace(trace)["probe_digest"] = trace["probe_digest"]
    <3>1. trace = [field \in TraceFields |-> trace[field]] /\ AreSamples(trace.samples)
      BY <2>2 DEF TraceIsOf, TraceIsSampled
    <3>2. {"agent_checksum", "captured_with", "probe_digest"} \subseteq TraceFields \ {"samples"}
      BY DEF TraceFields
    <3> QED  BY <3>1, <3>2, RereadKeeps
  <2>4. PICK j \in DOMAIN other.suite.probes : trace.probe_digest = ProbeDigest(other.suite.probes[j])
    BY <2>2 DEF TraceIsOf
  <2>5. /\ trace.agent_checksum = other.checksum
        /\ trace.captured_with.tool_catalog_digest = CatalogDigest(other.catalog)
    BY <2>2 DEF TraceIsOf
  <2> HIDE DEF built, other
  <2>6. /\ built.checksum = other.checksum /\ CatalogDigest(built.catalog) = CatalogDigest(other.catalog)
        /\ ProbeDigest(built.suite.probes[i]) = ProbeDigest(other.suite.probes[j])
    BY <2>1, <2>3, <2>4, <2>5
  <2> QED  BY <1>2, <2>4, <2>6
<1>4. ASSUME Accepted, run.replay
      PROVE  AsSet(Asked(built)) \subseteq AsSet(Asked(other))
  BY <1>3, <1>4, AskedPlaces DEF AsSet
<1>5. ASSUME NEW i \in DOMAIN built.suite.probes, NEW j \in DOMAIN other.suite.probes, Keys(built)[i] = Keys(other)[j]
      PROVE  Asked(built)[i] = Asked(other)[j]
  <2> HIDE DEF built, other
  <2>1. /\ built.checksum = other.checksum /\ CatalogDigest(built.catalog) = CatalogDigest(other.catalog)
        /\ ProbeDigest(built.suite.probes[i]) = ProbeDigest(other.suite.probes[j])
    BY <1>5, KeyTells
  <2> QED  BY <1>2, <2>1
<1> QED  BY <1>4, <1>5

\* Evidence that is accepted, and a cached sample that is found, answer the requests of this agent.
THEOREM AnswersAreToTheRequests == Spec => []AnswersAreToTheseRequests
<1>1. BehaviorInv => AnswersAreToTheseRequests
  BY AnswersFit
<1> QED  BY <1>1, EvidenceHasAnOrigin, PTL

\* Two runs of one checksum have the same model: a local one by the digest in its description.
LEMMA SameModel ==
    ASSUME NEW disk \in Projects, NEW described, NEW override, Built(disk, described, override) # Refused,
           NEW from \in Projects, NEW told, NEW repeat, Built(from, told, repeat) # Refused,
           Built(from, told, repeat).client # Refused,
           Built(disk, described, override).checksum = Built(from, told, repeat).checksum
    PROVE  /\ disk.config.model # Absent /\ from.config.model # Absent
           /\ disk.config.model.provider = from.config.model.provider
           /\ disk.config.model.provider = "ollama" => described.digest = told.digest
<1> DEFINE b == Built(disk, described, override)
           c == Built(from, told, repeat)
           checksum == AgentChecksum(Discovered(from, told))
           config == disk.config.model
           model == from.config.model
           dep == ModelDependency(config, described)
           dip == ModelDependency(model, told)
<1>1. Discovered(disk, described) # Refused /\ b.checksum = AgentChecksum(Discovered(disk, described))
  BY BuiltParts
<1>2. /\ Discovered(from, told) # Refused /\ c.checksum = checksum /\ model # Absent
  BY BuiltParts
<1>3. /\ dip # Refused /\ ModelId(model) \in DOMAIN checksum
      /\ \A id \in DOMAIN checksum : id[1] = "model" =>
            id[2] = model.provider /\ checksum[id] = DepDigest(dip.facets)
  BY <1>2, ModelIsChecksummed
<1>4. \A id \in DOMAIN b.checksum : id[1] = "model" =>
        /\ config # Absent /\ dep # Refused /\ id[2] = config.provider
        /\ b.checksum[id] = DepDigest(dep.facets)
  BY <1>1, ModelIsChecksummed
<1>5. ModelId(model)[1] = "model"
  <2>1. dip.id = ModelId(model) /\ dip.id[1] = "model"
    BY <1>3, ModelIdIs
  <2> QED  BY <2>1
<1>6. b.checksum = checksum
  BY <1>2
<1> HIDE DEF b, c, checksum, config, model, dep, dip
<1>7. config # Absent /\ dep # Refused /\ config.provider = model.provider /\ DepDigest(dep.facets) = DepDigest(dip.facets)
  BY <1>3, <1>4, <1>5, <1>6
<1>8. config.provider = "ollama" => DepDigest(dep.facets)["identity"].digest = described.digest
  BY <1>7, ModelTells DEF dep
<1>9. model.provider = "ollama" => DepDigest(dip.facets)["identity"].digest = told.digest
  BY <1>3, ModelTells DEF dip
<1> QED  BY <1>2, <1>7, <1>8, <1>9 DEF config, model

\* A replay that was accepted is of a run of one checksum with the evidence.
LEMMA SameAgent ==
    ASSUME BehaviorInv, Accepted, run.replay
    PROVE  evidence # Absent /\ run.built.checksum = evidence.built.checksum
<1> DEFINE context == Context(run.built.checksum, run.built.suite, run.built.catalog, Version)
           read == UsableTraces(evidence.file, context)
           written == Written(evidence.file)
           trace == written[1]
<1>1. evidence # Absent /\ Usable(run.built, evidence.file) # Refused
  BY DEF BehaviorInv, Accepted, Over, VerdictIsDerived
<1>2. read # Refused
  BY <1>1 DEF Usable, RecordedTraces
<1>3. 1 \in DOMAIN written /\ trace \in TracesIn(evidence.file)
      /\ TraceIsOf(trace, evidence.built) /\ TraceIsSampled(trace)
  BY <1>1, EvidenceParts
<1>4. context.agent_checksum = run.built.checksum
  BY DEF Context
<1> HIDE DEF context
<1>5. read[1] = RereadTrace(trace) /\ read[1].agent_checksum = run.built.checksum
  BY <1>1, <1>2, <1>3, <1>4, UsableIsRead
<1> HIDE DEF trace, read, written
<1>6. RereadTrace(trace)["agent_checksum"] = trace["agent_checksum"]
  <2>1. trace = [field \in TraceFields |-> trace[field]] /\ AreSamples(trace.samples)
    BY <1>3 DEF TraceIsOf, TraceIsSampled
  <2>2. "agent_checksum" \in TraceFields \ {"samples"}
    BY DEF TraceFields
  <2> QED  BY <2>1, <2>2, RereadKeeps
<1>7. trace.agent_checksum = evidence.built.checksum
  BY <1>3 DEF TraceIsOf
<1> QED  BY <1>1, <1>5, <1>6, <1>7

\* The digest of a local model is in the checksum, by which the evidence is accepted.
LEMMA ServedFit == BehaviorInv => AcceptedWhileServed
<1> SUFFICES ASSUME BehaviorInv, Accepted, run.replay, Cardinality(evidence.seen) = 1,
                    project.config.model.provider = "ollama"
             PROVE  evidence.seen \subseteq run.seen
  BY DEF AcceptedWhileServed
<1>1. evidence # Absent /\ run.built.checksum = evidence.built.checksum
  BY SameAgent
<1>2. Made(run.built, project, run.seen) /\ project \in Projects /\ SeenIsServed(run.seen)
  BY ReplayedParts DEF BehaviorInv, RunIsMade
<1>3. /\ Made(evidence.built, evidence.of, evidence.seen) /\ evidence.of \in Projects
      /\ evidence.built.client # Refused /\ SeenIsServed(evidence.seen)
  BY <1>1, EvidenceParts
<1>4. PICK described, override :
        /\ run.built = Built(project, described, override) /\ run.built # Refused
        /\ IsLocal(project) => \E m \in run.seen : described.digest = m.digest
  BY <1>2 DEF Made
<1>5. PICK told, repeat :
        /\ evidence.built = Built(evidence.of, told, repeat) /\ evidence.built # Refused
        /\ IsLocal(evidence.of) => \E m \in evidence.seen : told.digest = m.digest
  BY <1>3 DEF Made
<1>6. /\ project.config.model # Absent /\ evidence.of.config.model # Absent
      /\ project.config.model.provider = evidence.of.config.model.provider
      /\ project.config.model.provider = "ollama" => described.digest = told.digest
  BY <1>1, <1>2, <1>3, <1>4, <1>5, SameModel
<1>7. described.digest = told.digest /\ IsLocal(project) /\ IsLocal(evidence.of)
  BY <1>6 DEF IsLocal
<1>8. PICK m \in run.seen : described.digest = m.digest
  BY <1>4, <1>7
<1>9. PICK n \in evidence.seen : told.digest = n.digest
  BY <1>5, <1>7
<1>10. m = n
  <2>1. m \in Models \union Installed /\ n \in Models \union Installed /\ m.digest = n.digest
    BY <1>2, <1>3, <1>7, <1>8, <1>9 DEF SeenIsServed
  <2> QED  BY <2>1, BehaviorAssumption
<1>11. evidence.seen = {n}
  <2>1. IsFiniteSet(evidence.seen)
    BY <1>3 DEF SeenIsServed
  <2>2. \E x : evidence.seen = {x}
    BY <2>1, FS_Singleton
  <2> QED  BY <2>2, <1>9
<1> QED  BY <1>8, <1>10, <1>11

\* Evidence of one local model is accepted only by a run during which that model was served.
THEOREM AcceptedOfTheServed == Spec => []AcceptedWhileServed
<1>1. BehaviorInv => AcceptedWhileServed
  BY ServedFit
<1> QED  BY <1>1, EvidenceHasAnOrigin, PTL

\* The traces a verdict is of.
Scored == IF run.replay THEN Usable(run.built, evidence.file) ELSE Traces(run.built, run.answers)

\* A trace that is read back has its samples in their places.
LEMMA ReadIsSampled ==
    ASSUME NEW trace, NEW built, TraceIsOf(trace, built), TraceIsSampled(trace)
    PROVE  TraceIsSampled(RereadTrace(trace))
<1>1. trace = [field \in TraceFields |-> trace[field]] /\ AreSamples(trace.samples)
  BY DEF TraceIsOf, TraceIsSampled
<1> DEFINE read == RereadTrace(trace)
<1>2. /\ AreSamples(read.samples) /\ Len(read.samples) = Len(trace.samples)
      /\ \A i \in 1..Len(trace.samples) : read.samples[i].index = trace.samples[i].index
  BY <1>1, RereadKeeps
<1> HIDE DEF read
<1>3. \A j \in 1..Len(trace.samples) : trace.samples[j].index = j - 1
  BY DEF TraceIsSampled
<1>4. TraceIsSampled(read)
  BY <1>2, <1>3 DEF TraceIsSampled
<1> QED  BY <1>4 DEF read

\* What a verdict that was accepted judged: a trace for every probe, its samples in their places.
LEMMA JudgedParts ==
    ASSUME BehaviorInv, Accepted
    PROVE  LET probes == run.built.suite.probes
           IN  /\ Made(run.built, project, run.seen) /\ project \in Projects
               /\ IsSeq(probes) /\ DOMAIN probes = 1..Len(probes)
               /\ IsInjective([i \in DOMAIN probes |-> probes[i].name])
               /\ DOMAIN run.verdict = DOMAIN probes /\ Len(run.verdict) = Len(probes)
               /\ \A i \in DOMAIN probes :
                    /\ run.verdict[i] = Judge(probes[i], Scored[i], run.built.catalog) /\ run.verdict[i] # Refused
                    /\ IsTraceOf(Scored[i], probes[i]) /\ ValidIdentities(Scored[i], run.built.catalog)
                    /\ TraceIsSampled(Scored[i])
<1> DEFINE built == run.built
           probes == built.suite.probes
<1>1. /\ run.stage = "over" /\ run.verdict \notin {Absent, Refused} /\ Made(built, project, run.seen)
      /\ run.verdict = Verdict(built, Scored) /\ project \in Projects
  BY DEF BehaviorInv, Accepted, Over, RunIsMade, VerdictIsDerived, Scored
<1>2. /\ IsSeq(probes) /\ DOMAIN probes = 1..Len(probes)
      /\ IsInjective([i \in DOMAIN probes |-> probes[i].name])
  BY <1>1, MadeSuite
<1>3. /\ DOMAIN run.verdict = DOMAIN probes
      /\ \A i \in DOMAIN probes :
            /\ run.verdict[i] = Judge(probes[i], Scored[i], built.catalog) /\ run.verdict[i] # Refused
            /\ IsTraceOf(Scored[i], probes[i]) /\ ValidIdentities(Scored[i], built.catalog)
  <2>1. Verdict(built, Scored) # Refused
    BY <1>1
  <2> HIDE DEF built
  <2> QED  BY <1>1, <2>1, VerdictParts
<1>4. Len(run.verdict) = Len(probes)
  <2> DEFINE outcomes == EvaluateAll(built.suite, Scored, built.catalog)
  <2>1. run.verdict = outcomes
    BY <1>1 DEF Verdict
  <2>2. outcomes = [i \in 1..Len(probes) |-> outcomes[i]]
    BY <1>2 DEF EvaluateAll
  <2>3. Len(probes) \in Nat
    BY <1>2 DEF IsSeq
  <2> HIDE DEF outcomes, probes, built
  <2>4. Len(outcomes) = Len(probes)
    BY <2>2, <2>3, FunctionIsSeq
  <2> QED  BY <2>1, <2>4
<1>5. ASSUME NEW i \in DOMAIN probes
      PROVE  TraceIsSampled(Scored[i])
  <2>1. CASE run.replay
    <3> DEFINE trace == TraceFor(Written(evidence.file), probes[i].name)
    <3>1. evidence # Absent /\ trace \in TracesIn(evidence.file) /\ Scored[i] = RereadTrace(trace)
      BY <2>1, ReplayedParts DEF Scored
    <3> HIDE DEF trace
    <3>2. TraceIsOf(trace, evidence.built) /\ TraceIsSampled(trace)
      BY <3>1, EvidenceParts
    <3> QED  BY <3>1, <3>2, ReadIsSampled
  <2>2. CASE ~run.replay
    <3> DEFINE traces == Traces(built, run.answers)
               artifact == NewArtifact(built.checksum, built.suite, traces, run.verdict)
    <3>1. /\ Len(run.answers) = Len(Plan(built.suite)) /\ AreSamples(run.answers)
          /\ artifact # Refused /\ Scored = traces
      BY <1>1, <2>2 DEF BehaviorInv, VerdictIsDerived, RunIsMade, Scored
    <3>2. DOMAIN traces = DOMAIN probes
      BY DEF Traces
    <3>3. AreSamples(traces[i].samples)
      <4> HIDE DEF built
      <4> QED  BY <1>1, <3>1, <3>2, CapturedSamples DEF built
    <3>4. artifact.traces = traces /\ Consistent(artifact)
      BY <3>1, ArtifactParts
    <3> HIDE DEF traces, artifact
    <3>5. \A j \in DOMAIN traces[i].samples : traces[i].samples[j].index = j - 1
      BY <3>2, <3>4 DEF Consistent, OneCapture
    <3>6. DOMAIN traces[i].samples = 1..Len(traces[i].samples)
      BY <3>3 DEF AreSamples, IsSeq
    <3> QED  BY <3>1, <3>3, <3>5, <3>6 DEF TraceIsSampled
  <2> QED  BY <2>1, <2>2
<1> QED  BY <1>1, <1>2, <1>3, <1>4, <1>5

\* The outcome of a probe is over the samples of its trace, each under its index.
LEMMA JudgeOf ==
    ASSUME NEW probe, NEW trace, NEW catalog, Judge(probe, trace, catalog) # Refused
    PROVE  LET outcome == Judge(probe, trace, catalog)
           IN  /\ outcome.probe = probe.name /\ outcome.total = probe.repeat
               /\ outcome.probe_digest = ProbeDigest(probe)
               /\ DOMAIN outcome.samples = DOMAIN trace.samples
               /\ \A k \in DOMAIN trace.samples :
                    /\ outcome.samples[k].sample = trace.samples[k].index
                    /\ outcome.samples[k].checks = CheckSample(probe, trace.samples[k], catalog)
<1> DEFINE samples == trace.samples
           checks == [i \in DOMAIN samples |-> CheckSample(probe, samples[i], catalog)]
           passes(i) == \A metric \in DOMAIN checks[i] : checks[i][metric]
           rows == [i \in DOMAIN samples |->
                        [sample |-> samples[i].index, passed |-> passes(i), checks |-> checks[i]]]
           outcome == [probe |-> probe.name, probe_digest |-> ProbeDigest(probe), samples |-> rows,
              passed |-> Cardinality({i \in DOMAIN samples : passes(i)}), total |-> probe.repeat,
              metrics |-> [metric \in UNION {DOMAIN checks[i] : i \in DOMAIN checks} |-> Tally(checks, metric)]]
<1>1. Judge(probe, trace, catalog)
        = IF \E i \in DOMAIN checks : \E metric \in DOMAIN checks[i] : checks[i][metric] = Refused
          THEN Refused ELSE outcome
  BY DEF Judge
<1>2. /\ outcome.probe = probe.name /\ outcome.total = probe.repeat /\ outcome.probe_digest = ProbeDigest(probe)
      /\ outcome.samples = rows
  OBVIOUS
<1>3. /\ DOMAIN rows = DOMAIN samples
      /\ \A k \in DOMAIN samples : rows[k].sample = samples[k].index /\ rows[k].checks = CheckSample(probe, samples[k], catalog)
  <2>1. \A k \in DOMAIN samples : checks[k] = CheckSample(probe, samples[k], catalog)
    OBVIOUS
  <2> HIDE DEF checks
  <2> QED  BY <2>1
<1> HIDE DEF rows, outcome, checks
<1>4. Judge(probe, trace, catalog) = outcome
  BY <1>1
<1> QED  BY <1>2, <1>3, <1>4

\* By the invariant, a verdict is over every sample of every probe.
LEMMA SuiteFit == BehaviorInv => WholeSuiteJudged
<1> SUFFICES ASSUME BehaviorInv, Accepted
             PROVE  /\ run.replay /\ evidence.file.shape = "run" => ~evidence.touched
                    /\ Len(run.verdict) = Len(run.built.suite.probes)
                    /\ \A i \in DOMAIN run.verdict :
                        /\ run.verdict[i].total = run.built.suite.probes[i].repeat
                        /\ {run.verdict[i].samples[j].sample : j \in DOMAIN run.verdict[i].samples}
                             = 0..(run.built.suite.probes[i].repeat - 1)
  BY DEF WholeSuiteJudged
<1>1. ASSUME run.replay, evidence.file.shape = "run", evidence.touched
      PROVE  FALSE
  <2>1. evidence # Absent /\ evidence.file.name = Address(RereadArtifact(evidence.file.document))
    BY <1>1, ReplayedParts
  <2>2. evidence.file.name # Address(RereadArtifact(evidence.file.document))
    BY <1>1, <2>1, EvidenceParts
  <2> QED  BY <2>1, <2>2
<1>2. Len(run.verdict) = Len(run.built.suite.probes) /\ DOMAIN run.verdict = DOMAIN run.built.suite.probes
  BY JudgedParts
<1>3. ASSUME NEW i \in DOMAIN run.verdict
      PROVE  /\ run.verdict[i].total = run.built.suite.probes[i].repeat
             /\ {run.verdict[i].samples[j].sample : j \in DOMAIN run.verdict[i].samples}
                  = 0..(run.built.suite.probes[i].repeat - 1)
  <2> DEFINE probe == run.built.suite.probes[i]
             trace == Scored[i]
             outcome == run.verdict[i]
  <2>1. outcome = Judge(probe, trace, run.built.catalog) /\ outcome # Refused
        /\ Len(trace.samples) = probe.repeat /\ TraceIsSampled(trace)
    BY <1>2, JudgedParts DEF IsTraceOf
  <2> HIDE DEF probe, trace, outcome
  <2>2. outcome.total = probe.repeat /\ DOMAIN outcome.samples = DOMAIN trace.samples
        /\ \A k \in DOMAIN trace.samples : outcome.samples[k].sample = trace.samples[k].index
    BY <2>1, JudgeOf
  <2>3. /\ DOMAIN trace.samples = 1..probe.repeat /\ probe.repeat \in Nat
        /\ \A k \in 1..probe.repeat : trace.samples[k].index = k - 1
    BY <2>1 DEF TraceIsSampled, AreSamples, IsSeq
  <2>4. {outcome.samples[j].sample : j \in DOMAIN outcome.samples} = {k - 1 : k \in 1..probe.repeat}
    <3> DEFINE told == outcome.samples
               n == probe.repeat
    <3>1. DOMAIN told = 1..n /\ \A k \in 1..n : told[k].sample = k - 1
      BY <2>2, <2>3
    <3> HIDE DEF told, n
    <3>2. {told[j].sample : j \in DOMAIN told} = {k - 1 : k \in 1..n}
      BY <3>1
    <3> QED  BY <3>2 DEF told, n
  <2>5. {k - 1 : k \in 1..probe.repeat} = 0..(probe.repeat - 1)
    <3>1. \A k \in 0..(probe.repeat - 1) : k + 1 \in 1..probe.repeat /\ k = (k + 1) - 1
      BY <2>3
    <3>2. \A k \in 1..probe.repeat : k - 1 \in 0..(probe.repeat - 1)
      BY <2>3
    <3> QED  BY <3>1, <3>2
  <2> QED  BY <2>2, <2>4, <2>5 DEF probe, outcome
<1> QED  BY <1>1, <1>2, <1>3

\* A verdict is over every sample of every probe, and of an artifact over the samples as they were taken.
THEOREM AcceptedOverTheSuite == Spec => []WholeSuiteJudged
<1>1. BehaviorInv => WholeSuiteJudged
  BY SuiteFit
<1> QED  BY <1>1, EvidenceHasAnOrigin, PTL

------------------------------------------------------------------------------
(* The identities of tools.                                                   *)

\* What a character is escaped as: three characters the first of which is `%`, or itself.
LEMMA EncodedChar ==
    ASSUME NEW c
    PROVE  /\ c \in DOMAIN Hex => /\ Len(EncodeChar(c)) = 3 /\ EncodeChar(c)[1] = "%"
                                  /\ EncodeChar(c)[2] = Hex[c][1] /\ EncodeChar(c)[3] = Hex[c][2]
                                  /\ Hex[c] = <<Hex[c][1], Hex[c][2]>>
           /\ c \notin DOMAIN Hex => Len(EncodeChar(c)) = 1 /\ EncodeChar(c)[1] = c /\ c # "%"
           /\ Len(EncodeChar(c)) \in Nat /\ 1 \in 1..Len(EncodeChar(c))
<1>1. CASE c \in DOMAIN Hex
  <2>1. IsSeq(Hex[c]) /\ Len(Hex[c]) = 2
    BY <1>1, BehaviorAssumption, ListIsSeq
  <2>2. IsSeq(<<"%">>) /\ Len(<<"%">>) = 1 /\ <<"%">>[1] = "%"
    BY Single
  <2>3. EncodeChar(c) = <<"%">> \o Hex[c]
    BY <1>1 DEF EncodeChar
  <2>4. /\ Len(EncodeChar(c)) = 1 + 2
        /\ \A j \in 1..1 : EncodeChar(c)[j] = <<"%">>[j]
        /\ \A j \in 1..2 : EncodeChar(c)[1 + j] = Hex[c][j]
    <3> DEFINE h == Hex[c]
               p == <<"%">>
    <3>1. IsSeq(h) /\ Len(h) = 2 /\ IsSeq(p) /\ Len(p) = 1 /\ EncodeChar(c) = p \o h
      BY <2>1, <2>2, <2>3
    <3> HIDE DEF h, p
    <3>0. IsSeq(p) /\ IsSeq(h)
      BY <3>1
    <3>2. /\ Len(p \o h) = Len(p) + Len(h)
          /\ \A j \in 1..Len(p) : (p \o h)[j] = p[j]
          /\ \A j \in 1..Len(h) : (p \o h)[Len(p) + j] = h[j]
      BY <3>0, Joined
    <3>3. /\ Len(EncodeChar(c)) = 1 + 2
          /\ \A j \in 1..1 : EncodeChar(c)[j] = p[j]
          /\ \A j \in 1..2 : EncodeChar(c)[1 + j] = h[j]
      BY <3>1, <3>2
    <3> QED  BY <3>3 DEF h, p
  <2>5. Hex[c] = <<Hex[c][1], Hex[c][2]>>
    BY <2>1 DEF IsSeq
  <2>6. EncodeChar(c)[2] = Hex[c][1] /\ EncodeChar(c)[3] = Hex[c][2] /\ EncodeChar(c)[1] = "%"
    <3> DEFINE e == EncodeChar(c)
    <3>1. (\A j \in 1..1 : e[j] = <<"%">>[j]) /\ \A j \in 1..2 : e[1 + j] = Hex[c][j]
      BY <2>4
    <3> HIDE DEF e
    <3>2. e[1] = "%"
      BY <2>2, <3>1
    <3>3. 1 \in 1..2 /\ 2 \in 1..2 /\ 1 + 1 = 2 /\ 1 + 2 = 3
      OBVIOUS
    <3>4. e[2] = Hex[c][1] /\ e[3] = Hex[c][2]
      BY <3>1, <3>3
    <3> QED  BY <3>2, <3>4 DEF e
  <2> QED  BY <1>1, <2>4, <2>5, <2>6
<1>2. CASE c \notin DOMAIN Hex
  <2>1. EncodeChar(c) = <<c>> /\ c # "%"
    BY <1>2, BehaviorAssumption DEF EncodeChar
  <2> QED  BY <1>2, <2>1, Single
<1> QED  BY <1>1, <1>2

\* How the characters of a name lie in what it is escaped as.
Lies(name, off) ==
    /\ off \in [0..Len(name) -> Nat] /\ off[0] = 0 /\ off[Len(name)] = Len(EncodeToolName(name))
    /\ \A i \in 1..Len(name) :
        /\ off[i] = off[i - 1] + Len(EncodeChar(name[i]))
        /\ \A j \in 1..Len(EncodeChar(name[i])) :
            /\ off[i - 1] + j \in 1..Len(EncodeToolName(name))
            /\ EncodeToolName(name)[off[i - 1] + j] = EncodeChar(name[i])[j]

\* The escapes of a name have their places in the encoded name.
LEMMA Lying ==
    ASSUME NEW name, IsSeq(name)
    PROVE  \E off : Lies(name, off)
<1> DEFINE parts == [i \in DOMAIN name |-> EncodeChar(name[i])]
<1>1. PICK off : PlacedAt(parts, EncodeToolName(name), off)
  BY EncodedIsSeq
<1>2. Len(name) \in Nat /\ DOMAIN name = 1..Len(name)
  BY DEF IsSeq
<1>3. parts = [i \in 1..Len(name) |-> parts[i]] /\ \A i \in 1..Len(name) : parts[i] = EncodeChar(name[i])
  BY <1>2
<1> HIDE DEF parts
<1>4. Len(parts) = Len(name)
  BY <1>2, <1>3, FunctionIsSeq
<1>5. /\ off \in [0..Len(name) -> Nat] /\ off[0] = 0 /\ off[Len(name)] = Len(EncodeToolName(name))
      /\ \A i \in 1..Len(name) :
            /\ off[i] = off[i - 1] + Len(parts[i])
            /\ \A j \in 1..Len(parts[i]) :
                off[i - 1] + j \in 1..Len(EncodeToolName(name)) /\ EncodeToolName(name)[off[i - 1] + j] = parts[i][j]
  BY <1>1, <1>4 DEF PlacedAt
<1>6. ASSUME NEW i \in 1..Len(name)
      PROVE  /\ off[i] = off[i - 1] + Len(EncodeChar(name[i]))
             /\ \A j \in 1..Len(EncodeChar(name[i])) :
                /\ off[i - 1] + j \in 1..Len(EncodeToolName(name))
                /\ EncodeToolName(name)[off[i - 1] + j] = EncodeChar(name[i])[j]
  <2>1. parts[i] = EncodeChar(name[i])
    BY <1>3, <1>6
  <2> QED  BY <1>5, <1>6, <2>1, Zenon
<1>7. Lies(name, off)
  BY <1>5, <1>6, Zenon DEF Lies
<1> QED  BY <1>7

\* Of two names of one escaped form, the one is no longer than the other and begins like it.
LEMMA EncodedBegins ==
    ASSUME NEW a, NEW b, IsSeq(a), IsSeq(b), EncodeToolName(a) = EncodeToolName(b)
    PROVE  Len(a) <= Len(b) /\ \A j \in 1..Len(a) : a[j] = b[j]
<1> DEFINE n == Len(a)
           m == Len(b)
           code == EncodeToolName(a)
<1>1. n \in Nat /\ m \in Nat
  BY DEF IsSeq
<1>2. PICK p : Lies(a, p)
  BY Lying
<1>3. PICK q : Lies(b, q)
  BY Lying
<1>4. /\ p \in [0..n -> Nat] /\ p[0] = 0 /\ p[n] = Len(code)
      /\ \A i \in 1..n :
            /\ p[i] = p[i - 1] + Len(EncodeChar(a[i]))
            /\ \A j \in 1..Len(EncodeChar(a[i])) : p[i - 1] + j \in 1..Len(code) /\ code[p[i - 1] + j] = EncodeChar(a[i])[j]
  BY <1>2 DEF Lies
<1>5. /\ q \in [0..m -> Nat] /\ q[0] = 0 /\ q[m] = Len(code)
      /\ \A i \in 1..m :
            /\ q[i] = q[i - 1] + Len(EncodeChar(b[i]))
            /\ \A j \in 1..Len(EncodeChar(b[i])) : q[i - 1] + j \in 1..Len(code) /\ code[q[i - 1] + j] = EncodeChar(b[i])[j]
  BY <1>3 DEF Lies
<1> HIDE DEF n, m, code
<1> DEFINE Good == {i \in 0..n : i <= m /\ p[i] = q[i] /\ \A j \in 1..i : a[j] = b[j]}
<1>6. 0 \in Good
  BY <1>1, <1>4, <1>5
<1>7. ASSUME NEW i \in 0..n - 1, i \in Good
      PROVE  i + 1 \in Good
  <2>1. i \in Nat /\ i + 1 \in 1..n /\ (i + 1) - 1 = i /\ i <= m /\ p[i] = q[i] /\ p[i] \in Nat
    BY <1>1, <1>4, <1>7
  <2>2. 1 \in 1..Len(EncodeChar(a[i + 1]))
    BY EncodedChar
  <2>3. p[i] + 1 \in 1..Len(code)
    BY <1>4, <2>1, <2>2
  <2>4. i # m
    <3> SUFFICES ASSUME i = m PROVE FALSE
      OBVIOUS
    <3>1. p[i] = Len(code)
      BY <1>5, <2>1
    <3> QED  BY <2>1, <2>3, <3>1
  <2>5. i + 1 \in 1..m
    BY <1>1, <2>1, <2>4
  <2> DEFINE c == a[i + 1]
             d == b[i + 1]
             k == p[i]
  <2>6. /\ \A j \in 1..Len(EncodeChar(c)) : code[k + j] = EncodeChar(c)[j]
        /\ p[i + 1] = k + Len(EncodeChar(c))
    BY <1>4, <2>1
  <2>7. /\ \A j \in 1..Len(EncodeChar(d)) : code[k + j] = EncodeChar(d)[j]
        /\ q[i + 1] = k + Len(EncodeChar(d))
    BY <1>5, <2>1, <2>5
  <2> HIDE DEF c, d, k
  <2>8. EncodeChar(c)[1] = EncodeChar(d)[1]
    BY <2>6, <2>7, EncodedChar
  <2>9. c \in DOMAIN Hex <=> d \in DOMAIN Hex
    BY <2>8, EncodedChar
  <2>10. c = d
    <3>1. CASE c \in DOMAIN Hex
      <4>1. Len(EncodeChar(c)) = 3 /\ Len(EncodeChar(d)) = 3
        BY <2>9, <3>1, EncodedChar
      <4>2. 2 \in 1..3 /\ 3 \in 1..3
        OBVIOUS
      <4>3. EncodeChar(c)[2] = EncodeChar(d)[2] /\ EncodeChar(c)[3] = EncodeChar(d)[3]
        BY <2>6, <2>7, <4>1, <4>2
      <4>4. Hex[c] = Hex[d]
        BY <2>9, <3>1, <4>3, EncodedChar
      <4> QED  BY <2>9, <3>1, <4>4, BehaviorAssumption
    <3>2. CASE c \notin DOMAIN Hex
      BY <2>8, <2>9, <3>2, EncodedChar
    <3> QED  BY <3>1, <3>2
  <2>11. p[i + 1] = q[i + 1]
    BY <2>6, <2>7, <2>10
  <2>12. \A j \in 1..i + 1 : a[j] = b[j]
    <3>1. \A j \in 1..i + 1 : j \in 1..i \/ j = i + 1
      BY <2>1
    <3> QED  BY <1>7, <2>10, <3>1 DEF c, d
  <2>13. i + 1 \in 0..n /\ i + 1 <= m
    BY <1>1, <2>1, <2>5
  <2> QED  BY <2>11, <2>12, <2>13
<1>8. \A i \in 0..n : i \in Good
  <2> HIDE DEF Good
  <2> QED  BY <1>1, <1>6, <1>7, UpTo
<1>9. n \in Good
  BY <1>1, <1>8
<1> QED  BY <1>9 DEF n, m

\* Escaping loses nothing.
LEMMA EncodedTells ==
    ASSUME NEW a, NEW b, IsSeq(a), IsSeq(b), EncodeToolName(a) = EncodeToolName(b)
    PROVE  a = b
<1>1. Len(a) <= Len(b) /\ Len(b) <= Len(a) /\ \A j \in 1..Len(a) : a[j] = b[j]
  BY EncodedBegins
<1>2. Len(a) \in Nat /\ Len(b) \in Nat
  BY DEF IsSeq
<1>3. Len(a) = Len(b)
  BY <1>1, <1>2
<1> QED  BY <1>1, <1>3 DEF IsSeq

\* What is escaped as characters none of which is `%` is as it was.
LEMMA PlainlyEncoded ==
    ASSUME NEW name, IsSeq(name), \A k \in 1..Len(EncodeToolName(name)) : EncodeToolName(name)[k] # "%"
    PROVE  EncodeToolName(name) = name
<1> DEFINE n == Len(name)
           code == EncodeToolName(name)
<1>1. n \in Nat
  BY DEF IsSeq
<1>2. PICK p : Lies(name, p)
  BY Lying
<1>3. /\ p \in [0..n -> Nat] /\ p[0] = 0 /\ p[n] = Len(code)
      /\ \A i \in 1..n :
            /\ p[i] = p[i - 1] + Len(EncodeChar(name[i]))
            /\ \A j \in 1..Len(EncodeChar(name[i])) :
                p[i - 1] + j \in 1..Len(code) /\ code[p[i - 1] + j] = EncodeChar(name[i])[j]
  BY <1>2 DEF Lies
<1>4. \A i \in 1..n :
        Len(EncodeChar(name[i])) = 1 /\ EncodeChar(name[i])[1] = name[i] /\ code[p[i - 1] + 1] = name[i]
  <2> TAKE i \in 1..n
  <2>1. 1 \in 1..Len(EncodeChar(name[i]))
    BY EncodedChar
  <2>2. p[i - 1] + 1 \in 1..Len(code) /\ code[p[i - 1] + 1] = EncodeChar(name[i])[1]
    BY <1>3, <2>1
  <2>3. EncodeChar(name[i])[1] # "%"
    BY <2>2
  <2> QED  BY <2>2, <2>3, EncodedChar
<1> HIDE DEF n, code
<1> DEFINE Good == {i \in 0..n : p[i] = i}
<1>5. 0 \in Good
  BY <1>1, <1>3
<1>6. ASSUME NEW i \in 0..n - 1, i \in Good PROVE i + 1 \in Good
  <2>1. i + 1 \in 1..n /\ (i + 1) - 1 = i /\ i + 1 \in 0..n
    BY <1>1
  <2>2. p[i + 1] = p[i] + 1
    BY <1>3, <1>4, <2>1
  <2> QED  BY <1>6, <2>1, <2>2
<1>7. \A i \in 0..n : i \in Good
  <2> HIDE DEF Good
  <2> QED  BY <1>1, <1>5, <1>6, UpTo
<1>8. Len(code) = n
  <2>1. n \in 0..n
    BY <1>1
  <2> QED  BY <1>3, <1>7, <2>1
<1>9. \A i \in 1..n : code[i] = name[i]
  <2> TAKE i \in 1..n
  <2>1. i - 1 \in 0..n /\ (i - 1) + 1 = i
    BY <1>1
  <2>2. p[i - 1] = i - 1
    BY <1>7, <2>1
  <2> QED  BY <1>4, <2>1, <2>2
<1>10. IsSeq(code)
  BY EncodedIsSeq DEF code
<1> QED  BY <1>8, <1>9, <1>10 DEF IsSeq, n, code

\* The dot after an alias is the first one: an id tells the alias and the name.
LEMMA ToolIdTells ==
    ASSUME NEW a, NEW x, NEW b, NEW y, IsSeq(a), IsSeq(x), IsSeq(b), IsSeq(y),
           \A j \in 1..Len(a) : a[j] # Dot, \A j \in 1..Len(b) : b[j] # Dot,
           ToolId(a, x) = ToolId(b, y)
    PROVE  a = b /\ x = y
<1> DEFINE id == ToolId(a, x)
           m == Len(a)
           n == Len(b)
           s == EncodeToolName(x)
           t == EncodeToolName(y)
<1>1. /\ m \in Nat /\ Len(s) \in Nat /\ Len(id) = m + 1 + Len(s)
      /\ (\A j \in 1..m : id[j] = a[j]) /\ id[m + 1] = Dot
      /\ \A j \in 1..Len(s) : id[m + 1 + j] = s[j]
  BY ToolIdIsSeq
<1>2. /\ n \in Nat /\ Len(t) \in Nat /\ Len(id) = n + 1 + Len(t)
      /\ (\A j \in 1..n : id[j] = b[j]) /\ id[n + 1] = Dot
      /\ \A j \in 1..Len(t) : id[n + 1 + j] = t[j]
  BY ToolIdIsSeq
<1>3. IsSeq(s) /\ IsSeq(t)
  BY EncodedIsSeq
<1> HIDE DEF id, s, t
<1>4. m = n
  <2>1. ~(m < n)
    <3> SUFFICES ASSUME m < n PROVE FALSE
      OBVIOUS
    <3>1. m + 1 \in 1..n
      BY <1>1, <1>2
    <3> QED  BY <1>1, <1>2, <3>1
  <2>2. ~(n < m)
    <3> SUFFICES ASSUME n < m PROVE FALSE
      OBVIOUS
    <3>1. n + 1 \in 1..m
      BY <1>1, <1>2
    <3> QED  BY <1>1, <1>2, <3>1
  <2> HIDE DEF m, n
  <2> QED  BY <1>1, <1>2, <2>1, <2>2
<1>5. a = b
  <2>1. a = [j \in 1..m |-> a[j]] /\ b = [j \in 1..n |-> b[j]]
    BY DEF IsSeq
  <2> HIDE DEF m, n
  <2>2. \A j \in 1..m : a[j] = b[j]
    BY <1>1, <1>2, <1>4
  <2> QED  BY <1>4, <2>1, <2>2
<1> HIDE DEF m, n
<1>6. Len(s) = Len(t)
  BY <1>1, <1>2, <1>4
<1>7. s = t
  <2>1. \A j \in 1..Len(s) : s[j] = t[j]
    BY <1>1, <1>2, <1>4, <1>6
  <2> QED  BY <1>3, <1>6, <2>1 DEF IsSeq
<1>8. x = y
  BY <1>7, EncodedTells DEF s, t
<1> QED  BY <1>5, <1>8

\* What follows the first dot of an id is what the name is escaped as.
LEMMA RemoteNameIs ==
    ASSUME NEW alias, NEW name, IsSeq(alias), IsSeq(name), \A j \in 1..Len(alias) : alias[j] # Dot
    PROVE  RemoteName(<<"tool">> \o ToolId(alias, name)) = EncodeToolName(name)
<1> DEFINE text == ToolId(alias, name)
           m == Len(alias)
           code == EncodeToolName(name)
           dots == {i \in DOMAIN text : text[i] = Dot}
           S == {text[i] : i \in 1..Len(text)} \union {"tool"}
<1>1. /\ IsSeq(text) /\ m \in Nat /\ Len(code) \in Nat /\ Len(text) = m + 1 + Len(code)
      /\ (\A j \in 1..m : text[j] = alias[j]) /\ text[m + 1] = Dot
      /\ \A j \in 1..Len(code) : text[m + 1 + j] = code[j]
  BY ToolIdIsSeq
<1>2. IsSeq(code)
  BY EncodedIsSeq
<1>3. Len(text) \in Nat /\ DOMAIN text = 1..Len(text)
  BY <1>1 DEF IsSeq
<1>4. Tail(<<"tool">> \o text) = text
  <2>1. text \in Seq(S) /\ <<"tool">> \in Seq(S)
    <3>1. \A i \in 1..Len(text) : text[i] \in S
      OBVIOUS
    <3>2. "tool" \in S
      OBVIOUS
    <3> HIDE DEF S, text
    <3> QED  BY <1>1, <3>1, <3>2, SeqOver
  <2> HIDE DEF text, S
  <2>2. /\ Len(<<"tool">> \o text) = 1 + Len(text) /\ <<"tool">> \o text \in Seq(S)
        /\ \A j \in 1..Len(text) : (<<"tool">> \o text)[1 + j] = text[j]
    <3>1. Len(<<"tool">>) = 1
      BY Single
    <3> QED  BY <2>1, <3>1, Concatenation
  <2> DEFINE long == <<"tool">> \o text
  <2> HIDE DEF long
  <2>3. long \in Seq(S) /\ Len(long) = 1 + Len(text) /\ \A j \in 1..Len(text) : long[1 + j] = text[j]
    BY <2>2 DEF long
  <2>4. long # <<>>
    BY <1>3, <2>3
  <2>5. Tail(long) \in Seq(S) /\ Len(Tail(long)) = Len(long) - 1 /\ \A i \in 1..Len(Tail(long)) : Tail(long)[i] = long[i + 1]
    BY <2>3, <2>4, HeadTailProperties
  <2>6. Len(Tail(long)) = Len(text)
    BY <1>3, <2>3, <2>5
  <2>7. \A i \in 1..Len(text) : Tail(long)[i] = text[i]
    <3> TAKE i \in 1..Len(text)
    <3>1. i + 1 = 1 + i
      BY <1>3
    <3> QED  BY <2>3, <2>5, <2>6, <3>1
  <2>8. IsSeq(Tail(long))
    BY <2>5, SeqIsSeq
  <2>9. Tail(long) = text
    BY <1>1, <2>6, <2>7, <2>8 DEF IsSeq
  <2> QED  BY <2>9 DEF long
<1>5. RemoteName(<<"tool">> \o text) = IF dots = {} THEN text ELSE SubSeq(text, Min(dots) + 1, Len(text))
  BY <1>4 DEF RemoteName
<1>6. m + 1 \in dots /\ \A k \in dots : m + 1 <= k
  <2>1. m + 1 \in DOMAIN text
    BY <1>1, <1>3
  <2>2. \A k \in dots : m + 1 <= k
    <3> SUFFICES ASSUME NEW k \in DOMAIN text, text[k] = Dot, ~(m + 1 <= k) PROVE FALSE
      OBVIOUS
    <3>1. k \in 1..m
      BY <1>1, <1>3
    <3> QED  BY <1>1, <3>1
  <2> QED  BY <1>1, <2>1, <2>2
<1>7. dots \in SUBSET (1..Len(text))
  BY <1>3
<1> HIDE DEF dots, code, text, m, S
<1>8. Min(dots) = m + 1
  <2>1. Min(dots) \in dots /\ \A k \in dots : Min(dots) <= k
    BY <1>3, <1>6, <1>7, Bounded
  <2>2. Min(dots) <= m + 1 /\ m + 1 <= Min(dots)
    BY <1>6, <2>1
  <2>3. Min(dots) \in Nat
    <3>1. Min(dots) \in 1..Len(text)
      BY <1>7, <2>1
    <3> QED  BY <1>3, <3>1
  <2> QED  BY <1>1, <2>2, <2>3
<1>9. RemoteName(<<"tool">> \o text) = SubSeq(text, m + 2, Len(text))
  <2>1. (m + 1) + 1 = m + 2
    BY <1>1
  <2> QED  BY <1>5, <1>6, <1>8, <2>1
<1>10. SubSeq(text, m + 2, Len(text)) = code
  <2> DEFINE T == {text[i] : i \in 1..Len(text)}
             sub == SubSeq(text, m + 2, Len(text))
             lo == m + 2
             hi == Len(text)
  <2>1. lo \in Int /\ hi \in Int /\ hi = m + 1 + Len(code) /\ sub = SubSeq(text, lo, hi)
        /\ \A i \in lo..hi : text[i] \in T
    BY <1>1, <1>3
  <2>2. hi - lo + 1 = Len(code) /\ (Len(code) = 0 => ~(lo <= hi)) /\ (Len(code) # 0 => lo <= hi)
        /\ \A i \in 1..Len(code) : lo + i - 1 = m + 1 + i
    BY <1>1, <2>1
  <2> HIDE DEF T, sub, lo, hi
  <2>3. /\ sub \in Seq(T) /\ Len(sub) = IF lo <= hi THEN hi - lo + 1 ELSE 0
        /\ \A i \in 1..hi - lo + 1 : sub[i] = text[lo + i - 1]
    BY <2>1, SubSeqProperties
  <2>4. Len(sub) = Len(code)
    BY <2>2, <2>3
  <2>5. \A i \in 1..Len(code) : sub[i] = code[i]
    <3> TAKE i \in 1..Len(code)
    <3>1. sub[i] = text[lo + i - 1] /\ lo + i - 1 = m + 1 + i
      BY <2>2, <2>3
    <3> QED  BY <1>1, <3>1
  <2>6. IsSeq(sub)
    BY <2>3, SeqIsSeq
  <2>7. sub = code
    BY <1>2, <2>4, <2>5, <2>6 DEF IsSeq
  <2> QED  BY <2>7 DEF sub
<1> QED  BY <1>9, <1>10 DEF text, code

\* What follows one and the same kind.
LEMMA Followed ==
    ASSUME NEW x, NEW a, NEW b, IsSeq(a), IsSeq(b), <<x>> \o a = <<x>> \o b
    PROVE  a = b
<1>1. IsSeq(<<x>>) /\ Len(<<x>>) = 1
  BY Single
<1>2. /\ Len(<<x>> \o a) = 1 + Len(a) /\ Len(a) \in Nat
      /\ \A j \in 1..Len(a) : (<<x>> \o a)[1 + j] = a[j]
  BY <1>1, Joined
<1>3. /\ Len(<<x>> \o b) = 1 + Len(b) /\ Len(b) \in Nat
      /\ \A j \in 1..Len(b) : (<<x>> \o b)[1 + j] = b[j]
  BY <1>1, Joined
<1>4. Len(a) = Len(b)
  BY <1>2, <1>3
<1>5. \A j \in 1..Len(a) : a[j] = b[j]
  BY <1>2, <1>3, <1>4
<1> QED  BY <1>4, <1>5 DEF IsSeq

\* The servers of a project: their aliases have no dot, and tell them apart.
LEMMA ServersTell ==
    ASSUME NEW disk \in Projects, ValidConfig(disk.config), McpDependencies(disk.config.servers) # Refused
    PROVE  LET servers == disk.config.servers
           IN  /\ IsSeq(servers) /\ DOMAIN servers = 1..Len(servers)
               /\ \A i \in 1..Len(servers) :
                    /\ DiscoveredServer(servers[i]) # Refused
                    /\ IsSeq(servers[i].alias) /\ \A j \in 1..Len(servers[i].alias) : servers[i].alias[j] # Dot
                    /\ IsSeq(servers[i].tools) /\ DOMAIN servers[i].tools = 1..Len(servers[i].tools)
                    /\ \A j \in 1..Len(servers[i].tools) : IsSeq(servers[i].tools[j].name)
                    /\ \A j, k \in 1..Len(servers[i].tools) :
                        servers[i].tools[j].name = servers[i].tools[k].name => j = k
               /\ \A i, k \in 1..Len(servers) : servers[i].alias = servers[k].alias => i = k
<1> DEFINE servers == disk.config.servers
<1>1. /\ IsSeq(servers)
      /\ \A i \in 1..Len(servers) :
            DiscoveredServer(servers[i]) # Refused /\ IsSeq(servers[i].tools) /\ IsSeq(servers[i].alias)
  BY ToolList
<1>2. DOMAIN servers = 1..Len(servers)
  BY <1>1 DEF IsSeq
<1>3. /\ \A i \in DOMAIN servers : ValidServer(servers[i])
      /\ IsInjective([i \in DOMAIN servers |-> servers[i].alias])
  BY DEF ValidConfig, ValidServers
<1>4. \A i, k \in 1..Len(servers) : servers[i].alias = servers[k].alias => i = k
  BY <1>2, <1>3 DEF IsInjective
<1>5. ASSUME NEW i \in 1..Len(servers)
      PROVE  /\ \A j \in 1..Len(servers[i].alias) : servers[i].alias[j] # Dot
             /\ DOMAIN servers[i].tools = 1..Len(servers[i].tools)
             /\ \A j \in 1..Len(servers[i].tools) : IsSeq(servers[i].tools[j].name)
             /\ \A j, k \in 1..Len(servers[i].tools) :
                    servers[i].tools[j].name = servers[i].tools[k].name => j = k
  <2> DEFINE alias == servers[i].alias
             tools == servers[i].tools
  <2>1. Range(alias) \subseteq AliasCharacters
    BY <1>2, <1>3 DEF ValidServer, ValidAlias
  <2>2. DOMAIN alias = 1..Len(alias) /\ DOMAIN tools = 1..Len(tools)
    BY <1>1 DEF IsSeq
  <2>3. \A j \in DOMAIN tools : IsSeq(tools[j].name)
    BY <1>2, BehaviorAssumption, ListIsSeq
  <2>4. IsInjective([j \in DOMAIN tools |-> tools[j].name])
    BY <1>1, ServerPart
  <2> HIDE DEF alias, tools
  <2>5. \A j \in 1..Len(alias) : alias[j] # Dot
    BY <2>1, <2>2, BehaviorAssumption DEF Range
  <2>6. \A j, k \in 1..Len(tools) : tools[j].name = tools[k].name => j = k
    BY <2>2, <2>4 DEF IsInjective
  <2> QED  BY <2>2, <2>3, <2>5, <2>6 DEF alias, tools
<1> QED  BY <1>1, <1>2, <1>4, <1>5

\* Two tools of one identity are one.
LEMMA OneTool ==
    ASSUME NEW disk \in Projects, ValidConfig(disk.config), McpDependencies(disk.config.servers) # Refused,
           NEW i \in 1..Len(disk.config.servers), NEW j \in 1..Len(disk.config.servers[i].tools),
           NEW k \in 1..Len(disk.config.servers), NEW l \in 1..Len(disk.config.servers[k].tools),
           ToolId(disk.config.servers[i].alias, disk.config.servers[i].tools[j].name)
             = ToolId(disk.config.servers[k].alias, disk.config.servers[k].tools[l].name)
    PROVE  i = k /\ j = l
<1> DEFINE a == disk.config.servers[i].alias
           x == disk.config.servers[i].tools[j].name
           b == disk.config.servers[k].alias
           y == disk.config.servers[k].tools[l].name
<1>1. /\ IsSeq(a) /\ IsSeq(b) /\ IsSeq(x) /\ IsSeq(y)
      /\ (\A n \in 1..Len(a) : a[n] # Dot) /\ \A n \in 1..Len(b) : b[n] # Dot
  BY ServersTell
<1>2. ToolId(a, x) = ToolId(b, y)
  OBVIOUS
<1> HIDE DEF a, b, x, y
<1>3. a = b /\ x = y
  BY <1>1, <1>2, ToolIdTells
<1>4. i = k
  BY <1>3, ServersTell DEF a, b
<1>5. j = l
  BY <1>3, <1>4, ServersTell DEF x, y
<1> QED  BY <1>4, <1>5

\* The dependencies of the servers of a project that loads have ids of their own.
LEMMA ToolsTell ==
    ASSUME NEW disk \in Projects, ValidConfig(disk.config), McpDependencies(disk.config.servers) # Refused
    PROVE  VerifyUnique(McpDependencies(disk.config.servers))
<1> DEFINE servers == disk.config.servers
           list == McpDependencies(servers)
<1>1. IsSeq(list) /\ Len(Parts(servers)) = Len(servers) /\ \A i \in 1..Len(servers) : Parts(servers)[i] = Part(servers[i])
  BY ToolList
<1>2. PICK off : PlacedAt(Parts(servers), list, off)
  BY ToolList
<1>3. DOMAIN list = 1..Len(list)
  BY <1>1 DEF IsSeq
<1>4. \A k \in 1..Len(list) : \E i \in 1..Len(servers) : \E j \in 1..Len(Part(servers[i])) :
        k = off[i - 1] + j /\ list[k] = Part(servers[i])[j]
  <2> TAKE k \in 1..Len(list)
  <2>1. PICK i \in 1..Len(servers) : \E j \in 1..Len(Parts(servers)[i]) : k = off[i - 1] + j
    BY <1>1, <1>2 DEF PlacedAt
  <2>2. PICK j \in 1..Len(Parts(servers)[i]) : k = off[i - 1] + j
    BY <2>1
  <2>3. list[k] = Parts(servers)[i][j]
    BY <1>1, <1>2, <2>1, <2>2 DEF PlacedAt
  <2>4. Parts(servers)[i] = Part(servers[i])
    BY <1>1, <2>1
  <2> QED  BY <2>1, <2>2, <2>3, <2>4
<1>5. \A i \in 1..Len(servers) :
        /\ Part(servers[i])[1].id = <<"mcp">> \o servers[i].alias /\ Part(servers[i])[1].id[1] = "mcp"
        /\ \A j \in 1..Len(servers[i].tools) :
            /\ Part(servers[i])[1 + j].id = <<"tool">> \o ToolId(servers[i].alias, servers[i].tools[j].name)
            /\ Part(servers[i])[1 + j].id[1] = "tool"
        /\ \A j \in 1..Len(Part(servers[i])) : j = 1 \/ (j - 1 \in 1..Len(servers[i].tools) /\ j = 1 + (j - 1))
  <2> TAKE i \in 1..Len(servers)
  <2>1. /\ IsSeq(servers[i].alias) /\ IsSeq(servers[i].tools) /\ DiscoveredServer(servers[i]) # Refused
        /\ \A j \in 1..Len(servers[i].tools) : IsSeq(servers[i].tools[j].name)
    BY ServersTell
  <2> QED  BY <2>1, PartId
<1>6. \A i \in 1..Len(servers) : IsSeq(servers[i].alias)
        /\ \A j \in 1..Len(servers[i].tools) : IsSeq(ToolId(servers[i].alias, servers[i].tools[j].name))
  BY ServersTell, ToolIdIsSeq
<1>9. \A i, k \in 1..Len(servers) : servers[i].alias = servers[k].alias => i = k
  BY ServersTell
<1>10. \A i, k \in 1..Len(servers) : \A j \in 1..Len(servers[i].tools) : \A l \in 1..Len(servers[k].tools) :
        ToolId(servers[i].alias, servers[i].tools[j].name) = ToolId(servers[k].alias, servers[k].tools[l].name)
            => i = k /\ j = l
  BY OneTool
<1>11. \A i \in 1..Len(servers) : \A j \in 1..Len(servers[i].tools) :
        IsSeq(ToolId(servers[i].alias, servers[i].tools[j].name))
  BY <1>6
<1> DEFINE id(i, j) == Part(servers[i])[j].id
           tool(i, m) == ToolId(servers[i].alias, servers[i].tools[m].name)
           OfServer(i, j) == j = 1 /\ id(i, j) = <<"mcp">> \o servers[i].alias /\ id(i, j)[1] = "mcp"
           OfTool(i, j, m) == j = 1 + m /\ id(i, j) = <<"tool">> \o tool(i, m) /\ id(i, j)[1] = "tool"
<1>12. \A i \in 1..Len(servers) : \A j \in 1..Len(Part(servers[i])) :
        OfServer(i, j) \/ \E m \in 1..Len(servers[i].tools) : OfTool(i, j, m)
  <2> SUFFICES ASSUME NEW i \in 1..Len(servers), NEW j \in 1..Len(Part(servers[i]))
               PROVE  OfServer(i, j) \/ \E m \in 1..Len(servers[i].tools) : OfTool(i, j, m)
    OBVIOUS
  <2>1. CASE j = 1
    BY <1>5, <2>1
  <2>2. CASE j # 1
    <3> DEFINE m == j - 1
    <3>1. m \in 1..Len(servers[i].tools) /\ j = 1 + m
      BY <1>5, <2>2
    <3> HIDE DEF m
    <3>2. Part(servers[i])[1 + m].id = <<"tool">> \o tool(i, m) /\ Part(servers[i])[1 + m].id[1] = "tool"
      BY <1>5, <3>1
    <3>3. OfTool(i, j, m)
      <4> HIDE DEF tool
      <4> QED  BY <3>1, <3>2
    <3> HIDE DEF OfTool
    <3> QED  BY <3>1, <3>3
  <2> QED  BY <2>1, <2>2
<1> HIDE DEF list, servers, id, tool
<1>7. ASSUME NEW i \in 1..Len(servers), NEW j \in 1..Len(Part(servers[i])),
             NEW k \in 1..Len(servers), NEW l \in 1..Len(Part(servers[k])), id(i, j) = id(k, l)
      PROVE  i = k /\ j = l
  <2>1. CASE OfServer(i, j) /\ OfServer(k, l)
    <3>1. <<"mcp">> \o servers[i].alias = <<"mcp">> \o servers[k].alias
      BY <1>7, <2>1
    <3>2. IsSeq(servers[i].alias) /\ IsSeq(servers[k].alias)
      BY <1>6
    <3>3. servers[i].alias = servers[k].alias
      BY <3>1, <3>2, Followed
    <3> QED  BY <1>9, <2>1, <3>3
  <2>2. ASSUME NEW m \in 1..Len(servers[i].tools), OfTool(i, j, m), NEW n \in 1..Len(servers[k].tools), OfTool(k, l, n)
        PROVE  i = k /\ j = l
    <3>1. <<"tool">> \o tool(i, m) = <<"tool">> \o tool(k, n)
      BY <1>7, <2>2
    <3>2. IsSeq(tool(i, m)) /\ IsSeq(tool(k, n))
      BY <1>11 DEF tool
    <3>3. tool(i, m) = tool(k, n)
      BY <3>1, <3>2, Followed
    <3>4. i = k /\ m = n
      BY <1>10, <3>3 DEF tool
    <3> QED  BY <2>2, <3>4
  <2>3. \A m : ~(OfServer(i, j) /\ OfTool(k, l, m)) /\ ~(OfTool(i, j, m) /\ OfServer(k, l))
    BY <1>7
  <2> HIDE DEF OfServer, OfTool
  <2> QED  BY <1>12, <2>1, <2>2, <2>3
<1>8. ASSUME NEW x \in DOMAIN list, NEW y \in DOMAIN list, list[x].id = list[y].id
      PROVE  x = y
  <2>1. PICK i \in 1..Len(servers) : \E j \in 1..Len(Part(servers[i])) :
          x = off[i - 1] + j /\ list[x] = Part(servers[i])[j]
    BY <1>3, <1>4
  <2>2. PICK j \in 1..Len(Part(servers[i])) : x = off[i - 1] + j /\ list[x] = Part(servers[i])[j]
    BY <2>1
  <2>3. PICK k \in 1..Len(servers) : \E l \in 1..Len(Part(servers[k])) :
          y = off[k - 1] + l /\ list[y] = Part(servers[k])[l]
    BY <1>3, <1>4
  <2>4. PICK l \in 1..Len(Part(servers[k])) : y = off[k - 1] + l /\ list[y] = Part(servers[k])[l]
    BY <2>3
  <2>5. id(i, j) = id(k, l)
    BY <1>8, <2>2, <2>4 DEF id
  <2>6. i = k /\ j = l
    BY <1>7, <2>2, <2>4, <2>5
  <2> QED  BY <2>2, <2>4, <2>6
<1> QED  BY <1>8 DEF VerifyUnique, list, servers

\* The identities of tools are apart, by how a name is encoded.
LEMMA ToolsFit == BehaviorInv => ToolsKeepApart
<1> SUFFICES ASSUME BehaviorInv, ValidConfig(project.config), McpDependencies(project.config.servers) # Refused
             PROVE  VerifyUnique(McpDependencies(project.config.servers))
  BY DEF ToolsKeepApart
<1> QED  BY ToolsTell DEF BehaviorInv

\* Tools that a server tells apart by name, and servers that a project tells apart by alias, have
\* different identities, whatever characters the names are made of.
THEOREM ToolsAreKeptApart == Spec => []ToolsKeepApart
<1>1. BehaviorInv => ToolsKeepApart
  BY ToolsFit
<1> QED  BY <1>1, EvidenceHasAnOrigin, PTL

------------------------------------------------------------------------------
(* The tools of a catalog.                                                    *)

\* What a catalog has of each tool: its own id, and what its id says of its name.
LEMMA CatalogParts ==
    ASSUME NEW lock, FromLockfile(lock) # Refused
    PROVE  LET catalog == FromLockfile(lock)
           IN  /\ DOMAIN catalog = {id \in DOMAIN lock.dependencies : lock.dependencies[id].kind = "tool"}
               /\ \A id \in DOMAIN catalog : catalog[id].id = id /\ catalog[id].name = RemoteName(id)
<1> DEFINE ids == {id \in DOMAIN lock.dependencies : lock.dependencies[id].kind = "tool"}
           tools == [id \in ids |-> ToolContract(id, lock.dependencies[id].facets)]
<1>1. FromLockfile(lock) = tools
  BY DEF FromLockfile
<1>2. DOMAIN tools = ids /\ \A id \in ids : tools[id] = ToolContract(id, lock.dependencies[id].facets)
  OBVIOUS
<1>3. \A id, facets : ToolContract(id, facets).id = id /\ ToolContract(id, facets).name = RemoteName(id)
  BY DEF ToolContract
<1> HIDE DEF tools
<1>4. \A id \in ids : tools[id].id = id /\ tools[id].name = RemoteName(id)
  BY <1>2, <1>3
<1> QED  BY <1>1, <1>2, <1>4

\* The place of a tool among what the servers of a project declare.
IsPlace(disk, i, j) ==
    i \in 1..Len(disk.config.servers) /\ j \in 1..Len(disk.config.servers[i].tools)

IdOfTool(disk, i, j) ==
    <<"tool">> \o ToolId(disk.config.servers[i].alias, disk.config.servers[i].tools[j].name)

\* A dependency that is a tool is one that a server declares.
LEMMA ToolKind ==
    ASSUME NEW disk \in Projects, NEW described, Discovered(disk, described) # Refused,
           NEW k \in DOMAIN Discovered(disk, described), Discovered(disk, described)[k].kind = "tool"
    PROVE  /\ \E i, j : IsPlace(disk, i, j) /\ Discovered(disk, described)[k].id = IdOfTool(disk, i, j)
           /\ \E i \in 1..Len(disk.config.servers) : \E j \in 1..Len(disk.config.servers[i].tools) :
                Discovered(disk, described)[k] = Part(disk.config.servers[i])[1 + j]
<1> DEFINE dep == Discovered(disk, described)[k]
           servers == disk.config.servers
           config == disk.config
<1>1. /\ IsSeq(dep.id) /\ dep.kind = dep.id[1]
      /\ dep.id[1] = "prompt" => \E i \in 1..Len(config.prompts) : dep = PromptDependency(disk, i)
      /\ dep.id[1] = "model" =>
           config.model # Absent /\ dep = ModelDependency(config.model, described)
      /\ dep.id[1] = "tool" =>
           \E i \in 1..Len(config.servers) : \E j \in 1..Len(config.servers[i].tools) :
               /\ dep = Part(config.servers[i])[1 + j]
               /\ dep.id = <<"tool">> \o ToolId(config.servers[i].alias, config.servers[i].tools[j].name)
  <2>1. OfItsKind(disk, described, dep)
    BY KindOf
  <2> HIDE DEF dep
  <2> QED  BY <2>1 DEF OfItsKind
<1> HIDE DEF dep
<1>2. \E i \in 1..Len(servers) : \E j \in 1..Len(servers[i].tools) :
        /\ dep = Part(servers[i])[1 + j]
        /\ dep.id = <<"tool">> \o ToolId(servers[i].alias, servers[i].tools[j].name)
  BY <1>1 DEF dep
<1>3. PICK i \in 1..Len(servers) : \E j \in 1..Len(servers[i].tools) :
        /\ dep = Part(servers[i])[1 + j]
        /\ dep.id = <<"tool">> \o ToolId(servers[i].alias, servers[i].tools[j].name)
  BY <1>2
<1>4. PICK j \in 1..Len(servers[i].tools) :
        /\ dep = Part(servers[i])[1 + j]
        /\ dep.id = <<"tool">> \o ToolId(servers[i].alias, servers[i].tools[j].name)
  BY <1>3
<1>5. IsPlace(disk, i, j) /\ dep.id = IdOfTool(disk, i, j)
  BY <1>3, <1>4 DEF IsPlace, IdOfTool
<1> QED  BY <1>3, <1>4, <1>5 DEF dep

\* The catalog of a project has the tools that its servers declare, and no other.
LEMMA CatalogOf ==
    ASSUME NEW disk \in Projects, NEW described, NEW override, Built(disk, described, override) # Refused
    PROVE  LET catalog == Built(disk, described, override).catalog
           IN  /\ IsFiniteSet(DOMAIN catalog)
               /\ \A id \in DOMAIN catalog : catalog[id].id = id
               /\ \A id \in DOMAIN catalog : \E i, j :
                    /\ IsPlace(disk, i, j) /\ id = IdOfTool(disk, i, j)
               /\ \A i, j : IsPlace(disk, i, j) =>
                    /\ IdOfTool(disk, i, j) \in DOMAIN catalog
                    /\ catalog[IdOfTool(disk, i, j)].name
                         = EncodeToolName(disk.config.servers[i].tools[j].name)
<1> DEFINE catalog == Built(disk, described, override).catalog
           list == Discovered(disk, described)
           lock == FromDependencies(list)
           config == disk.config
<1>1. /\ list # Refused /\ catalog = FromLockfile(lock) /\ FromLockfile(lock) # Refused
      /\ Loads(disk.config)
  BY BuiltParts
<1>2. /\ DOMAIN catalog = {id \in DOMAIN lock.dependencies : lock.dependencies[id].kind = "tool"}
      /\ \A id \in DOMAIN catalog : catalog[id].id = id /\ catalog[id].name = RemoteName(id)
  <2>1. FromLockfile(lock) # Refused
    BY <1>1
  <2>2. catalog = FromLockfile(lock)
    BY <1>1
  <2> HIDE DEF lock, catalog
  <2> QED  BY <2>1, <2>2, CatalogParts
<1>3. /\ IsSeq(list) /\ VerifyUnique(list) /\ McpDependencies(config.servers) # Refused
      /\ \A i \in 1..Len(config.servers) : \A j \in 1..Len(Part(config.servers[i])) :
            \E k \in DOMAIN list : list[k] = Part(config.servers[i])[j]
  BY <1>1, Listed
<1>4. DOMAIN lock.dependencies = {list[k].id : k \in DOMAIN list}
      /\ \A k \in DOMAIN list : lock.dependencies[list[k].id].kind = list[k].kind
  <2> HIDE DEF list
  <2>1. Ids(list) = {list[k].id : k \in DOMAIN list}
    BY DEF Ids
  <2>2. \A id \in Ids(list) : lock.dependencies[id].kind = Of(list, id).kind
    BY DEF FromDependencies
  <2>3. DOMAIN lock.dependencies = Ids(list)
    BY DEF FromDependencies
  <2>4. \A k \in DOMAIN list : Of(list, list[k].id) = list[k]
    BY <1>3, OfUnique
  <2> HIDE DEF lock
  <2> QED  BY <2>1, <2>2, <2>3, <2>4
<1>5. \A k \in DOMAIN list : list[k].kind = "tool" => \E i, j : IsPlace(disk, i, j) /\ list[k].id = IdOfTool(disk, i, j)
  <2> SUFFICES ASSUME NEW k \in DOMAIN list, list[k].kind = "tool"
               PROVE  \E i, j : IsPlace(disk, i, j) /\ list[k].id = IdOfTool(disk, i, j)
    OBVIOUS
  <2> QED  BY <1>1, ToolKind
<1>6. \A i, j : IsPlace(disk, i, j) =>
        \E k \in DOMAIN list : list[k].id = IdOfTool(disk, i, j) /\ list[k].kind = "tool"
  <2> SUFFICES ASSUME NEW i, NEW j, IsPlace(disk, i, j)
               PROVE  \E k \in DOMAIN list : list[k].id = IdOfTool(disk, i, j) /\ list[k].kind = "tool"
    OBVIOUS
  <2>1. i \in 1..Len(config.servers) /\ j \in 1..Len(config.servers[i].tools)
    BY DEF IsPlace
  <2>2. /\ ValidConfig(config) /\ DiscoveredServer(config.servers[i]) # Refused
        /\ IsSeq(config.servers[i].alias) /\ IsSeq(config.servers[i].tools)
        /\ \A l \in 1..Len(config.servers[i].tools) : IsSeq(config.servers[i].tools[l].name)
    <3>1. ValidConfig(config)
      BY <1>1 DEF Loads
    <3> HIDE DEF list
    <3> QED  BY <1>3, <2>1, <3>1, ServersTell
  <2>3. /\ Part(config.servers[i])[1 + j].id = IdOfTool(disk, i, j)
        /\ Part(config.servers[i])[1 + j].kind = "tool"
    BY <2>1, <2>2, PartId DEF IdOfTool
  <2>4. Len(Part(config.servers[i])) = 1 + Len(config.servers[i].tools) /\ Len(config.servers[i].tools) \in Nat
    BY <2>2, ServerPart
  <2>5. 1 + j \in 1..Len(Part(config.servers[i]))
    BY <2>1, <2>4
  <2> HIDE DEF list
  <2> QED  BY <1>3, <2>1, <2>3, <2>5
<1>7. IsFiniteSet(DOMAIN catalog)
  <2> DEFINE n == Len(list)
             S == {list[k].id : k \in DOMAIN list}
             f == [k \in 1..n |-> list[k].id]
  <2>1. n \in Nat /\ DOMAIN list = 1..n
    BY <1>3 DEF IsSeq
  <2>2. IsFiniteSet(1..n)
    BY <2>1, FS_Interval
  <2>3. f \in Surjection(1..n, S)
    <3> HIDE DEF list
    <3> QED  BY <2>1 DEF Surjection
  <2>4. IsFiniteSet(S)
    <3> HIDE DEF f, n, S
    <3> QED  BY <2>2, <2>3, FS_Surjection
  <2>5. DOMAIN catalog \in SUBSET S
    BY <1>2, <1>4
  <2> HIDE DEF S, catalog
  <2> QED  BY <2>4, <2>5, FS_Subset
<1> HIDE DEF catalog, list, lock
<1>8. \A id \in DOMAIN catalog : \E i, j : IsPlace(disk, i, j) /\ id = IdOfTool(disk, i, j)
  BY <1>2, <1>4, <1>5
<1>9. ASSUME NEW i, NEW j, IsPlace(disk, i, j)
      PROVE  /\ IdOfTool(disk, i, j) \in DOMAIN catalog
             /\ catalog[IdOfTool(disk, i, j)].name = EncodeToolName(disk.config.servers[i].tools[j].name)
  <2>1. IdOfTool(disk, i, j) \in DOMAIN catalog
    BY <1>2, <1>4, <1>6, <1>9
  <2>2. RemoteName(IdOfTool(disk, i, j)) = EncodeToolName(disk.config.servers[i].tools[j].name)
    <3>1. ValidConfig(config)
      BY <1>1 DEF Loads
    <3>2. i \in 1..Len(config.servers) /\ j \in 1..Len(config.servers[i].tools)
      BY <1>9 DEF IsPlace
    <3>3. /\ IsSeq(config.servers[i].alias) /\ IsSeq(config.servers[i].tools[j].name)
          /\ \A l \in 1..Len(config.servers[i].alias) : config.servers[i].alias[l] # Dot
      BY <1>3, <3>1, <3>2, ServersTell
    <3> QED  BY <3>3, RemoteNameIs DEF IdOfTool
  <2> QED  BY <1>2, <2>1, <2>2
<1> QED  BY <1>2, <1>7, <1>8, <1>9 DEF catalog

\* A catalog that goes over the wire has no two tools of one name.
LEMMA WireNamesTell ==
    ASSUME NEW catalog, IsFiniteSet(DOMAIN catalog), WireCatalog(catalog) # Refused
    PROVE  /\ \A id, other \in DOMAIN catalog : catalog[id].name = catalog[other].name => id = other
           /\ \A id \in DOMAIN catalog : ~WireNameProblem(catalog[id].name)
<1> DEFINE names == {catalog[id].name : id \in DOMAIN catalog}
           f == [id \in DOMAIN catalog |-> catalog[id].name]
<1>1. ~(Cardinality(names) < Cardinality(DOMAIN catalog)) /\ \A name \in names : ~WireNameProblem(name)
  BY DEF WireCatalog
<1>2. f \in Surjection(DOMAIN catalog, names)
  BY DEF Surjection
<1>3. /\ IsFiniteSet(names) /\ Cardinality(names) <= Cardinality(DOMAIN catalog)
      /\ Cardinality(names) = Cardinality(DOMAIN catalog) => f \in Injection(DOMAIN catalog, names)
  <2> HIDE DEF f, names
  <2> QED  BY <1>2, FS_Surjection
<1>4. Cardinality(names) \in Nat /\ Cardinality(DOMAIN catalog) \in Nat
  BY <1>3, FS_CardinalityType
<1>5. Cardinality(names) = Cardinality(DOMAIN catalog)
  <2> HIDE DEF names
  <2> QED  BY <1>1, <1>3, <1>4
<1>6. \A id, other \in DOMAIN catalog : f[id] = f[other] => id = other
  <2>1. f \in Injection(DOMAIN catalog, names) /\ DOMAIN f = DOMAIN catalog
    BY <1>3, <1>5
  <2> HIDE DEF f, names
  <2> QED  BY <2>1 DEF Injection, IsInjective
<1> QED  BY <1>1, <1>6

\* Nor has one of the same digest.
LEMMA DigestNamesTell ==
    ASSUME NEW catalog, IsFiniteSet(DOMAIN catalog), NEW other, IsFiniteSet(DOMAIN other),
           WireCatalog(other) # Refused, CatalogDigest(catalog) = CatalogDigest(other)
    PROVE  /\ \A id, more \in DOMAIN catalog : catalog[id].name = catalog[more].name => id = more
           /\ \A id \in DOMAIN catalog : ~WireNameProblem(catalog[id].name)
<1> DEFINE names(tools) == {tools[id].name : id \in DOMAIN tools}
           Wired(tools, name) == {WireTool(tools[id]) : id \in ByName(tools, name)}
           Alike(tools, name, tool) == {id \in ByName(tools, name) : WireTool(tools[id]) = tool}
<1>1. \A tools : DOMAIN WireTools(tools) = names(tools)
  BY DEF WireTools
<1>2. \A tools : \A name \in names(tools) :
        /\ DOMAIN WireTools(tools)[name] = Wired(tools, name)
        /\ \A tool \in Wired(tools, name) :
            WireTools(tools)[name][tool] = Cardinality(Alike(tools, name, tool))
  BY DEF WireTools
<1>3. names(catalog) = names(other)
  BY <1>1 DEF CatalogDigest
<1>4. /\ \A id, more \in DOMAIN other : other[id].name = other[more].name => id = more
      /\ \A id \in DOMAIN other : ~WireNameProblem(other[id].name)
  BY WireNamesTell
<1>5. \A id \in DOMAIN catalog : ~WireNameProblem(catalog[id].name)
  BY <1>3, <1>4
<1>6. ASSUME NEW name \in names(catalog)
      PROVE  \E x : ByName(catalog, name) = {x}
  <2>1. PICK id \in DOMAIN other : name = other[id].name
    BY <1>3, <1>6
  <2> DEFINE tool == WireTool(other[id])
  <2>2. ByName(other, name) = {id}
    BY <1>4, <2>1 DEF ByName
  <2>3. Wired(other, name) = {tool} /\ Alike(other, name, tool) = {id}
    BY <2>2
  <2>4. WireTools(catalog)[name] = WireTools(other)[name]
    BY DEF CatalogDigest
  <2>5. name \in names(other)
    BY <1>3, <1>6
  <2>6. DOMAIN WireTools(other)[name] = {tool} /\ WireTools(other)[name][tool] = Cardinality({id})
    <3>1. DOMAIN WireTools(other)[name] = Wired(other, name)
      BY <1>2, <2>5
    <3>2. tool \in Wired(other, name)
      BY <2>3
    <3>3. WireTools(other)[name][tool] = Cardinality(Alike(other, name, tool))
      <4> HIDE DEF names, Wired, tool, Alike
      <4> QED  BY <1>2, <2>5, <3>2
    <3> QED  BY <2>3, <3>1, <3>3
  <2>7. Wired(catalog, name) = {tool} /\ WireTools(catalog)[name][tool] = 1
    <3>1. DOMAIN WireTools(catalog)[name] = Wired(catalog, name)
      BY <1>2, <1>6
    <3>2. Cardinality({id}) = 1
      BY FS_Singleton
    <3> HIDE DEF tool, Wired
    <3> QED  BY <2>4, <2>6, <3>1, <3>2
  <2>8. Cardinality(Alike(catalog, name, tool)) = 1
    <3>1. tool \in Wired(catalog, name)
      BY <2>7
    <3> HIDE DEF names, Wired, tool, Alike
    <3>2. WireTools(catalog)[name][tool] = Cardinality(Alike(catalog, name, tool))
      BY <1>2, <1>6, <3>1
    <3> QED  BY <2>7, <3>2
  <2>9. Alike(catalog, name, tool) = ByName(catalog, name)
    <3>1. \A x \in ByName(catalog, name) : WireTool(catalog[x]) \in Wired(catalog, name)
      OBVIOUS
    <3>2. \A x \in ByName(catalog, name) : WireTool(catalog[x]) = tool
      <4> HIDE DEF Wired, tool
      <4> QED  BY <2>7, <3>1
    <3> HIDE DEF tool
    <3> QED  BY <3>2
  <2>10. IsFiniteSet(ByName(catalog, name))
    <3>1. ByName(catalog, name) \in SUBSET DOMAIN catalog
      BY DEF ByName
    <3> QED  BY <3>1, FS_Subset
  <2> HIDE DEF Alike, tool
  <2> QED  BY <2>8, <2>9, <2>10, FS_Singleton
<1>7. ASSUME NEW id \in DOMAIN catalog, NEW more \in DOMAIN catalog, catalog[id].name = catalog[more].name
      PROVE  id = more
  <2>1. {id, more} \subseteq ByName(catalog, catalog[id].name)
    BY <1>7 DEF ByName
  <2>2. PICK x : ByName(catalog, catalog[id].name) = {x}
    BY <1>6
  <2> QED  BY <2>1, <2>2
<1> QED  BY <1>5, <1>7

\* A reference that is resolved is a tool of the catalog.
LEMMA ResolvedTool ==
    ASSUME NEW catalog, NEW reference, ResolveTool(catalog, reference) # Refused
    PROVE  \E id \in DOMAIN catalog : ResolveTool(catalog, reference) = catalog[id]
<1> DEFINE named == ByName(catalog, reference.name)
<1>1. CASE reference.id \in DOMAIN catalog
  BY <1>1 DEF ResolveTool
<1>2. CASE reference.id \notin DOMAIN catalog /\ Cardinality(named) = 1
  <2>1. ResolveTool(catalog, reference) = catalog[CHOOSE id \in named : TRUE]
    BY <1>2 DEF ResolveTool
  <2>2. Cardinality({}) = 0
    BY FS_EmptySet
  <2>3. named # {}
    <3> HIDE DEF named
    <3> QED  BY <1>2, <2>2
  <2>4. named \subseteq DOMAIN catalog
    BY DEF ByName
  <2>5. (CHOOSE id \in named : TRUE) \in named
    <3> HIDE DEF named
    <3> QED  BY <2>3
  <2> HIDE DEF named
  <2> QED  BY <2>1, <2>4, <2>5
<1>3. CASE reference.id \notin DOMAIN catalog /\ Cardinality(named) # 1
  BY <1>3 DEF ResolveTool
<1> QED  BY <1>1, <1>2, <1>3

\* What a probe expects is a tool of the catalog it was resolved against.
LEMMA ExpectedTool ==
    ASSUME NEW disk, NEW described, NEW override, Built(disk, described, override) # Refused,
           NEW i \in DOMAIN Built(disk, described, override).suite.probes,
           Built(disk, described, override).suite.probes[i].expect_tool # Absent
    PROVE  \E id \in DOMAIN Built(disk, described, override).catalog :
                Built(disk, described, override).suite.probes[i].expect_tool
                  = Built(disk, described, override).catalog[id]
<1> DEFINE built == Built(disk, described, override)
           suite == built.suite
           catalog == built.catalog
           specs == Declared(disk.directory)
<1>1. /\ suite = LoadSuite(disk.config.probes, disk.directory, disk.schemas, catalog, override)
      /\ suite # Refused
  BY BuiltParts
<1> HIDE DEF built
<1>2. /\ IsSeq(suite.probes) /\ Len(suite.probes) = Len(specs)
      /\ \A k \in 1..Len(specs) :
            /\ suite.probes[k] = ResolvedProbe(specs[k], catalog, disk.schemas, disk.config.probes.repeat, override)
            /\ Resolved(suite.probes[k])
  <2> DEFINE config == disk.config.probes
             loaded == LoadSuite(config, disk.directory, disk.schemas, catalog, override)
  <2>1. loaded # Refused /\ suite = loaded
    BY <1>1
  <2> HIDE DEF suite, catalog, config
  <2>2. /\ IsSeq(loaded.probes) /\ IsSeq(specs) /\ Len(loaded.probes) = Len(specs)
        /\ loaded.digest = SuiteDigest(loaded.probes)
        /\ \A k \in 1..Len(specs) :
            /\ loaded.probes[k] = ResolvedProbe(specs[k], catalog, disk.schemas, config.repeat, override)
            /\ Resolved(loaded.probes[k])
            /\ loaded.probes[k].repeat \in Nat \ {0}
        /\ IsInjective([k \in DOMAIN specs |-> specs[k].name])
    BY <2>1, SuiteParts
  <2> HIDE DEF loaded, specs
  <2> QED  BY <2>1, <2>2 DEF config
<1>3. i \in 1..Len(specs)
  BY <1>2 DEF IsSeq, built
<1> DEFINE probe == suite.probes[i]
           spec == specs[i]
<1>4. /\ probe = ResolvedProbe(spec, catalog, disk.schemas, disk.config.probes.repeat, override)
      /\ probe.expect_tool # Refused
  BY <1>2, <1>3 DEF Resolved
<1>5. probe.expect_tool # Absent
  BY DEF built
<1> HIDE DEF probe, spec, catalog, suite
<1>6. probe.expect_tool = ResolveTool(catalog, spec.expect_tool)
  BY <1>4, <1>5 DEF ResolvedProbe
<1>7. PICK id \in DOMAIN catalog : probe.expect_tool = catalog[id]
  BY <1>4, <1>6, ResolvedTool
<1> QED  BY <1>7 DEF probe, catalog, suite, built

\* A tool is credited with a call of its own name only.
LEMMA CreditIsNamed ==
    ASSUME NEW probe, NEW trace, NEW catalog, ValidIdentities(trace, catalog),
           NEW k \in DOMAIN trace.samples,
           \A id \in DOMAIN catalog : catalog[id].id = id,
           probe.expect_tool # Absent => \E id \in DOMAIN catalog : probe.expect_tool = catalog[id],
           "tool_selection" \in DOMAIN CheckSample(probe, trace.samples[k], catalog),
           CheckSample(probe, trace.samples[k], catalog)["tool_selection"]
    PROVE  /\ \E id \in DOMAIN catalog : probe.expect_tool = catalog[id]
           /\ \E c \in DOMAIN trace.samples[k].tool_calls :
                trace.samples[k].tool_calls[c].name = probe.expect_tool.name
<1> DEFINE sample == trace.samples[k]
           tool == probe.expect_tool
<1>1. DOMAIN CheckSample(probe, sample, catalog) = Applicable(probe, sample)
  BY DEF CheckSample
<1>2. tool # Absent
  <2>1. "tool_selection" \in Applicable(probe, sample)
    BY <1>1
  <2> QED  BY <2>1 DEF Applicable
<1>3. CallsTo(sample, tool) # {}
  <2>1. CheckSample(probe, sample, catalog)["tool_selection"] = Check("tool_selection", probe, sample, catalog)
    BY <1>1 DEF CheckSample
  <2>2. Check("tool_selection", probe, sample, catalog) = (CallsTo(sample, tool) # {})
    BY DEF Check
  <2> HIDE DEF sample, tool
  <2>3. CheckSample(probe, sample, catalog)["tool_selection"]
    BY DEF sample
  <2>4. CheckSample(probe, sample, catalog)["tool_selection"] = (CallsTo(sample, tool) # {})
    BY <2>1, <2>2
  <2> QED  BY <2>3, <2>4
<1>4. PICK c \in DOMAIN sample.tool_calls : IsCalledBy(tool, sample.tool_calls[c])
  BY <1>3 DEF CallsTo
<1>5. PICK id \in DOMAIN catalog : tool = catalog[id]
  BY <1>2
<1> DEFINE call == sample.tool_calls[c]
<1>6. TrueIdentity(call, catalog)
  BY <1>4 DEF ValidIdentities
<1>7. call.name = tool.name
  <2>1. tool.id = id
    BY <1>5
  <2> HIDE DEF call, tool, sample
  <2>2. IsCalledBy(tool, call)
    BY <1>4 DEF call
  <2>3. CASE call.tool_id = Absent
    BY <2>2, <2>3 DEF IsCalledBy
  <2>4. CASE call.tool_id # Absent
    <3>1. call.tool_id = id
      BY <2>1, <2>2, <2>4 DEF IsCalledBy
    <3>2. catalog[id].name = call.name
      BY <1>6, <2>4, <3>1 DEF TrueIdentity
    <3> QED  BY <1>5, <3>2
  <2> QED  BY <2>3, <2>4
<1> QED  BY <1>4, <1>5, <1>7

\* The tools of a catalog are told apart by names that the wire carries; and one server declares a tool
\* of that name, once.
Nameable(catalog) ==
    /\ \A id, more \in DOMAIN catalog : catalog[id].name = catalog[more].name => id = more
    /\ \A id \in DOMAIN catalog : ~WireNameProblem(catalog[id].name)

IsDeclaredOnce(disk, name) ==
    \E i, j :
        /\ IsPlace(disk, i, j) /\ disk.config.servers[i].tools[j].name = name
        /\ \A k, l : IsPlace(disk, k, l) /\ disk.config.servers[k].tools[l].name = name => k = i /\ l = j

\* The names of a catalog whose tools are told apart on the wire are those of its servers, each of one.
LEMMA DeclaredOnce ==
    ASSUME NEW disk \in Projects, NEW described, NEW override, Built(disk, described, override) # Refused,
           NEW catalog, catalog = Built(disk, described, override).catalog, Nameable(catalog),
           NEW id \in DOMAIN catalog
    PROVE  IsDeclaredOnce(disk, catalog[id].name)
<1> DEFINE servers == disk.config.servers
           Name(i, j) == disk.config.servers[i].tools[j].name
<1>1. /\ \A one, more \in DOMAIN catalog : catalog[one].name = catalog[more].name => one = more
      /\ \A one \in DOMAIN catalog : ~WireNameProblem(catalog[one].name)
  BY DEF Nameable
<1>2. PICK i, j : IsPlace(disk, i, j) /\ id = IdOfTool(disk, i, j)
  BY CatalogOf
<1>3. /\ \A k, l : IsPlace(disk, k, l) =>
            /\ IdOfTool(disk, k, l) \in DOMAIN catalog
            /\ catalog[IdOfTool(disk, k, l)].name = EncodeToolName(disk.config.servers[k].tools[l].name)
  BY CatalogOf
<1>4. ValidConfig(disk.config) /\ McpDependencies(disk.config.servers) # Refused
  <2>1. Loads(disk.config) /\ Discovered(disk, described) # Refused
    BY BuiltParts
  <2> QED  BY <2>1, Listed DEF Loads
<1>5. \A k, l : IsPlace(disk, k, l) => IsSeq(Name(k, l))
  BY <1>4, ServersTell DEF IsPlace
<1>6. catalog[id].name = EncodeToolName(Name(i, j))
  BY <1>2, <1>3
<1>7. EncodeToolName(Name(i, j)) = Name(i, j)
  <2> DEFINE code == EncodeToolName(Name(i, j))
  <2>1. IsSeq(Name(i, j)) /\ IsSeq(code)
    BY <1>2, <1>5, EncodedIsSeq
  <2>2. ~WireNameProblem(code)
    BY <1>1, <1>6
  <2> HIDE DEF Name
  <2>3. \A k \in 1..Len(code) : code[k] # "%"
    <3> HIDE DEF code
    <3>1. "%" \notin Range(code)
      BY <2>2 DEF WireNameProblem
    <3>2. DOMAIN code = 1..Len(code)
      BY <2>1 DEF IsSeq
    <3> QED  BY <3>1, <3>2 DEF Range
  <2> QED  BY <2>1, <2>3, PlainlyEncoded
<1>8. ASSUME NEW k, NEW l, IsPlace(disk, k, l), Name(k, l) = Name(i, j)
      PROVE  k = i /\ l = j
  <2>1. IdOfTool(disk, k, l) \in DOMAIN catalog
        /\ catalog[IdOfTool(disk, k, l)].name = EncodeToolName(Name(k, l))
    BY <1>3, <1>8
  <2>2. IdOfTool(disk, k, l) = id
    <3> HIDE DEF Name
    <3> QED  BY <1>1, <1>6, <1>8, <2>1
  <2>3. ToolId(servers[k].alias, servers[k].tools[l].name) = ToolId(servers[i].alias, servers[i].tools[j].name)
    <3> DEFINE a == ToolId(servers[k].alias, servers[k].tools[l].name)
               b == ToolId(servers[i].alias, servers[i].tools[j].name)
    <3>1. <<"tool">> \o a = <<"tool">> \o b
      BY <1>2, <2>2 DEF IdOfTool
    <3>2. IsSeq(a) /\ IsSeq(b)
      <4>1. \A x, y : IsPlace(disk, x, y) => IsSeq(servers[x].alias) /\ IsSeq(servers[x].tools[y].name)
        BY <1>4, ServersTell DEF IsPlace
      <4> QED  BY <1>2, <1>8, <4>1, ToolIdIsSeq
    <3> HIDE DEF a, b
    <3>3. a = b
      BY <3>1, <3>2, Followed
    <3> QED  BY <3>3 DEF a, b
  <2> QED  BY <1>2, <1>4, <1>8, <2>3, OneTool DEF IsPlace
<1>9. Name(i, j) = catalog[id].name
  BY <1>6, <1>7
<1> QED  BY <1>2, <1>8, <1>9 DEF IsDeclaredOnce

\* The answers a verdict is over make the calls that were scored.
LEMMA JudgedCalls ==
    ASSUME BehaviorInv, Accepted, NEW i \in DOMAIN run.verdict, NEW k \in DOMAIN Scored[i].samples
    PROVE  \A c \in DOMAIN Scored[i].samples[k].tool_calls :
                /\ c \in DOMAIN Judged(i)[k].tool_calls
                /\ Judged(i)[k].tool_calls[c].name = Scored[i].samples[k].tool_calls[c].name
<1> DEFINE probes == run.built.suite.probes
<1>1. CASE ~run.replay
  <2>1. Judged(i) = Scored[i].samples
    BY <1>1 DEF Judged, Scored
  <2> QED  BY <2>1
<1>2. CASE run.replay
  <2> DEFINE trace == TraceFor(Written(evidence.file), probes[i].name)
             read == RereadTrace(trace)
  <2>1. /\ evidence # Absent /\ i \in DOMAIN probes /\ trace \in TracesIn(evidence.file)
        /\ Scored[i] = read
    <3>1. evidence # Absent /\ DOMAIN run.verdict = DOMAIN probes
      BY <1>2, ReplayedParts
    <3>2. trace \in TracesIn(evidence.file) /\ Usable(run.built, evidence.file)[i] = read
      BY <1>2, <3>1, ReplayedParts
    <3> HIDE DEF trace, read
    <3> QED  BY <1>2, <3>1, <3>2 DEF Scored
  <2>2. run.verdict[i].probe = probes[i].name
    <3>1. run.verdict[i] = Judge(probes[i], Scored[i], run.built.catalog) /\ run.verdict[i] # Refused
      BY <2>1, JudgedParts
    <3> QED  BY <3>1, JudgeOf
  <2>3. Judged(i) = trace.samples
    BY <1>2, <2>2 DEF Judged, Written
  <2> HIDE DEF trace
  <2>4. trace = [field \in TraceFields |-> trace[field]] /\ AreSamples(trace.samples)
    BY <2>1, EvidenceParts DEF TraceIsOf, TraceIsSampled
  <2>5. /\ AreSamples(read.samples) /\ Len(read.samples) = Len(trace.samples)
        /\ \A j \in 1..Len(trace.samples) :
            /\ DOMAIN read.samples[j].tool_calls = DOMAIN trace.samples[j].tool_calls
            /\ \A c \in DOMAIN trace.samples[j].tool_calls :
                read.samples[j].tool_calls[c].name = trace.samples[j].tool_calls[c].name
    BY <2>4, RereadKeeps
  <2> HIDE DEF read
  <2>6. k \in 1..Len(trace.samples)
    BY <2>1, <2>5 DEF AreSamples, IsSeq
  <2> QED  BY <2>1, <2>3, <2>5, <2>6
<1> QED  BY <1>1, <1>2

\* A client that could be made has a catalog that goes over the wire.
LEMMA WiredClient ==
    ASSUME NEW disk, NEW described, NEW override, Built(disk, described, override) # Refused,
           Built(disk, described, override).client # Refused
    PROVE  WireCatalog(Built(disk, described, override).catalog) # Refused
<1> DEFINE built == Built(disk, described, override)
           system == SystemPrompt(disk.config.prompts, disk.files)
           model == disk.config.model
<1>1. built.client = IF model = Absent THEN Refused ELSE Client(model, built.catalog, system)
  BY BuiltParts
<1>2. built.client # Refused
  OBVIOUS
<1> HIDE DEF built, system, model
<1>3. Client(model, built.catalog, system) # Refused
  BY <1>1, <1>2
<1>4. WireCatalog(built.catalog) # Refused
  BY <1>3, ClientParts
<1> QED  BY <1>4 DEF built

\* The catalog of a replay has the digest of the one that the evidence was recorded with.
LEMMA UsedCatalog ==
    ASSUME BehaviorInv, Accepted, run.replay, NEW i \in DOMAIN run.verdict
    PROVE  CatalogDigest(run.built.catalog) = CatalogDigest(evidence.built.catalog)
<1> DEFINE trace == TraceFor(Written(evidence.file), run.built.suite.probes[i].name)
           read == RereadTrace(trace)
<1>1. evidence # Absent /\ DOMAIN run.verdict = DOMAIN run.built.suite.probes
  BY ReplayedParts
<1>2. /\ trace \in TracesIn(evidence.file) /\ Usable(run.built, evidence.file)[i] = read
      /\ Usable(run.built, evidence.file)[i].captured_with.tool_catalog_digest = CatalogDigest(run.built.catalog)
  BY <1>1, ReplayedParts
<1> HIDE DEF trace
<1>3. /\ trace = [field \in TraceFields |-> trace[field]] /\ AreSamples(trace.samples)
      /\ trace.captured_with.tool_catalog_digest = CatalogDigest(evidence.built.catalog)
  BY <1>1, <1>2, EvidenceParts DEF TraceIsOf, TraceIsSampled
<1>4. \A field \in TraceFields \ {"samples"} : read[field] = trace[field]
  BY <1>3, RereadKeeps
<1>5. "captured_with" \in TraceFields \ {"samples"}
  BY DEF TraceFields
<1> HIDE DEF read
<1>6. read["captured_with"] = trace["captured_with"]
  BY <1>4, <1>5
<1> QED  BY <1>2, <1>3, <1>6

\* The catalog a verdict was scored against tells its tools apart by name: a client was made of it, or
\* of one of the same digest.
LEMMA NamesTell ==
    ASSUME BehaviorInv, Accepted, NEW i \in DOMAIN run.verdict
    PROVE  Nameable(run.built.catalog)
<1> DEFINE catalog == run.built.catalog
<1>1. /\ run.stage = "over" /\ run.verdict \notin {Absent, Refused} /\ Made(run.built, project, run.seen)
      /\ project \in Projects
  BY DEF BehaviorInv, Accepted, Over, RunIsMade
<1>2. PICK described, override : run.built = Built(project, described, override) /\ run.built # Refused
  BY <1>1 DEF Made
<1>3. IsFiniteSet(DOMAIN catalog)
  BY <1>1, <1>2, CatalogOf
<1>4. CASE ~run.replay
  <2>1. run.built.client # Refused
    BY <1>1, <1>4 DEF BehaviorInv, VerdictIsDerived
  <2>2. WireCatalog(catalog) # Refused
    BY <1>2, <2>1, WiredClient
  <2> HIDE DEF catalog
  <2> QED  BY <1>3, <2>2, WireNamesTell DEF catalog, Nameable
<1>5. CASE run.replay
  <2> DEFINE other == evidence.built.catalog
  <2>1. /\ evidence # Absent /\ evidence.of \in Projects
        /\ Made(evidence.built, evidence.of, evidence.seen) /\ evidence.built.client # Refused
    <3>1. evidence # Absent
      BY <1>5, ReplayedParts
    <3> QED  BY <3>1, EvidenceParts
  <2>2. PICK told, repeat : evidence.built = Built(evidence.of, told, repeat) /\ evidence.built # Refused
    BY <2>1 DEF Made
  <2>3. IsFiniteSet(DOMAIN other)
    BY <2>1, <2>2, CatalogOf
  <2>4. WireCatalog(other) # Refused
    BY <2>1, <2>2, WiredClient
  <2>5. CatalogDigest(catalog) = CatalogDigest(other)
    BY <1>5, UsedCatalog
  <2> HIDE DEF catalog, other
  <2> QED  BY <1>3, <2>3, <2>4, <2>5, DigestNamesTell DEF catalog, Nameable
<1> QED  BY <1>4, <1>5

\* By the invariant, a call that is credited is by a name that one server declares.
LEMMA CreditFit == BehaviorInv => CreditedToItsTool
<1> SUFFICES ASSUME BehaviorInv, Accepted, NEW i \in DOMAIN run.verdict,
                    NEW k \in DOMAIN run.verdict[i].samples,
                    "tool_selection" \in DOMAIN run.verdict[i].samples[k].checks,
                    run.verdict[i].samples[k].checks["tool_selection"]
             PROVE  LET expected == run.built.suite.probes[i].expect_tool
                    IN  /\ Cardinality(DeclaredAs(expected.name)) = 1
                        /\ \E c \in DOMAIN Judged(i)[k].tool_calls : Judged(i)[k].tool_calls[c].name = expected.name
  BY DEF CreditedToItsTool
<1> DEFINE built == run.built
           catalog == built.catalog
           probe == built.suite.probes[i]
           trace == Scored[i]
           name == probe.expect_tool.name
<1>1. /\ Made(built, project, run.seen) /\ project \in Projects /\ i \in DOMAIN built.suite.probes
      /\ run.verdict[i] = Judge(probe, trace, catalog) /\ run.verdict[i] # Refused
      /\ ValidIdentities(trace, catalog)
  BY JudgedParts
<1>2. PICK described, override : built = Built(project, described, override) /\ built # Refused
  BY <1>1 DEF Made
<1>3. /\ k \in DOMAIN trace.samples
      /\ run.verdict[i].samples[k].checks = CheckSample(probe, trace.samples[k], catalog)
  <2> DEFINE outcome == Judge(probe, trace, catalog)
  <2>1. run.verdict[i] = outcome /\ outcome # Refused
    BY <1>1
  <2> HIDE DEF probe, trace, catalog
  <2>2. /\ DOMAIN outcome.samples = DOMAIN trace.samples
        /\ \A l \in DOMAIN trace.samples : outcome.samples[l].checks = CheckSample(probe, trace.samples[l], catalog)
    BY <2>1, JudgeOf
  <2> HIDE DEF outcome
  <2> QED  BY <2>1, <2>2
<1>4. \A id \in DOMAIN catalog : catalog[id].id = id
  BY <1>1, <1>2, CatalogOf
<1>5. probe.expect_tool # Absent => \E id \in DOMAIN catalog : probe.expect_tool = catalog[id]
  BY <1>1, <1>2, ExpectedTool
<1>6. /\ \E id \in DOMAIN catalog : probe.expect_tool = catalog[id]
      /\ \E c \in DOMAIN trace.samples[k].tool_calls : trace.samples[k].tool_calls[c].name = name
  <2>1. /\ "tool_selection" \in DOMAIN CheckSample(probe, trace.samples[k], catalog)
        /\ CheckSample(probe, trace.samples[k], catalog)["tool_selection"]
    BY <1>3
  <2> HIDE DEF probe, trace, catalog
  <2> QED  BY <1>1, <1>3, <1>4, <1>5, <2>1, CreditIsNamed
<1>7. PICK id \in DOMAIN catalog : probe.expect_tool = catalog[id]
  BY <1>6
<1>8. Cardinality(DeclaredAs(name)) = 1
  <2>1. Nameable(catalog)
    BY NamesTell
  <2>2. PICK x, y :
            /\ IsPlace(project, x, y) /\ project.config.servers[x].tools[y].name = catalog[id].name
            /\ \A m, l : IsPlace(project, m, l) /\ project.config.servers[m].tools[l].name = catalog[id].name => m = x /\ l = y
    <3>1. Built(project, described, override) # Refused /\ catalog = Built(project, described, override).catalog
      BY <1>2
    <3> HIDE DEF catalog
    <3>2. IsDeclaredOnce(project, catalog[id].name)
      BY <1>1, <1>7, <2>1, <3>1, DeclaredOnce
    <3> QED  BY <3>2 DEF IsDeclaredOnce
  <2>3. catalog[id].name = name
    BY <1>7
  <2> HIDE DEF name, catalog
  <2>4. \A m, l : IsPlace(project, m, l)
          <=> m \in DOMAIN project.config.servers /\ l \in DOMAIN project.config.servers[m].tools
    <3>1. ValidConfig(project.config) /\ McpDependencies(project.config.servers) # Refused
      <4>1. Loads(project.config) /\ Discovered(project, described) # Refused
        BY <1>2, BuiltParts
      <4> QED  BY <1>1, <4>1, Listed DEF Loads
    <3>2. /\ DOMAIN project.config.servers = 1..Len(project.config.servers)
          /\ \A m \in 1..Len(project.config.servers) :
                DOMAIN project.config.servers[m].tools = 1..Len(project.config.servers[m].tools)
      BY <1>1, <3>1, ServersTell
    <3> QED  BY <3>2 DEF IsPlace
  <2>5. DeclaredAs(name) = {<<x, y>>}
    <3>1. \A p : p \in DeclaredAs(name) <=>
            \E m \in DOMAIN project.config.servers : \E l \in DOMAIN project.config.servers[m].tools :
                project.config.servers[m].tools[l].name = name /\ p = <<m, l>>
      BY DEF DeclaredAs
    <3>2. \A p : p \in DeclaredAs(name) <=> p = <<x, y>>
      BY <2>2, <2>3, <2>4, <3>1
    <3> QED  BY <3>2
  <2> QED  BY <2>5, FS_Singleton
<1>9. \E c \in DOMAIN Judged(i)[k].tool_calls : Judged(i)[k].tool_calls[c].name = name
  <2>1. PICK c \in DOMAIN trace.samples[k].tool_calls : trace.samples[k].tool_calls[c].name = name
    BY <1>6
  <2>2. c \in DOMAIN Judged(i)[k].tool_calls /\ Judged(i)[k].tool_calls[c].name = trace.samples[k].tool_calls[c].name
    BY <1>3, <2>1, JudgedCalls
  <2> QED  BY <2>1, <2>2
<1> QED  BY <1>8, <1>9

\* A tool is credited with a call only if the call is by the name that one server declares for it, and
\* by a name that no second server declares.
THEOREM CreditIsDue == Spec => []CreditedToItsTool
<1>1. BehaviorInv => CreditedToItsTool
  BY CreditFit
<1> QED  BY <1>1, EvidenceHasAnOrigin, PTL

------------------------------------------------------------------------------
(* What is listed beforehand.                                                 *)

\* What the servers of a project declare is in the list of their dependencies, and nothing else is.
LEMMA McpListed ==
    ASSUME NEW disk \in Projects, McpDependencies(disk.config.servers) # Refused
    PROVE  LET servers == disk.config.servers
               list == McpDependencies(servers)
           IN  /\ \A k \in DOMAIN list : \E i \in 1..Len(servers) : \E j \in 1..Len(Part(servers[i])) :
                    list[k] = Part(servers[i])[j]
               /\ \A i \in 1..Len(servers) : \A j \in 1..Len(Part(servers[i])) :
                    \E k \in DOMAIN list : list[k] = Part(servers[i])[j]
<1> DEFINE servers == disk.config.servers
           list == McpDependencies(servers)
<1>1. IsSeq(list) /\ Len(Parts(servers)) = Len(servers) /\ \A i \in 1..Len(servers) : Parts(servers)[i] = Part(servers[i])
  BY ToolList
<1>2. PICK off : PlacedAt(Parts(servers), list, off)
  BY ToolList
<1>3. DOMAIN list = 1..Len(list)
  BY <1>1 DEF IsSeq
<1> HIDE DEF list
<1>4. ASSUME NEW i \in 1..Len(servers), NEW j \in 1..Len(Part(servers[i]))
      PROVE  off[i - 1] + j \in DOMAIN list /\ list[off[i - 1] + j] = Part(servers[i])[j]
  <2>1. i \in 1..Len(Parts(servers)) /\ Parts(servers)[i] = Part(servers[i])
    BY <1>1
  <2>2. j \in 1..Len(Parts(servers)[i])
    BY <2>1
  <2>3. off[i - 1] + j \in 1..Len(list) /\ list[off[i - 1] + j] = Parts(servers)[i][j]
    BY <1>2, <2>1, <2>2 DEF PlacedAt
  <2> QED  BY <1>3, <2>1, <2>3
<1>5. ASSUME NEW k \in DOMAIN list
      PROVE  \E i \in 1..Len(servers) : \E j \in 1..Len(Part(servers[i])) : list[k] = Part(servers[i])[j]
  <2>1. PICK i \in 1..Len(servers) : \E j \in 1..Len(Parts(servers)[i]) : k = off[i - 1] + j
    BY <1>1, <1>2, <1>3 DEF PlacedAt
  <2>2. Parts(servers)[i] = Part(servers[i])
    BY <1>1
  <2>3. PICK j \in 1..Len(Part(servers[i])) : k = off[i - 1] + j
    BY <2>1, <2>2
  <2> QED  BY <1>4, <2>1, <2>3
<1> QED  BY <1>4, <1>5 DEF list

\* The catalog of a lockfile has nothing of a dependency that is no tool.
LEMMA ToolsOfList ==
    ASSUME NEW list, VerifyUnique(list), NEW other, VerifyUnique(other),
           \A k \in DOMAIN list : list[k].kind = "tool" => \E l \in DOMAIN other : other[l] = list[k],
           \A l \in DOMAIN other : other[l].kind = "tool" => \E k \in DOMAIN list : other[l] = list[k]
    PROVE  FromLockfile(FromDependencies(list)) = FromLockfile(FromDependencies(other))
<1> DEFINE lock == FromDependencies(list)
           mine == FromDependencies(other)
           ids(lf) == {id \in DOMAIN lf.dependencies : lf.dependencies[id].kind = "tool"}
           tools(lf) == [id \in ids(lf) |-> ToolContract(id, lf.dependencies[id].facets)]
<1>1. \A l : VerifyUnique(l) =>
        /\ DOMAIN FromDependencies(l).dependencies = {l[k].id : k \in DOMAIN l}
        /\ \A k \in DOMAIN l : FromDependencies(l).dependencies[l[k].id].kind = l[k].kind
                               /\ FromDependencies(l).dependencies[l[k].id].facets = l[k].facets
  <2> SUFFICES ASSUME NEW l, VerifyUnique(l)
               PROVE  /\ DOMAIN FromDependencies(l).dependencies = {l[k].id : k \in DOMAIN l}
                      /\ \A k \in DOMAIN l : FromDependencies(l).dependencies[l[k].id].kind = l[k].kind
                                             /\ FromDependencies(l).dependencies[l[k].id].facets = l[k].facets
    OBVIOUS
  <2>1. Ids(l) = {l[k].id : k \in DOMAIN l}
    BY DEF Ids
  <2>2. DOMAIN FromDependencies(l).dependencies = Ids(l)
    BY DEF FromDependencies
  <2>3. \A id \in Ids(l) : FromDependencies(l).dependencies[id].kind = Of(l, id).kind
                           /\ FromDependencies(l).dependencies[id].facets = Of(l, id).facets
    BY DEF FromDependencies
  <2>4. \A k \in DOMAIN l : Of(l, l[k].id) = l[k]
    BY OfUnique
  <2> QED  BY <2>1, <2>2, <2>3, <2>4
<1>2. /\ DOMAIN lock.dependencies = {list[k].id : k \in DOMAIN list}
      /\ \A k \in DOMAIN list : lock.dependencies[list[k].id].kind = list[k].kind
                                /\ lock.dependencies[list[k].id].facets = list[k].facets
  BY <1>1
<1>3. /\ DOMAIN mine.dependencies = {other[k].id : k \in DOMAIN other}
      /\ \A k \in DOMAIN other : mine.dependencies[other[k].id].kind = other[k].kind
                                 /\ mine.dependencies[other[k].id].facets = other[k].facets
  BY <1>1
<1> HIDE DEF lock, mine
<1>4. \A id : id \in ids(lock) => id \in ids(mine) /\ mine.dependencies[id].facets = lock.dependencies[id].facets
  BY <1>2, <1>3
<1>5. \A id : id \in ids(mine) => id \in ids(lock)
  BY <1>2, <1>3
<1>6. ids(lock) = ids(mine) /\ \A id \in ids(lock) : mine.dependencies[id].facets = lock.dependencies[id].facets
  BY <1>4, <1>5
<1>7. tools(lock) = tools(mine)
  BY <1>6
<1>8. \A lf : FromLockfile(lf) = IF \E id \in ids(lf) : tools(lf)[id].input_schema = Absent THEN Refused ELSE tools(lf)
  BY DEF FromLockfile
<1>9. FromLockfile(lock) = FromLockfile(mine)
  <2> HIDE DEF ids, tools
  <2> QED  BY <1>6, <1>7, <1>8
<1> QED  BY <1>9 DEF lock, mine

\* The catalog of a project is that of its servers.
LEMMA CatalogOfServers ==
    ASSUME NEW disk \in Projects, NEW described, NEW override, Built(disk, described, override) # Refused
    PROVE  FromLockfile(FromDependencies(McpDependencies(disk.config.servers)))
             = Built(disk, described, override).catalog
<1> DEFINE list == Discovered(disk, described)
           servers == disk.config.servers
           mcp == McpDependencies(servers)
<1>1. /\ list # Refused /\ Built(disk, described, override).catalog = FromLockfile(FromDependencies(list))
      /\ ValidConfig(disk.config)
  BY BuiltParts DEF Loads
<1>2. /\ VerifyUnique(list) /\ mcp # Refused
      /\ \A i \in 1..Len(servers) : \A j \in 1..Len(Part(servers[i])) :
            \E k \in DOMAIN list : list[k] = Part(servers[i])[j]
  BY <1>1, Listed
<1>3. VerifyUnique(mcp)
  BY <1>1, <1>2, ToolsTell
<1>4. /\ \A k \in DOMAIN mcp : \E i \in 1..Len(servers) : \E j \in 1..Len(Part(servers[i])) :
            mcp[k] = Part(servers[i])[j]
      /\ \A i \in 1..Len(servers) : \A j \in 1..Len(Part(servers[i])) :
            \E k \in DOMAIN mcp : mcp[k] = Part(servers[i])[j]
  BY <1>2, McpListed
<1>5. ASSUME NEW k \in DOMAIN list, list[k].kind = "tool"
      PROVE  \E i \in 1..Len(servers) : \E j \in 1..Len(Part(servers[i])) : list[k] = Part(servers[i])[j]
  <2>1. PICK i \in 1..Len(servers) : \E j \in 1..Len(servers[i].tools) : list[k] = Part(servers[i])[1 + j]
    BY <1>1, <1>5, ToolKind
  <2>2. PICK j \in 1..Len(servers[i].tools) : list[k] = Part(servers[i])[1 + j]
    BY <2>1
  <2>3. DiscoveredServer(servers[i]) # Refused /\ IsSeq(servers[i].tools)
    BY <1>1, <1>2, ServersTell
  <2>4. Len(Part(servers[i])) = 1 + Len(servers[i].tools) /\ Len(servers[i].tools) \in Nat
    BY <2>3, ServerPart
  <2>5. 1 + j \in 1..Len(Part(servers[i]))
    BY <2>4
  <2> QED  BY <2>2, <2>5
<1> HIDE DEF list, mcp
<1>6. FromLockfile(FromDependencies(mcp)) = FromLockfile(FromDependencies(list))
  <2>1. \A k \in DOMAIN mcp : mcp[k].kind = "tool" => \E l \in DOMAIN list : list[l] = mcp[k]
    BY <1>2, <1>4
  <2>2. \A l \in DOMAIN list : list[l].kind = "tool" => \E k \in DOMAIN mcp : list[l] = mcp[k]
    BY <1>4, <1>5
  <2> QED  BY <1>2, <1>3, <2>1, <2>2, ToolsOfList
<1> QED  BY <1>1, <1>6 DEF list, mcp

\* A probe but for how often it is asked.
ButRepeat(probe) ==
    <<probe.name, probe.prompt, probe.declared_repeat, probe.expect_tool, probe.expect_args, probe.forbid_tools,
      probe.expect_no_tool, probe.output_schema>>

\* How often a probe is asked in a run is not part of its digest, nor of what is listed of it.
LEMMA DigestButRepeat ==
    ASSUME NEW probe, NEW other, ButRepeat(probe) = ButRepeat(other)
    PROVE  ProbeDigest(probe) = ProbeDigest(other) /\ InspectedTools(probe) = InspectedTools(other)
           /\ ProbeMetrics(probe) = ProbeMetrics(other) /\ probe.name = other.name
<1>1. /\ probe.name = other.name /\ probe.prompt = other.prompt /\ probe.declared_repeat = other.declared_repeat
      /\ probe.expect_tool = other.expect_tool /\ probe.expect_args = other.expect_args
      /\ probe.forbid_tools = other.forbid_tools /\ probe.expect_no_tool = other.expect_no_tool
      /\ probe.output_schema = other.output_schema
  BY DEF ButRepeat
<1>2. ProbeDigest(probe) = ProbeDigest(other)
  BY <1>1 DEF ProbeDigest, ProbeIdentity
<1>3. InspectedTools(probe) = InspectedTools(other)
  BY <1>1 DEF InspectedTools
<1>4. ProbeMetrics(probe) = ProbeMetrics(other)
  BY <1>1 DEF ProbeMetrics
<1> QED  BY <1>1, <1>2, <1>3, <1>4

\* Suites of the same probes, but for how often they are asked, have one digest.
LEMMA SuiteDigestButRepeat ==
    ASSUME NEW probes, NEW others, DOMAIN probes = DOMAIN others,
           \A i \in DOMAIN probes : ButRepeat(probes[i]) = ButRepeat(others[i]),
           \A i, j \in DOMAIN probes : probes[i].name = probes[j].name => i = j
    PROVE  SuiteDigest(probes) = SuiteDigest(others)
<1>1. \A i \in DOMAIN probes : probes[i].name = others[i].name /\ ProbeDigest(probes[i]) = ProbeDigest(others[i])
  BY DigestButRepeat
<1> DEFINE names(list) == {list[i].name : i \in DOMAIN list}
           at(list, name) == CHOOSE i \in DOMAIN list : list[i].name = name
<1>2. names(probes) = names(others)
  BY <1>1
<1>3. \A i \in DOMAIN probes : at(probes, probes[i].name) = i /\ at(others, probes[i].name) = i
  BY <1>1
<1>4. \A name \in names(probes) : ProbeDigest(probes[at(probes, name)]) = ProbeDigest(others[at(others, name)])
  <2> SUFFICES ASSUME NEW i \in DOMAIN probes
               PROVE  ProbeDigest(probes[at(probes, probes[i].name)]) = ProbeDigest(others[at(others, probes[i].name)])
    OBVIOUS
  <2> HIDE DEF at
  <2> QED  BY <1>1, <1>3
<1>5. \A list : SuiteDigest(list) = [name \in names(list) |-> ProbeDigest(list[at(list, name)])]
  BY DEF SuiteDigest
<1> HIDE DEF names, at
<1> QED  BY <1>2, <1>4, <1>5

\* A suite that loads with one `--repeat` loads without it.
LEMMA SuiteAgain ==
    ASSUME NEW config, NEW directory, NEW schemas, NEW catalog, NEW override,
           LoadSuite(config, directory, schemas, catalog, override) # Refused
    PROVE  LET suite == LoadSuite(config, directory, schemas, catalog, override)
               again == LoadSuite(config, directory, schemas, catalog, Absent)
           IN  /\ Loadable(config, directory, schemas, catalog, Absent)
               /\ DOMAIN again.probes = DOMAIN suite.probes /\ again.digest = suite.digest
               /\ \A i \in DOMAIN suite.probes : ButRepeat(again.probes[i]) = ButRepeat(suite.probes[i])
<1> DEFINE specs == Declared(directory)
           With(repeat) == ResolvedProbes(config, directory, schemas, catalog, repeat)
           One(spec, repeat) == ResolvedProbe(spec, catalog, schemas, config.repeat, repeat)
<1>1. Loadable(config, directory, schemas, catalog, override)
  BY DEF LoadSuite
<1>2. \A repeat : DOMAIN With(repeat) = DOMAIN specs /\ \A i \in DOMAIN specs : With(repeat)[i] = One(specs[i], repeat)
  BY DEF ResolvedProbes
<1>3. \A spec, repeat : ButRepeat(One(spec, repeat)) = ButRepeat(One(spec, Absent))
                        /\ (Resolved(One(spec, repeat)) => Resolved(One(spec, Absent)))
                        /\ One(spec, repeat).name = spec.name
  BY DEF ButRepeat, ResolvedProbe, Resolved
<1>4. Loadable(config, directory, schemas, catalog, Absent)
  <2>1. \A i \in DOMAIN With(override) : Resolved(With(override)[i])
    BY <1>1 DEF Loadable
  <2>2. \A i \in DOMAIN With(Absent) : Resolved(With(Absent)[i])
    <3> HIDE DEF With, One
    <3> QED  BY <1>2, <1>3, <2>1
  <2>3. CheckRepeat(Absent)
    BY DEF CheckRepeat
  <2> QED  BY <1>1, <2>2, <2>3 DEF Loadable
<1>5. \A i \in DOMAIN specs : ButRepeat(With(Absent)[i]) = ButRepeat(With(override)[i])
                              /\ With(Absent)[i].name = specs[i].name
  <2> HIDE DEF With, One
  <2> QED  BY <1>2, <1>3
<1>6. \A i, j \in DOMAIN specs : specs[i].name = specs[j].name => i = j
  <2>1. IsInjective([i \in DOMAIN specs |-> specs[i].name])
    BY <1>1 DEF Loadable
  <2> HIDE DEF specs
  <2> QED  BY <2>1 DEF IsInjective
<1>7. SuiteDigest(With(Absent)) = SuiteDigest(With(override))
  <2> HIDE DEF With, One, specs
  <2>1. /\ DOMAIN With(Absent) = DOMAIN With(override)
        /\ \A i \in DOMAIN With(Absent) : ButRepeat(With(Absent)[i]) = ButRepeat(With(override)[i])
        /\ \A i, j \in DOMAIN With(Absent) : With(Absent)[i].name = With(Absent)[j].name => i = j
    BY <1>2, <1>5, <1>6
  <2> QED  BY <2>1, SuiteDigestButRepeat
<1>8. \A repeat : Loadable(config, directory, schemas, catalog, repeat) =>
        /\ LoadSuite(config, directory, schemas, catalog, repeat).probes = With(repeat)
        /\ LoadSuite(config, directory, schemas, catalog, repeat).digest = SuiteDigest(With(repeat))
  BY DEF LoadSuite
<1> HIDE DEF With, specs, One
<1> QED  BY <1>1, <1>2, <1>4, <1>5, <1>7, <1>8

\* The metrics a verdict is scored by are those that apply to a sample.
LEMMA ScoredMetrics ==
    ASSUME NEW probe, NEW trace, NEW catalog, Judge(probe, trace, catalog) # Refused
    PROVE  DOMAIN Judge(probe, trace, catalog).metrics
             = UNION {Applicable(probe, trace.samples[k]) : k \in DOMAIN trace.samples}
<1> DEFINE samples == trace.samples
           checks == [i \in DOMAIN samples |-> CheckSample(probe, samples[i], catalog)]
           passes(i) == \A metric \in DOMAIN checks[i] : checks[i][metric]
           rows == [i \in DOMAIN samples |->
                        [sample |-> samples[i].index, passed |-> passes(i), checks |-> checks[i]]]
           scores == [metric \in UNION {DOMAIN checks[i] : i \in DOMAIN checks} |-> Tally(checks, metric)]
           outcome == [probe |-> probe.name, probe_digest |-> ProbeDigest(probe), samples |-> rows,
              passed |-> Cardinality({i \in DOMAIN samples : passes(i)}), total |-> probe.repeat,
              metrics |-> scores]
<1>1. Judge(probe, trace, catalog)
        = IF \E i \in DOMAIN checks : \E metric \in DOMAIN checks[i] : checks[i][metric] = Refused
          THEN Refused ELSE outcome
  BY DEF Judge
<1>2. outcome.metrics = scores /\ DOMAIN scores = UNION {DOMAIN checks[i] : i \in DOMAIN checks}
  OBVIOUS
<1>3. DOMAIN checks = DOMAIN samples /\ \A i \in DOMAIN samples : DOMAIN checks[i] = Applicable(probe, samples[i])
  BY DEF CheckSample
<1> HIDE DEF outcome, scores, checks
<1>4. Judge(probe, trace, catalog) = outcome
  BY <1>1
<1>5. UNION {DOMAIN checks[i] : i \in DOMAIN checks} = UNION {Applicable(probe, samples[k]) : k \in DOMAIN samples}
  BY <1>3
<1> QED  BY <1>2, <1>4, <1>5

\* What is listed of a probe is what its samples are scored by.
LEMMA ListedMetrics ==
    ASSUME NEW probe, NEW sample
    PROVE  /\ UNION {tool.metrics : tool \in InspectedTools(probe)} \subseteq Applicable(probe, sample)
           /\ Applicable(probe, sample) \subseteq ProbeMetrics(probe)
           /\ ProbeMetrics(probe) \subseteq Applicable(probe, sample) \union {"argument_validity"}
<1>1. ASSUME NEW tool \in InspectedTools(probe), NEW m \in tool.metrics
      PROVE  m \in Applicable(probe, sample)
  <2>1. /\ m \in {"tool_selection", "argument_expectation", "forbidden_tool_usage"}
        /\ m = "tool_selection" => probe.expect_tool # Absent
        /\ m = "argument_expectation" => probe.expect_args # <<>>
        /\ m = "forbidden_tool_usage" => probe.forbid_tools # {}
    BY <1>1 DEF InspectedTools
  <2>2. m \in Metrics
    BY <2>1, BehaviorAssumption
  <2> QED  BY <2>1, <2>2 DEF Applicable
<1>2. Applicable(probe, sample) \subseteq ProbeMetrics(probe)
  BY DEF Applicable, ProbeMetrics
<1>3. ProbeMetrics(probe) \subseteq Applicable(probe, sample) \union {"argument_validity"}
  BY DEF Applicable, ProbeMetrics
<1> QED  BY <1>1, <1>2, <1>3

\* The suite that is listed is the one that is run, and what applies to a sample is listed.
LEMMA InspectFit == BehaviorInv => InspectForetells
<1> DEFINE built == run.built
           suite == built.suite
           config == project.config
           lock == FromDependencies(McpDependencies(config.servers))
           again == LoadSuite(config.probes, project.directory, project.schemas, FromLockfile(lock), Absent)
           inspected == InspectProbes(config, project.directory, project.schemas, lock)
           Fits(i) ==
                LET probe == inspected.probes[i]
                    scored == DOMAIN run.verdict[i].metrics
                    named == UNION {tool.metrics : tool \in probe.tools}
                IN  /\ probe.probe = run.verdict[i].probe /\ probe.digest = run.verdict[i].probe_digest
                    /\ named \subseteq scored /\ scored \subseteq probe.metrics
                    /\ probe.metrics \subseteq scored \union {"argument_validity"}
<1> SUFFICES ASSUME BehaviorInv, Accepted, ~run.replay
             PROVE  /\ Inspectable(config, project.directory, project.schemas, lock)
                    /\ inspected.suite_digest = Half.probe_suite_digest
                    /\ \A i \in DOMAIN run.verdict : Fits(i)
  BY DEF InspectForetells
<1>1. /\ Made(built, project, run.seen) /\ project \in Projects /\ DOMAIN run.verdict = DOMAIN suite.probes
      /\ IsSeq(suite.probes) /\ DOMAIN suite.probes = 1..Len(suite.probes)
  BY JudgedParts
<1>2. PICK described, override : built = Built(project, described, override) /\ built # Refused
  BY <1>1 DEF Made
<1>3. FromLockfile(lock) = built.catalog
  BY <1>1, <1>2, CatalogOfServers
<1>4. /\ Loads(config) /\ built.catalog # Refused /\ suite # Refused
      /\ suite = LoadSuite(config.probes, project.directory, project.schemas, built.catalog, override)
  BY <1>2, BuiltParts
<1> HIDE DEF lock
<1>5. /\ Loadable(config.probes, project.directory, project.schemas, FromLockfile(lock), Absent)
      /\ DOMAIN again.probes = DOMAIN suite.probes /\ again.digest = suite.digest
      /\ \A i \in DOMAIN suite.probes : ButRepeat(again.probes[i]) = ButRepeat(suite.probes[i])
  <2> DEFINE conf == config.probes
             cat == built.catalog
             loaded == LoadSuite(conf, project.directory, project.schemas, cat, override)
             second == LoadSuite(conf, project.directory, project.schemas, cat, Absent)
  <2>1. loaded # Refused /\ suite = loaded
    BY <1>4
  <2>2. /\ Loadable(conf, project.directory, project.schemas, cat, Absent)
        /\ DOMAIN second.probes = DOMAIN loaded.probes /\ second.digest = loaded.digest
        /\ \A i \in DOMAIN loaded.probes : ButRepeat(second.probes[i]) = ButRepeat(loaded.probes[i])
    <3> HIDE DEF conf, cat
    <3> QED  BY <2>1, SuiteAgain
  <2>3. again = second
    BY <1>3
  <2> HIDE DEF loaded, second, again
  <2> QED  BY <1>3, <2>1, <2>2, <2>3
<1>6. Inspectable(config, project.directory, project.schemas, lock)
  BY <1>3, <1>4, <1>5 DEF Inspectable
<1>7. /\ inspected.suite_digest = again.digest /\ DOMAIN inspected.probes = DOMAIN again.probes
      /\ \A i \in DOMAIN again.probes : inspected.probes[i] = InspectedProbe(again.probes[i])
  BY <1>6 DEF InspectProbes
<1> HIDE DEF inspected, again
<1>8. Half.probe_suite_digest = suite.digest
  BY DEF Half, BehaviorHalf
<1>9. ASSUME NEW i \in DOMAIN run.verdict
      PROVE  Fits(i)
  <2> DEFINE mine == suite.probes[i]
             trace == Scored[i]
             outcome == run.verdict[i]
             scored == DOMAIN outcome.metrics
  <2>1. /\ i \in DOMAIN suite.probes /\ outcome = Judge(mine, trace, built.catalog) /\ outcome # Refused
        /\ Len(trace.samples) = mine.repeat /\ TraceIsSampled(trace)
    BY <1>1, JudgedParts DEF IsTraceOf
  <2>2. mine.repeat \in Nat \ {0}
    BY <1>1, <2>1, MadeSuite
  <2> HIDE DEF mine, trace, outcome
  <2>3. outcome.probe = mine.name /\ outcome.probe_digest = ProbeDigest(mine)
    BY <2>1, JudgeOf
  <2>4. scored = UNION {Applicable(mine, trace.samples[k]) : k \in DOMAIN trace.samples}
    BY <2>1, ScoredMetrics
  <2>5. 1 \in DOMAIN trace.samples
    BY <2>1, <2>2 DEF TraceIsSampled, AreSamples, IsSeq
  <2>6. /\ UNION {tool.metrics : tool \in InspectedTools(mine)} \subseteq scored
        /\ scored \subseteq ProbeMetrics(mine)
        /\ ProbeMetrics(mine) \subseteq scored \union {"argument_validity"}
    <3>1. Applicable(mine, trace.samples[1]) \subseteq scored
      BY <2>4, <2>5
    <3>2. scored \subseteq ProbeMetrics(mine)
      BY <2>4, ListedMetrics
    <3> HIDE DEF scored
    <3>3. UNION {tool.metrics : tool \in InspectedTools(mine)} \subseteq scored
      BY <3>1, ListedMetrics
    <3>4. ProbeMetrics(mine) \subseteq scored \union {"argument_validity"}
      BY <3>1, ListedMetrics
    <3> QED  BY <3>2, <3>3, <3>4
  <2> DEFINE listed == again.probes[i]
             probe == inspected.probes[i]
  <2>7. ButRepeat(listed) = ButRepeat(mine) /\ probe = InspectedProbe(listed)
    BY <1>5, <1>7, <2>1 DEF mine
  <2> HIDE DEF listed, probe, scored
  <2>8. /\ ProbeDigest(listed) = ProbeDigest(mine) /\ InspectedTools(listed) = InspectedTools(mine)
        /\ ProbeMetrics(listed) = ProbeMetrics(mine) /\ listed.name = mine.name
    BY <2>7, DigestButRepeat
  <2>9. /\ probe.probe = listed.name /\ probe.digest = ProbeDigest(listed) /\ probe.metrics = ProbeMetrics(listed)
        /\ probe.tools = InspectedTools(listed)
    BY <2>7 DEF InspectedProbe
  <2>10. /\ probe.probe = outcome.probe /\ probe.digest = outcome.probe_digest
         /\ UNION {tool.metrics : tool \in probe.tools} \subseteq scored /\ scored \subseteq probe.metrics
         /\ probe.metrics \subseteq scored \union {"argument_validity"}
    BY <2>3, <2>6, <2>8, <2>9
  <2> QED  BY <2>10 DEF probe, outcome, scored
<1> HIDE DEF Fits
<1> QED  BY <1>5, <1>6, <1>7, <1>8, <1>9

\* `inspect` over an up-to-date lockfile tells beforehand what a check scores: the same probes under the
\* same digests, whatever `--repeat` is, by no metric that it does not list, and by every metric that a
\* probe declares.
THEOREM CheckIsForetold == Spec => []InspectForetells
<1>1. BehaviorInv => InspectForetells
  BY InspectFit
<1> QED  BY <1>1, EvidenceHasAnOrigin, PTL

------------------------------------------------------------------------------
(* Sums of counts.                                                           *)

\* The member of a set that a fold takes next.
Chosen(s) == CHOOSE x \in s : TRUE

\* A function that takes one member of a set after the other, adding up.
Adds(iter, f) == iter = [s \in SUBSET DOMAIN f |->
                            IF s = {} THEN 0 ELSE f[Chosen(s)] + iter[s \ {Chosen(s)}]]

\* A sum is what that function gives for all of the members.
LEMMA SumIs ==
    ASSUME NEW f
    PROVE  SumFunction(f) = (CHOOSE iter : Adds(iter, f))[DOMAIN f]
BY DEF SumFunction, SumFunctionOnSet, FoldFunctionOnSet, MapThenFoldSet, Adds, Chosen

\* Taken one member after the other, the sizes of sets that do not meet add up to the size of their union.
LEMMA SumOfSizes ==
    ASSUME NEW f, NEW parts, IsFiniteSet(DOMAIN f),
           \A i \in DOMAIN f : IsFiniteSet(parts[i]) /\ f[i] = Cardinality(parts[i]),
           \A i, j \in DOMAIN f : i # j => parts[i] \intersect parts[j] = {}
    PROVE  SumFunction(f) = Cardinality(UNION {parts[i] : i \in DOMAIN f})
<1> DEFINE S == DOMAIN f
           All(s) == UNION {parts[i] : i \in s}
           sizes == [s \in SUBSET S |-> Cardinality(All(s))]
<1>1. ASSUME NEW s \in SUBSET S, s # {}
      PROVE  /\ Chosen(s) \in s /\ Chosen(s) \in S /\ s \ {Chosen(s)} \in SUBSET S
             /\ IsFiniteSet(s) /\ Cardinality(s) \in Nat
             /\ Cardinality(s \ {Chosen(s)}) = Cardinality(s) - 1
  <2>1. Chosen(s) \in s
    BY <1>1 DEF Chosen
  <2>2. IsFiniteSet(s)
    BY FS_Subset
  <2>3. Cardinality(s) \in Nat
    BY <2>2, FS_CardinalityType
  <2>4. Cardinality(s \ {Chosen(s)}) = Cardinality(s) - 1
    BY <2>1, <2>2, FS_RemoveElement
  <2> QED  BY <2>1, <2>2, <2>3, <2>4
<1>2. \A s \in SUBSET S : IsFiniteSet(All(s)) /\ Cardinality(All(s)) \in Nat
  <2> DEFINE Good == {n \in Nat : \A s \in SUBSET S : Cardinality(s) = n => IsFiniteSet(All(s))}
             m == Cardinality(S)
  <2>1. m \in Nat
    BY FS_CardinalityType
  <2>2. 0 \in Good
    <3> SUFFICES ASSUME NEW s \in SUBSET S, Cardinality(s) = 0 PROVE IsFiniteSet(All(s))
      OBVIOUS
    <3>1. IsFiniteSet(s)
      BY FS_Subset
    <3>2. s = {}
      BY <3>1, FS_EmptySet
    <3>3. All(s) = {}
      BY <3>2
    <3> QED  BY <3>3, FS_EmptySet
  <2>3. ASSUME NEW n \in 0..m - 1, n \in Good
        PROVE  n + 1 \in Good
    <3> SUFFICES ASSUME NEW s \in SUBSET S, Cardinality(s) = n + 1 PROVE IsFiniteSet(All(s))
      BY <2>1
    <3> DEFINE x == Chosen(s)
               rest == s \ {Chosen(s)}
    <3>1. s # {}
      <4>1. Cardinality({}) = 0
        BY FS_EmptySet
      <4>2. n + 1 # 0
        BY <2>1
      <4> QED  BY <4>1, <4>2
    <3>2. x \in s /\ x \in S /\ rest \in SUBSET S /\ Cardinality(rest) = n
      <4>1. Cardinality(s \ {Chosen(s)}) = Cardinality(s) - 1
        BY <1>1, <3>1
      <4> QED  BY <1>1, <2>1, <3>1, <4>1
    <3>3. IsFiniteSet(All(rest))
      BY <2>3, <3>2
    <3>4. All(s) = All(rest) \union parts[x]
      <4>1. s = rest \union {x}
        BY <3>2
      <4> HIDE DEF x, rest
      <4> QED  BY <4>1
    <3>5. IsFiniteSet(parts[x])
      BY <3>2
    <3> HIDE DEF All, x, rest
    <3>6. IsFiniteSet(All(rest) \union parts[x])
      BY <3>3, <3>5, FS_Union
    <3> QED  BY <3>4, <3>6
  <2>4. \A n \in 0..m : n \in Good
    <3> HIDE DEF Good, m
    <3> QED  BY <2>1, <2>2, <2>3, UpTo
  <2>5. ASSUME NEW s \in SUBSET S
        PROVE  IsFiniteSet(All(s)) /\ Cardinality(All(s)) \in Nat
    <3>1. IsFiniteSet(s) /\ Cardinality(s) <= m
      BY FS_Subset
    <3>2. Cardinality(s) \in Nat
      BY <3>1, FS_CardinalityType
    <3>3. Cardinality(s) \in 0..m
      BY <2>1, <3>1, <3>2
    <3>4. Cardinality(s) \in Good
      BY <2>4, <3>3
    <3>5. IsFiniteSet(All(s))
      BY <3>4
    <3> HIDE DEF All
    <3> QED  BY <3>5, FS_CardinalityType
  <2> QED  BY <2>5
<1>3. ASSUME NEW s \in SUBSET S, s # {}
      PROVE  Cardinality(All(s)) = f[Chosen(s)] + Cardinality(All(s \ {Chosen(s)}))
  <2> DEFINE x == Chosen(s)
             rest == s \ {Chosen(s)}
  <2>1. x \in s /\ x \in S /\ rest \in SUBSET S
    BY <1>1, <1>3
  <2>2. s = rest \union {x} /\ x \notin rest
    BY <2>1
  <2> HIDE DEF x, rest
  <2>3. All(s) = All(rest) \union parts[x]
    BY <2>2
  <2>4. All(rest) \intersect parts[x] = {}
    BY <2>1, <2>2
  <2>5. IsFiniteSet(All(rest)) /\ Cardinality(All(rest)) \in Nat
    BY <1>2, <2>1
  <2>6. IsFiniteSet(parts[x]) /\ f[x] = Cardinality(parts[x])
    BY <2>1
  <2> HIDE DEF All
  <2>7. Cardinality(parts[x]) \in Nat
    BY <2>6, FS_CardinalityType
  <2>8. Cardinality(All(rest) \union parts[x])
          = Cardinality(All(rest)) + Cardinality(parts[x]) - Cardinality(All(rest) \intersect parts[x])
    BY <2>5, <2>6, FS_Union
  <2>9. Cardinality(All(s)) = Cardinality(parts[x]) + Cardinality(All(rest))
    BY <2>3, <2>4, <2>5, <2>7, <2>8, FS_EmptySet
  <2> QED  BY <2>6, <2>9 DEF x, rest
<1>4. Adds(sizes, f)
  <2>1. Cardinality(All({})) = 0
    <3>1. All({}) = {}
      OBVIOUS
    <3> QED  BY <3>1, FS_EmptySet
  <2>2. \A s \in SUBSET S : s # {} => sizes[s \ {Chosen(s)}] = Cardinality(All(s \ {Chosen(s)}))
    BY <1>1
  <2>3. \A s \in SUBSET S :
            sizes[s] = IF s = {} THEN 0 ELSE f[Chosen(s)] + sizes[s \ {Chosen(s)}]
    <3> HIDE DEF All
    <3> TAKE s \in SUBSET S
    <3>1. sizes[s] = Cardinality(All(s))
      OBVIOUS
    <3> HIDE DEF sizes
    <3> QED  BY <1>3, <2>1, <2>2, <3>1
  <2>4. sizes = [s \in SUBSET S |-> sizes[s]]
    OBVIOUS
  <2> HIDE DEF sizes
  <2> QED  BY <2>3, <2>4 DEF Adds
<1> DEFINE iter == CHOOSE iter : Adds(iter, f)
<1>5. Adds(iter, f)
  <2> HIDE DEF sizes
  <2> QED  BY <1>4
<1> HIDE DEF iter
<1>6. \A s \in SUBSET S : iter[s] = IF s = {} THEN 0 ELSE f[Chosen(s)] + iter[s \ {Chosen(s)}]
  BY <1>5 DEF Adds
<1> DEFINE Good == {n \in Nat : \A s \in SUBSET S : Cardinality(s) = n => iter[s] = Cardinality(All(s))}
           m == Cardinality(S)
<1>7. m \in Nat
  BY FS_CardinalityType
<1>8. 0 \in Good
  <2> SUFFICES ASSUME NEW s \in SUBSET S, Cardinality(s) = 0 PROVE iter[s] = Cardinality(All(s))
    OBVIOUS
  <2>1. IsFiniteSet(s)
    BY FS_Subset
  <2>2. s = {}
    BY <2>1, FS_EmptySet
  <2>3. All(s) = {}
    BY <2>2
  <2> QED  BY <1>6, <2>2, <2>3, FS_EmptySet
<1>9. ASSUME NEW n \in 0..m - 1, n \in Good
      PROVE  n + 1 \in Good
  <2> SUFFICES ASSUME NEW s \in SUBSET S, Cardinality(s) = n + 1 PROVE iter[s] = Cardinality(All(s))
    BY <1>7
  <2>1. s # {}
    <3>1. Cardinality({}) = 0
      BY FS_EmptySet
    <3>2. n + 1 # 0
      BY <1>7
    <3> QED  BY <3>1, <3>2
  <2>2. s \ {Chosen(s)} \in SUBSET S /\ Cardinality(s \ {Chosen(s)}) = n
    <3>1. Cardinality(s \ {Chosen(s)}) = Cardinality(s) - 1
      BY <1>1, <2>1
    <3> QED  BY <1>7, <3>1
  <2>3. iter[s \ {Chosen(s)}] = Cardinality(All(s \ {Chosen(s)}))
    BY <1>9, <2>2
  <2> HIDE DEF All
  <2> QED  BY <1>3, <1>6, <2>1, <2>3
<1>10. \A n \in 0..m : n \in Good
  <2> HIDE DEF Good, m
  <2> QED  BY <1>7, <1>8, <1>9, UpTo
<1>11. iter[S] = Cardinality(All(S))
  <2>1. m \in 0..m
    BY <1>7
  <2> QED  BY <1>10, <2>1
<1>12. SumFunction(f) = iter[S]
  BY SumIs DEF iter
<1> QED  BY <1>11, <1>12

------------------------------------------------------------------------------
(* What the outcome of a probe counts, and what its line in the report names. *)

ChecksOf(outcome) == [k \in DOMAIN outcome.samples |-> outcome.samples[k].checks]
Applying(checks, m) == {k \in DOMAIN checks : m \in DOMAIN checks[k]}
Passing(checks, m) == {k \in Applying(checks, m) : checks[k][m]}
Clean(checks) == {k \in DOMAIN checks : \A m \in DOMAIN checks[k] : checks[k][m]}

\* An outcome counts the samples that pass, and for each metric those to which it applies.
LEMMA JudgeCounts ==
    ASSUME NEW probe, NEW trace, NEW catalog,
           NEW judged, judged = Judge(probe, trace, catalog), judged # Refused,
           NEW held, held = ChecksOf(judged)
    PROVE  /\ held = [k \in DOMAIN trace.samples |-> CheckSample(probe, trace.samples[k], catalog)]
           /\ \A k \in DOMAIN held : \A m \in DOMAIN held[k] : held[k][m] # Refused
           /\ judged.passed = Cardinality(Clean(held))
           /\ DOMAIN judged.metrics = UNION {DOMAIN held[k] : k \in DOMAIN held}
           /\ \A m \in DOMAIN judged.metrics :
                judged.metrics[m] = [passed |-> Cardinality(Passing(held, m)),
                                     total |-> Cardinality(Applying(held, m))]
<1> DEFINE samples == trace.samples
           checks == [i \in DOMAIN samples |-> CheckSample(probe, samples[i], catalog)]
           passes(i) == \A metric \in DOMAIN checks[i] : checks[i][metric]
           rows == [i \in DOMAIN samples |->
                        [sample |-> samples[i].index, passed |-> passes(i), checks |-> checks[i]]]
           metrics == [metric \in UNION {DOMAIN checks[i] : i \in DOMAIN checks} |-> Tally(checks, metric)]
           outcome == [probe |-> probe.name, probe_digest |-> ProbeDigest(probe), samples |-> rows,
              passed |-> Cardinality({i \in DOMAIN samples : passes(i)}), total |-> probe.repeat,
              metrics |-> metrics]
<1>1. Judge(probe, trace, catalog)
        = IF \E i \in DOMAIN checks : \E metric \in DOMAIN checks[i] : checks[i][metric] = Refused
          THEN Refused ELSE outcome
  BY DEF Judge
<1>2. \A i \in DOMAIN checks : \A metric \in DOMAIN checks[i] : checks[i][metric] # Refused
  <2> HIDE DEF checks, outcome
  <2> QED  BY <1>1
<1>3. Judge(probe, trace, catalog) = outcome
  <2> HIDE DEF checks, outcome
  <2> QED  BY <1>1
<1>4. outcome.samples = rows /\ outcome.metrics = metrics
      /\ outcome.passed = Cardinality({i \in DOMAIN samples : passes(i)})
  OBVIOUS
<1>5. DOMAIN checks = DOMAIN samples
  OBVIOUS
<1> HIDE DEF checks
<1>6. DOMAIN rows = DOMAIN samples /\ \A k \in DOMAIN samples : rows[k].checks = checks[k]
  OBVIOUS
<1> HIDE DEF rows, metrics, outcome
<1>7. ChecksOf(outcome) = checks
  <2>1. ChecksOf(outcome) = [k \in DOMAIN samples |-> checks[k]]
    BY <1>4, <1>6 DEF ChecksOf
  <2>2. checks = [k \in DOMAIN samples |-> checks[k]]
    BY DEF checks
  <2> QED  BY <2>1, <2>2
<1>8. outcome.passed = Cardinality(Clean(checks))
  BY <1>4, <1>5 DEF Clean
<1>9. DOMAIN metrics = UNION {DOMAIN checks[k] : k \in DOMAIN checks}
  BY DEF metrics
<1>10. \A m \in DOMAIN metrics :
        metrics[m] = [passed |-> Cardinality(Passing(checks, m)), total |-> Cardinality(Applying(checks, m))]
  <2> TAKE m \in DOMAIN metrics
  <2>1. metrics[m] = Tally(checks, m)
    BY DEF metrics
  <2>2. Tally(checks, m) = [passed |-> Cardinality(Passing(checks, m)), total |-> Cardinality(Applying(checks, m))]
    BY DEF Tally, Passing, Applying
  <2> QED  BY <2>1, <2>2
<1>11. judged = outcome /\ held = checks /\ outcome.metrics = metrics
  BY <1>3, <1>4, <1>7
<1>12. checks = [k \in DOMAIN trace.samples |-> CheckSample(probe, trace.samples[k], catalog)]
  BY DEF checks
<1>13. judged.passed = Cardinality(Clean(held)) /\ judged.metrics = metrics
  BY <1>8, <1>11
<1>14. \A k \in DOMAIN held : \A m \in DOMAIN held[k] : held[k][m] # Refused
  BY <1>2, <1>11
<1>15. DOMAIN judged.metrics = UNION {DOMAIN held[k] : k \in DOMAIN held}
  BY <1>9, <1>11, <1>13
<1>16. \A m \in DOMAIN judged.metrics :
         judged.metrics[m] = [passed |-> Cardinality(Passing(held, m)), total |-> Cardinality(Applying(held, m))]
  BY <1>10, <1>11, <1>13
<1>17. held = [k \in DOMAIN trace.samples |-> CheckSample(probe, trace.samples[k], catalog)]
  BY <1>11, <1>12
<1> QED  BY <1>13, <1>14, <1>15, <1>16, <1>17

\* Of finitely many a part is smaller only if it lacks one.
LEMMA Smaller ==
    ASSUME NEW S, IsFiniteSet(S), NEW T \in SUBSET S
    PROVE  /\ Cardinality(T) < Cardinality(S) <=> \E x \in S : x \notin T
           /\ Cardinality(T) = Cardinality(S) <=> T = S
<1>1. /\ IsFiniteSet(T) /\ Cardinality(T) <= Cardinality(S)
      /\ Cardinality(S) = Cardinality(T) => S = T
  BY FS_Subset
<1>2. Cardinality(T) \in Nat /\ Cardinality(S) \in Nat
  BY <1>1, FS_CardinalityType
<1>3. Cardinality(T) < Cardinality(S) <=> Cardinality(T) # Cardinality(S)
  BY <1>1, <1>2
<1> QED  BY <1>1, <1>3

\* A check that failed is told of at the first of the samples that it failed for.
LEMMA FailuresAreTold ==
    ASSUME NEW outcome, NEW probe, NEW samples, NEW n \in Nat, DOMAIN samples = 1..n,
           DOMAIN outcome.samples = 1..n
    PROVE  /\ {line.metric : line \in FailingChecks(outcome, probe, samples)}
                = UNION {Fails(outcome, k) : k \in 1..n}
           /\ FailingChecks(outcome, probe, samples) = {} <=> \A k \in 1..n : Fails(outcome, k) = {}
<1> DEFINE told == FailingChecks(outcome, probe, samples)
           Same(i, j, m) == Wording(m, probe, samples[i]) = Wording(m, probe, samples[j])
           new(i) == {m \in Fails(outcome, i) :
                        \A j \in 1..(i - 1) : m \in Fails(outcome, j) => ~Same(i, j, m)}
<1>1. told = UNION {{[sample |-> i, metric |-> m] : m \in new(i)} : i \in 1..n}
  BY DEF FailingChecks
<1>2. \A i : new(i) \subseteq Fails(outcome, i)
  OBVIOUS
<1>3. ASSUME NEW k \in 1..n, NEW m \in Fails(outcome, k)
      PROVE  \E i \in 1..n : m \in new(i)
  <2> DEFINE T == {i \in 1..n : m \in Fails(outcome, i)}
  <2>1. T \in SUBSET Nat /\ k \in T
    BY <1>3
  <2>2. PICK i \in T : \A j \in T : i <= j
    <3> HIDE DEF T
    <3> QED  BY <2>1, LeastOf
  <2>3. \A j \in 1..(i - 1) : j \notin T
    BY <2>2
  <2>4. \A j \in 1..(i - 1) : m \notin Fails(outcome, j)
    BY <2>2, <2>3
  <2> QED  BY <2>2, <2>4
<1> HIDE DEF new, told
<1>4. \A line : line \in told <=> \E i \in 1..n : \E m \in new(i) : line = [sample |-> i, metric |-> m]
  BY <1>1
<1>5. {line.metric : line \in told} = UNION {Fails(outcome, k) : k \in 1..n}
  <2>1. ASSUME NEW line \in told
        PROVE  line.metric \in UNION {Fails(outcome, k) : k \in 1..n}
    <3>1. PICK i \in 1..n : \E m \in new(i) : line = [sample |-> i, metric |-> m]
      BY <1>4
    <3>2. line.metric \in new(i)
      BY <3>1
    <3> QED  BY <1>2, <3>2
  <2>2. ASSUME NEW k \in 1..n, NEW m \in Fails(outcome, k)
        PROVE  m \in {line.metric : line \in told}
    <3>1. PICK i \in 1..n : m \in new(i)
      BY <1>3
    <3>2. [sample |-> i, metric |-> m] \in told
      BY <1>4, <3>1
    <3>3. [sample |-> i, metric |-> m].metric = m
      OBVIOUS
    <3> QED  BY <3>2, <3>3
  <2> QED  BY <2>1, <2>2
<1>6. told = {} <=> {line.metric : line \in told} = {}
  OBVIOUS
<1>7. told = {} <=> \A k \in 1..n : Fails(outcome, k) = {}
  <2> DEFINE F(k) == Fails(outcome, k)
             metrics == {line.metric : line \in told}
  <2>1. told = {} <=> metrics = {}
    BY <1>6
  <2>2. metrics = UNION {F(k) : k \in 1..n}
    BY <1>5
  <2> HIDE DEF metrics, F
  <2>3. metrics = {} <=> \A k \in 1..n : F(k) = {}
    BY <2>2
  <2> QED  BY <2>1, <2>3 DEF F
<1> QED  BY <1>5, <1>7 DEF told

\* The samples that are reported on are as many as those that were scored.
LEMMA JudgedPlaces ==
    ASSUME BehaviorInv, Accepted, NEW i \in DOMAIN run.verdict
    PROVE  DOMAIN Judged(i) = DOMAIN Scored[i].samples
<1> DEFINE probes == run.built.suite.probes
<1>1. CASE ~run.replay
  BY <1>1 DEF Judged, Scored
<1>2. CASE run.replay
  <2> DEFINE trace == TraceFor(Written(evidence.file), probes[i].name)
             read == RereadTrace(trace)
  <2>1. /\ evidence # Absent /\ i \in DOMAIN probes /\ trace \in TracesIn(evidence.file)
        /\ Scored[i] = read
    <3>1. evidence # Absent /\ DOMAIN run.verdict = DOMAIN probes
      BY <1>2, ReplayedParts
    <3>2. trace \in TracesIn(evidence.file) /\ Usable(run.built, evidence.file)[i] = read
      BY <1>2, <3>1, ReplayedParts
    <3> HIDE DEF trace, read
    <3> QED  BY <1>2, <3>1, <3>2 DEF Scored
  <2>2. run.verdict[i].probe = probes[i].name
    <3>1. run.verdict[i] = Judge(probes[i], Scored[i], run.built.catalog) /\ run.verdict[i] # Refused
      BY <2>1, JudgedParts
    <3> QED  BY <3>1, JudgeOf
  <2>3. Judged(i) = trace.samples
    BY <1>2, <2>2 DEF Judged, Written
  <2> HIDE DEF trace
  <2>4. trace = [field \in TraceFields |-> trace[field]] /\ AreSamples(trace.samples)
    BY <2>1, EvidenceParts DEF TraceIsOf, TraceIsSampled
  <2>5. AreSamples(read.samples) /\ Len(read.samples) = Len(trace.samples)
    BY <2>4, RereadKeeps
  <2> HIDE DEF read
  <2>6. DOMAIN read.samples = 1..Len(trace.samples) /\ DOMAIN trace.samples = 1..Len(trace.samples)
    BY <2>4, <2>5 DEF AreSamples, IsSeq
  <2> QED  BY <2>1, <2>3, <2>6
<1> QED  BY <1>1, <1>2

\* By the invariant, the line of a probe names every metric it fell short of.
LEMMA ShortfallsFit == BehaviorInv => ShortfallsAreNamed
<1> SUFFICES ASSUME BehaviorInv, Accepted, NEW i \in DOMAIN run.verdict
             PROVE  LET row == Half.probes[i]
                    IN  /\ {line.metric : line \in row.failures}
                             = {m \in DOMAIN run.verdict[i].metrics :
                                    run.verdict[i].metrics[m].passed < run.verdict[i].metrics[m].total}
                        /\ row.failures = {} <=> row.passed = row.total
  BY DEF ShortfallsAreNamed
<1> DEFINE probe == run.built.suite.probes[i]
           trace == Scored[i]
           outcome == run.verdict[i]
           n == probe.repeat
           row == Half.probes[i]
           told == FailingChecks(outcome, probe, Judged(i))
           checks == ChecksOf(outcome)
<1>1. /\ outcome = Judge(probe, trace, run.built.catalog) /\ outcome # Refused
      /\ Len(trace.samples) = n /\ TraceIsSampled(trace)
  <2>1. i \in DOMAIN run.built.suite.probes
    BY JudgedParts
  <2> QED  BY <2>1, JudgedParts DEF IsTraceOf
<1>2. row.passed = outcome.passed /\ row.total = outcome.total /\ row.failures = told
  <2>1. Half.probes = [k \in DOMAIN run.verdict |-> ProbeRow(run.verdict[k], run.built.suite.probes[k],
                                [j \in DOMAIN run.verdict |-> Judged(j)][k])]
    BY DEF Half, BehaviorHalf
  <2>2. row = ProbeRow(outcome, probe, Judged(i))
    BY <2>1
  <2> HIDE DEF row, outcome, probe
  <2> QED  BY <2>2 DEF ProbeRow
<1>3. DOMAIN Judged(i) = DOMAIN trace.samples
  BY JudgedPlaces
<1> HIDE DEF probe, trace, outcome, row, told, checks
<1>4. n \in Nat /\ DOMAIN trace.samples = 1..n
  BY <1>1 DEF TraceIsSampled, AreSamples, IsSeq
<1>5. DOMAIN outcome.samples = 1..n /\ outcome.total = n
  BY <1>1, <1>4, JudgeOf
<1>6. /\ outcome.passed = Cardinality(Clean(checks))
      /\ DOMAIN outcome.metrics = UNION {DOMAIN checks[k] : k \in DOMAIN checks}
      /\ \A m \in DOMAIN outcome.metrics :
            outcome.metrics[m] = [passed |-> Cardinality(Passing(checks, m)),
                                  total |-> Cardinality(Applying(checks, m))]
  <2> DEFINE judged == Judge(probe, trace, run.built.catalog)
  <2>1. outcome = judged /\ judged # Refused
    BY <1>1
  <2>2. checks = ChecksOf(outcome)
    BY DEF checks
  <2> QED  BY <2>1, <2>2, JudgeCounts
<1>7. DOMAIN checks = 1..n /\ \A k \in 1..n : checks[k] = outcome.samples[k].checks
  BY <1>5 DEF checks, ChecksOf
<1>8. \A k \in 1..n : Fails(outcome, k) = {m \in DOMAIN checks[k] : ~checks[k][m]}
  BY <1>7 DEF Fails
<1>9. /\ {line.metric : line \in told} = UNION {Fails(outcome, k) : k \in 1..n}
      /\ told = {} <=> \A k \in 1..n : Fails(outcome, k) = {}
  <2>1. DOMAIN Judged(i) = 1..n
    BY <1>3, <1>4
  <2> HIDE DEF n
  <2> QED  BY <1>4, <1>5, <2>1, FailuresAreTold DEF told
<1>10. ASSUME NEW m \in DOMAIN outcome.metrics
       PROVE  outcome.metrics[m].passed < outcome.metrics[m].total <=> \E k \in 1..n : m \in Fails(outcome, k)
  <2> DEFINE all == Applying(checks, m)
             good == Passing(checks, m)
  <2>1. outcome.metrics[m].passed = Cardinality(good) /\ outcome.metrics[m].total = Cardinality(all)
    <3>1. outcome.metrics[m] = [passed |-> Cardinality(good), total |-> Cardinality(all)]
      BY <1>6
    <3> HIDE DEF good, all
    <3> QED  BY <3>1
  <2>2. good \in SUBSET all /\ all \in SUBSET (1..n)
    BY <1>7 DEF Passing, Applying
  <2>3. IsFiniteSet(all)
    <3>1. IsFiniteSet(1..n)
      BY <1>4, FS_Interval
    <3> HIDE DEF all
    <3> QED  BY <2>2, <3>1, FS_Subset
  <2>4. Cardinality(good) < Cardinality(all) <=> \E k \in all : k \notin good
    <3> HIDE DEF all, good
    <3> QED  BY <2>2, <2>3, Smaller
  <2>5. (\E k \in all : k \notin good) <=> \E k \in 1..n : m \in Fails(outcome, k)
    BY <1>7, <1>8 DEF Passing, Applying
  <2> QED  BY <2>1, <2>4, <2>5
<1>11. \A k \in 1..n : \A m \in Fails(outcome, k) : m \in DOMAIN outcome.metrics
  BY <1>6, <1>7, <1>8
<1>12. {line.metric : line \in told}
         = {m \in DOMAIN outcome.metrics : outcome.metrics[m].passed < outcome.metrics[m].total}
  BY <1>9, <1>10, <1>11
<1>13. told = {} <=> outcome.passed = outcome.total
  <2> DEFINE good == Clean(checks)
  <2>1. good \in SUBSET (1..n)
    BY <1>7 DEF Clean
  <2>2. IsFiniteSet(1..n) /\ Cardinality(1..n) = n
    BY <1>4, FS_Interval
  <2>3. Cardinality(good) = n <=> good = 1..n
    <3> HIDE DEF good, n
    <3> QED  BY <2>1, <2>2, Smaller
  <2>4. good = 1..n <=> \A k \in 1..n : Fails(outcome, k) = {}
    BY <1>7, <1>8 DEF Clean
  <2> QED  BY <1>5, <1>6, <1>9, <2>3, <2>4
<1> QED  BY <1>2, <1>12, <1>13 DEF row, outcome

------------------------------------------------------------------------------
(* The same answers, scored against two catalogs of the same tools.           *)

\* The tools are told apart by name, and have the same names and the same demands in both.
Alike(catalog, other) ==
    /\ DOMAIN catalog = DOMAIN other /\ Absent \notin DOMAIN catalog
    /\ \A id \in DOMAIN catalog :
        /\ catalog[id].id = id /\ other[id].id = id /\ catalog[id].name = other[id].name
        /\ Demands(catalog[id].input_schema) = Demands(other[id].input_schema)
    /\ \A id, more \in DOMAIN catalog : catalog[id].name = catalog[more].name => id = more

\* A catalog whose tools have ids and names of their own.
Telling(catalog) ==
    /\ Absent \notin DOMAIN catalog
    /\ \A id \in DOMAIN catalog : catalog[id].id = id
    /\ \A id, more \in DOMAIN catalog : catalog[id].name = catalog[more].name => id = more

\* What a probe names is of the catalog.
IsOver(probe, catalog) ==
    /\ probe.expect_tool # Absent => \E id \in DOMAIN catalog : probe.expect_tool = catalog[id]
    /\ \A tool \in probe.forbid_tools : \E id \in DOMAIN catalog : tool = catalog[id]

\* Two probes that ask for the same.
AskTheSame(probe, other) ==
    /\ probe.expect_tool = Absent <=> other.expect_tool = Absent
    /\ probe.expect_tool # Absent => probe.expect_tool.id = other.expect_tool.id
    /\ {tool.id : tool \in probe.forbid_tools} = {tool.id : tool \in other.forbid_tools}
    /\ probe.expect_no_tool = other.expect_no_tool
    /\ probe.output_schema = Absent <=> other.output_schema = Absent
    /\ probe.output_schema # Absent => Demands(probe.output_schema) = Demands(other.output_schema)

\* Two samples that say the same, whichever tools their calls claim to be.
SayTheSame(sample, other) ==
    /\ sample.final_text = other.final_text
    /\ IsSeq(sample.tool_calls) /\ IsSeq(other.tool_calls)
    /\ DOMAIN sample.tool_calls = DOMAIN other.tool_calls
    /\ \A i \in DOMAIN sample.tool_calls :
        /\ sample.tool_calls[i].name = other.tool_calls[i].name
        /\ sample.tool_calls[i].arguments = other.tool_calls[i].arguments
        /\ sample.tool_calls[i].unparsed = other.tool_calls[i].unparsed

\* The calls of a sample are by tools there are.
Identified(sample, catalog) == \A i \in DOMAIN sample.tool_calls : TrueIdentity(sample.tool_calls[i], catalog)

\* A call of a tool there is is known by its name.
LEMMA CalledByName ==
    ASSUME NEW catalog, Telling(catalog), NEW call, TrueIdentity(call, catalog), NEW id \in DOMAIN catalog
    PROVE  IsCalledBy(catalog[id], call) <=> call.name = catalog[id].name
  BY DEF Telling, TrueIdentity, IsCalledBy

\* And so is the tool that it is of, if there is one.
LEMMA ToolByName ==
    ASSUME NEW catalog, Telling(catalog), NEW call, TrueIdentity(call, catalog)
    PROVE  \/ DeclaredTool(catalog, call) \in DOMAIN catalog /\ catalog[DeclaredTool(catalog, call)].name = call.name
           \/ DeclaredTool(catalog, call) = Absent /\ \A id \in DOMAIN catalog : catalog[id].name # call.name
<1> DEFINE named == ByName(catalog, call.name)
<1>1. CASE call.tool_id # Absent
  <2>1. DeclaredTool(catalog, call) = call.tool_id
    BY <1>1 DEF DeclaredTool
  <2> QED  BY <1>1, <2>1 DEF TrueIdentity
<1>2. CASE call.tool_id = Absent /\ named = {}
  <2>1. Cardinality(named) # 1
    BY <1>2, FS_EmptySet
  <2>2. DeclaredTool(catalog, call) = Absent
    BY <1>2, <2>1 DEF DeclaredTool
  <2> QED  BY <1>2, <2>2 DEF ByName
<1>3. CASE call.tool_id = Absent /\ named # {}
  <2>1. PICK id \in DOMAIN catalog : catalog[id].name = call.name
    BY <1>3 DEF ByName
  <2>2. named = {id}
    BY <2>1 DEF ByName, Telling
  <2>3. Cardinality(named) = 1
    BY <2>2, FS_Singleton
  <2>4. (CHOOSE more \in named : TRUE) = id
    BY <2>2
  <2>5. DeclaredTool(catalog, call) = id
    BY <1>3, <2>3, <2>4 DEF DeclaredTool
  <2> QED  BY <2>1, <2>5
<1> QED  BY <1>1, <1>2, <1>3

\* Of two catalogs that are alike each tells its tools apart.
LEMMA BothTell ==
    ASSUME NEW catalog, NEW other, Alike(catalog, other)
    PROVE  Telling(catalog) /\ Telling(other)
  BY DEF Alike, Telling

\* The same call is of the same tool.
LEMMA OfOneTool ==
    ASSUME NEW catalog, NEW other, Alike(catalog, other),
           NEW call, TrueIdentity(call, catalog), NEW again, TrueIdentity(again, other), call.name = again.name
    PROVE  /\ DeclaredTool(catalog, call) = DeclaredTool(other, again)
           /\ DeclaredTool(catalog, call) # Absent => DeclaredTool(catalog, call) \in DOMAIN catalog
<1> DEFINE one == DeclaredTool(catalog, call)
           two == DeclaredTool(other, again)
<1>1. \/ one \in DOMAIN catalog /\ catalog[one].name = call.name
      \/ one = Absent /\ \A id \in DOMAIN catalog : catalog[id].name # call.name
  BY BothTell, ToolByName
<1>2. \/ two \in DOMAIN other /\ other[two].name = call.name
      \/ two = Absent /\ \A id \in DOMAIN other : other[id].name # call.name
  BY BothTell, ToolByName
<1> HIDE DEF one, two
<1> QED  BY <1>1, <1>2 DEF Alike, one, two

\* The arguments of the same calls are judged alike.
LEMMA SameArguments ==
    ASSUME NEW catalog, NEW other, Alike(catalog, other), NEW sample, NEW again, SayTheSame(sample, again),
           Identified(sample, catalog), Identified(again, other)
    PROVE  CheckArguments(sample, catalog) = CheckArguments(again, other)
<1> DEFINE at(s, c, i) == DeclaredTool(c, s.tool_calls[i])
           usable(s, c, i) == at(s, c, i) # Absent /\ Parsed(s.tool_calls[i])
           fits(s, c, i) == Compiles(c[at(s, c, i)].input_schema)
           sound(s, c, i) == /\ usable(s, c, i) /\ fits(s, c, i)
                             /\ Conforms(s.tool_calls[i].arguments, c[at(s, c, i)].input_schema)
           faults(s, c) == {i \in DOMAIN s.tool_calls : ~sound(s, c, i)}
           judged(s, c) == IF faults(s, c) = {} THEN TRUE
                           ELSE IF usable(s, c, Min(faults(s, c))) /\ ~fits(s, c, Min(faults(s, c))) THEN Refused
                           ELSE FALSE
<1>1. CheckArguments(sample, catalog) = judged(sample, catalog) /\ CheckArguments(again, other) = judged(again, other)
  BY DEF CheckArguments
<1>2. ASSUME NEW i \in DOMAIN sample.tool_calls
      PROVE  /\ usable(sample, catalog, i) <=> usable(again, other, i)
             /\ usable(sample, catalog, i) => (fits(sample, catalog, i) <=> fits(again, other, i))
             /\ sound(sample, catalog, i) <=> sound(again, other, i)
  <2> DEFINE call == sample.tool_calls[i]
             echo == again.tool_calls[i]
             tool == DeclaredTool(catalog, call)
  <2>1. call.name = echo.name /\ call.arguments = echo.arguments /\ call.unparsed = echo.unparsed
    BY DEF SayTheSame
  <2>2. TrueIdentity(call, catalog) /\ TrueIdentity(echo, other)
    BY DEF Identified, SayTheSame
  <2>3. DeclaredTool(other, echo) = tool /\ (tool # Absent => tool \in DOMAIN catalog)
    <3> HIDE DEF call, echo
    <3> QED  BY <2>1, <2>2, OfOneTool
  <2>4. Parsed(call) <=> Parsed(echo)
    BY <2>1 DEF Parsed
  <2> HIDE DEF call, echo, tool
  <2>5. tool # Absent => Demands(catalog[tool].input_schema) = Demands(other[tool].input_schema)
    BY <2>3 DEF Alike
  <2>6. tool # Absent =>
          /\ Compiles(catalog[tool].input_schema) <=> Compiles(other[tool].input_schema)
          /\ Conforms(call.arguments, catalog[tool].input_schema) <=> Conforms(echo.arguments, other[tool].input_schema)
    BY <2>1, <2>5 DEF Compiles, Conforms
  <2>7. at(sample, catalog, i) = tool /\ at(again, other, i) = tool
    BY <2>3 DEF call, echo, tool
  <2>8. usable(sample, catalog, i) <=> usable(again, other, i)
    BY <2>4, <2>7 DEF call, echo
  <2>9. usable(sample, catalog, i) => tool # Absent
    BY <2>7
  <2>10. usable(sample, catalog, i) => (fits(sample, catalog, i) <=> fits(again, other, i))
    BY <2>6, <2>7, <2>9
  <2> HIDE DEF at, usable, fits
  <2>11. sound(sample, catalog, i) <=> sound(again, other, i)
    BY <2>6, <2>7, <2>8, <2>9, <2>10 DEF call, echo
  <2> QED  BY <2>8, <2>10, <2>11
<1> HIDE DEF usable, fits, sound
<1>3. faults(sample, catalog) = faults(again, other)
  BY <1>2 DEF SayTheSame
<1>4. faults(sample, catalog) # {} => Min(faults(sample, catalog)) \in DOMAIN sample.tool_calls
  <2> DEFINE all == faults(sample, catalog)
             n == Len(sample.tool_calls)
  <2>1. n \in Nat /\ DOMAIN sample.tool_calls = 1..n
    BY DEF SayTheSame, IsSeq
  <2>2. all \in SUBSET (1..n)
    BY <2>1
  <2> HIDE DEF all, n
  <2>3. all # {} => Min(all) \in all
    BY <2>1, <2>2, Bounded
  <2> QED  BY <2>1, <2>2, <2>3 DEF all
<1> HIDE DEF faults
<1>5. judged(sample, catalog) = judged(again, other)
  BY <1>2, <1>3, <1>4
<1> HIDE DEF judged
<1> QED  BY <1>1, <1>5

\* The calls to a tool of the catalog are by its name.
LEMMA CallsByName ==
    ASSUME NEW catalog, Telling(catalog), NEW sample, Identified(sample, catalog), NEW id \in DOMAIN catalog
    PROVE  CallsTo(sample, catalog[id])
             = {i \in DOMAIN sample.tool_calls : sample.tool_calls[i].name = catalog[id].name}
<1>1. \A i \in DOMAIN sample.tool_calls :
        IsCalledBy(catalog[id], sample.tool_calls[i]) <=> sample.tool_calls[i].name = catalog[id].name
  BY CalledByName DEF Identified
<1> QED  BY <1>1 DEF CallsTo

\* The same calls are made to the same tool.
LEMMA CallsAlike ==
    ASSUME NEW catalog, NEW other, Alike(catalog, other), NEW sample, NEW again, SayTheSame(sample, again),
           Identified(sample, catalog), Identified(again, other), NEW id \in DOMAIN catalog
    PROVE  CallsTo(sample, catalog[id]) = CallsTo(again, other[id])
<1>1. CallsTo(sample, catalog[id])
        = {i \in DOMAIN sample.tool_calls : sample.tool_calls[i].name = catalog[id].name}
  BY BothTell, CallsByName
<1>2. CallsTo(again, other[id])
        = {i \in DOMAIN again.tool_calls : again.tool_calls[i].name = other[id].name}
  <2>1. id \in DOMAIN other
    BY DEF Alike
  <2> QED  BY <2>1, BothTell, CallsByName
<1>3. catalog[id].name = other[id].name
  BY DEF Alike
<1>4. /\ DOMAIN sample.tool_calls = DOMAIN again.tool_calls
      /\ \A i \in DOMAIN sample.tool_calls : sample.tool_calls[i].name = again.tool_calls[i].name
  BY DEF SayTheSame
<1>5. {i \in DOMAIN sample.tool_calls : sample.tool_calls[i].name = catalog[id].name}
        = {i \in DOMAIN again.tool_calls : again.tool_calls[i].name = other[id].name}
  BY <1>3, <1>4
<1> QED  BY <1>1, <1>2, <1>5

\* The same metrics apply to the same answers to the same probe, and come to the same: of the arguments
\* that a probe expects nothing is said.
LEMMA SameChecks ==
    ASSUME NEW catalog, NEW other, Alike(catalog, other), NEW sample, NEW again, SayTheSame(sample, again),
           Identified(sample, catalog), Identified(again, other),
           NEW probe, NEW twin, AskTheSame(probe, twin), IsOver(probe, catalog), IsOver(twin, other),
           NEW m, m # "argument_expectation"
    PROVE  /\ m \in Applicable(probe, sample) <=> m \in Applicable(twin, again)
           /\ m \in Applicable(probe, sample) =>
                (Check(m, probe, sample, catalog) <=> Check(m, twin, again, other))
<1>1. sample.tool_calls = <<>> <=> again.tool_calls = <<>>
  <2>1. \A s : IsSeq(s) => (s = <<>> <=> DOMAIN s = {})
    <3> TAKE s
    <3> HAVE IsSeq(s)
    <3>1. s = [i \in 1..Len(s) |-> s[i]] /\ Len(s) \in Nat
      BY DEF IsSeq
    <3>2. ASSUME DOMAIN s = {} PROVE s = <<>>
      <4>1. 1..Len(s) = {}
        BY <3>1, <3>2
      <4> QED  BY <3>1, <4>1
    <3> QED  BY <3>2
  <2> QED  BY <2>1 DEF SayTheSame
<1>2. probe.forbid_tools = {} <=> twin.forbid_tools = {}
  BY DEF AskTheSame
<1>3. m \in Applicable(probe, sample) <=> m \in Applicable(twin, again)
  BY <1>1, <1>2 DEF AskTheSame, Applicable
<1>4. ASSUME probe.expect_tool # Absent
      PROVE  CallsTo(sample, probe.expect_tool) = CallsTo(again, twin.expect_tool)
  <2>1. PICK id \in DOMAIN catalog : probe.expect_tool = catalog[id]
    BY <1>4 DEF IsOver
  <2>2. PICK more \in DOMAIN other : twin.expect_tool = other[more]
    BY <1>4 DEF IsOver, AskTheSame
  <2>3. id = more
    BY <1>4, <2>1, <2>2 DEF AskTheSame, Alike
  <2>4. CallsTo(sample, catalog[id]) = CallsTo(again, other[id])
    BY CallsAlike
  <2> QED  BY <2>1, <2>2, <2>3, <2>4
<1>5. (\A tool \in probe.forbid_tools : CallsTo(sample, tool) = {})
        <=> (\A tool \in twin.forbid_tools : CallsTo(again, tool) = {})
  <2>1. ASSUME NEW tool \in probe.forbid_tools
        PROVE  \E banned \in twin.forbid_tools : CallsTo(again, banned) = CallsTo(sample, tool)
    <3>1. PICK id \in DOMAIN catalog : tool = catalog[id]
      BY DEF IsOver
    <3>2. PICK banned \in twin.forbid_tools : banned.id = tool.id
      <4>1. tool.id \in {t.id : t \in twin.forbid_tools}
        BY DEF AskTheSame
      <4> QED  BY <4>1
    <3>3. PICK more \in DOMAIN other : banned = other[more]
      BY <3>2 DEF IsOver
    <3>4. more = id
      BY <3>1, <3>2, <3>3 DEF Alike
    <3>5. CallsTo(sample, catalog[id]) = CallsTo(again, other[id])
      BY CallsAlike
    <3> QED  BY <3>1, <3>2, <3>3, <3>4, <3>5
  <2>2. ASSUME NEW tool \in twin.forbid_tools
        PROVE  \E banned \in probe.forbid_tools : CallsTo(sample, banned) = CallsTo(again, tool)
    <3>1. PICK more \in DOMAIN other : tool = other[more]
      BY DEF IsOver
    <3>2. PICK banned \in probe.forbid_tools : banned.id = tool.id
      <4>1. tool.id \in {t.id : t \in probe.forbid_tools}
        BY DEF AskTheSame
      <4> QED  BY <4>1
    <3>3. PICK id \in DOMAIN catalog : banned = catalog[id]
      BY <3>2 DEF IsOver
    <3>4. more = id
      BY <3>1, <3>2, <3>3 DEF Alike
    <3>5. CallsTo(sample, catalog[id]) = CallsTo(again, other[id])
      BY CallsAlike
    <3> QED  BY <3>1, <3>2, <3>3, <3>4, <3>5
  <2> QED  BY <2>1, <2>2
<1>6. CheckArguments(sample, catalog) = CheckArguments(again, other)
  BY SameArguments
<1>7. probe.output_schema # Absent =>
        (CheckFinalText(sample.final_text, probe.output_schema) <=> CheckFinalText(again.final_text, twin.output_schema))
  BY DEF CheckFinalText, Conforms, AskTheSame, SayTheSame
<1>8. ASSUME m \in Applicable(probe, sample)
      PROVE  Check(m, probe, sample, catalog) <=> Check(m, twin, again, other)
  <2>1. CASE m = "tool_selection"
    <3>1. probe.expect_tool # Absent
      BY <1>8, <2>1 DEF Applicable
    <3>2. Check(m, probe, sample, catalog) <=> CallsTo(sample, probe.expect_tool) # {}
      BY <2>1 DEF Check
    <3>3. Check(m, twin, again, other) <=> CallsTo(again, twin.expect_tool) # {}
      BY <2>1 DEF Check
    <3> QED  BY <1>4, <3>1, <3>2, <3>3
  <2>2. CASE m = "forbidden_tool_usage"
    <3>1. Check(m, probe, sample, catalog) <=> \A tool \in probe.forbid_tools : CallsTo(sample, tool) = {}
      BY <2>2 DEF Check
    <3>2. Check(m, twin, again, other) <=> \A tool \in twin.forbid_tools : CallsTo(again, tool) = {}
      BY <2>2 DEF Check
    <3> QED  BY <1>5, <3>1, <3>2
  <2>3. CASE m = "tool_restraint"
    <3>1. Check(m, probe, sample, catalog) <=> sample.tool_calls = <<>>
      BY <2>3 DEF Check
    <3>2. Check(m, twin, again, other) <=> again.tool_calls = <<>>
      BY <2>3 DEF Check
    <3> QED  BY <1>1, <3>1, <3>2
  <2>4. CASE m = "structured_output_validity"
    <3>1. probe.output_schema # Absent
      BY <1>8, <2>4 DEF Applicable
    <3>2. Check(m, probe, sample, catalog) = CheckFinalText(sample.final_text, probe.output_schema)
      BY <2>4 DEF Check
    <3>3. Check(m, twin, again, other) = CheckFinalText(again.final_text, twin.output_schema)
      BY <2>4 DEF Check
    <3> QED  BY <1>7, <3>1, <3>2, <3>3
  <2>5. CASE m = "argument_validity"
    <3>1. Check(m, probe, sample, catalog) = CheckArguments(sample, catalog)
      BY <2>5 DEF Check
    <3>2. Check(m, twin, again, other) = CheckArguments(again, other)
      BY <2>5 DEF Check
    <3> QED  BY <1>6, <3>1, <3>2
  <2>6. m \in {"tool_selection", "forbidden_tool_usage", "tool_restraint", "structured_output_validity",
               "argument_validity"}
    BY <1>8 DEF Applicable
  <2> QED  BY <2>1, <2>2, <2>3, <2>4, <2>5, <2>6
<1> QED  BY <1>3, <1>8

------------------------------------------------------------------------------
(* The score of a metric over a suite: a count of answers, each known by its  *)
(* probe and its place.                                                       *)

\* The answers to which a metric applies, and those of them that meet it.
Measures(probe, trace, m) == {k \in DOMAIN trace.samples : m \in Applicable(probe, trace.samples[k])}
Meets(probe, trace, catalog, m) ==
    {k \in Measures(probe, trace, m) : Check(m, probe, trace.samples[k], catalog)}

MeasuredAt(probes, traces, m) ==
    UNION {{<<probes[i].name, k>> : k \in Measures(probes[i], traces[i], m)} : i \in DOMAIN probes}
MetAt(probes, traces, catalog, m) ==
    UNION {{<<probes[i].name, k>> : k \in Meets(probes[i], traces[i], catalog, m)} : i \in DOMAIN probes}

\* What an outcome counts of each metric.
LEMMA OutcomeCounts ==
    ASSUME NEW probe, NEW trace, NEW catalog,
           NEW judged, judged = Judge(probe, trace, catalog), judged # Refused
    PROVE  /\ \A m : m \in DOMAIN judged.metrics <=> Measures(probe, trace, m) # {}
           /\ \A m \in DOMAIN judged.metrics :
                /\ judged.metrics[m].passed = Cardinality(Meets(probe, trace, catalog, m))
                /\ judged.metrics[m].total = Cardinality(Measures(probe, trace, m))
<1> DEFINE held == ChecksOf(judged)
<1>1. /\ held = [k \in DOMAIN trace.samples |-> CheckSample(probe, trace.samples[k], catalog)]
      /\ DOMAIN judged.metrics = UNION {DOMAIN held[k] : k \in DOMAIN held}
      /\ \A m \in DOMAIN judged.metrics :
           judged.metrics[m] = [passed |-> Cardinality(Passing(held, m)), total |-> Cardinality(Applying(held, m))]
  BY JudgeCounts
<1> HIDE DEF held
<1>2. DOMAIN held = DOMAIN trace.samples
      /\ \A k \in DOMAIN trace.samples : held[k] = CheckSample(probe, trace.samples[k], catalog)
  BY <1>1
<1>3. \A s : /\ DOMAIN CheckSample(probe, s, catalog) = Applicable(probe, s)
             /\ \A m \in Applicable(probe, s) : CheckSample(probe, s, catalog)[m] = Check(m, probe, s, catalog)
  BY DEF CheckSample
<1>4. \A k \in DOMAIN trace.samples :
        /\ DOMAIN held[k] = Applicable(probe, trace.samples[k])
        /\ \A m \in DOMAIN held[k] : held[k][m] = Check(m, probe, trace.samples[k], catalog)
  BY <1>2, <1>3
<1>5. ASSUME NEW m
      PROVE  Applying(held, m) = Measures(probe, trace, m) /\ Passing(held, m) = Meets(probe, trace, catalog, m)
  <2>1. Applying(held, m) = Measures(probe, trace, m)
    BY <1>2, <1>4 DEF Applying, Measures
  <2>2. \A k \in Applying(held, m) : held[k][m] = Check(m, probe, trace.samples[k], catalog)
    BY <1>2, <1>4 DEF Applying
  <2> QED  BY <2>1, <2>2 DEF Passing, Meets
<1>6. ASSUME NEW m
      PROVE  m \in DOMAIN judged.metrics <=> Measures(probe, trace, m) # {}
  <2>1. m \in DOMAIN judged.metrics <=> \E k \in DOMAIN held : m \in DOMAIN held[k]
    BY <1>1
  <2>2. m \in DOMAIN judged.metrics <=> \E k \in DOMAIN trace.samples : m \in Applicable(probe, trace.samples[k])
    BY <1>2, <1>4, <2>1
  <2> QED  BY <2>2 DEF Measures
<1>7. ASSUME NEW m \in DOMAIN judged.metrics
      PROVE  /\ judged.metrics[m].passed = Cardinality(Meets(probe, trace, catalog, m))
             /\ judged.metrics[m].total = Cardinality(Measures(probe, trace, m))
  <2>1. judged.metrics[m] = [passed |-> Cardinality(Meets(probe, trace, catalog, m)),
                             total |-> Cardinality(Measures(probe, trace, m))]
    BY <1>1, <1>5
  <2> QED  BY <2>1
<1> QED  BY <1>6, <1>7

\* Counts that belong to different names.
Tallies(f, named, at, whole) ==
    /\ IsFiniteSet(DOMAIN f)
    /\ \A i \in DOMAIN f : IsFiniteSet(at[i]) /\ f[i] = Cardinality(at[i])
    /\ \A i, j \in DOMAIN f : named[i] = named[j] => i = j
    /\ \A p : p \in whole <=> \E i \in DOMAIN f : \E k \in at[i] : p = <<named[i], k>>

\* They add up to the count of what is named.
LEMMA TalliesAdd ==
    ASSUME NEW f, NEW named, NEW at, NEW whole, Tallies(f, named, at, whole)
    PROVE  SumFunction(f) = Cardinality(whole)
<1> DEFINE all == DOMAIN f
<1> USE DEF Tallies
<1> DEFINE parts == [i \in all |-> {<<named[i], k>> : k \in at[i]}]
<1>1. ASSUME NEW i \in all
      PROVE  IsFiniteSet(parts[i]) /\ f[i] = Cardinality(parts[i])
  <2> DEFINE part == at[i]
             one == {named[i]}
  <2>1. IsFiniteSet(part) /\ IsFiniteSet(one) /\ Cardinality(one) = 1
    BY FS_Singleton
  <2>2. parts[i] = one \X part
    <3>1. parts[i] = {<<named[i], k>> : k \in part}
      OBVIOUS
    <3>2. \A p : p \in one \X part <=> \E k \in part : p = <<named[i], k>>
      OBVIOUS
    <3> HIDE DEF parts, one, part
    <3> QED  BY <3>1, <3>2
  <2>3. f[i] = Cardinality(part)
    OBVIOUS
  <2> HIDE DEF part, one, parts
  <2>4. IsFiniteSet(one \X part) /\ Cardinality(one \X part) = Cardinality(one) * Cardinality(part)
    BY <2>1, FS_Product
  <2>5. Cardinality(part) \in Nat
    BY <2>1, FS_CardinalityType
  <2>6. Cardinality(one) * Cardinality(part) = Cardinality(part)
    BY <2>1, <2>5
  <2> QED  BY <2>2, <2>3, <2>4, <2>6
<1>2. \A i, j \in all : i # j => parts[i] \intersect parts[j] = {}
  OBVIOUS
<1>3. UNION {parts[i] : i \in all} = whole
  <2>1. \A i \in all : \A p : p \in parts[i] <=> \E k \in at[i] : p = <<named[i], k>>
    OBVIOUS
  <2> HIDE DEF parts
  <2> QED  BY <2>1
<1>4. SumFunction(f) = Cardinality(UNION {parts[i] : i \in all})
  <2> HIDE DEF parts
  <2> QED  BY <1>1, <1>2, SumOfSizes
<1> QED  BY <1>3, <1>4

\* What a score is computed from: the outcomes of probes of different names.
ScoredFrom(outcomes, probes, traces, catalog) ==
    /\ IsFiniteSet(DOMAIN probes) /\ DOMAIN outcomes = DOMAIN probes
    /\ \A i, j \in DOMAIN probes : probes[i].name = probes[j].name => i = j
    /\ \A i \in DOMAIN probes :
        /\ outcomes[i] = Judge(probes[i], traces[i], catalog) /\ outcomes[i] # Refused
        /\ IsFiniteSet(DOMAIN traces[i].samples)

\* The score of a metric over the outcomes of probes of different names.
LEMMA AggregateIs ==
    ASSUME NEW probes, NEW traces, NEW catalog, NEW outcomes, ScoredFrom(outcomes, probes, traces, catalog)
    PROVE  /\ \A m : m \in DOMAIN Aggregate(outcomes) <=> MeasuredAt(probes, traces, m) # {}
           /\ \A m \in DOMAIN Aggregate(outcomes) :
                Aggregate(outcomes)[m] = [passed |-> Cardinality(MetAt(probes, traces, catalog, m)),
                                          total |-> Cardinality(MeasuredAt(probes, traces, m))]
<1> USE DEF ScoredFrom
<1>1. ASSUME NEW i \in DOMAIN probes
      PROVE  /\ \A m : m \in DOMAIN outcomes[i].metrics <=> Measures(probes[i], traces[i], m) # {}
             /\ \A m \in DOMAIN outcomes[i].metrics :
                  /\ outcomes[i].metrics[m].passed = Cardinality(Meets(probes[i], traces[i], catalog, m))
                  /\ outcomes[i].metrics[m].total = Cardinality(Measures(probes[i], traces[i], m))
  <2>1. outcomes[i] = Judge(probes[i], traces[i], catalog) /\ outcomes[i] # Refused
    OBVIOUS
  <2> QED  BY <2>1, OutcomeCounts
<1>2. DOMAIN Aggregate(outcomes) = UNION {DOMAIN outcomes[i].metrics : i \in DOMAIN outcomes}
  BY DEF Aggregate
<1>3. ASSUME NEW m
      PROVE  m \in DOMAIN Aggregate(outcomes) <=> MeasuredAt(probes, traces, m) # {}
  <2>1. m \in DOMAIN Aggregate(outcomes) <=> \E i \in DOMAIN probes : m \in DOMAIN outcomes[i].metrics
    BY <1>2
  <2>2. MeasuredAt(probes, traces, m) # {} <=> \E i \in DOMAIN probes : Measures(probes[i], traces[i], m) # {}
    <3>1. \A p : p \in MeasuredAt(probes, traces, m) <=>
            \E i \in DOMAIN probes : \E k \in Measures(probes[i], traces[i], m) : p = <<probes[i].name, k>>
      BY DEF MeasuredAt
    <3>2. ASSUME NEW i \in DOMAIN probes, NEW k \in Measures(probes[i], traces[i], m)
          PROVE  <<probes[i].name, k>> \in MeasuredAt(probes, traces, m)
      BY <3>1
    <3> QED  BY <3>1, <3>2
  <2> QED  BY <1>1, <2>1, <2>2
<1>4. ASSUME NEW m \in DOMAIN Aggregate(outcomes)
      PROVE  Aggregate(outcomes)[m] = [passed |-> Cardinality(MetAt(probes, traces, catalog, m)),
                                       total |-> Cardinality(MeasuredAt(probes, traces, m))]
  <2> DEFINE all == {i \in DOMAIN probes : m \in DOMAIN outcomes[i].metrics}
             passed == [i \in all |-> outcomes[i].metrics[m].passed]
             total == [i \in all |-> outcomes[i].metrics[m].total]
             named == [i \in DOMAIN probes |-> probes[i].name]
             met == [i \in DOMAIN probes |-> Meets(probes[i], traces[i], catalog, m)]
             measured == [i \in DOMAIN probes |-> Measures(probes[i], traces[i], m)]
  <2>1. Aggregate(outcomes)[m] = [passed |-> SumFunction(passed), total |-> SumFunction(total)]
    BY DEF Aggregate
  <2>2. IsFiniteSet(all)
    <3>1. all \in SUBSET DOMAIN probes
      OBVIOUS
    <3> HIDE DEF all
    <3> QED  BY <3>1, FS_Subset
  <2>3. \A i \in DOMAIN probes : IsFiniteSet(met[i]) /\ IsFiniteSet(measured[i])
    <3> SUFFICES ASSUME NEW i \in DOMAIN probes PROVE IsFiniteSet(met[i]) /\ IsFiniteSet(measured[i])
      OBVIOUS
    <3>1. IsFiniteSet(DOMAIN traces[i].samples)
      OBVIOUS
    <3>2. measured[i] \in SUBSET DOMAIN traces[i].samples /\ met[i] \in SUBSET DOMAIN traces[i].samples
      BY DEF Measures, Meets
    <3> HIDE DEF met, measured
    <3> QED  BY <3>1, <3>2, FS_Subset
  <2>4. \A i, j \in all : named[i] = named[j] => i = j
    OBVIOUS
  <2>5. /\ DOMAIN passed = all /\ DOMAIN total = all
        /\ \A i \in all : passed[i] = Cardinality(met[i]) /\ total[i] = Cardinality(measured[i])
    BY <1>1
  <2>6. \A i \in all : IsFiniteSet(met[i]) /\ IsFiniteSet(measured[i])
    BY <2>3
  <2>7. \A i \in DOMAIN probes : i \notin all =>
            Measures(probes[i], traces[i], m) = {} /\ Meets(probes[i], traces[i], catalog, m) = {}
    BY <1>1 DEF Meets
  <2>8. \A i \in all : /\ i \in DOMAIN probes /\ named[i] = probes[i].name
                       /\ met[i] = Meets(probes[i], traces[i], catalog, m)
                       /\ measured[i] = Measures(probes[i], traces[i], m)
    OBVIOUS
  <2> HIDE DEF passed, total, all, named, met, measured
  <2>9. \A p : p \in MeasuredAt(probes, traces, m) <=> \E i \in all : \E k \in measured[i] : p = <<named[i], k>>
    <3>1. \A p : p \in MeasuredAt(probes, traces, m) <=>
            \E i \in DOMAIN probes : \E k \in Measures(probes[i], traces[i], m) : p = <<probes[i].name, k>>
      BY DEF MeasuredAt
    <3> QED  BY <2>7, <2>8, <3>1
  <2>10. \A p : p \in MetAt(probes, traces, catalog, m) <=> \E i \in all : \E k \in met[i] : p = <<named[i], k>>
    <3>1. \A p : p \in MetAt(probes, traces, catalog, m) <=>
            \E i \in DOMAIN probes : \E k \in Meets(probes[i], traces[i], catalog, m) : p = <<probes[i].name, k>>
      <4> DEFINE P(i) == {<<probes[i].name, k>> : k \in Meets(probes[i], traces[i], catalog, m)}
      <4>1. MetAt(probes, traces, catalog, m) = UNION {P(i) : i \in DOMAIN probes}
        BY DEF MetAt
      <4>2. \A p : \A i \in DOMAIN probes :
              p \in P(i) <=> \E k \in Meets(probes[i], traces[i], catalog, m) : p = <<probes[i].name, k>>
        OBVIOUS
      <4> HIDE DEF P
      <4>3. \A p : p \in MetAt(probes, traces, catalog, m) <=> \E i \in DOMAIN probes : p \in P(i)
        BY <4>1
      <4> QED  BY <4>2, <4>3
    <3>2. \A i \in DOMAIN probes : i \in all \/ Meets(probes[i], traces[i], catalog, m) = {}
      BY <2>7
    <3>3. \A i \in all :
            /\ i \in DOMAIN probes /\ named[i] = probes[i].name
            /\ met[i] = Meets(probes[i], traces[i], catalog, m)
      BY <2>8
    <3> TAKE p
    <3>4. ASSUME p \in MetAt(probes, traces, catalog, m)
          PROVE  \E i \in all : \E k \in met[i] : p = <<named[i], k>>
      <4>1. PICK i \in DOMAIN probes : \E k \in Meets(probes[i], traces[i], catalog, m) : p = <<probes[i].name, k>>
        BY <3>1, <3>4
      <4>2. i \in all
        BY <3>2, <4>1
      <4> QED  BY <3>3, <4>1, <4>2
    <3>5. ASSUME NEW i \in all, NEW k \in met[i], p = <<named[i], k>>
          PROVE  p \in MetAt(probes, traces, catalog, m)
      BY <3>1, <3>3, <3>5
    <3> QED  BY <3>4, <3>5
  <2>11. SumFunction(passed) = Cardinality(MetAt(probes, traces, catalog, m))
    <3>1. Tallies(passed, named, met, MetAt(probes, traces, catalog, m))
      BY <2>2, <2>4, <2>5, <2>6, <2>10 DEF Tallies
    <3> QED  BY <3>1, TalliesAdd
  <2>12. SumFunction(total) = Cardinality(MeasuredAt(probes, traces, m))
    <3>1. Tallies(total, named, measured, MeasuredAt(probes, traces, m))
      BY <2>2, <2>4, <2>5, <2>6, <2>9 DEF Tallies
    <3> QED  BY <3>1, TalliesAdd
  <2> QED  BY <2>1, <2>11, <2>12
<1> QED  BY <1>3, <1>4

------------------------------------------------------------------------------
(* What the catalog and the suite of a run take from its project.             *)

\* Whatever else is recorded of a tool, its input schema is the normalized one.
LEMMA ToolSchema ==
    ASSUME NEW alias, NEW tool
    PROVE  Payload(ToolDependency(alias, tool).facets, "input_schema") = NormalizedSchema(tool.input_schema)
<1> DEFINE own == [input_schema |-> SchemaFacet(tool.input_schema)]
           described == Optional("description", tool.description, TextFacet(tool.description))
           rest == Overlay(Optional("output_schema", tool.output_schema, SchemaFacet(tool.output_schema)),
                           IF tool.capabilities = {} THEN <<>>
                           ELSE [capabilities |-> Facet(tool.capabilities, Absent, tool.capabilities)])
           facets == Overlay(Overlay(own, described), rest)
<1>1. ToolDependency(alias, tool).facets = facets
  BY DEF ToolDependency, Dependency
<1>2. "input_schema" \in DOMAIN own /\ own["input_schema"] = SchemaFacet(tool.input_schema)
  OBVIOUS
<1> HIDE DEF own, described, rest
<1>3. "input_schema" \in DOMAIN facets /\ facets["input_schema"] = SchemaFacet(tool.input_schema)
  BY <1>2 DEF Overlay
<1>4. SchemaFacet(tool.input_schema).normalized = NormalizedSchema(tool.input_schema)
  BY DEF SchemaFacet, RecordedFacet, Facet
<1> HIDE DEF facets
<1> QED  BY <1>1, <1>3, <1>4 DEF Payload

\* The tools of a catalog have the ids and the input schemas that the project declares.
LEMMA CatalogSchemas ==
    ASSUME NEW disk \in Projects, NEW described, NEW override, Built(disk, described, override) # Refused,
           NEW id \in DOMAIN Built(disk, described, override).catalog
    PROVE  /\ id \in ToolIds(disk)
           /\ Built(disk, described, override).catalog[id].name = RemoteName(id)
           /\ Built(disk, described, override).catalog[id].input_schema \in Yardsticks(disk)
<1> DEFINE catalog == Built(disk, described, override).catalog
           list == Discovered(disk, described)
           lock == FromDependencies(list)
           servers == disk.config.servers
<1>1. /\ list # Refused /\ catalog = FromLockfile(lock) /\ FromLockfile(lock) # Refused
      /\ Loads(disk.config)
  BY BuiltParts
<1>2. /\ ValidConfig(disk.config) /\ McpDependencies(servers) # Refused /\ VerifyUnique(list)
  BY <1>1, Listed DEF Loads
<1>3. /\ DOMAIN servers = 1..Len(servers)
      /\ \A i \in 1..Len(servers) :
            /\ DiscoveredServer(servers[i]) # Refused /\ IsSeq(servers[i].tools)
            /\ DOMAIN servers[i].tools = 1..Len(servers[i].tools)
  BY <1>2, ServersTell
<1>4. /\ DOMAIN catalog = {key \in DOMAIN lock.dependencies : lock.dependencies[key].kind = "tool"}
      /\ catalog[id].name = RemoteName(id)
      /\ catalog[id].input_schema = Payload(lock.dependencies[id].facets, "input_schema")
  <2> DEFINE ids == {key \in DOMAIN lock.dependencies : lock.dependencies[key].kind = "tool"}
             tools == [key \in ids |-> ToolContract(key, lock.dependencies[key].facets)]
  <2>1. catalog = tools
    BY <1>1 DEF FromLockfile
  <2>2. id \in ids /\ DOMAIN tools = ids /\ tools[id] = ToolContract(id, lock.dependencies[id].facets)
    BY <2>1
  <2> HIDE DEF tools, catalog
  <2>3. catalog[id] = ToolContract(id, lock.dependencies[id].facets) /\ DOMAIN catalog = ids
    BY <2>1, <2>2
  <2> QED  BY <2>3 DEF ToolContract
<1>5. PICK k \in DOMAIN list : list[k].id = id /\ lock.dependencies[id].facets = list[k].facets /\ list[k].kind = "tool"
  <2> HIDE DEF list
  <2>1. id \in DOMAIN lock.dependencies /\ lock.dependencies[id].kind = "tool"
    BY <1>4
  <2>2. DOMAIN lock.dependencies = {list[k].id : k \in DOMAIN list}
    BY DEF FromDependencies, Ids
  <2>3. \A key \in Ids(list) : /\ lock.dependencies[key].facets = Of(list, key).facets
                               /\ lock.dependencies[key].kind = Of(list, key).kind
    BY DEF FromDependencies
  <2>4. \A k \in DOMAIN list : list[k].id \in Ids(list)
    BY DEF Ids
  <2> HIDE DEF lock
  <2>5. PICK k \in DOMAIN list : list[k].id = id
    BY <2>1, <2>2
  <2>6. Of(list, id) = list[k]
    BY <1>2, <2>5, OfUnique
  <2> QED  BY <2>1, <2>3, <2>4, <2>5, <2>6
<1>6. /\ \E i, j : IsPlace(disk, i, j) /\ list[k].id = IdOfTool(disk, i, j)
      /\ \E i \in 1..Len(servers) : \E j \in 1..Len(servers[i].tools) : list[k] = Part(servers[i])[1 + j]
  BY <1>1, <1>5, ToolKind
<1>7. id \in ToolIds(disk)
  <2> HIDE DEF list
  <2>1. PICK i, j : IsPlace(disk, i, j) /\ id = IdOfTool(disk, i, j)
    BY <1>5, <1>6
  <2>2. i \in DOMAIN servers /\ j \in DOMAIN servers[i].tools
    BY <1>3, <2>1 DEF IsPlace
  <2>3. id \in {<<"tool">> \o ToolId(servers[i].alias, servers[i].tools[l].name) : l \in DOMAIN servers[i].tools}
    BY <2>1, <2>2 DEF IdOfTool
  <2> QED  BY <2>2, <2>3 DEF ToolIds
<1>8. catalog[id].input_schema \in Yardsticks(disk)
  <2> HIDE DEF list, lock, catalog
  <2>1. PICK i \in 1..Len(servers) : \E j \in 1..Len(servers[i].tools) : list[k] = Part(servers[i])[1 + j]
    BY <1>6
  <2>2. PICK j \in 1..Len(servers[i].tools) : list[k] = Part(servers[i])[1 + j]
    BY <2>1
  <2> DEFINE server == servers[i]
             tool == server.tools[j]
  <2>3. Part(server)[1 + j] = ToolDependency(server.alias, DiscoveredTool(tool))
    <3>1. IsSeq(server.tools) /\ DiscoveredServer(server) # Refused /\ j \in 1..Len(server.tools)
      BY <1>3, <2>1, <2>2
    <3> HIDE DEF server
    <3> QED  BY <3>1, ServerPart
  <2>4. Payload(list[k].facets, "input_schema") = NormalizedSchema(DiscoveredTool(tool).input_schema)
    <3> HIDE DEF server, tool
    <3>1. list[k] = ToolDependency(server.alias, DiscoveredTool(tool))
      BY <2>2, <2>3 DEF server
    <3> QED  BY <3>1, ToolSchema
  <2>5. DiscoveredTool(tool).input_schema = tool.input_schema
    BY DEF DiscoveredTool
  <2>6. catalog[id].input_schema = NormalizedSchema(servers[i].tools[j].input_schema)
    BY <1>4, <1>5, <2>4, <2>5
  <2>7. i \in DOMAIN servers /\ j \in DOMAIN servers[i].tools
    BY <1>3, <2>1, <2>2
  <2>8. catalog[id].input_schema \in {NormalizedSchema(servers[i].tools[l].input_schema) : l \in DOMAIN servers[i].tools}
    BY <2>6, <2>7
  <2> QED  BY <2>7, <2>8 DEF Yardsticks
<1> QED  BY <1>4, <1>7, <1>8

\* What a probe names is of the catalog it was resolved against, and its schema one that the project has.
LEMMA NamedByProbes ==
    ASSUME NEW disk, NEW described, NEW override, Built(disk, described, override) # Refused,
           NEW i \in DOMAIN Built(disk, described, override).suite.probes
    PROVE  LET built == Built(disk, described, override)
           IN  /\ IsOver(built.suite.probes[i], built.catalog)
               /\ built.suite.probes[i].output_schema # Absent =>
                    built.suite.probes[i].output_schema \in Yardsticks(disk)
<1> DEFINE built == Built(disk, described, override)
           suite == built.suite
           catalog == built.catalog
           specs == Declared(disk.directory)
           probe == suite.probes[i]
           spec == specs[i]
<1>1. /\ suite = LoadSuite(disk.config.probes, disk.directory, disk.schemas, catalog, override)
      /\ suite # Refused
  BY BuiltParts
<1>2. probe.expect_tool # Absent => \E id \in DOMAIN catalog : probe.expect_tool = catalog[id]
  BY ExpectedTool
<1> HIDE DEF built
<1>3. /\ IsSeq(suite.probes) /\ Len(suite.probes) = Len(specs)
      /\ \A k \in 1..Len(specs) :
            /\ suite.probes[k] = ResolvedProbe(specs[k], catalog, disk.schemas, disk.config.probes.repeat, override)
            /\ Resolved(suite.probes[k])
  <2> DEFINE config == disk.config.probes
             loaded == LoadSuite(config, disk.directory, disk.schemas, catalog, override)
  <2>1. loaded # Refused /\ suite = loaded
    BY <1>1
  <2> HIDE DEF suite, catalog, config
  <2>2. /\ IsSeq(loaded.probes) /\ IsSeq(specs) /\ Len(loaded.probes) = Len(specs)
        /\ loaded.digest = SuiteDigest(loaded.probes)
        /\ \A k \in 1..Len(specs) :
            /\ loaded.probes[k] = ResolvedProbe(specs[k], catalog, disk.schemas, config.repeat, override)
            /\ Resolved(loaded.probes[k])
            /\ loaded.probes[k].repeat \in Nat \ {0}
        /\ IsInjective([k \in DOMAIN specs |-> specs[k].name])
    BY <2>1, SuiteParts
  <2> HIDE DEF loaded, specs
  <2> QED  BY <2>1, <2>2 DEF config
<1>4. i \in 1..Len(specs)
  <2>1. i \in DOMAIN suite.probes
    BY DEF built
  <2> HIDE DEF suite, specs
  <2> QED  BY <1>3, <2>1 DEF IsSeq
<1>5. probe = ResolvedProbe(spec, catalog, disk.schemas, disk.config.probes.repeat, override) /\ Resolved(probe)
  BY <1>3, <1>4
<1> DEFINE list == ForbiddenTools(spec)
<1> HIDE DEF suite, catalog, specs, probe, spec
<1>6. probe.forbid_tools = {ResolveTool(catalog, list[k]) : k \in DOMAIN list}
  BY <1>5 DEF ResolvedProbe
<1>7. probe.output_schema = IF spec.output_schema = Absent THEN Absent
                            ELSE LoadSchema(NormalizeRelPath(spec.output_schema), disk.schemas)
  BY <1>5 DEF ResolvedProbe
<1>8. Refused \notin probe.forbid_tools /\ probe.output_schema # Refused
  BY <1>5 DEF Resolved
<1> HIDE DEF list
<1>9. \A tool \in probe.forbid_tools : \E id \in DOMAIN catalog : tool = catalog[id]
  <2> TAKE tool \in probe.forbid_tools
  <2>1. PICK k \in DOMAIN list : tool = ResolveTool(catalog, list[k])
    BY <1>6
  <2>2. ResolveTool(catalog, list[k]) # Refused
    BY <1>8, <2>1
  <2> QED  BY <2>1, <2>2, ResolvedTool
<1>10. probe.output_schema # Absent => probe.output_schema \in Yardsticks(disk)
  <2> HAVE probe.output_schema # Absent
  <2> DEFINE path == NormalizeRelPath(spec.output_schema)
  <2>1. probe.output_schema = LoadSchema(path, disk.schemas)
    BY <1>7
  <2> HIDE DEF path
  <2>2. path \in DOMAIN disk.schemas /\ probe.output_schema = disk.schemas[path]
    BY <1>8, <2>1 DEF LoadSchema
  <2> QED  BY <2>2 DEF Yardsticks
<1>11. IsOver(probe, catalog)
  BY <1>2, <1>9 DEF IsOver, probe, catalog
<1> QED  BY <1>10, <1>11 DEF probe, suite, catalog, built

------------------------------------------------------------------------------
(* A suite that has not changed, and answers that say the same.               *)

\* Of two suites of one digest, each probe of the one is in the other, under the same digest.
LEMMA SuiteTells ==
    ASSUME NEW probes, NEW others, SuiteDigest(probes) = SuiteDigest(others),
           \A i, j \in DOMAIN probes : probes[i].name = probes[j].name => i = j,
           \A i, j \in DOMAIN others : others[i].name = others[j].name => i = j,
           NEW i \in DOMAIN probes
    PROVE  \E j \in DOMAIN others :
                probes[i].name = others[j].name /\ ProbeDigest(probes[i]) = ProbeDigest(others[j])
<1> DEFINE named(list) == {list[k].name : k \in DOMAIN list}
           at(list, name) == CHOOSE k \in DOMAIN list : list[k].name = name
           digests(list) == [name \in named(list) |-> ProbeDigest(list[at(list, name)])]
           name == probes[i].name
<1>1. SuiteDigest(probes) = digests(probes) /\ SuiteDigest(others) = digests(others)
  BY DEF SuiteDigest
<1>2. DOMAIN digests(probes) = named(probes) /\ DOMAIN digests(others) = named(others)
  OBVIOUS
<1>3. /\ \A x \in named(probes) : digests(probes)[x] = ProbeDigest(probes[at(probes, x)])
      /\ \A x \in named(others) : digests(others)[x] = ProbeDigest(others[at(others, x)])
  OBVIOUS
<1> HIDE DEF digests
<1>4. name \in named(probes) /\ name \in named(others)
  BY <1>1, <1>2
<1>5. at(probes, name) = i
  OBVIOUS
<1>6. at(others, name) \in DOMAIN others /\ others[at(others, name)].name = name
  BY <1>4
<1> HIDE DEF at, name, named
<1>7. ProbeDigest(probes[i]) = ProbeDigest(others[at(others, name)])
  <2>1. digests(probes)[name] = ProbeDigest(probes[i])
    BY <1>3, <1>4, <1>5
  <2>2. digests(others)[name] = ProbeDigest(others[at(others, name)])
    BY <1>3, <1>4
  <2>3. digests(probes) = digests(others)
    BY <1>1
  <2> QED  BY <2>1, <2>2, <2>3
<1> QED  BY <1>6, <1>7 DEF name

\* Probes of one digest ask for the same: what their schemas demand is in their digests.
LEMMA DigestAsks ==
    ASSUME NEW probe, NEW twin, ProbeDigest(probe) = ProbeDigest(twin),
           NEW catalog, NEW other, IsOver(probe, catalog), IsOver(twin, other),
           Telling(catalog), Telling(other),
           NEW yardsticks, Absent \notin {Digest(v) : v \in yardsticks},
           \A v, w \in yardsticks : Digest(v) = Digest(w) => Demands(v) = Demands(w),
           probe.output_schema # Absent => probe.output_schema \in yardsticks,
           twin.output_schema # Absent => twin.output_schema \in yardsticks
    PROVE  AskTheSame(probe, twin)
<1> DEFINE tool(p) == IF p.expect_tool = Absent THEN Absent ELSE p.expect_tool.id
           schema(p) == IF p.output_schema = Absent THEN Absent ELSE Digest(p.output_schema)
           banned(p) == {t.id : t \in p.forbid_tools}
<1>1. \A p : /\ ProbeDigest(p).expect_tool = tool(p) /\ ProbeDigest(p).output_schema = schema(p)
             /\ ProbeDigest(p).forbid_tools = banned(p) /\ ProbeDigest(p).expect_no_tool = p.expect_no_tool
  BY DEF ProbeDigest, ProbeIdentity
<1>2. /\ tool(probe) = tool(twin) /\ schema(probe) = schema(twin) /\ banned(probe) = banned(twin)
      /\ probe.expect_no_tool = twin.expect_no_tool
  BY <1>1
<1>3. /\ probe.expect_tool # Absent => probe.expect_tool.id # Absent
      /\ twin.expect_tool # Absent => twin.expect_tool.id # Absent
  BY DEF IsOver, Telling
<1>4. /\ probe.expect_tool = Absent <=> twin.expect_tool = Absent
      /\ probe.expect_tool # Absent => probe.expect_tool.id = twin.expect_tool.id
  BY <1>2, <1>3
<1>5. /\ probe.output_schema # Absent => Digest(probe.output_schema) # Absent
      /\ twin.output_schema # Absent => Digest(twin.output_schema) # Absent
  OBVIOUS
<1>6. /\ probe.output_schema = Absent <=> twin.output_schema = Absent
      /\ probe.output_schema # Absent => Digest(probe.output_schema) = Digest(twin.output_schema)
  BY <1>2, <1>5
<1>7. probe.output_schema # Absent => Demands(probe.output_schema) = Demands(twin.output_schema)
  BY <1>6
<1> QED  BY <1>2, <1>4, <1>6, <1>7 DEF AskTheSame

\* What is left of samples when nothing is said of whose tools were called.
LEMMA UnclaimedParts ==
    ASSUME NEW samples, AreSamples(samples)
    PROVE  /\ DOMAIN Unclaimed(samples) = DOMAIN samples
           /\ \A k \in DOMAIN samples :
                /\ Unclaimed(samples)[k].final_text = samples[k].final_text
                /\ DOMAIN Unclaimed(samples)[k].tool_calls = DOMAIN samples[k].tool_calls
                /\ \A c \in DOMAIN samples[k].tool_calls :
                    /\ Unclaimed(samples)[k].tool_calls[c].name = samples[k].tool_calls[c].name
                    /\ Unclaimed(samples)[k].tool_calls[c].arguments = samples[k].tool_calls[c].arguments
                    /\ Unclaimed(samples)[k].tool_calls[c].unparsed = samples[k].tool_calls[c].unparsed
<1> DEFINE blank(calls) == [c \in DOMAIN calls |-> [calls[c] EXCEPT !.tool_id = Absent]]
           bare(sample) == [sample EXCEPT !.tool_calls = blank(sample.tool_calls)]
<1>1. Unclaimed(samples) = [k \in DOMAIN samples |-> bare(samples[k])]
  BY DEF Unclaimed
<1>2. DOMAIN Unclaimed(samples) = DOMAIN samples
      /\ \A k \in DOMAIN samples : Unclaimed(samples)[k] = bare(samples[k])
  BY <1>1
<1> HIDE DEF blank
<1>3. \A sample : IsSample(sample) =>
        bare(sample).final_text = sample.final_text /\ bare(sample).tool_calls = blank(sample.tool_calls)
  BY DEF IsSample
<1>4. \A k \in DOMAIN samples :
        /\ IsSample(samples[k])
        /\ \A c \in DOMAIN samples[k].tool_calls : IsCall(samples[k].tool_calls[c])
  BY DEF AreSamples, IsSample, IsSeq
<1>5. \A calls : /\ DOMAIN blank(calls) = DOMAIN calls
                 /\ \A c \in DOMAIN calls : blank(calls)[c] = [calls[c] EXCEPT !.tool_id = Absent]
  BY DEF blank
<1>6. \A call : IsCall(call) =>
        /\ [call EXCEPT !.tool_id = Absent].name = call.name
        /\ [call EXCEPT !.tool_id = Absent].arguments = call.arguments
        /\ [call EXCEPT !.tool_id = Absent].unparsed = call.unparsed
  BY DEF IsCall
<1> HIDE DEF bare
<1>7. ASSUME NEW k \in DOMAIN samples
      PROVE  /\ Unclaimed(samples)[k].final_text = samples[k].final_text
             /\ Unclaimed(samples)[k].tool_calls = blank(samples[k].tool_calls)
  BY <1>2, <1>3, <1>4
<1>8. ASSUME NEW k \in DOMAIN samples, NEW c \in DOMAIN samples[k].tool_calls
      PROVE  /\ blank(samples[k].tool_calls)[c].name = samples[k].tool_calls[c].name
             /\ blank(samples[k].tool_calls)[c].arguments = samples[k].tool_calls[c].arguments
             /\ blank(samples[k].tool_calls)[c].unparsed = samples[k].tool_calls[c].unparsed
  <2> DEFINE calls == samples[k].tool_calls
             call == samples[k].tool_calls[c]
  <2>1. IsCall(call) /\ c \in DOMAIN calls /\ call = calls[c]
    BY <1>4
  <2> HIDE DEF calls, call
  <2>2. blank(calls)[c] = [call EXCEPT !.tool_id = Absent]
    BY <1>5, <2>1
  <2>3. /\ blank(calls)[c].name = call.name /\ blank(calls)[c].arguments = call.arguments
        /\ blank(calls)[c].unparsed = call.unparsed
    BY <1>6, <2>1, <2>2
  <2> QED  BY <2>3 DEF calls, call
<1> QED  BY <1>2, <1>5, <1>7, <1>8

\* Where nothing is left that differs, the samples say the same.
LEMMA SaidAgain ==
    ASSUME NEW samples, NEW others, AreSamples(samples), AreSamples(others),
           Unclaimed(samples) = Unclaimed(others)
    PROVE  /\ DOMAIN samples = DOMAIN others
           /\ \A k \in DOMAIN samples : SayTheSame(samples[k], others[k])
<1>1. /\ DOMAIN Unclaimed(samples) = DOMAIN samples
      /\ \A k \in DOMAIN samples :
            /\ Unclaimed(samples)[k].final_text = samples[k].final_text
            /\ DOMAIN Unclaimed(samples)[k].tool_calls = DOMAIN samples[k].tool_calls
            /\ \A c \in DOMAIN samples[k].tool_calls :
                /\ Unclaimed(samples)[k].tool_calls[c].name = samples[k].tool_calls[c].name
                /\ Unclaimed(samples)[k].tool_calls[c].arguments = samples[k].tool_calls[c].arguments
                /\ Unclaimed(samples)[k].tool_calls[c].unparsed = samples[k].tool_calls[c].unparsed
  BY UnclaimedParts
<1>2. /\ DOMAIN Unclaimed(others) = DOMAIN others
      /\ \A k \in DOMAIN others :
            /\ Unclaimed(others)[k].final_text = others[k].final_text
            /\ DOMAIN Unclaimed(others)[k].tool_calls = DOMAIN others[k].tool_calls
            /\ \A c \in DOMAIN others[k].tool_calls :
                /\ Unclaimed(others)[k].tool_calls[c].name = others[k].tool_calls[c].name
                /\ Unclaimed(others)[k].tool_calls[c].arguments = others[k].tool_calls[c].arguments
                /\ Unclaimed(others)[k].tool_calls[c].unparsed = others[k].tool_calls[c].unparsed
  BY UnclaimedParts
<1> DEFINE left == Unclaimed(samples)
<1>3. left = Unclaimed(others)
  OBVIOUS
<1>4. /\ \A k \in DOMAIN samples : IsSeq(samples[k].tool_calls)
      /\ \A k \in DOMAIN others : IsSeq(others[k].tool_calls)
  BY DEF AreSamples, IsSample, IsSeq
<1> HIDE DEF left
<1>5. DOMAIN samples = DOMAIN others
  BY <1>1, <1>2
<1>6. ASSUME NEW k \in DOMAIN samples
      PROVE  SayTheSame(samples[k], others[k])
  <2>1. k \in DOMAIN others
    BY <1>5
  <2>2. samples[k].final_text = others[k].final_text
    BY <1>1, <1>2, <2>1
  <2>3. DOMAIN samples[k].tool_calls = DOMAIN others[k].tool_calls
    BY <1>1, <1>2, <2>1
  <2>4. ASSUME NEW c \in DOMAIN samples[k].tool_calls
        PROVE  /\ samples[k].tool_calls[c].name = others[k].tool_calls[c].name
               /\ samples[k].tool_calls[c].arguments = others[k].tool_calls[c].arguments
               /\ samples[k].tool_calls[c].unparsed = others[k].tool_calls[c].unparsed
    BY <1>1, <1>2, <2>1, <2>3
  <2> QED  BY <1>4, <2>1, <2>2, <2>3, <2>4 DEF SayTheSame
<1> QED  BY <1>5, <1>6

\* Twins: the same probe, and answers to it that say the same, scored against catalogs that are alike.
Twins(probe, trace, catalog, twin, again, other) ==
    /\ probe.name = twin.name /\ AskTheSame(probe, twin)
    /\ IsOver(probe, catalog) /\ IsOver(twin, other)
    /\ ValidIdentities(trace, catalog) /\ ValidIdentities(again, other)
    /\ DOMAIN trace.samples = DOMAIN again.samples
    /\ \A k \in DOMAIN trace.samples : SayTheSame(trace.samples[k], again.samples[k])

\* They count the same.
LEMMA TwinsCount ==
    ASSUME NEW catalog, NEW other, Alike(catalog, other), NEW probe, NEW trace, NEW twin, NEW again,
           Twins(probe, trace, catalog, twin, again, other), NEW m, m # "argument_expectation"
    PROVE  /\ Measures(probe, trace, m) = Measures(twin, again, m)
           /\ Meets(probe, trace, catalog, m) = Meets(twin, again, other, m)
<1>1. ASSUME NEW k \in DOMAIN trace.samples
      PROVE  /\ m \in Applicable(probe, trace.samples[k]) <=> m \in Applicable(twin, again.samples[k])
             /\ m \in Applicable(probe, trace.samples[k]) =>
                  (Check(m, probe, trace.samples[k], catalog) <=> Check(m, twin, again.samples[k], other))
  <2> DEFINE sample == trace.samples[k]
             echo == again.samples[k]
  <2>1. Identified(sample, catalog) /\ Identified(echo, other)
    BY DEF Twins, ValidIdentities, Identified
  <2>2. SayTheSame(sample, echo) /\ AskTheSame(probe, twin) /\ IsOver(probe, catalog) /\ IsOver(twin, other)
    BY DEF Twins
  <2> HIDE DEF sample, echo
  <2>3. /\ m \in Applicable(probe, sample) <=> m \in Applicable(twin, echo)
        /\ m \in Applicable(probe, sample) => (Check(m, probe, sample, catalog) <=> Check(m, twin, echo, other))
    BY <2>1, <2>2, SameChecks
  <2> QED  BY <2>3 DEF sample, echo
<1>2. DOMAIN trace.samples = DOMAIN again.samples
  BY DEF Twins
<1>3. Measures(probe, trace, m) = Measures(twin, again, m)
  BY <1>1, <1>2 DEF Measures
<1> QED  BY <1>1, <1>2, <1>3 DEF Meets, Measures

\* Where every probe has its twin, and no twin is without a probe, the scores are the same.
LEMMA TwinsAgree ==
    ASSUME NEW catalog, NEW other, Alike(catalog, other),
           NEW probes, NEW traces, NEW twins, NEW echoes,
           \A i \in DOMAIN probes : \E j \in DOMAIN twins :
                Twins(probes[i], traces[i], catalog, twins[j], echoes[j], other),
           \A j \in DOMAIN twins : \E i \in DOMAIN probes :
                Twins(probes[i], traces[i], catalog, twins[j], echoes[j], other),
           NEW m, m # "argument_expectation"
    PROVE  /\ MeasuredAt(probes, traces, m) = MeasuredAt(twins, echoes, m)
           /\ MetAt(probes, traces, catalog, m) = MetAt(twins, echoes, other, m)
<1>1. \A i \in DOMAIN probes : \A j \in DOMAIN twins :
        Twins(probes[i], traces[i], catalog, twins[j], echoes[j], other) =>
            /\ probes[i].name = twins[j].name
            /\ Measures(probes[i], traces[i], m) = Measures(twins[j], echoes[j], m)
            /\ Meets(probes[i], traces[i], catalog, m) = Meets(twins[j], echoes[j], other, m)
  <2> SUFFICES ASSUME NEW i \in DOMAIN probes, NEW j \in DOMAIN twins,
                      Twins(probes[i], traces[i], catalog, twins[j], echoes[j], other)
               PROVE  /\ probes[i].name = twins[j].name
                      /\ Measures(probes[i], traces[i], m) = Measures(twins[j], echoes[j], m)
                      /\ Meets(probes[i], traces[i], catalog, m) = Meets(twins[j], echoes[j], other, m)
    OBVIOUS
  <2>1. probes[i].name = twins[j].name
    BY DEF Twins
  <2> QED  BY <2>1, TwinsCount
<1> DEFINE one(i) == {<<probes[i].name, k>> : k \in Measures(probes[i], traces[i], m)}
           two(j) == {<<twins[j].name, k>> : k \in Measures(twins[j], echoes[j], m)}
           good(i) == {<<probes[i].name, k>> : k \in Meets(probes[i], traces[i], catalog, m)}
           fine(j) == {<<twins[j].name, k>> : k \in Meets(twins[j], echoes[j], other, m)}
<1>2. /\ MeasuredAt(probes, traces, m) = UNION {one(i) : i \in DOMAIN probes}
      /\ MeasuredAt(twins, echoes, m) = UNION {two(j) : j \in DOMAIN twins}
      /\ MetAt(probes, traces, catalog, m) = UNION {good(i) : i \in DOMAIN probes}
      /\ MetAt(twins, echoes, other, m) = UNION {fine(j) : j \in DOMAIN twins}
  BY DEF MeasuredAt, MetAt
<1>3. \A i \in DOMAIN probes : \A j \in DOMAIN twins :
        Twins(probes[i], traces[i], catalog, twins[j], echoes[j], other) => one(i) = two(j) /\ good(i) = fine(j)
  BY <1>1
<1> HIDE DEF one, two, good, fine
<1>4. /\ \A i \in DOMAIN probes : \E j \in DOMAIN twins : one(i) = two(j) /\ good(i) = fine(j)
      /\ \A j \in DOMAIN twins : \E i \in DOMAIN probes : one(i) = two(j) /\ good(i) = fine(j)
  BY <1>3
<1>5. UNION {one(i) : i \in DOMAIN probes} = UNION {two(j) : j \in DOMAIN twins}
  BY <1>4
<1>6. UNION {good(i) : i \in DOMAIN probes} = UNION {fine(j) : j \in DOMAIN twins}
  BY <1>4
<1> QED  BY <1>2, <1>5, <1>6

------------------------------------------------------------------------------
(* Where the baseline comes from.                                             *)

\* A baseline was accepted from a capture over a project there is: it holds what that capture scored,
\* and the answers are those that it scored.
IsBaselineOf(accepted, built, answers) ==
    /\ AreSamples(answers) /\ Len(answers) = Len(Plan(built.suite))
    /\ Verdict(built, Traces(built, answers)) # Refused
    /\ accepted.file = NewBaseline(built.checksum, built.suite, built.catalog,
                                   Verdict(built, Traces(built, answers)))
    /\ accepted.answers = Answers(Traces(built, answers))

\* While a baseline is followed nothing is replayed.
BaselineIsMade ==
    baseline # Absent =>
        /\ ~run.replay
        /\ \E disk \in Projects : \E built, seen, answers :
                Made(built, disk, seen) /\ IsBaselineOf(baseline, built, answers)

\* A baseline stays what it is, and a run what kind it is.
LEMMA BaselineStays ==
    ASSUME BaselineIsMade, baseline' = baseline, ~run.replay => ~run.replay'
    PROVE  BaselineIsMade'
  BY DEF BaselineIsMade

\* The baseline that a run leaves.
LEMMA BaselineConcluded ==
    ASSUME BehaviorInv, BaselineIsMade, NEW accept \in BOOLEAN, Conclude(accept)
    PROVE  BaselineIsMade'
<1> DEFINE traces == Traces(run.built, run.answers)
           verdict == Verdict(run.built, traces)
           written == NewBaseline(run.built.checksum, run.built.suite, run.built.catalog, verdict)
           accepted == [file |-> written, answers |-> Answers(traces)]
<1>1. /\ run.stage = "assembled" /\ ~run.replay /\ Len(run.answers) = Len(Plan(run.built.suite))
      /\ \/ run' = Failed /\ baseline' = baseline
         \/ /\ verdict # Refused
            /\ run' = [run EXCEPT !.stage = "over", !.verdict = verdict]
            /\ baseline' \in {accepted, baseline}
  BY DEF Conclude
<1>2. DOMAIN run = RunFields /\ AreSamples(run.answers) /\ Made(run.built, project, run.seen) /\ project \in Projects
  BY <1>1 DEF BehaviorInv, RunIsMade
<1>3. ~run'.replay
  <2>1. CASE run' = Failed
    BY <2>1, IdleIsMade
  <2>2. CASE run' = [run EXCEPT !.stage = "over", !.verdict = verdict]
    <3> HIDE DEF verdict
    <3> QED  BY <1>1, <1>2, <2>2 DEF RunFields
  <2> QED  BY <1>1, <2>1, <2>2
<1>4. CASE baseline' = baseline
  BY <1>3, <1>4, BaselineStays
<1>5. CASE verdict # Refused /\ baseline' = accepted
  <2>1. accepted.file = written /\ accepted.answers = Answers(traces)
    OBVIOUS
  <2>2. IsBaselineOf(accepted, run.built, run.answers)
    <3> HIDE DEF accepted
    <3> QED  BY <1>1, <1>2, <1>5, <2>1 DEF IsBaselineOf
  <2> HIDE DEF accepted
  <2>3. \E disk \in Projects : \E built, seen, answers :
            Made(built, disk, seen) /\ IsBaselineOf(baseline', built, answers)
    BY <1>2, <1>5, <2>2
  <2> QED  BY <1>3, <2>3 DEF BaselineIsMade
<1> QED  BY <1>1, <1>4, <1>5

\* Every other step leaves the baseline, and starts no replay while there is one.
LEMMA BaselineInductive == BehaviorInv /\ BaselineIsMade /\ [Next]_vars => BaselineIsMade'
<1> SUFFICES ASSUME BehaviorInv, BaselineIsMade, [Next]_vars PROVE BaselineIsMade'
  OBVIOUS
<1>0. DOMAIN run = RunFields
  BY DEF BehaviorInv, RunIsMade
<1>1. ASSUME NEW override \in Overrides, NEW replay \in BOOLEAN, Begin(override, replay) PROVE BaselineIsMade'
  <2>1. /\ ~Afresh => ~replay
        /\ run' = [Idle EXCEPT !.stage = IF Local THEN "tags" ELSE "assemble",
                               !.override = override, !.replay = replay, !.seen = {served}]
        /\ baseline' = baseline
    BY <1>1 DEF Begin
  <2>2. run'.replay = replay
    BY <2>1, IdleIsMade DEF RunFields
  <2> QED  BY <2>1, <2>2 DEF BaselineIsMade, Afresh
<1>2. CASE ReadTags
  BY <1>0, <1>2, IdleIsMade, BaselineStays DEF ReadTags, RunFields
<1>3. CASE ReadShow
  BY <1>0, <1>3, BaselineStays DEF ReadShow, RunFields
<1>4. CASE RequestFails
  BY <1>4, IdleIsMade, BaselineStays DEF RequestFails
<1>5. CASE Assemble
  BY <1>0, <1>5, IdleIsMade, BaselineStays DEF Assemble, RunFields
<1>6. ASSUME NEW response \in Responses, Ask(response) PROVE BaselineIsMade'
  BY <1>0, <1>6, IdleIsMade, BaselineStays DEF Ask, RunFields
<1>7. ASSUME NEW accept \in BOOLEAN, Conclude(accept) PROVE BaselineIsMade'
  BY <1>7, BaselineConcluded
<1>8. CASE Replay
  <2>1. run.replay /\ baseline' = baseline
    BY <1>8 DEF Replay
  <2> QED  BY <2>1 DEF BaselineIsMade
<1>9. ASSUME NEW next \in Projects, Edit(next) PROVE BaselineIsMade'
  BY <1>9, IdleIsMade, BaselineStays DEF Edit
<1>10. ASSUME NEW model \in Models, Replace(model) PROVE BaselineIsMade'
  BY <1>0, <1>10, IdleIsMade, BaselineStays DEF Replace, RunFields
<1>11. CASE EditEvidence
  BY <1>11, IdleIsMade, BaselineStays DEF EditEvidence, Touch
<1>12. CASE ExtractTrace
  BY <1>12, IdleIsMade, BaselineStays DEF ExtractTrace
<1>13. CASE UNCHANGED vars
  BY <1>13, BaselineStays DEF vars
<1> QED  BY <1>1, <1>2, <1>3, <1>4, <1>5, <1>6, <1>7, <1>8, <1>9, <1>10, <1>11, <1>12, <1>13 DEF Next

\* The baseline that a report is compared with is that of a capture, and its answers are the ones that
\* were scored for it.
THEOREM BaselineHasAnOrigin == Spec => []BaselineIsMade
<1>1. Init => BaselineIsMade
  BY DEF Init, BaselineIsMade
<1>2. BehaviorInv /\ BaselineIsMade /\ [Next]_vars => BaselineIsMade'
  BY BaselineInductive
<1> QED  BY <1>1, <1>2, EvidenceHasAnOrigin, PTL DEF Spec

------------------------------------------------------------------------------
(* What the report says of a run after a baseline.                            *)

\* What a capture that could be scored was scored from.
LEMMA CapturedOutcomes ==
    ASSUME NEW built, NEW disk, NEW seen, Made(built, disk, seen),
           NEW answers, AreSamples(answers), Len(answers) = Len(Plan(built.suite)),
           Verdict(built, Traces(built, answers)) # Refused
    PROVE  LET probes == built.suite.probes
               traces == Traces(built, answers)
               outcomes == Verdict(built, Traces(built, answers))
           IN  /\ IsFiniteSet(DOMAIN probes) /\ DOMAIN outcomes = DOMAIN probes /\ DOMAIN traces = DOMAIN probes
               /\ \A i, j \in DOMAIN probes : probes[i].name = probes[j].name => i = j
               /\ \A i \in DOMAIN probes :
                    /\ outcomes[i] = Judge(probes[i], traces[i], built.catalog) /\ outcomes[i] # Refused
                    /\ outcomes[i].probe = probes[i].name /\ traces[i].probe = probes[i].name
                    /\ AreSamples(traces[i].samples) /\ IsFiniteSet(DOMAIN traces[i].samples)
                    /\ ValidIdentities(traces[i], built.catalog)
<1> DEFINE probes == built.suite.probes
           traces == Traces(built, answers)
           outcomes == Verdict(built, traces)
<1>1. /\ IsSeq(probes) /\ DOMAIN probes = 1..Len(probes) /\ IsInjective([i \in DOMAIN probes |-> probes[i].name])
  BY MadeSuite
<1>2. /\ DOMAIN outcomes = DOMAIN probes
      /\ \A i \in DOMAIN probes :
            /\ outcomes[i] = Judge(probes[i], traces[i], built.catalog) /\ outcomes[i] # Refused
            /\ ValidIdentities(traces[i], built.catalog)
  <2>1. outcomes # Refused
    OBVIOUS
  <2> HIDE DEF traces
  <2> QED  BY <2>1, VerdictParts
<1>3. DOMAIN traces = DOMAIN probes
  BY DEF Traces
<1>4. \A i \in DOMAIN probes : traces[i].probe = probes[i].name
  BY DEF Traces
<1>5. \A i \in DOMAIN probes : AreSamples(traces[i].samples)
  <2> TAKE i \in DOMAIN probes
  <2>1. i \in DOMAIN Traces(built, answers)
    BY <1>3
  <2> QED  BY <2>1, CapturedSamples
<1> HIDE DEF outcomes, traces, probes
<1>6. IsFiniteSet(DOMAIN probes)
  <2>1. Len(probes) \in Nat
    BY <1>1 DEF IsSeq
  <2>2. IsFiniteSet(1..Len(probes))
    BY <2>1, FS_Interval
  <2> QED  BY <1>1, <2>2
<1>7. \A i, j \in DOMAIN probes : probes[i].name = probes[j].name => i = j
  BY <1>1 DEF IsInjective
<1>8. \A i \in DOMAIN probes : IsFiniteSet(DOMAIN traces[i].samples)
  <2> TAKE i \in DOMAIN probes
  <2> DEFINE samples == traces[i].samples
             n == Len(samples)
  <2>1. n \in Nat /\ DOMAIN samples = 1..n
    BY <1>5 DEF AreSamples, IsSeq
  <2> HIDE DEF n, samples
  <2>2. IsFiniteSet(1..n)
    BY <2>1, FS_Interval
  <2> QED  BY <2>1, <2>2 DEF samples
<1>9. \A i \in DOMAIN probes : outcomes[i].probe = probes[i].name
  <2> TAKE i \in DOMAIN probes
  <2>1. Judge(probes[i], traces[i], built.catalog) # Refused
    BY <1>2
  <2>2. Judge(probes[i], traces[i], built.catalog).probe = probes[i].name
    BY <2>1, JudgeOf
  <2> QED  BY <1>2, <2>2
<1>10. \A i \in DOMAIN probes :
        /\ outcomes[i] = Judge(probes[i], traces[i], built.catalog) /\ outcomes[i] # Refused
        /\ outcomes[i].probe = probes[i].name /\ traces[i].probe = probes[i].name
        /\ AreSamples(traces[i].samples) /\ IsFiniteSet(DOMAIN traces[i].samples)
        /\ ValidIdentities(traces[i], built.catalog)
  BY <1>2, <1>4, <1>5, <1>8, <1>9
<1> QED  BY <1>2, <1>3, <1>6, <1>7, <1>10 DEF probes, traces, outcomes

\* What it scored of a metric.
LEMMA CapturedAggregate ==
    ASSUME NEW built, NEW disk, NEW seen, Made(built, disk, seen),
           NEW answers, AreSamples(answers), Len(answers) = Len(Plan(built.suite)),
           Verdict(built, Traces(built, answers)) # Refused, NEW m
    PROVE  LET probes == built.suite.probes
               traces == Traces(built, answers)
               scores == Aggregate(Verdict(built, Traces(built, answers)))
           IN  /\ m \in DOMAIN scores <=> MeasuredAt(probes, traces, m) # {}
               /\ m \in DOMAIN scores =>
                    scores[m] = [passed |-> Cardinality(MetAt(probes, traces, built.catalog, m)),
                                 total |-> Cardinality(MeasuredAt(probes, traces, m))]
<1> DEFINE probes == built.suite.probes
           traces == Traces(built, answers)
           outcomes == Verdict(built, traces)
           catalog == built.catalog
<1>1. /\ IsFiniteSet(DOMAIN probes) /\ DOMAIN outcomes = DOMAIN probes
      /\ \A i, j \in DOMAIN probes : probes[i].name = probes[j].name => i = j
      /\ \A i \in DOMAIN probes :
            /\ outcomes[i] = Judge(probes[i], traces[i], catalog) /\ outcomes[i] # Refused
            /\ IsFiniteSet(DOMAIN traces[i].samples)
  BY CapturedOutcomes
<1> HIDE DEF outcomes, traces, probes, catalog
<1>2. ScoredFrom(outcomes, probes, traces, catalog)
  BY <1>1 DEF ScoredFrom
<1>3. /\ \A x : x \in DOMAIN Aggregate(outcomes) <=> MeasuredAt(probes, traces, x) # {}
      /\ \A x \in DOMAIN Aggregate(outcomes) :
            Aggregate(outcomes)[x] = [passed |-> Cardinality(MetAt(probes, traces, catalog, x)),
                                      total |-> Cardinality(MeasuredAt(probes, traces, x))]
  BY <1>2, AggregateIs
<1> QED  BY <1>3 DEF outcomes, traces, probes, catalog

\* No schema of a project is without a digest, and no tool without an id.
LEMMA Digested ==
    LET schemas == UNION {Yardsticks(p) : p \in Projects}
    IN  /\ \A v, w \in schemas : Digest(v) = Digest(w) => Demands(v) = Demands(w)
        /\ Absent \notin {Digest(v) : v \in schemas}
        /\ \A p \in Projects : Absent \notin ToolIds(p)
  BY DigestAssumption

\* Catalogs of the same ids and the same yardsticks are alike.
LEMMA CatalogsAlike ==
    ASSUME NEW disk \in Projects, NEW described, NEW override,
           NEW built, built = Built(disk, described, override), built # Refused,
           NEW place \in Projects, NEW told, NEW repeat,
           NEW first, first = Built(place, told, repeat), first # Refused,
           Nameable(built.catalog), DOMAIN built.catalog = DOMAIN first.catalog,
           \A id \in DOMAIN built.catalog :
                Digest(built.catalog[id].input_schema) = Digest(first.catalog[id].input_schema)
    PROVE  Alike(built.catalog, first.catalog)
<1> DEFINE catalog == built.catalog
           other == first.catalog
           schemas == UNION {Yardsticks(p) : p \in Projects}
<1>1. /\ \A id \in DOMAIN catalog : catalog[id].id = id
      /\ \A id \in DOMAIN other : other[id].id = id
  BY CatalogOf
<1>2. ASSUME NEW id \in DOMAIN catalog
      PROVE  /\ id \in ToolIds(disk) /\ catalog[id].name = RemoteName(id) /\ catalog[id].input_schema \in schemas
  <2>1. id \in ToolIds(disk) /\ catalog[id].name = RemoteName(id) /\ catalog[id].input_schema \in Yardsticks(disk)
    BY CatalogSchemas
  <2> QED  BY <2>1
<1>3. ASSUME NEW id \in DOMAIN other
      PROVE  other[id].name = RemoteName(id) /\ other[id].input_schema \in schemas
  <2>1. other[id].name = RemoteName(id) /\ other[id].input_schema \in Yardsticks(place)
    BY CatalogSchemas
  <2> QED  BY <2>1
<1>4. /\ \A v, w \in schemas : Digest(v) = Digest(w) => Demands(v) = Demands(w)
      /\ Absent \notin ToolIds(disk)
  BY Digested
<1>5. \A id, more \in DOMAIN catalog : catalog[id].name = catalog[more].name => id = more
  BY DEF Nameable
<1> HIDE DEF schemas, catalog, other
<1>6. /\ DOMAIN catalog = DOMAIN other
      /\ \A id \in DOMAIN catalog : Digest(catalog[id].input_schema) = Digest(other[id].input_schema)
  BY DEF catalog, other
<1>7. Absent \notin DOMAIN catalog
  BY <1>2, <1>4
<1>8. ASSUME NEW id \in DOMAIN catalog
      PROVE  /\ catalog[id].id = id /\ other[id].id = id /\ catalog[id].name = other[id].name
             /\ Demands(catalog[id].input_schema) = Demands(other[id].input_schema)
  <2>1. id \in DOMAIN other
    BY <1>6
  <2>2. Digest(catalog[id].input_schema) = Digest(other[id].input_schema)
    BY <1>6
  <2>3. Demands(catalog[id].input_schema) = Demands(other[id].input_schema)
    BY <1>2, <1>3, <1>4, <2>1, <2>2
  <2> QED  BY <1>1, <1>2, <1>3, <2>1, <2>3
<1>9. Alike(catalog, other)
  BY <1>5, <1>6, <1>7, <1>8 DEF Alike
<1> QED  BY <1>9 DEF catalog, other

\* A capture over a project there is, that could be scored.
IsCapture(built, disk, seen, answers) ==
    /\ disk \in Projects /\ Made(built, disk, seen)
    /\ AreSamples(answers) /\ Len(answers) = Len(Plan(built.suite))
    /\ Verdict(built, Traces(built, answers)) # Refused

\* The answers to a probe are those of its trace.
LEMMA AnswersOf ==
    ASSUME NEW built, NEW disk, NEW seen, NEW answers, IsCapture(built, disk, seen, answers),
           NEW j \in DOMAIN built.suite.probes
    PROVE  Answers(Traces(built, answers))[built.suite.probes[j].name] = Traces(built, answers)[j].samples
<1> DEFINE probes == built.suite.probes
           traces == Traces(built, answers)
           name == probes[j].name
           names == {traces[i].probe : i \in DOMAIN traces}
           at(x) == CHOOSE i \in DOMAIN traces : traces[i].probe = x
<1>1. /\ DOMAIN traces = DOMAIN probes
      /\ \A i, k \in DOMAIN probes : probes[i].name = probes[k].name => i = k
      /\ \A i \in DOMAIN probes : traces[i].probe = probes[i].name
  BY CapturedOutcomes DEF IsCapture
<1>2. Answers(traces) = [x \in names |-> traces[at(x)].samples]
  BY DEF Answers
<1> HIDE DEF traces, probes
<1>3. name \in names /\ at(name) = j
  <2>1. j \in DOMAIN traces /\ traces[j].probe = name
    BY <1>1 DEF probes
  <2>2. \A i \in DOMAIN traces : traces[i].probe = name => i = j
    BY <1>1, <2>1
  <2> QED  BY <2>1, <2>2
<1> HIDE DEF at, names, name
<1>4. Answers(traces)[name] = traces[j].samples
  BY <1>2, <1>3
<1> QED  BY <1>4 DEF name, traces, probes

\* What a capture takes from its project, probe by probe.
LEMMA CapturedProbe ==
    ASSUME NEW built, NEW disk, NEW seen, NEW answers, IsCapture(built, disk, seen, answers),
           NEW i \in DOMAIN built.suite.probes
    PROVE  /\ IsOver(built.suite.probes[i], built.catalog)
           /\ built.suite.probes[i].output_schema # Absent =>
                built.suite.probes[i].output_schema \in UNION {Yardsticks(p) : p \in Projects}
           /\ ValidIdentities(Traces(built, answers)[i], built.catalog)
           /\ AreSamples(Traces(built, answers)[i].samples)
<1>1. PICK described, override : built = Built(disk, described, override) /\ built # Refused
  BY DEF IsCapture, Made
<1>2. /\ IsOver(built.suite.probes[i], built.catalog)
      /\ built.suite.probes[i].output_schema # Absent => built.suite.probes[i].output_schema \in Yardsticks(disk)
  <2>1. Built(disk, described, override) # Refused /\ i \in DOMAIN Built(disk, described, override).suite.probes
    BY <1>1
  <2>2. LET it == Built(disk, described, override)
        IN  /\ IsOver(it.suite.probes[i], it.catalog)
            /\ it.suite.probes[i].output_schema # Absent => it.suite.probes[i].output_schema \in Yardsticks(disk)
    BY <2>1, NamedByProbes
  <2> QED  BY <1>1, <2>2
<1>3. /\ ValidIdentities(Traces(built, answers)[i], built.catalog)
      /\ AreSamples(Traces(built, answers)[i].samples)
  BY CapturedOutcomes DEF IsCapture
<1>4. disk \in Projects
  BY DEF IsCapture
<1> QED  BY <1>2, <1>3, <1>4

\* A later capture repeats an earlier one: the suite and the yardsticks have their digests, and every
\* probe got the same answers.
Repeats(built, answers, first, earlier) ==
    /\ SuiteDigest(built.suite.probes) = SuiteDigest(first.suite.probes)
    /\ DOMAIN built.catalog = DOMAIN first.catalog
    /\ \A id \in DOMAIN built.catalog :
        Digest(built.catalog[id].input_schema) = Digest(first.catalog[id].input_schema)
    /\ \A i \in DOMAIN built.suite.probes :
        Unclaimed(Traces(built, answers)[i].samples)
            = Unclaimed(Answers(Traces(first, earlier))[built.suite.probes[i].name])

\* The catalogs of the two are alike.
LEMMA RepeatedCatalog ==
    ASSUME NEW built, NEW disk, NEW seen, NEW answers, IsCapture(built, disk, seen, answers),
           NEW first, NEW place, NEW watched, NEW earlier, IsCapture(first, place, watched, earlier),
           Repeats(built, answers, first, earlier), Nameable(built.catalog)
    PROVE  Alike(built.catalog, first.catalog)
<1>1. PICK described, override : built = Built(disk, described, override) /\ built # Refused
  BY DEF IsCapture, Made
<1>2. PICK told, repeat : first = Built(place, told, repeat) /\ first # Refused
  BY DEF IsCapture, Made
<1>3. /\ disk \in Projects /\ place \in Projects /\ DOMAIN built.catalog = DOMAIN first.catalog
      /\ \A id \in DOMAIN built.catalog :
            Digest(built.catalog[id].input_schema) = Digest(first.catalog[id].input_schema)
  BY DEF IsCapture, Repeats
<1> QED  BY <1>1, <1>2, <1>3, CatalogsAlike

\* A probe of the one is the twin of the probe of the other that has its name and its digest.
LEMMA RepeatedProbe ==
    ASSUME NEW built, NEW disk, NEW seen, NEW answers, IsCapture(built, disk, seen, answers),
           NEW first, NEW place, NEW watched, NEW earlier, IsCapture(first, place, watched, earlier),
           Repeats(built, answers, first, earlier), Nameable(built.catalog),
           NEW i \in DOMAIN built.suite.probes, NEW j \in DOMAIN first.suite.probes,
           built.suite.probes[i].name = first.suite.probes[j].name,
           ProbeDigest(built.suite.probes[i]) = ProbeDigest(first.suite.probes[j])
    PROVE  Twins(built.suite.probes[i], Traces(built, answers)[i], built.catalog,
                 first.suite.probes[j], Traces(first, earlier)[j], first.catalog)
<1> DEFINE probe == built.suite.probes[i]
           twin == first.suite.probes[j]
           trace == Traces(built, answers)[i]
           again == Traces(first, earlier)[j]
           schemas == UNION {Yardsticks(p) : p \in Projects}
<1>1. Alike(built.catalog, first.catalog)
  BY RepeatedCatalog
<1>2. /\ IsOver(probe, built.catalog) /\ (probe.output_schema # Absent => probe.output_schema \in schemas)
      /\ ValidIdentities(trace, built.catalog) /\ AreSamples(trace.samples)
  BY CapturedProbe
<1>3. /\ IsOver(twin, first.catalog) /\ (twin.output_schema # Absent => twin.output_schema \in schemas)
      /\ ValidIdentities(again, first.catalog) /\ AreSamples(again.samples)
  BY CapturedProbe
<1>4. Unclaimed(trace.samples) = Unclaimed(again.samples)
  <2>1. Unclaimed(trace.samples) = Unclaimed(Answers(Traces(first, earlier))[probe.name])
    BY DEF Repeats
  <2>2. Answers(Traces(first, earlier))[twin.name] = again.samples
    BY AnswersOf
  <2> QED  BY <2>1, <2>2
<1>5. /\ \A v, w \in schemas : Digest(v) = Digest(w) => Demands(v) = Demands(w)
      /\ Absent \notin {Digest(v) : v \in schemas}
  BY Digested
<1>6. Telling(built.catalog) /\ Telling(first.catalog)
  BY <1>1, BothTell
<1>7. probe.name = twin.name /\ ProbeDigest(probe) = ProbeDigest(twin)
  OBVIOUS
<1> HIDE DEF probe, twin, trace, again, schemas
<1>8. AskTheSame(probe, twin)
  BY <1>2, <1>3, <1>5, <1>6, <1>7, DigestAsks
<1>9. DOMAIN trace.samples = DOMAIN again.samples
      /\ \A k \in DOMAIN trace.samples : SayTheSame(trace.samples[k], again.samples[k])
  BY <1>2, <1>3, <1>4, SaidAgain
<1>10. Twins(probe, trace, built.catalog, twin, again, first.catalog)
  BY <1>2, <1>3, <1>7, <1>8, <1>9 DEF Twins
<1> QED  BY <1>10 DEF probe, trace, twin, again

\* The same answers to the same suite are scored as they were.
LEMMA SameScores ==
    ASSUME NEW built, NEW disk, NEW seen, NEW answers, IsCapture(built, disk, seen, answers),
           NEW first, NEW place, NEW watched, NEW earlier, IsCapture(first, place, watched, earlier),
           Repeats(built, answers, first, earlier), Nameable(built.catalog),
           NEW m \in DOMAIN Aggregate(Verdict(first, Traces(first, earlier))), m # "argument_expectation"
    PROVE  Aggregate(Verdict(built, Traces(built, answers)))[m] = Aggregate(Verdict(first, Traces(first, earlier)))[m]
<1> DEFINE probes == built.suite.probes
           twins == first.suite.probes
           traces == Traces(built, answers)
           echoes == Traces(first, earlier)
           catalog == built.catalog
           other == first.catalog
           now == Aggregate(Verdict(built, traces))
           before == Aggregate(Verdict(first, echoes))
<1>1. SuiteDigest(probes) = SuiteDigest(twins)
  BY DEF Repeats
<1>2. \A i, j \in DOMAIN probes : probes[i].name = probes[j].name => i = j
  BY CapturedOutcomes DEF IsCapture
<1>3. \A i, j \in DOMAIN twins : twins[i].name = twins[j].name => i = j
  BY CapturedOutcomes DEF IsCapture
<1>4. \A i \in DOMAIN probes : \A j \in DOMAIN twins :
        probes[i].name = twins[j].name /\ ProbeDigest(probes[i]) = ProbeDigest(twins[j])
            => Twins(probes[i], traces[i], catalog, twins[j], echoes[j], other)
  <2> SUFFICES ASSUME NEW i \in DOMAIN probes, NEW j \in DOMAIN twins,
                      probes[i].name = twins[j].name, ProbeDigest(probes[i]) = ProbeDigest(twins[j])
               PROVE  Twins(probes[i], traces[i], catalog, twins[j], echoes[j], other)
    OBVIOUS
  <2> QED  BY RepeatedProbe
<1>5. Alike(catalog, other)
  BY RepeatedCatalog
<1>6. /\ m \in DOMAIN now <=> MeasuredAt(probes, traces, m) # {}
      /\ m \in DOMAIN now => now[m] = [passed |-> Cardinality(MetAt(probes, traces, catalog, m)),
                                       total |-> Cardinality(MeasuredAt(probes, traces, m))]
  BY CapturedAggregate DEF IsCapture
<1>7. /\ m \in DOMAIN before <=> MeasuredAt(twins, echoes, m) # {}
      /\ m \in DOMAIN before => before[m] = [passed |-> Cardinality(MetAt(twins, echoes, other, m)),
                                             total |-> Cardinality(MeasuredAt(twins, echoes, m))]
  BY CapturedAggregate DEF IsCapture
<1>8. m \in DOMAIN before
  OBVIOUS
<1> HIDE DEF probes, twins, traces, echoes, catalog, other, now, before
<1>9. \A i \in DOMAIN probes : \E j \in DOMAIN twins : Twins(probes[i], traces[i], catalog, twins[j], echoes[j], other)
  <2> TAKE i \in DOMAIN probes
  <2>1. PICK j \in DOMAIN twins : probes[i].name = twins[j].name /\ ProbeDigest(probes[i]) = ProbeDigest(twins[j])
    BY <1>1, <1>2, <1>3, SuiteTells
  <2> QED  BY <1>4, <2>1
<1>10. \A j \in DOMAIN twins : \E i \in DOMAIN probes : Twins(probes[i], traces[i], catalog, twins[j], echoes[j], other)
  <2> TAKE j \in DOMAIN twins
  <2>1. SuiteDigest(twins) = SuiteDigest(probes)
    BY <1>1
  <2>2. PICK i \in DOMAIN probes : twins[j].name = probes[i].name /\ ProbeDigest(twins[j]) = ProbeDigest(probes[i])
    BY <1>2, <1>3, <2>1, SuiteTells
  <2> QED  BY <1>4, <2>2
<1>11. /\ MeasuredAt(probes, traces, m) = MeasuredAt(twins, echoes, m)
       /\ MetAt(probes, traces, catalog, m) = MetAt(twins, echoes, other, m)
  BY <1>5, <1>9, <1>10, TwinsAgree
<1>12. now[m] = before[m]
  BY <1>6, <1>7, <1>8, <1>11
<1> QED  BY <1>12 DEF now, before, traces, echoes

\* A report that says the suite is that of the baseline, and no yardstick moved.
LEMMA HalfSays ==
    ASSUME baseline # Absent, Half.suite_matches, Half.yardsticks_changed = {},
           DOMAIN baseline.file.yardsticks \subseteq DOMAIN run.built.catalog
    PROVE  /\ baseline.file.suite = run.built.suite.digest
           /\ DOMAIN baseline.file.yardsticks = DOMAIN run.built.catalog
           /\ \A id \in DOMAIN run.built.catalog :
                baseline.file.yardsticks[id] = Digest(run.built.catalog[id].input_schema)
<1> DEFINE catalog == run.built.catalog
           file == baseline.file
<1>1. Committed = file
  BY DEF Committed
<1>2. /\ Half.suite_matches = PolicyOutcome(project.config.policy, file, run.built.suite, run.verdict).suiteMatches
      /\ Half.yardsticks_changed = ChangedYardsticks(file, catalog)
  BY <1>1 DEF Half, BehaviorHalf
<1>3. file # Absent /\ file.suite = run.built.suite.digest
  <2>1. PolicyOutcome(project.config.policy, file, run.built.suite, run.verdict).suiteMatches
          = (file # Absent /\ file.suite = run.built.suite.digest)
    BY DEF PolicyOutcome, G!ApplyPolicy
  <2> QED  BY <1>2, <2>1
<1>4. ASSUME NEW id \in DOMAIN catalog
      PROVE  id \in DOMAIN file.yardsticks /\ file.yardsticks[id] = Digest(catalog[id].input_schema)
  <2>1. id \notin ChangedYardsticks(file, catalog)
    BY <1>2
  <2>2. InputSchemaDigests(catalog)[id] = Digest(catalog[id].input_schema)
    BY DEF InputSchemaDigests
  <2> HIDE DEF file, catalog
  <2> QED  BY <1>3, <1>4, <2>1, <2>2 DEF ChangedYardsticks
<1> QED  BY <1>3, <1>4

\* What is scored by a metric is the answer to some probe.
LEMMA ScoredProbe ==
    ASSUME NEW built, NEW disk, NEW seen, NEW answers, IsCapture(built, disk, seen, answers),
           NEW m \in DOMAIN Aggregate(Verdict(built, Traces(built, answers)))
    PROVE  \E i : i \in DOMAIN built.suite.probes
<1> DEFINE outcomes == Verdict(built, Traces(built, answers))
<1>1. DOMAIN outcomes = DOMAIN built.suite.probes
  BY CapturedOutcomes DEF IsCapture
<1> HIDE DEF outcomes
<1>2. DOMAIN Aggregate(outcomes) = UNION {DOMAIN outcomes[i].metrics : i \in DOMAIN outcomes}
  BY DEF Aggregate
<1>3. m \in DOMAIN Aggregate(outcomes)
  BY DEF outcomes
<1> QED  BY <1>1, <1>2, <1>3

\* By where the baseline comes from, the same answers to the same suite keep their scores unless a
\* schema is named.
LEMMA SchemaMovesFit == BehaviorInv /\ BaselineIsMade => SchemaMovesAreNamed
<1> SUFFICES ASSUME BehaviorInv, BaselineIsMade, Accepted, baseline # Absent, Half.suite_matches,
                    DOMAIN baseline.file.yardsticks \subseteq DOMAIN run.built.catalog,
                    \A i \in DOMAIN run.verdict :
                        Unclaimed(Judged(i)) = Unclaimed(baseline.answers[run.verdict[i].probe]),
                    Half.yardsticks_changed = {},
                    NEW m \in DOMAIN baseline.file.metrics \ {"argument_expectation"}
             PROVE  Aggregate(run.verdict)[m] = baseline.file.metrics[m]
  BY DEF SchemaMovesAreNamed
<1> DEFINE built == run.built
           traces == Traces(built, run.answers)
<1>1. PICK place \in Projects : \E first, watched, earlier :
        Made(first, place, watched) /\ IsBaselineOf(baseline, first, earlier)
  BY DEF BaselineIsMade
<1>2. PICK first, watched, earlier : Made(first, place, watched) /\ IsBaselineOf(baseline, first, earlier)
  BY <1>1
<1>3. IsCapture(first, place, watched, earlier)
  BY <1>2 DEF IsBaselineOf, IsCapture
<1>4. /\ ~run.replay /\ run.stage = "over" /\ run.verdict \notin {Absent, Refused}
      /\ Made(built, project, run.seen) /\ project \in Projects /\ AreSamples(run.answers)
  BY DEF BaselineIsMade, BehaviorInv, RunIsMade, Accepted, Over
<1>5. Len(run.answers) = Len(Plan(built.suite)) /\ run.verdict = Verdict(built, traces)
  BY <1>4 DEF BehaviorInv, VerdictIsDerived
<1>6. IsCapture(built, project, run.seen, run.answers)
  BY <1>4, <1>5 DEF IsCapture
<1>7. /\ baseline.file.suite = first.suite.digest
      /\ baseline.file.metrics = Aggregate(Verdict(first, Traces(first, earlier)))
      /\ baseline.file.yardsticks = InputSchemaDigests(first.catalog)
      /\ baseline.answers = Answers(Traces(first, earlier))
  BY <1>2 DEF IsBaselineOf, NewBaseline
<1>8. /\ baseline.file.suite = built.suite.digest
      /\ DOMAIN baseline.file.yardsticks = DOMAIN built.catalog
      /\ \A id \in DOMAIN built.catalog : baseline.file.yardsticks[id] = Digest(built.catalog[id].input_schema)
  BY HalfSays
<1>9. SuiteDigest(built.suite.probes) = SuiteDigest(first.suite.probes)
  <2>1. built.suite.digest = SuiteDigest(built.suite.probes)
    BY <1>4, MadeSuite
  <2>2. first.suite.digest = SuiteDigest(first.suite.probes)
    BY <1>2, MadeSuite
  <2> QED  BY <1>7, <1>8, <2>1, <2>2
<1>10. /\ DOMAIN built.catalog = DOMAIN first.catalog
       /\ \A id \in DOMAIN built.catalog :
            Digest(built.catalog[id].input_schema) = Digest(first.catalog[id].input_schema)
  <2>1. DOMAIN InputSchemaDigests(first.catalog) = DOMAIN first.catalog
        /\ \A id \in DOMAIN first.catalog :
            InputSchemaDigests(first.catalog)[id] = Digest(first.catalog[id].input_schema)
    BY DEF InputSchemaDigests
  <2> HIDE DEF built
  <2> QED  BY <1>7, <1>8, <2>1
<1>11. \A i \in DOMAIN built.suite.probes :
        Unclaimed(traces[i].samples) = Unclaimed(Answers(Traces(first, earlier))[built.suite.probes[i].name])
  <2> TAKE i \in DOMAIN built.suite.probes
  <2>1. /\ DOMAIN Verdict(built, traces) = DOMAIN built.suite.probes
        /\ Verdict(built, traces)[i].probe = built.suite.probes[i].name
    BY <1>6, CapturedOutcomes DEF IsCapture
  <2>2. i \in DOMAIN run.verdict /\ run.verdict[i].probe = built.suite.probes[i].name
    BY <1>5, <2>1
  <2>3. Judged(i) = traces[i].samples
    BY <1>4 DEF Judged
  <2> QED  BY <1>7, <2>2, <2>3
<1>12. Repeats(built, run.answers, first, earlier)
  BY <1>9, <1>10, <1>11 DEF Repeats
<1>13. m \in DOMAIN Aggregate(Verdict(first, Traces(first, earlier))) /\ m # "argument_expectation"
  BY <1>7
<1>14. Nameable(built.catalog)
  <2>1. PICK j : j \in DOMAIN first.suite.probes
    BY <1>3, <1>13, ScoredProbe
  <2>2. \A i, k \in DOMAIN first.suite.probes : first.suite.probes[i].name = first.suite.probes[k].name => i = k
    BY <1>3, CapturedOutcomes DEF IsCapture
  <2>3. \A i, k \in DOMAIN built.suite.probes : built.suite.probes[i].name = built.suite.probes[k].name => i = k
    BY <1>6, CapturedOutcomes DEF IsCapture
  <2>4. SuiteDigest(first.suite.probes) = SuiteDigest(built.suite.probes)
    BY <1>9
  <2> DEFINE mine == built.suite.probes
             theirs == first.suite.probes
  <2>5. PICK i \in DOMAIN mine : theirs[j].name = mine[i].name /\ ProbeDigest(theirs[j]) = ProbeDigest(mine[i])
    <3>1. /\ SuiteDigest(theirs) = SuiteDigest(mine) /\ j \in DOMAIN theirs
          /\ \A i, k \in DOMAIN mine : mine[i].name = mine[k].name => i = k
          /\ \A i, k \in DOMAIN theirs : theirs[i].name = theirs[k].name => i = k
      BY <2>1, <2>2, <2>3, <2>4
    <3> HIDE DEF mine, theirs
    <3> QED  BY <3>1, SuiteTells
  <2>6. i \in DOMAIN run.verdict
    <3>1. DOMAIN Verdict(built, traces) = DOMAIN built.suite.probes
      BY <1>6, CapturedOutcomes DEF IsCapture
    <3> QED  BY <1>5, <2>5, <3>1
  <2> QED  BY <2>6, NamesTell
<1>15. Aggregate(Verdict(built, traces))[m] = Aggregate(Verdict(first, Traces(first, earlier)))[m]
  BY <1>3, <1>6, <1>12, <1>13, <1>14, SameScores
<1> QED  BY <1>5, <1>7, <1>15

\* A reader of a report is told of every check that fell short, and of every schema that moved the
\* scores: whatever the projects, the edits and the answers are.
THEOREM ReportIsHonest == Spec => []ReportHidesNothing
<1>1. BehaviorInv /\ BaselineIsMade => ReportHidesNothing
  BY ShortfallsFit, SchemaMovesFit DEF ReportHidesNothing
<1> QED  BY <1>1, EvidenceHasAnOrigin, BaselineHasAnOrigin, PTL

=============================================================================

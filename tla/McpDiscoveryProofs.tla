------------------------- MODULE McpDiscoveryProofs -------------------------
(***************************************************************************)
(* Proofs about McpDiscovery, for any number of servers, whatever they     *)
(* speak and declare, and any bounds: the inductive invariant DiscInv, and *)
(* the safety properties it implies.                                       *)
(***************************************************************************)
EXTENDS McpDiscovery, FiniteSetTheorems, SequenceTheorems, WellFoundedInduction, TLAPS

------------------------------------------------------------------------------
(* Sorting: numbers that differ can be put in order, so sorted tools are the *)
(* tools there were.                                                         *)

LessThan == {p \in Nat \X Nat : p[1] < p[2]}

LEMMA LeastOf ==
    ASSUME NEW T \in SUBSET Nat, T # {}
    PROVE  \E x \in T : \A y \in T : x <= y
<1>1. IsWellFoundedOn(LessThan, Nat)
  BY NatLessThanWellFounded DEF LessThan, OpToRel
<1>2. PICK x \in T : \A y \in T : <<y, x>> \notin LessThan
  BY <1>1, WFMin
<1>3. ASSUME NEW y \in T
      PROVE  x <= y
  <2>1. <<y, x>> \in LessThan <=> y < x
    BY DEF LessThan
  <2> QED  BY <1>2, <2>1
<1> QED  BY <1>3

InOrder(n, f, p) == \A i, j \in 1..n : i < j => f[p[i]] < f[p[j]]

Sortable(n) == \A f \in Injection(1..n, Nat) : \E p \in Bijection(1..n, 1..n) : InOrder(n, f, p)

\* The positions 1..n without m.
Skip(m, i) == IF i < m THEN i ELSE i + 1

\* The least comes first, then the others in their order.
LEMMA OneMoreSorts ==
    ASSUME NEW n \in Nat, Sortable(n)
    PROVE  Sortable(n + 1)
<1> SUFFICES ASSUME NEW f \in Injection(1..n + 1, Nat)
             PROVE  \E p \in Bijection(1..n + 1, 1..n + 1) : InOrder(n + 1, f, p)
  BY DEF Sortable
<1>1. f \in [1..n + 1 -> Nat] /\ \A i, j \in 1..n + 1 : f[i] = f[j] => i = j
  BY DEF Injection, IsInjective
<1>2. PICK m \in 1..n + 1 : \A i \in 1..n + 1 : f[m] <= f[i]
  <2> DEFINE T == {f[i] : i \in 1..n + 1}
  <2>1. T \in SUBSET Nat /\ f[1] \in T
    BY <1>1
  <2>2. PICK x \in T : \A y \in T : x <= y
    BY <2>1, LeastOf
  <2> QED  BY <2>2
<1> DEFINE g == [i \in 1..n |-> f[Skip(m, i)]]
<1>3. \A i \in 1..n : Skip(m, i) \in 1..n + 1 /\ Skip(m, i) # m
  BY DEF Skip
<1>4. \A i, j \in 1..n : Skip(m, i) = Skip(m, j) => i = j
  BY DEF Skip
<1>5. \A k \in 1..n + 1 : k # m => \E i \in 1..n : Skip(m, i) = k
  <2> TAKE k \in 1..n + 1
  <2>1. CASE k < m
    BY <2>1 DEF Skip
  <2>2. CASE k > m
    <3>1. k - 1 \in 1..n /\ Skip(m, k - 1) = k
      BY <2>2 DEF Skip
    <3> QED  BY <3>1
  <2> QED  BY <2>1, <2>2
<1>6. g \in Injection(1..n, Nat)
  <2>1. g \in [1..n -> Nat]
    BY <1>1, <1>3
  <2>2. \A i, j \in 1..n : g[i] = g[j] => i = j
    <3> TAKE i, j \in 1..n
    <3>1. g[i] = f[Skip(m, i)] /\ g[j] = f[Skip(m, j)]
      OBVIOUS
    <3> HIDE DEF g
    <3> HAVE g[i] = g[j]
    <3>2. Skip(m, i) = Skip(m, j)
      BY <3>1, <1>1, <1>3
    <3> QED  BY <3>2, <1>4
  <2> HIDE DEF g
  <2> QED  BY <2>1, <2>2 DEF Injection, IsInjective
<1>7. PICK q \in Bijection(1..n, 1..n) : InOrder(n, g, q)
  BY <1>6 DEF Sortable
<1>8. /\ q \in [1..n -> 1..n]
      /\ \A i, j \in 1..n : q[i] = q[j] => i = j
      /\ \A k \in 1..n : \E i \in 1..n : q[i] = k
  BY <1>7 DEF Bijection, Injection, Surjection, IsInjective
<1> DEFINE p == [i \in 1..n + 1 |-> IF i = 1 THEN m ELSE Skip(m, q[i - 1])]
<1>9. \A i \in 1..n + 1 : i # 1 => i - 1 \in 1..n
  OBVIOUS
<1>10. p \in [1..n + 1 -> 1..n + 1]
  BY <1>3, <1>8, <1>9
<1>11. \A i \in 1..n + 1 : p[i] = m <=> i = 1
  <2>1. p[1] = m
    OBVIOUS
  <2>2. ASSUME NEW i \in 1..n + 1, i # 1
        PROVE  p[i] # m
    <3>1. q[i - 1] \in 1..n /\ p[i] = Skip(m, q[i - 1])
      BY <2>2, <1>8, <1>9
    <3> QED  BY <3>1, <1>3
  <2> HIDE DEF p
  <2> QED  BY <2>1, <2>2
<1>12. \A i, j \in 1..n + 1 : p[i] = p[j] => i = j
  <2> TAKE i, j \in 1..n + 1
  <2> HAVE p[i] = p[j]
  <2>1. CASE i = 1 \/ j = 1
    BY <2>1, <1>11
  <2>2. CASE i # 1 /\ j # 1
    <3>1. i - 1 \in 1..n /\ j - 1 \in 1..n
      BY <2>2, <1>9
    <3>2. Skip(m, q[i - 1]) = Skip(m, q[j - 1])
      BY <2>2
    <3>3. q[i - 1] \in 1..n /\ q[j - 1] \in 1..n
      BY <3>1, <1>8
    <3>4. q[i - 1] = q[j - 1]
      BY <3>2, <3>3, <1>4
    <3>5. i - 1 = j - 1
      BY <3>1, <3>4, <1>8
    <3> QED  BY <3>5
  <2> QED  BY <2>1, <2>2
<1>13. \A k \in 1..n + 1 : \E i \in 1..n + 1 : p[i] = k
  <2> TAKE k \in 1..n + 1
  <2>1. CASE k = m
    <3>1. 1 \in 1..n + 1 /\ p[1] = m
      OBVIOUS
    <3> HIDE DEF p
    <3> QED  BY <3>1, <2>1
  <2>2. CASE k # m
    <3>1. PICK u \in 1..n : Skip(m, u) = k
      BY <2>2, <1>5
    <3>2. PICK i \in 1..n : q[i] = u
      BY <1>8
    <3>3. i + 1 \in 1..n + 1 /\ i + 1 # 1 /\ (i + 1) - 1 = i
      OBVIOUS
    <3>4. p[i + 1] = k
      BY <3>1, <3>2, <3>3
    <3> QED  BY <3>3, <3>4
  <2> QED  BY <2>1, <2>2
<1>14. p \in Bijection(1..n + 1, 1..n + 1)
  BY <1>10, <1>12, <1>13 DEF Bijection, Injection, Surjection, IsInjective
<1>15. InOrder(n + 1, f, p)
  <2> SUFFICES ASSUME NEW i \in 1..n + 1, NEW j \in 1..n + 1, i < j
               PROVE  f[p[i]] < f[p[j]]
    BY DEF InOrder
  <2>1. j # 1 /\ j - 1 \in 1..n /\ p[j] = Skip(m, q[j - 1])
    OBVIOUS
  <2>2. CASE i = 1
    <3>1. p[j] \in 1..n + 1 /\ p[j] # m /\ p[i] = m
      BY <2>1, <2>2, <1>10, <1>11
    <3>2. f[m] <= f[p[j]] /\ f[m] # f[p[j]] /\ f[m] \in Nat /\ f[p[j]] \in Nat
      BY <3>1, <1>1, <1>2
    <3> QED  BY <3>1, <3>2
  <2>3. CASE i # 1
    <3>1. i - 1 \in 1..n /\ i - 1 < j - 1 /\ p[i] = Skip(m, q[i - 1])
      BY <2>3
    <3>2. g[q[i - 1]] < g[q[j - 1]]
      BY <3>1, <2>1, <1>7 DEF InOrder
    <3>3. g[q[i - 1]] = f[p[i]] /\ g[q[j - 1]] = f[p[j]]
      BY <3>1, <2>1, <1>8
    <3> QED  BY <3>2, <3>3
  <2> QED  BY <2>2, <2>3
<1> QED  BY <1>14, <1>15

\* There is no least number of names that cannot be sorted.
LEMMA EveryNumberSorts ==
    ASSUME NEW n \in Nat
    PROVE  Sortable(n)
<1> DEFINE Bad == {k \in Nat : ~Sortable(k)}
<1> SUFFICES ASSUME Bad # {}
             PROVE  FALSE
  OBVIOUS
<1>1. PICK k \in Bad : \A l \in Bad : k <= l
  BY LeastOf
<1>2. CASE k = 0
  <2>1. \A f : [i \in 1..0 |-> i] \in Bijection(1..0, 1..0) /\ InOrder(0, f, [i \in 1..0 |-> i])
    BY DEF Bijection, Injection, Surjection, IsInjective, InOrder
  <2> QED  BY <2>1, <1>1, <1>2 DEF Sortable
<1>3. CASE k # 0
  <2>1. k - 1 \in Nat /\ k - 1 \notin Bad
    BY <1>1, <1>3
  <2> QED  BY <2>1, <1>1, OneMoreSorts
<1> QED  BY <1>2, <1>3

------------------------------------------------------------------------------
(* Names.                                                                    *)

Distinct(tools) == Cardinality(Names(tools)) = Len(tools)

\* Counting the names tells whether one comes twice.
LEMMA DistinctIs ==
    ASSUME NEW T, NEW t \in Seq(T)
    PROVE  Distinct(t) <=> \A i, j \in DOMAIN t : t[i].name = t[j].name => i = j
<1> DEFINE f == [i \in 1..Len(t) |-> t[i].name]
<1>1. IsFiniteSet(1..Len(t)) /\ Cardinality(1..Len(t)) = Len(t)
  <2>1. 1 \in Int /\ Len(t) \in Int /\ Len(t) \in Nat
    OBVIOUS
  <2> HIDE DEF f
  <2>2. /\ IsFiniteSet(1..Len(t))
        /\ Cardinality(1..Len(t)) = IF 1 > Len(t) THEN 0 ELSE Len(t) - 1 + 1
    BY <2>1, FS_Interval
  <2>3. (IF 1 > Len(t) THEN 0 ELSE Len(t) - 1 + 1) = Len(t)
    BY <2>1
  <2> QED  BY <2>2, <2>3
<1>2. f \in Surjection(1..Len(t), Names(t))
  BY DEF Names, Surjection
<1>3. f \in [1..Len(t) -> Names(t)]
  BY DEF Names
<1>4. f \in Injection(1..Len(t), Names(t)) <=> \A i, j \in 1..Len(t) : f[i] = f[j] => i = j
  <2> HIDE DEF f
  <2> QED  BY <1>3 DEF Injection, IsInjective
<1>5. Cardinality(Names(t)) = Cardinality(1..Len(t)) <=> f \in Injection(1..Len(t), Names(t))
  <2> HIDE DEF f
  <2> QED  BY <1>1, <1>2, FS_Surjection
<1>6. DOMAIN t = 1..Len(t) /\ \A i \in 1..Len(t) : f[i] = t[i].name
  OBVIOUS
<1> HIDE DEF f
<1> QED  BY <1>1, <1>4, <1>5, <1>6 DEF Distinct

\* Sorting changes only the order.
LEMMA SortedIs ==
    ASSUME NEW T, NEW t \in Seq(T), \A i \in DOMAIN t : t[i].name \in Nat, Distinct(t)
    PROVE  /\ Sorted(t) \in Seq(T)
           /\ Len(Sorted(t)) = Len(t)
           /\ Distinct(Sorted(t))
<1> DEFINE D == 1..Len(t)
           f == [i \in D |-> t[i].name]
           InNames(p) == \A i, j \in D : i < j => t[p[i]].name < t[p[j]].name
           order == CHOOSE p \in Bijection(D, D) : InNames(p)
<1>1. DOMAIN t = D /\ Len(t) \in Nat
  OBVIOUS
<1>2. f \in Injection(D, Nat)
  <2>1. f \in [D -> Nat]
    BY <1>1
  <2>2. \A i, j \in D : f[i] = f[j] => i = j
    BY <1>1, DistinctIs
  <2> HIDE DEF f
  <2> QED  BY <2>1, <2>2 DEF Injection, IsInjective
<1>3. PICK p \in Bijection(D, D) : InOrder(Len(t), f, p)
  BY <1>1, <1>2, EveryNumberSorts DEF Sortable
<1>4. InNames(p)
  <2>1. p \in [D -> D]
    BY DEF Bijection, Injection
  <2> QED  BY <1>3, <2>1 DEF InOrder
<1>5. order \in Bijection(D, D)
  BY <1>4
<1>6. Sorted(t) = [i \in D |-> t[order[i]]]
  BY <1>1 DEF Sorted
<1> HIDE DEF order
<1>7. order \in [D -> D] /\ \A k \in D : \E i \in D : order[i] = k
  BY <1>5 DEF Bijection, Injection, Surjection
<1>8. \A i \in D : t[order[i]] \in T
  BY <1>7
<1>9. Sorted(t) \in Seq(T) /\ Len(Sorted(t)) = Len(t) /\ DOMAIN Sorted(t) = D
  BY <1>6, <1>8
<1>10. Names(Sorted(t)) = Names(t)
  <2>1. \A i \in D : Sorted(t)[i].name = t[order[i]].name
    BY <1>6
  <2>2. Names(t) = {t[i].name : i \in D} /\ Names(Sorted(t)) = {Sorted(t)[i].name : i \in D}
    BY <1>1, <1>9 DEF Names
  <2> HIDE DEF D
  <2>3. ASSUME NEW i \in D
        PROVE  Sorted(t)[i].name \in Names(t)
    BY <1>7, <2>1, <2>2
  <2>4. ASSUME NEW k \in D
        PROVE  t[k].name \in Names(Sorted(t))
    <3>1. PICK i \in D : order[i] = k
      BY <1>7
    <3>2. Sorted(t)[i].name = t[k].name
      BY <2>1, <3>1
    <3>3. Sorted(t)[i].name \in Names(Sorted(t))
      BY <2>2
    <3> QED  BY <3>2, <3>3
  <2>5. Names(t) \subseteq Names(Sorted(t))
    BY <2>2, <2>4
  <2>6. Names(Sorted(t)) \subseteq Names(t)
    BY <2>2, <2>3
  <2> QED  BY <2>5, <2>6
<1> QED  BY <1>9, <1>10 DEF Distinct

\* A beginning of the catalog, and the page that goes on from there.
LEMMA PageExtends ==
    ASSUME NEW T, NEW c \in Seq(T), NEW n \in 0..Len(c), NEW m \in n..Len(c)
    PROVE  /\ SubSeq(c, 1, n) \o SubSeq(c, n + 1, m) = SubSeq(c, 1, m)
           /\ Len(SubSeq(c, 1, n)) + Len(SubSeq(c, n + 1, m)) = m
           /\ Len(SubSeq(c, 1, m)) = m
           /\ \A i \in DOMAIN SubSeq(c, n + 1, m) : \E k \in DOMAIN c : SubSeq(c, n + 1, m)[i] = c[k]
           /\ \A i \in 1..m : SubSeq(c, 1, m)[i] = c[i]
           /\ SubSeq(c, 1, m) \in Seq(T) /\ DOMAIN SubSeq(c, 1, m) = 1..m
<1> DEFINE before == SubSeq(c, 1, n)
           page == SubSeq(c, n + 1, m)
           after == SubSeq(c, 1, m)
<1>1. n \in Nat /\ m \in Nat /\ n <= m /\ m <= Len(c) /\ Len(c) \in Nat
  OBVIOUS
<1>2. \A i \in 1..Len(c) : c[i] \in T
  OBVIOUS
<1>3. before \in Seq(T) /\ Len(before) = n /\ \A i \in 1..n : before[i] = c[i]
  BY <1>1, <1>2, SubSeqProperties
<1>4. after \in Seq(T) /\ Len(after) = m /\ \A i \in 1..m : after[i] = c[i]
  BY <1>1, <1>2, SubSeqProperties
<1>5. page \in Seq(T) /\ Len(page) = m - n /\ \A i \in 1..m - n : page[i] = c[n + i]
  BY <1>1, <1>2, SubSeqProperties
<1> HIDE DEF before, page, after
<1>6. before \o page = after
  <2>1. before \o page \in Seq(T) /\ Len(before \o page) = m
    <3>1. /\ before \o page \in Seq(T)
          /\ Len(before \o page) = Len(before) + Len(page)
      BY <1>3, <1>5, ConcatProperties
    <3>2. n + (m - n) = m
      BY <1>1
    <3> QED  BY <3>1, <3>2, <1>3, <1>5
  <2>2. ASSUME NEW i \in 1..m
        PROVE  (before \o page)[i] = after[i]
    <3>0. (before \o page)[i] = IF i <= Len(before) THEN before[i] ELSE page[i - Len(before)]
      <4>1. i \in 1..Len(before) + Len(page)
        BY <1>1, <1>3, <1>5
      <4> QED  BY <4>1, <1>3, <1>5, ConcatProperties
    <3>1. CASE i <= n
      BY <3>0, <3>1, <1>1, <1>3, <1>4
    <3>2. CASE i > n
      <4>1. i - n \in 1..m - n /\ n + (i - n) = i
        BY <3>2, <1>1
      <4>2. (before \o page)[i] = page[i - n]
        BY <3>0, <3>2, <1>1, <1>3
      <4> QED  BY <4>1, <4>2, <1>4, <1>5
    <3>3. i <= n \/ i > n
      BY <1>1
    <3> QED  BY <3>1, <3>2, <3>3
  <2> QED  BY <2>1, <2>2, <1>4, SeqEqual
<1>7. \A i \in DOMAIN page : \E k \in DOMAIN c : page[i] = c[k]
  <2> TAKE i \in DOMAIN page
  <2>1. n + i \in DOMAIN c /\ page[i] = c[n + i]
    BY <1>1, <1>5
  <2> QED  BY <2>1
<1>8. Len(before) + Len(page) = m /\ DOMAIN after = 1..m
  BY <1>1, <1>3, <1>4, <1>5
<1> QED  BY <1>4, <1>6, <1>7, <1>8 DEF before, page, after

\* What the configured servers and the rogues may declare.
LEMMA ToolsAre ==
    /\ \A s \in Server : Catalog[s] \in Seq(Tool)
    /\ \A page \in RoguePages : page.tools \in Seq(Tool)
    /\ \A tool \in Tool : tool.name \in Nat
<1> DEFINE Lists == Range(Catalog) \union {page.tools : page \in RoguePages}
<1>1. \A t \in Lists : t \in Seq(Range(t)) /\ \A i \in DOMAIN t : t[i].name \in Nat
  BY DiscoveryAssumption
<1>2. \A s \in Server : Catalog[s] \in Lists /\ Range(Catalog[s]) \subseteq Tool
  <2>1. \A s \in Server : Catalog[s] \in Lists
    BY DiscoveryAssumption DEF Range
  <2> QED  BY <2>1 DEF Tool
<1>3. \A page \in RoguePages : page.tools \in Lists /\ Range(page.tools) \subseteq Tool
  BY DEF Tool
<1>4. ASSUME NEW tool \in Tool
      PROVE  tool.name \in Nat
  <2>1. \E t \in Lists : tool \in Range(t)
    <3> HIDE DEF Lists
    <3> QED  BY <1>2, <1>3 DEF Tool
  <2>2. PICK t \in Lists : \E i \in DOMAIN t : tool = t[i]
    BY <2>1 DEF Range
  <2> QED  BY <2>2, <1>1
<1> HIDE DEF Lists
<1>5. \A t \in Lists : Range(t) \subseteq Tool => t \in Seq(Tool)
  BY <1>1
<1> QED  BY <1>2, <1>3, <1>4, <1>5

LEMMA CatalogIs ==
    ASSUME NEW s \in Server
    PROVE  Catalog[s] \in Seq(Tool) /\ Len(Catalog[s]) \in Nat /\ Distinct(Catalog[s])
<1>1. Catalog[s] \in Seq(Tool)
  BY ToolsAre
<1>2. \A i, j \in DOMAIN Catalog[s] : Catalog[s][i].name = Catalog[s][j].name => i = j
  BY DiscoveryAssumption DEF IsInjective
<1>3. Distinct(Catalog[s])
  BY <1>1, <1>2, DistinctIs
<1> QED  BY <1>1, <1>3

------------------------------------------------------------------------------
(* The inductive invariant.                                                  *)

EraOf(s) == IF "stateless" \in Speaks[s] THEN "stateless" ELSE "legacy"

\* The revisions of s are in d, or d says why they are not.
Reports(s, d) == d.versions = Versions[s] \/ d.warnings \intersect {"unreported", "late"} # {}

\* What may be recorded of s.
Fits(s, d) ==
    /\ d.era = EraOf(s)
    /\ Reports(s, d)
    /\ Distinct(d.tools)
    /\ s \notin Rogue => d.tools = Sorted(Catalog[s])

\* Why s may be refused.
Reason(s, n) ==
    \/ fault
    \/ s \in Rogue
    \/ Len(Catalog[s]) > MaxTools
    \/ n > MaxPages /\ Len(Catalog[s]) > MaxPages
    \/ Range(Catalog[s]) \intersect Rejected # {}

Closing == stage \in {"close", "closed"}

\* Each server before the one whose turn it is has been recorded.
TurnInv ==
    /\ Len(found) = server - 1
    /\ stage = "done" <=> server = NumServers + 1
    /\ \A s \in DOMAIN found : Fits(s, found[s])

\* Only a server that does not speak the newer lifecycle is asked for the older.
EraInv ==
    /\ stage = "legacy" => "stateless" \notin Speaks[server]
    /\ Introspecting \/ Closing => draft.era = EraOf(server)
    /\ stage \in {"identity", "page"} => Reports(server, draft)

\* The session of the server whose turn it is, until it has been closed.
SessionInv ==
    live \subseteq late \union (IF Introspecting \/ stage = "close" THEN {server} ELSE {})

From == IF cursor = None THEN 0 ELSE cursor

\* What has been read of a sound server is its catalog up to the cursor, a tool a page at least.
Listed ==
    /\ pages <= MaxPages
    /\ Distinct(draft.tools)
    /\ server \notin Rogue =>
        /\ From \in 0..Len(Catalog[server]) /\ (cursor # None => From < Len(Catalog[server]))
        /\ draft.tools = SubSeq(Catalog[server], 1, From)
        /\ pages <= From
        /\ cursors \subseteq 1..From

ListInv ==
    /\ stage \in {"open", "legacy", "versions", "identity"} =>
        draft.tools = <<>> /\ cursor = None /\ cursors = {} /\ pages = 0
    /\ stage = "page" => Listed

\* What an introspection comes to.
ResultInv ==
    /\ Closing => result \in {"ok", "error"}
    /\ Closing /\ result = "ok" => Fits(server, draft)
    /\ (Closing /\ result = "error") \/ stage = "failed" => Reason(server, pages)

DiscInv == TypeOK /\ TurnInv /\ EraInv /\ SessionInv /\ ListInv /\ ResultInv

------------------------------------------------------------------------------
(* Every step keeps it.                                                      *)

LEMMA NoToolsAreDistinct == Distinct(<<>>)
<1>1. Names(<<>>) = {} /\ Len(<<>>) = 0
  BY DEF Names
<1> QED  BY <1>1, FS_EmptySet DEF Distinct

LEMMA DiscInit ==
    ASSUME Init
    PROVE  DiscInv
<1>1. NoDraft \in Draft /\ NoDraft.tools = <<>> /\ Len(NoDraft.tools) = 0
  BY DEF NoDraft, Draft
<1>2. NumServers \in Nat /\ MaxPages \in Nat /\ MaxTools \in Nat
  BY DiscoveryAssumption
<1>3. TypeOK
  <2>1. found \in Seq(Draft) /\ DOMAIN found = {}
    BY DEF Init
  <2>2. /\ server = 1 /\ draft = NoDraft /\ cursor = None /\ pages = 0 /\ result = None
        /\ stage \in {"open", "done"} /\ live = {} /\ late = {} /\ fault = FALSE
    BY DEF Init
  <2>3. draft \in Draft /\ Len(draft.tools) <= MaxTools
    BY <1>1, <1>2, <2>2
  <2>4. server \in 1..NumServers + 1 /\ pages \in 0..MaxPages + 1
    BY <1>2, <2>2
  <2>5. \A s \in DOMAIN found : Len(found[s].tools) <= MaxTools
    BY <2>1
  <2> QED  BY <2>1, <2>2, <2>3, <2>4, <2>5 DEF TypeOK
<1>4. TurnInv /\ EraInv /\ SessionInv /\ ListInv /\ ResultInv
  BY <1>1, <1>2 DEF Init, TurnInv, EraInv, SessionInv, ListInv, ResultInv, Introspecting, Closing
<1> QED  BY <1>3, <1>4 DEF DiscInv

\* As long as discovery runs it is some server's turn.
LEMMA TurnOfServer ==
    ASSUME TypeOK, TurnInv, stage # "done"
    PROVE  server \in Server
  BY DiscoveryAssumption DEF TypeOK, TurnInv, Server

LEMMA ConnectKeeps ==
    ASSUME DiscInv, Connect \/ ConnectLegacy \/ ConnectFails
    PROVE  DiscInv'
<1> USE DEF DiscInv
<1>1. server \in Server
  BY TurnOfServer DEF Connect, ConnectLegacy, ConnectFails
<1>2. ASSUME NEW era \in Era, era = EraOf(server), stage \in {"open", "legacy"}, Establish(era)
      PROVE  DiscInv'
  <2>1. /\ draft' \in Draft /\ draft'.era = era /\ draft'.tools = draft.tools
    BY <1>2 DEF Establish, TypeOK, Draft
  <2>2. TypeOK'
    BY <1>1, <1>2, <2>1 DEF Establish, TypeOK, listing
  <2>3. TurnInv'
    BY <1>2 DEF Establish, TurnInv, Fits, Reports
  <2>4. EraInv' /\ SessionInv'
    BY <1>2, <2>1 DEF Establish, EraInv, SessionInv, Introspecting, Closing, EraOf
  <2>5. ListInv' /\ ResultInv'
    BY <1>2, <2>1 DEF Establish, ListInv, ResultInv, Introspecting, Closing, listing
  <2> QED  BY <2>2, <2>3, <2>4, <2>5
<1>3. ASSUME stage \in {"open", "legacy"}, stage' \in {"legacy", "failed"},
             stage' = "legacy" => "stateless" \notin Speaks[server] /\ fault' = fault,
             stage' = "failed" => fault' = TRUE,
             UNCHANGED <<server, draft, listing, result, sessions, found>>
      PROVE  DiscInv'
  <2>1. TypeOK'
    BY <1>3 DEF TypeOK, listing, sessions
  <2>2. TurnInv' /\ EraInv' /\ SessionInv'
    BY <1>1, <1>3, DiscoveryAssumption
       DEF TurnInv, EraInv, SessionInv, Introspecting, Closing, Fits, Reports, EraOf, sessions, Server
  <2>3. ListInv' /\ ResultInv'
    BY <1>3 DEF ListInv, ResultInv, Reason, Closing, listing
  <2> QED  BY <2>1, <2>2, <2>3
<1>4. CASE Connect
  <2>1. CASE Establish("stateless")
    <3>1. EraOf(server) = "stateless" /\ "stateless" \in Era
      BY <2>1 DEF Establish, EraOf, Era
    <3> QED  BY <1>2, <1>4, <2>1, <3>1 DEF Connect
  <2>2. CASE ~Establish("stateless")
    BY <1>3, <1>4, <2>2 DEF Connect
  <2> QED  BY <2>1, <2>2
<1>5. CASE ConnectLegacy
  BY <1>2, <1>5 DEF ConnectLegacy, EraInv, EraOf, Era
<1>6. CASE ConnectFails
  BY <1>3, <1>6 DEF ConnectFails
<1> QED  BY <1>4, <1>5, <1>6

LEMMA VersionsKeeps ==
    ASSUME DiscInv, SupportedVersions
    PROVE  DiscInv'
<1> USE DEF DiscInv
<1>1. server \in Server
  BY TurnOfServer DEF SupportedVersions
<1>2. Versions[server] \in Range(Versions)
  BY <1>1, DiscoveryAssumption DEF Range
<1>3. draft' \in Draft /\ draft'.era = draft.era /\ draft'.tools = draft.tools
  BY <1>2 DEF SupportedVersions, TypeOK, Draft
<1>4. Reports(server, draft')
  BY DEF SupportedVersions, TypeOK, Draft, Reports
<1>5. TypeOK'
  BY <1>3 DEF SupportedVersions, TypeOK, listing, sessions
<1>6. TurnInv' /\ EraInv' /\ SessionInv'
  BY <1>3, <1>4 DEF SupportedVersions, TurnInv, EraInv, SessionInv, Introspecting, Closing, Fits, Reports, EraOf, sessions
<1>7. ListInv' /\ ResultInv'
  BY <1>3 DEF SupportedVersions, ListInv, ResultInv, Closing, listing
<1> QED  BY <1>5, <1>6, <1>7

\* The introspection of a server that may be refused ends with an error.
LEMMA FailIntrospectionKeeps ==
    ASSUME DiscInv, Introspecting, FailIntrospection, pages' \in 0..MaxPages + 1, fault' \in BOOLEAN,
           Reason(server, pages)', UNCHANGED <<server, draft, cursor, cursors, sessions, found>>
    PROVE  DiscInv'
<1> USE DEF DiscInv, FailIntrospection
<1>1. TypeOK'
  BY DEF TypeOK, sessions
<1>2. TurnInv' /\ EraInv' /\ SessionInv'
  BY DiscoveryAssumption
     DEF TurnInv, EraInv, SessionInv, Introspecting, Closing, Fits, Reports, EraOf, sessions
<1>3. ListInv' /\ ResultInv'
  BY DEF ListInv, ResultInv, Closing
<1> QED  BY <1>1, <1>2, <1>3

LEMMA IdentityKeeps ==
    ASSUME DiscInv, ReadIdentity
    PROVE  DiscInv'
<1> USE DEF DiscInv
<1>1. CASE server \in Rogue /\ FailIntrospection
  BY <1>1, FailIntrospectionKeeps DEF ReadIdentity, Introspecting, TypeOK, Reason, listing, sessions
<1>2. CASE stage' = "page" /\ UNCHANGED result
  <2>1. server \in Server
    BY TurnOfServer DEF ReadIdentity
  <2>2. TypeOK'
    BY <1>2 DEF ReadIdentity, TypeOK, listing, sessions
  <2>3. TurnInv' /\ EraInv' /\ SessionInv'
    BY <1>2 DEF ReadIdentity, TurnInv, EraInv, SessionInv, Introspecting, Closing, Fits, Reports, EraOf, sessions
  <2>4. draft.tools = <<>> /\ cursor = None /\ cursors = {} /\ pages = 0
    BY DEF ReadIdentity, ListInv
  <2>5. Catalog[server] \in Seq(Tool)
    BY <2>1, ToolsAre
  <2>6. Len(Catalog[server]) \in Nat /\ SubSeq(Catalog[server], 1, 0) = <<>>
    BY <2>5, SubSeqEmpty
  <2>7. Listed
    BY <2>4, <2>6, NoToolsAreDistinct, DiscoveryAssumption DEF Listed, From
  <2>8. ListInv' /\ ResultInv'
    BY <1>2, <2>7 DEF ReadIdentity, ListInv, Listed, From, ResultInv, Closing, listing
  <2> QED  BY <2>2, <2>3, <2>8
<1> QED  BY <1>1, <1>2 DEF ReadIdentity

\* The catalog of a sound server: a page goes on from the cursor, and is refused for a reason.
LEMMA SoundPage ==
    ASSUME DiscInv, stage = "page", server \notin Rogue, NEW page \in Answers
    PROVE  /\ page.tools \in Seq(Tool)
           /\ \/ page.next = None /\ draft.tools \o page.tools = Catalog[server]
              \/ /\ page.next \in From + 1..Len(Catalog[server]) - 1
                 /\ draft.tools \o page.tools = SubSeq(Catalog[server], 1, page.next)
           /\ page.next \notin cursors
           /\ Acceptable(page) \/ Reason(server, pages)
<1> DEFINE c == Catalog[server]
<1>1. server \in Server
  BY TurnOfServer DEF DiscInv
<1>2. c \in Seq(Tool) /\ Len(c) \in Nat /\ Distinct(c)
  BY <1>1, CatalogIs
<1>3. /\ From \in 0..Len(c) /\ (cursor # None => From < Len(c))
      /\ draft.tools = SubSeq(c, 1, From)
      /\ cursors \subseteq 1..From
  BY DEF DiscInv, ListInv, Listed
<1>4. PICK to \in 0..Len(c) :
        /\ to > From \/ to = Len(c)
        /\ page = [tools |-> SubSeq(c, From + 1, to), next |-> IF to = Len(c) THEN None ELSE to]
  BY DEF Answers, From
<1>5. page.tools = SubSeq(c, From + 1, to) /\ page.next = IF to = Len(c) THEN None ELSE to
  BY <1>4
<1>6. to \in From..Len(c)
  BY <1>2, <1>3, <1>4
<1> HIDE DEF c
<1>7. /\ draft.tools \o page.tools = SubSeq(c, 1, to)
      /\ Len(draft.tools) + Len(page.tools) = to
      /\ Len(SubSeq(c, 1, to)) = to
      /\ \A i \in DOMAIN page.tools : \E k \in DOMAIN c : page.tools[i] = c[k]
      /\ \A i \in 1..to : SubSeq(c, 1, to)[i] = c[i]
      /\ SubSeq(c, 1, to) \in Seq(Tool) /\ DOMAIN SubSeq(c, 1, to) = 1..to
  BY <1>2, <1>3, <1>5, <1>6, PageExtends
<1>8. page.tools \in Seq(Tool)
  <2>1. \A i \in From + 1..to : c[i] \in Tool
    BY <1>2, <1>3, <1>6
  <2> QED  BY <1>2, <1>3, <1>5, <1>6, <2>1, SubSeqProperties
<1>9. \/ page.next = None /\ draft.tools \o page.tools = c
      \/ /\ page.next \in From + 1..Len(c) - 1
         /\ draft.tools \o page.tools = SubSeq(c, 1, page.next)
  <2>1. CASE to = Len(c)
    <3>1. SubSeq(c, 1, to) = c
      BY <2>1, <1>2, <1>7, SeqEqual
    <3> QED  BY <2>1, <3>1, <1>5, <1>7
  <2>2. CASE to # Len(c)
    <3>1. to > From /\ to < Len(c) /\ to \in Nat /\ From \in Nat
      BY <2>2, <1>2, <1>3, <1>4
    <3>2. to \in From + 1..Len(c) - 1
      BY <3>1, <1>2
    <3>3. page.next = to
      BY <2>2, <1>5
    <3> QED  BY <3>2, <3>3, <1>7
  <2> QED  BY <2>1, <2>2
<1>10. page.next \notin cursors
  <2>1. From \in Nat /\ cursors \subseteq 1..From
    BY <1>2, <1>3
  <2>2. CASE page.next = None
    <3>1. None \notin 1..From
      BY <2>1, DiscoveryAssumption
    <3> QED  BY <2>1, <2>2, <3>1
  <2>3. CASE page.next \in From + 1..Len(c) - 1
    BY <2>1, <2>3, <1>2
  <2> QED  BY <2>2, <2>3, <1>9
<1>11. Distinct(SubSeq(c, 1, to))
  <2>1. \A i, j \in DOMAIN c : c[i].name = c[j].name => i = j
    BY <1>2, DistinctIs
  <2>2. \A i \in 1..to : i \in DOMAIN c
    BY <1>2, <1>6
  <2>3. \A i, j \in 1..to : SubSeq(c, 1, to)[i].name = SubSeq(c, 1, to)[j].name => i = j
    BY <1>7, <2>1, <2>2
  <2> QED  BY <1>7, <2>3, DistinctIs
<1>12. Acceptable(page) \/ Reason(server, pages)
  <2>1. Cardinality(Names(draft.tools \o page.tools)) = Len(draft.tools) + Len(page.tools)
    BY <1>7, <1>11 DEF Distinct
  <2> MaxTools \in Nat /\ to \in Nat /\ to <= Len(c) /\ Len(c) \in Nat
    BY <1>2, <1>3, <1>6, DiscoveryAssumption
  <2>2. CASE \E i \in DOMAIN page.tools : page.tools[i] \in Rejected
    <3>1. Range(c) \intersect Rejected # {}
      BY <2>2, <1>7 DEF Range
    <3> QED  BY <3>1 DEF Reason, c
  <2>3. CASE to > MaxTools
    <3>1. Len(c) > MaxTools
      BY <2>3
    <3> QED  BY <3>1 DEF Reason, c
  <2>4. CASE to <= MaxTools /\ \A i \in DOMAIN page.tools : page.tools[i] \notin Rejected
    <3>1. Len(draft.tools) + Len(page.tools) <= MaxTools
      <4>1. Len(draft.tools) + Len(page.tools) = to
        BY <1>7
      <4>2. to <= MaxTools
        BY <2>4
      <4> QED  BY ONLY <4>1, <4>2
    <3> QED  BY <2>1, <2>4, <3>1 DEF Acceptable
  <2>5. to > MaxTools \/ to <= MaxTools
    OBVIOUS
  <2> QED  BY <2>2, <2>3, <2>4, <2>5
<1> QED  BY <1>8, <1>9, <1>10, <1>12 DEF c

LEMMA ListToolsKeeps ==
    ASSUME DiscInv, ListTools
    PROVE  DiscInv'
<1>1. /\ stage = "page" /\ pages' = pages + 1 /\ server \in Server
      /\ TypeOK /\ TurnInv /\ EraInv /\ SessionInv /\ ListInv /\ ResultInv /\ Listed
      /\ UNCHANGED <<server, sessions, fault, found>>
  BY TurnOfServer DEF ListTools, DiscInv, ListInv
<1>2. /\ pages \in 0..MaxPages /\ MaxPages \in Nat \ {0} /\ MaxTools \in Nat /\ pages' \in 1..MaxPages + 1
  BY <1>1, DiscoveryAssumption DEF TypeOK, Listed
<1>3. Catalog[server] \in Seq(Tool) /\ Len(Catalog[server]) \in Nat
  BY <1>1, CatalogIs
<1>4. ASSUME FailIntrospection, Reason(server, pages'), UNCHANGED <<draft, cursor, cursors>>
      PROVE  DiscInv'
  <2>1. Reason(server, pages)'
    BY <1>1, <1>4 DEF Reason
  <2> QED  BY <1>1, <1>2, <1>4, <2>1, FailIntrospectionKeeps DEF Introspecting, TypeOK
<1>5. CASE pages' > MaxPages /\ TooMany /\ UNCHANGED <<draft, cursor, cursors>>
  <2>1. pages = MaxPages
    BY <1>1, <1>2, <1>5
  <2>2. server \notin Rogue => Len(Catalog[server]) > MaxPages
    BY <2>1, <1>1, <1>2, <1>3 DEF Listed, From
  <2> QED  BY <2>2, <1>4, <1>5 DEF Reason, TooMany
<1>6. CASE pages' <= MaxPages /\ \E page \in Answers :
              LET tools == draft.tools \o page.tools
              IN  \/ /\ ~Acceptable(page) \/ page.next \in cursors
                     /\ FailIntrospection
                     /\ UNCHANGED <<draft, cursor, cursors>>
                  \/ /\ Acceptable(page) /\ page.next = None
                     /\ draft' = [draft EXCEPT !.tools = Sorted(tools)]
                     /\ result' = "ok" /\ stage' = "close"
                     /\ UNCHANGED <<cursor, cursors>>
                  \/ /\ Acceptable(page) /\ page.next \notin cursors \union {None}
                     /\ draft' = [draft EXCEPT !.tools = tools]
                     /\ cursor' = page.next
                     /\ cursors' = cursors \union {page.next}
                     /\ UNCHANGED <<result, stage>>
  <2> PICK page \in Answers :
            \/ /\ ~Acceptable(page) \/ page.next \in cursors
               /\ FailIntrospection
               /\ UNCHANGED <<draft, cursor, cursors>>
            \/ /\ Acceptable(page) /\ page.next = None
               /\ draft' = [draft EXCEPT !.tools = Sorted(draft.tools \o page.tools)]
               /\ result' = "ok" /\ stage' = "close"
               /\ UNCHANGED <<cursor, cursors>>
            \/ /\ Acceptable(page) /\ page.next \notin cursors \union {None}
               /\ draft' = [draft EXCEPT !.tools = draft.tools \o page.tools]
               /\ cursor' = page.next
               /\ cursors' = cursors \union {page.next}
               /\ UNCHANGED <<result, stage>>
    BY <1>6
  <2> DEFINE tools == draft.tools \o page.tools
  <2>1. draft \in Draft /\ draft.tools \in Seq(Tool)
    BY <1>1 DEF TypeOK, Draft
  <2>2. page.tools \in Seq(Tool)
    <3>1. CASE server \in Rogue
      BY <3>1, ToolsAre DEF Answers
    <3>2. CASE server \notin Rogue
      BY <3>2, <1>1, SoundPage DEF DiscInv
    <3> QED  BY <3>1, <3>2
  <2>3. /\ tools \in Seq(Tool) /\ Len(tools) = Len(draft.tools) + Len(page.tools)
        /\ Len(tools) \in Nat
    <3>1. tools \in Seq(Tool) /\ Len(tools) = Len(draft.tools) + Len(page.tools)
      BY <2>1, <2>2, ConcatProperties
    <3> HIDE DEF tools
    <3>2. tools \in Seq(Tool)
      BY <3>1
    <3>3. Len(tools) \in Nat
      BY <3>2
    <3> QED  BY <3>1, <3>3
  <2>4. Acceptable(page) => Distinct(tools) /\ Len(tools) <= MaxTools
    BY <2>3 DEF Acceptable, Distinct
  <2>5. CASE /\ ~Acceptable(page) \/ page.next \in cursors
             /\ FailIntrospection
             /\ UNCHANGED <<draft, cursor, cursors>>
    <3>1. Reason(server, pages')
      <4>1. CASE server \in Rogue
        BY <4>1 DEF Reason
      <4>2. CASE server \notin Rogue
        <5>1. Reason(server, pages)
          BY <4>2, <2>5, <1>1, SoundPage DEF DiscInv
        <5> QED  BY <5>1, <1>1, <1>2 DEF Reason
      <4> QED  BY <4>1, <4>2
    <3> QED  BY <3>1, <2>5, <1>4
  <2>6. CASE /\ Acceptable(page) /\ page.next = None
             /\ draft' = [draft EXCEPT !.tools = Sorted(tools)]
             /\ result' = "ok" /\ stage' = "close"
             /\ UNCHANGED <<cursor, cursors>>
    <3>1. \A i \in DOMAIN tools : tools[i].name \in Nat
      <4> HIDE DEF tools
      <4>1. \A i \in DOMAIN tools : tools[i] \in Tool
        <5>1. tools \in Seq(Tool)
          BY <2>3
        <5> QED  BY <5>1
      <4> QED  BY <4>1, ToolsAre
    <3> HIDE DEF tools
    <3>2. Sorted(tools) \in Seq(Tool) /\ Len(Sorted(tools)) = Len(tools) /\ Distinct(Sorted(tools))
      BY <2>3, <2>4, <2>6, <3>1, SortedIs
    <3>3. /\ draft' \in Draft /\ draft'.tools = Sorted(tools) /\ draft'.era = draft.era
          /\ draft'.versions = draft.versions /\ draft'.warnings = draft.warnings
      BY <2>1, <2>6, <3>2 DEF Draft
    <3>4. TypeOK'
      <4>1. Len(draft'.tools) <= MaxTools
        BY <2>4, <2>6, <3>2, <3>3
      <4>2. /\ stage' = "close" /\ result' = "ok" /\ pages' \in 0..MaxPages + 1
            /\ UNCHANGED <<cursor, cursors, server, live, late, fault, found>>
        BY <1>1, <1>2, <2>6 DEF sessions
      <4> QED  BY <1>1, <3>3, <4>1, <4>2 DEF TypeOK
    <3>5. TurnInv' /\ EraInv' /\ SessionInv' /\ ListInv'
      BY <1>1, <2>6, <3>3
         DEF TurnInv, EraInv, SessionInv, ListInv, Introspecting, Closing, Fits, Reports, sessions
    <3>6. server \notin Rogue => tools = Catalog[server]
      <4> SUFFICES ASSUME server \notin Rogue
                   PROVE  tools = Catalog[server]
        OBVIOUS
      <4>1. page.next = None \/ page.next \in From + 1..Len(Catalog[server]) - 1
        BY <1>1, SoundPage DEF DiscInv
      <4>2. page.next = None => ~(page.next \in From + 1..Len(Catalog[server]) - 1)
        <5>1. From \in Nat
          BY <1>1, <1>3 DEF Listed
        <5> QED  BY <5>1, <1>3, DiscoveryAssumption
      <4> QED  BY <2>6, <4>2, <1>1, SoundPage DEF DiscInv, tools
    <3>7. Fits(server, draft')
      BY <1>1, <3>2, <3>3, <3>6 DEF Fits, Reports, EraInv, Introspecting
    <3>8. ResultInv'
      BY <1>1, <2>6, <3>7 DEF ResultInv, Closing, Fits, Reports
    <3> QED  BY <3>4, <3>5, <3>8 DEF DiscInv
  <2>7. CASE /\ Acceptable(page) /\ page.next \notin cursors \union {None}
             /\ draft' = [draft EXCEPT !.tools = tools]
             /\ cursor' = page.next
             /\ cursors' = cursors \union {page.next}
             /\ UNCHANGED <<result, stage>>
    <3> HIDE DEF tools
    <3>1. /\ draft' \in Draft /\ draft'.tools = tools /\ draft'.era = draft.era
          /\ draft'.versions = draft.versions /\ draft'.warnings = draft.warnings
      BY <2>1, <2>3, <2>7 DEF Draft
    <3>2. TypeOK'
      BY <1>1, <1>2, <2>4, <2>7, <3>1 DEF TypeOK, sessions
    <3>3. TurnInv' /\ EraInv' /\ SessionInv'
      BY <1>1, <2>7, <3>1
         DEF TurnInv, EraInv, SessionInv, Introspecting, Closing, Fits, Reports, sessions
    <3>4. server \notin Rogue =>
            /\ From' \in 0..Len(Catalog[server]) /\ From' < Len(Catalog[server])
            /\ tools = SubSeq(Catalog[server], 1, From')
            /\ pages' <= From'
            /\ cursors' \subseteq 1..From'
      <4> SUFFICES ASSUME server \notin Rogue
                   PROVE  /\ From' \in 0..Len(Catalog[server]) /\ From' < Len(Catalog[server])
                          /\ tools = SubSeq(Catalog[server], 1, From')
                          /\ pages' <= From'
                          /\ cursors' \subseteq 1..From'
        OBVIOUS
      <4>1. /\ page.next \in From + 1..Len(Catalog[server]) - 1
            /\ tools = SubSeq(Catalog[server], 1, page.next)
        BY <1>1, <2>7, SoundPage DEF DiscInv, tools
      <4>2. From \in Nat /\ pages <= From /\ cursors \subseteq 1..From
        BY <1>1, <1>3 DEF Listed
      <4>3. From' = page.next
        BY <2>7 DEF From
      <4>4. From' \in Nat /\ From < From' /\ From' < Len(Catalog[server])
        BY <4>1, <4>2, <4>3, <1>3
      <4>5. pages' <= From'
        BY <4>2, <4>4, <1>1, <1>2
      <4>6. cursors' \subseteq 1..From'
        BY <4>2, <4>3, <4>4, <2>7
      <4> QED  BY <4>1, <4>3, <4>4, <4>5, <4>6, <1>3
    <3>5. ListInv'
      <4>1. Distinct(draft'.tools)
        BY <2>4, <2>7, <3>1
      <4> QED  BY <1>1, <1>6, <2>7, <3>1, <3>4, <4>1 DEF ListInv, Listed, Distinct, Names
    <3>6. ResultInv'
      BY <1>1, <2>7 DEF ResultInv, Closing
    <3> QED  BY <3>2, <3>3, <3>5, <3>6 DEF DiscInv
  <2> QED  BY <2>5, <2>6, <2>7
<1> QED  BY <1>5, <1>6 DEF ListTools

LEMMA FailuresKeep ==
    ASSUME DiscInv, PageFails \/ Abandon
    PROVE  DiscInv'
<1> USE DEF DiscInv
<1>1. CASE PageFails
  BY <1>1, FailIntrospectionKeeps, DiscoveryAssumption DEF PageFails, Introspecting, TypeOK, Reason
<1>2. CASE Abandon
  BY <1>2, FailIntrospectionKeeps DEF Abandon, TypeOK, Reason, listing
<1> QED  BY <1>1, <1>2

LEMMA CloseKeeps ==
    ASSUME DiscInv, Close
    PROVE  DiscInv'
<1> USE DEF DiscInv
<1> PICK clean \in BOOLEAN :
        /\ live' = IF clean THEN live \ {server} ELSE live
        /\ late' = IF clean THEN late ELSE late \union {server}
        /\ draft' = [draft EXCEPT !.warnings = IF clean THEN @ ELSE @ \union {"unclean"}]
  BY DEF Close
<1>1. server \in Server
  BY TurnOfServer DEF Close
<1>2. /\ draft' \in Draft /\ draft'.era = draft.era /\ draft'.tools = draft.tools
      /\ draft'.versions = draft.versions /\ draft.warnings \subseteq draft'.warnings
  BY DEF TypeOK, Draft
<1>3. TypeOK'
  BY <1>1, <1>2 DEF Close, TypeOK, listing
<1>4. TurnInv' /\ EraInv' /\ SessionInv'
  BY <1>2 DEF Close, TurnInv, EraInv, SessionInv, Introspecting, Closing, Fits, Reports, EraOf
<1>5. ListInv'
  BY DEF Close, ListInv
<1>6. ResultInv'
  BY <1>2 DEF Close, ResultInv, Closing, Fits, Reports, Reason, Distinct, listing
<1> QED  BY <1>3, <1>4, <1>5, <1>6

LEMMA ContinueKeeps ==
    ASSUME DiscInv, Continue
    PROVE  DiscInv'
<1> USE DEF DiscInv
<1>1. server \in Server
  BY TurnOfServer DEF Continue
<1>2. CASE result = "error"
  <2>1. stage = "closed" /\ stage' = "failed" /\ UNCHANGED <<server, draft, listing, result, found, sessions, fault>>
    BY <1>2 DEF Continue
  <2>2. TypeOK'
    BY <2>1 DEF TypeOK, listing, sessions
  <2>3. TurnInv' /\ EraInv' /\ SessionInv'
    BY <2>1 DEF TurnInv, EraInv, SessionInv, Introspecting, Closing, Fits, Reports, EraOf, sessions
  <2>4. ListInv' /\ ResultInv'
    BY <1>2, <2>1 DEF ListInv, ResultInv, Closing, Reason, listing
  <2> QED  BY <2>2, <2>3, <2>4
<1>3. CASE result = "ok"
  <2>1. /\ stage = "closed" /\ found' = Append(found, draft) /\ server' = server + 1
        /\ stage' = IF server = NumServers THEN "done" ELSE "open"
        /\ draft' = NoDraft /\ cursor' = None /\ cursors' = {} /\ pages' = 0 /\ result' = None
        /\ UNCHANGED <<sessions, fault>>
    BY <1>3 DEF Continue
  <2>2. NoDraft \in Draft /\ NoDraft.tools = <<>> /\ Len(NoDraft.tools) = 0
    BY DEF NoDraft, Draft
  <2>3. /\ found \in Seq(Draft) /\ draft \in Draft /\ Len(found) = server - 1
        /\ server \in 1..NumServers /\ NumServers \in Nat /\ MaxPages \in Nat /\ MaxTools \in Nat
    BY <1>1, DiscoveryAssumption DEF TypeOK, TurnInv, Server
  <2>4. /\ found' \in Seq(Draft) /\ Len(found') = server
        /\ \A s \in DOMAIN found' : \/ s \in DOMAIN found /\ found'[s] = found[s]
                                    \/ s = server /\ found'[s] = draft
    BY <2>1, <2>3
  <2>5. Fits(server, draft)
    BY <1>3, <2>1 DEF ResultInv, Closing
  <2>6. TypeOK'
    BY <2>1, <2>2, <2>3, <2>4 DEF TypeOK, sessions
  <2>7. \A s \in DOMAIN found' : Fits(s, found'[s])
    BY <2>4, <2>5 DEF TurnInv
  <2>8. TurnInv'
    <3>1. Len(found') = server' - 1 /\ (stage' = "done" <=> server' = NumServers + 1)
      BY <2>1, <2>3, <2>4
    <3> QED  BY <2>7, <3>1 DEF TurnInv, Fits, Reports
  <2>9. EraInv' /\ SessionInv' /\ ListInv' /\ ResultInv'
    BY <2>1, <2>2 DEF EraInv, SessionInv, ListInv, ResultInv, Introspecting, Closing, sessions
  <2> QED  BY <2>6, <2>8, <2>9
<1> QED  BY <1>2, <1>3 DEF Continue

------------------------------------------------------------------------------

LEMMA DiscStep ==
    ASSUME DiscInv, [Next]_vars
    PROVE  DiscInv'
<1>1. CASE Next
  BY <1>1, ConnectKeeps, VersionsKeeps, IdentityKeeps, ListToolsKeeps, FailuresKeep, CloseKeeps, ContinueKeeps
     DEF Next
<1>2. CASE UNCHANGED vars
  <2>1. UNCHANGED <<server, stage, draft, cursor, cursors, pages, result, live, late, fault, found>>
    BY <1>2 DEF vars, listing, sessions
  <2>2. TypeOK'
    BY <2>1 DEF DiscInv, TypeOK
  <2>3. TurnInv' /\ EraInv' /\ SessionInv'
    BY <2>1 DEF DiscInv, TurnInv, EraInv, SessionInv, Introspecting, Closing, Fits, Reports
  <2>4. ListInv' /\ ResultInv'
    BY <2>1 DEF DiscInv, ListInv, Listed, From, ResultInv, Closing, Fits, Reports, Reason, Distinct
  <2> QED  BY <2>2, <2>3, <2>4 DEF DiscInv
<1> QED  BY <1>1, <1>2

\* The invariant holds whatever the servers do: slow, failing, older, rogue.
THEOREM DiscoveryInvariant == Spec => []DiscInv
<1>1. Init => DiscInv
  BY DiscInit
<1>2. DiscInv /\ [Next]_vars => DiscInv'
  BY DiscStep
<1> QED  BY <1>1, <1>2, PTL DEF Spec

\* What is read keeps its shape and the bounds of limits.rs, whatever a server sends.
THEOREM TypeCorrect == Spec => []TypeOK
<1>1. DiscInv => TypeOK
  BY DEF DiscInv
<1> QED  BY <1>1, DiscoveryInvariant, PTL

\* What is recorded of a server is all it declares, however it pages (list_tools).
THEOREM RecordedWhole == Spec => []Whole
<1>1. ASSUME DiscInv
      PROVE  Whole
  <2>1. ASSUME NEW s \in DOMAIN found
        PROVE  /\ s \notin Rogue => found[s].tools = Sorted(Catalog[s])
               /\ Cardinality(Names(found[s].tools)) = Len(found[s].tools)
               /\ found[s].versions = Versions[s] \/ found[s].warnings \intersect {"unreported", "late"} # {}
    BY <1>1, <2>1 DEF DiscInv, TurnInv, Fits, Distinct, Reports
  <2>2. stage = "done" => Len(found) = NumServers
    BY <1>1, DiscoveryAssumption DEF DiscInv, TurnInv
  <2> QED  BY <2>1, <2>2 DEF Whole
<1> QED  BY <1>1, DiscoveryInvariant, PTL

\* A server is recorded in the newest era it speaks, however the connection went (connect).
THEOREM NewestEra == Spec => []EraIsSpoken
<1>1. DiscInv => EraIsSpoken
  BY DEF DiscInv, TurnInv, Fits, EraOf, EraIsSpoken
<1> QED  BY <1>1, DiscoveryInvariant, PTL

\* No session is left behind, but by a server that would not close it (discover_over).
THEOREM NoSessionLeft == Spec => []SessionsClosed
<1>1. ASSUME DiscInv
      PROVE  SessionsClosed
  <2>1. Introspecting \/ stage = "close" => ~(Ended \/ stage \in {"open", "legacy"})
    BY DEF Introspecting, Ended
  <2> QED  BY <1>1, <2>1 DEF DiscInv, SessionInv, SessionsClosed
<1> QED  BY <1>1, DiscoveryInvariant, PTL

\* A sound server is never refused: every error has a reason (discover).
THEOREM SoundIsNotRefused == Spec => []RefusedForAReason
<1>1. DiscInv => RefusedForAReason
  BY DEF DiscInv, ResultInv, Reason, RefusedForAReason
<1> QED  BY <1>1, DiscoveryInvariant, PTL

=============================================================================

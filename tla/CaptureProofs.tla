---------------------------- MODULE CaptureProofs ----------------------------
(***************************************************************************)
(* Proofs about Capture, for any number of processes, probes, samples and  *)
(* jobs: the inductive invariant IInv, the safety properties it implies,   *)
(* and that a capture implements Experiment.                               *)
(***************************************************************************)
EXTENDS Capture, FiniteSetTheorems, TLAPS

\* What a slot is.
LEMMA SlotIs ==
    /\ \A i \in Index : \A s \in 1..Repeat[i] : <<i, s>> \in Slot
    /\ \A k \in Slot : /\ k = <<k[1], k[2]>>
                       /\ k[1] \in Index
                       /\ k[2] \in 1..Repeat[k[1]]
BY DEF Slot

\* A task that has samples left to take stands at a slot of its own probe.
LEMMA CurrentIsSlot ==
    ASSUME TypeOK, NEW r \in Run, NEW i \in Index, Len(samples[r][i]) < Repeat[i]
    PROVE  /\ Current(r, i) \in Slot
           /\ Current(r, i) = <<i, Len(samples[r][i]) + 1>>
           /\ Inputs[r] \in Circumstance
<1>1. Len(samples[r][i]) \in Nat
  BY DEF TypeOK
<1>2. Repeat[i] \in Nat
  BY CaptureAssumption
<1>3. Len(samples[r][i]) + 1 \in 1..Repeat[i]
  BY <1>1, <1>2
<1>4. QED
  BY <1>3, SlotIs DEF Current, Circumstance

\* Only probes of the suite are spawned.
LEMMA NextIsIndex ==
    ASSUME TypeOK, NEW r \in Run, Spawn(r)
    PROVE  next[r] \in Index /\ next[r] + 1 \in 1..NumProbes + 1
<1>1. NumProbes \in Nat
  BY CaptureAssumption
<1>2. next[r] \in 1..NumProbes + 1 /\ next[r] <= NumProbes
  BY DEF TypeOK, Spawn, CanSpawn
<1>3. QED
  BY <1>1, <1>2 DEF Index

\* Updating one entry of a table of tables.
LEMMA Update ==
    ASSUME NEW A, NEW B, NEW S, NEW f \in [A -> [B -> S]], NEW x \in A, NEW y \in B, NEW v \in S
    PROVE  [f EXCEPT ![x][y] = v] \in [A -> [B -> S]]
OBVIOUS

\* What the table holds afterwards.
LEMMA Updated ==
    ASSUME NEW A, NEW B, NEW S, NEW f \in [A -> [B -> S]], NEW x \in A, NEW y \in B, NEW v
    PROVE  \A p \in A, q \in B :
               [f EXCEPT ![x][y] = v][p][q] = IF p = x /\ q = y THEN v ELSE f[p][q]
OBVIOUS

\* Every step types its variables.
LEMMA TypeStep ==
    ASSUME TypeOK, TaskInv, [Next]_vars
    PROVE  TypeOK'
<1>1. CASE UNCHANGED vars
  BY <1>1 DEF TypeOK, vars
<1>2. CASE Next
  <2> PICK r \in Run : \/ Start(r)
                       \/ MainStep(r)
                       \/ \E i \in Index : TaskStep(r, i)
                       \/ Kill(r)
    BY <1>2 DEF Next
  <2>0. ASSUME NEW i \in Index, NEW where \in Stands, at' = [at EXCEPT ![r][i] = where]
        PROVE  at' \in [Run -> [Index -> Stands]]
    BY <2>0, Update DEF TypeOK
  <2>1. CASE Start(r) \/ Kill(r)
    BY <2>1 DEF TypeOK, Start, Kill, Phases, tasks
  <2>2. CASE Spawn(r)
    <3>1. next[r] \in Index /\ next[r] + 1 \in 1..NumProbes + 1
      BY <2>2, NextIsIndex
    <3>2. at' \in [Run -> [Index -> Stands]]
      <4>1. "lookup" \in Stands /\ at \in [Run -> [Index -> Stands]]
        BY DEF TypeOK, Stands, InSet
      <4>2. at' = [at EXCEPT ![r][next[r]] = "lookup"]
        BY <2>2 DEF Spawn
      <4>3. QED
        BY <4>1, <4>2, <3>1, Update
    <3>3. next' \in [Run -> 1..NumProbes + 1]
      BY <2>2, <3>1 DEF TypeOK, Spawn
    <3>4. QED
      BY <2>2, <3>2, <3>3 DEF TypeOK, Spawn
  <2>3. ASSUME NEW i \in Index, Join(r, i) PROVE TypeOK'
    <3>1. at' \in [Run -> [Index -> Stands]]
      BY <2>0, <2>3 DEF Join, Stands
    <3>2. samples[r][i] \in Seq(Answer)
      BY DEF TypeOK
    <3>3. traces' \in [Run -> [Index -> Seq(Answer)]]
      <4>1. traces \in [Run -> [Index -> Seq(Answer)]]
        BY DEF TypeOK
      <4>2. CASE traces' = traces
        BY <4>1, <4>2
      <4>3. CASE traces' = [traces EXCEPT ![r][i] = samples[r][i]]
        BY <4>1, <4>3, <3>2, Update
      <4>4. QED
        BY <2>3, <4>2, <4>3 DEF Join
    <3>4. phase' \in [Run -> Phases]
      BY <2>3 DEF TypeOK, Join, Phases
    <3>5. QED
      BY <2>3, <3>1, <3>3, <3>4 DEF TypeOK, Join
  <2>4. CASE Conclude(r)
    BY <2>4 DEF TypeOK, Conclude, Phases, tasks
  <2>5. ASSUME NEW i \in Index, TaskStep(r, i) PROVE TypeOK'
    <3>0. ASSUME NEW a \in Answer, Take(r, i, a)
          PROVE  /\ at' \in [Run -> [Index -> Stands]]
                 /\ samples' \in [Run -> [Index -> Seq(Answer)]]
                 /\ held' \in [Run -> [Index -> Answer \union {Absent}]]
      <4>1. Append(samples[r][i], a) \in Seq(Answer)
        BY <3>0 DEF TypeOK
      <4>2. at' \in [Run -> [Index -> Stands]]
        BY <3>0, <2>0 DEF Take, Stands, InSet
      <4>3. samples' \in [Run -> [Index -> Seq(Answer)]]
        BY <3>0, <4>1, Update DEF TypeOK, Take
      <4>4. held' \in [Run -> [Index -> Answer \union {Absent}]]
        BY <3>0, Update DEF TypeOK, Take
      <4>5. QED
        BY <4>2, <4>3, <4>4
    <3>1. CASE RefuseEntry(r, i) \/ AskFailed(r, i) \/ StoreFailed(r, i) \/ Cancel(r, i)
      <4>1. at' \in [Run -> [Index -> Stands]]
        BY <2>0, <3>1 DEF RefuseEntry, AskFailed, StoreFailed, Cancel, Stands, InSet
      <4>2. QED
        BY <3>1, <4>1 DEF TypeOK, RefuseEntry, AskFailed, StoreFailed, Cancel
    <3>2. CASE Hit(r, i)
      BY <3>2, <3>0 DEF TypeOK, Hit
    <3>3. CASE Ask(r, i)
      <4>1. at' \in [Run -> [Index -> Stands]]
        BY <2>0, <3>3 DEF Ask, Stands, InSet
      <4>2. asked' \in [Run -> [Slot -> Nat]]
        <5>1. Current(r, i) \in Slot
          BY <3>3, CurrentIsSlot DEF TaskInv, Ask
        <5>2. asked \in [Run -> [Slot -> Nat]] /\ asked[r][Current(r, i)] + 1 \in Nat
          BY <5>1 DEF TypeOK
        <5>3. QED
          BY <3>3, <5>1, <5>2, Update DEF Ask
      <4>3. QED
        BY <3>3, <4>1, <4>2 DEF TypeOK, Ask
    <3>4. ASSUME NEW a \in Answer, Answered(r, i, a) PROVE TypeOK'
      <4>1. at' \in [Run -> [Index -> Stands]]
        BY <2>0, <3>4 DEF Answered, Stands, InSet
      <4>2. held' \in [Run -> [Index -> Answer \union {Absent}]]
        BY <3>4, Update DEF TypeOK, Answered
      <4>3. given' \in [Circumstance -> [Slot -> SUBSET Answer]]
        <5>1. Current(r, i) \in Slot /\ Inputs[r] \in Circumstance
          BY <3>4, CurrentIsSlot DEF TaskInv, Answered
        <5>2. given \in [Circumstance -> [Slot -> SUBSET Answer]]
          BY DEF TypeOK
        <5>3. given[Inputs[r]][Current(r, i)] \union {a} \in SUBSET Answer
          BY <5>1, <5>2
        <5>4. given' = [given EXCEPT ![Inputs[r]][Current(r, i)] =
                            given[Inputs[r]][Current(r, i)] \union {a}]
          BY <3>4 DEF Answered
        <5>5. QED
          BY <5>1, <5>2, <5>3, <5>4, Update
      <4>4. QED
        BY <3>4, <4>1, <4>2, <4>3 DEF TypeOK, Answered
    <3>5. CASE Store(r, i)
      <4>1. Current(r, i) \in Slot /\ Inputs[r] \in Circumstance
        BY <3>5, CurrentIsSlot DEF TaskInv, Store
      <4>2. held[r][i] \in Answer
        BY <3>5, <4>1 DEF TypeOK, TaskInv, Store
      <4>3. cache \in [Circumstance -> [Slot -> Answer \union {Absent, Unusable}]]
        BY DEF TypeOK
      <4>4. cache' \in [Circumstance -> [Slot -> Answer \union {Absent, Unusable}]]
        BY <3>5, <4>1, <4>2, <4>3, Update DEF Store
      <4>5. QED
        BY <3>5, <3>0, <4>2, <4>4 DEF TypeOK, Store
    <3>6. QED
      BY <2>5, <3>1, <3>2, <3>3, <3>4, <3>5 DEF TaskStep
  <2>6. QED
    BY <2>1, <2>2, <2>3, <2>4, <2>5 DEF MainStep
<1>3. QED
  BY <1>1, <1>2

\* Answers are only ever added to what the model has given, and no answer leaves
\* the cache.
LEMMA Grows ==
    ASSUME TypeOK, TaskInv, [Next]_vars, NEW c \in Circumstance, NEW k \in Slot
    PROVE  /\ given[c][k] \subseteq given'[c][k]
           /\ cache[c][k] \in Answer => cache'[c][k] \in Answer
<1>1. CASE UNCHANGED <<given, cache>>
  BY <1>1
<1>2. ASSUME NEW r \in Run, NEW i \in Index, NEW a \in Answer, Answered(r, i, a)
      PROVE  given[c][k] \subseteq given'[c][k] /\ UNCHANGED cache
  <2>1. Current(r, i) \in Slot /\ Inputs[r] \in Circumstance
    BY <1>2, CurrentIsSlot DEF TaskInv, Answered
  <2>2. given \in [Circumstance -> [Slot -> SUBSET Answer]]
    BY DEF TypeOK
  <2>3. given' = [given EXCEPT ![Inputs[r]][Current(r, i)] =
                     given[Inputs[r]][Current(r, i)] \union {a}]
    BY <1>2 DEF Answered
  <2>4. given'[c][k] = IF c = Inputs[r] /\ k = Current(r, i)
                       THEN given[Inputs[r]][Current(r, i)] \union {a} ELSE given[c][k]
    BY <2>1, <2>2, <2>3, Updated
  <2>5. QED
    BY <1>2, <2>4 DEF Answered
<1>3. ASSUME NEW r \in Run, NEW i \in Index, Store(r, i)
      PROVE  /\ UNCHANGED given
             /\ cache[c][k] \in Answer => cache'[c][k] \in Answer
  <2>1. Current(r, i) \in Slot /\ Inputs[r] \in Circumstance
    BY <1>3, CurrentIsSlot DEF TaskInv, Store
  <2>2. held[r][i] \in Answer
    BY <1>3, <2>1 DEF TypeOK, TaskInv, Store
  <2>3. cache \in [Circumstance -> [Slot -> Answer \union {Absent, Unusable}]]
    BY DEF TypeOK
  <2>4. cache'[c][k] = IF c = Inputs[r] /\ k = Current(r, i) THEN held[r][i] ELSE cache[c][k]
    BY <1>3, <2>1, <2>3, Updated DEF Store
  <2>5. QED
    BY <1>3, <2>2, <2>4 DEF Store
<1>4. QED
  BY <1>1, <1>2, <1>3
  DEF Next, MainStep, TaskStep, vars, Start, Spawn, Join, Conclude, Hit, RefuseEntry, Ask,
      AskFailed, StoreFailed, Cancel, Kill

\* So what was a genuine prefix stays one.
LEMMA PrefixStays ==
    ASSUME TypeOK, TaskInv, [Next]_vars,
           NEW r \in Run, NEW i \in Index, NEW taken, Prefix(r, i, taken),
           Len(taken) \in Nat
    PROVE  Prefix(r, i, taken)'
<1>1. \A s \in 1..Len(taken) : <<i, s>> \in Slot
  <2>1. Repeat[i] \in Nat /\ Len(taken) <= Repeat[i]
    BY CaptureAssumption DEF Prefix
  <2>2. QED
    BY <2>1, SlotIs
<1>2. Inputs[r] \in Circumstance
  BY DEF Circumstance
<1>3. QED
  BY <1>1, <1>2, Grows DEF Prefix, Entry

\* The cache stays genuine: what Store puts there was given to that slot.
LEMMA CacheStep ==
    ASSUME TypeOK, TaskInv, CacheGenuine, [Next]_vars
    PROVE  CacheGenuine'
<1> SUFFICES ASSUME NEW c \in Circumstance, NEW k \in Slot, cache'[c][k] \in Answer
             PROVE  cache'[c][k] \in given'[c][k]
  BY DEF CacheGenuine
<1>1. CASE UNCHANGED cache
  BY <1>1, Grows DEF CacheGenuine
<1>2. ASSUME NEW r \in Run, NEW i \in Index, Store(r, i)
      PROVE  cache'[c][k] \in given'[c][k]
  <2>1. Current(r, i) \in Slot /\ Inputs[r] \in Circumstance
    BY <1>2, CurrentIsSlot DEF TaskInv, Store
  <2>2. held[r][i] \in given[Inputs[r]][Current(r, i)]
    BY <1>2 DEF TaskInv, Store
  <2>3. cache \in [Circumstance -> [Slot -> Answer \union {Absent, Unusable}]]
    BY DEF TypeOK
  <2>4. cache'[c][k] = IF c = Inputs[r] /\ k = Current(r, i) THEN held[r][i] ELSE cache[c][k]
    BY <1>2, <2>1, <2>3, Updated DEF Store
  <2>5. QED
    BY <2>2, <2>4, Grows DEF CacheGenuine
<1>3. ASSUME NEW r \in Run, Start(r) \/ MainStep(r) \/ Kill(r)
      PROVE  UNCHANGED cache
  BY <1>3 DEF MainStep, Start, Spawn, Join, Conclude, Kill
<1>4. ASSUME NEW r \in Run, NEW i \in Index, TaskStep(r, i)
      PROVE  UNCHANGED cache \/ Store(r, i)
  BY <1>4 DEF TaskStep, Hit, RefuseEntry, Ask, Answered, AskFailed, StoreFailed, Cancel
<1>5. QED
  BY <1>1, <1>2, <1>3, <1>4 DEF Next, vars

\* A task keeps its part of the invariant when a step leaves the task alone.
LEMMA TaskFrame ==
    ASSUME TypeOK, TaskInv, [Next]_vars, NEW r \in Run, NEW i \in Index,
           at'[r][i] = at[r][i], samples'[r][i] = samples[r][i], held'[r][i] = held[r][i]
    PROVE  /\ Prefix(r, i, samples[r][i])'
           /\ at'[r][i] \in {"unspawned", "lookup", "asking", "storing"} =>
                  Len(samples'[r][i]) < Repeat[i]
           /\ at'[r][i] = "ended" => Len(samples'[r][i]) = Repeat[i]
           /\ at'[r][i] = "storing" => held'[r][i] \in given'[Inputs[r]][Current(r, i)']
<1>1. Prefix(r, i, samples[r][i]) /\ Len(samples[r][i]) \in Nat
  BY DEF TypeOK, TaskInv
<1>2. Prefix(r, i, samples[r][i])'
  BY <1>1, PrefixStays DEF Prefix, Entry
<1>3. Current(r, i)' = Current(r, i)
  BY DEF Current
<1>4. at[r][i] = "storing" => held'[r][i] \in given'[Inputs[r]][Current(r, i)]
  BY CurrentIsSlot, Grows DEF TaskInv
<1>5. QED
  BY <1>2, <1>3, <1>4 DEF TaskInv

\* Taking a genuine, cached answer lengthens a task's genuine prefix by one.
LEMMA TakeKeeps ==
    ASSUME TypeOK, TaskInv, [Next]_vars, NEW r \in Run, NEW i \in Index, NEW a \in Answer,
           at[r][i] \in {"lookup", "storing"}, Take(r, i, a),
           a \in given'[Inputs[r]][Current(r, i)],
           cache'[Inputs[r]][Current(r, i)] \in Answer
    PROVE  /\ Prefix(r, i, samples[r][i])'
           /\ at'[r][i] = "lookup" => Len(samples'[r][i]) < Repeat[i]
           /\ at'[r][i] = "ended" => Len(samples'[r][i]) = Repeat[i]
           /\ at'[r][i] \in {"lookup", "ended"}
<1> DEFINE n == Len(samples[r][i])
<1>1. samples[r][i] \in Seq(Answer) /\ n \in Nat /\ n < Repeat[i] /\ Repeat[i] \in Nat
  BY CaptureAssumption DEF TypeOK, TaskInv
<1>2. samples'[r][i] = Append(samples[r][i], a)
  BY Updated DEF TypeOK, Take
<1>3. at'[r][i] = IF n + 1 = Repeat[i] THEN "ended" ELSE "lookup"
  BY Updated DEF TypeOK, Take
<1>4. /\ Len(samples'[r][i]) = n + 1
      /\ samples'[r][i][n + 1] = a
      /\ \A s \in 1..n : samples'[r][i][s] = samples[r][i][s]
  BY <1>1, <1>2
<1>5. Prefix(r, i, samples[r][i]) /\ Current(r, i) = <<i, n + 1>>
  BY <1>1, CurrentIsSlot DEF TaskInv
<1>6. \A s \in 1..n : /\ samples[r][i][s] \in given'[Inputs[r]][<<i, s>>]
                      /\ cache'[Inputs[r]][<<i, s>>] \in Answer
  <2> SUFFICES ASSUME NEW s \in 1..n
               PROVE  /\ samples[r][i][s] \in given'[Inputs[r]][<<i, s>>]
                      /\ cache'[Inputs[r]][<<i, s>>] \in Answer
    OBVIOUS
  <2>1. <<i, s>> \in Slot /\ Inputs[r] \in Circumstance
    BY <1>1, SlotIs DEF Circumstance
  <2>2. QED
    BY <1>5, <2>1, Grows DEF Prefix, Entry
<1>7. \A s \in 1..n + 1 : /\ samples'[r][i][s] \in given'[Inputs[r]][<<i, s>>]
                          /\ cache'[Inputs[r]][<<i, s>>] \in Answer
  <2> SUFFICES ASSUME NEW s \in 1..n + 1
               PROVE  /\ samples'[r][i][s] \in given'[Inputs[r]][<<i, s>>]
                      /\ cache'[Inputs[r]][<<i, s>>] \in Answer
    OBVIOUS
  <2>1. CASE s = n + 1
    BY <2>1, <1>4, <1>5
  <2>2. CASE s \in 1..n
    <3>1. samples'[r][i][s] = samples[r][i][s]
      BY <2>2, <1>4
    <3>2. QED
      BY <2>2, <3>1, <1>6
  <2>3. s = n + 1 \/ s \in 1..n
    BY <1>1
  <2>4. QED
    BY <2>1, <2>2, <2>3
<1>8. Prefix(r, i, samples[r][i])'
  BY <1>1, <1>4, <1>7 DEF Prefix, Entry
<1>9. QED
  BY <1>1, <1>3, <1>4, <1>8

\* The tasks' part of the invariant.
LEMMA TaskStepKeeps ==
    ASSUME TypeOK, CacheGenuine, TaskInv, LoopInv, [Next]_vars
    PROVE  TaskInv'
<1> DEFINE Good(p, j) ==
        /\ Prefix(p, j, samples[p][j])
        /\ at[p][j] \in {"unspawned", "lookup", "asking", "storing"} =>
               Len(samples[p][j]) < Repeat[j]
        /\ at[p][j] = "ended" => Len(samples[p][j]) = Repeat[j]
        /\ at[p][j] = "storing" => held[p][j] \in given[Inputs[p]][Current(p, j)]
    Same(p, j) == at'[p][j] = at[p][j] /\ samples'[p][j] = samples[p][j] /\ held'[p][j] = held[p][j]
<1> SUFFICES ASSUME NEW p \in Run, NEW j \in Index
             PROVE  Good(p, j)'
  BY DEF TaskInv
<1>0. Good(p, j)
  BY DEF TaskInv
<1>1. CASE Same(p, j)
  BY <1>1, TaskFrame
<1>2. /\ at \in [Run -> [Index -> Stands]]
      /\ samples \in [Run -> [Index -> Seq(Answer)]]
      /\ held \in [Run -> [Index -> Answer \union {Absent}]]
  BY DEF TypeOK
\* The steps that change nothing but where the task stands.
<1>3. ASSUME NEW where \in {"lookup", "asking", "broken", "joined", "aborted"},
             at[p][j] = "unspawned" \/ where # "lookup",
             at[p][j] = "lookup" \/ where # "asking",
             at' = [at EXCEPT ![p][j] = where], UNCHANGED <<samples, held>>
      PROVE  Good(p, j)'
  <2>1. at'[p][j] = where
    BY <1>2, <1>3, Updated
  <2>2. Len(samples[p][j]) \in Nat
    BY <1>2
  <2>3. Prefix(p, j, samples[p][j])'
    BY <1>0, <1>3, <2>2, PrefixStays DEF Prefix, Entry
  <2>4. QED
    BY <1>0, <1>3, <2>1, <2>3
<1>4. CASE UNCHANGED tasks
  BY <1>4, <1>1 DEF tasks
<1>5. ASSUME NEW r \in Run, Spawn(r) PROVE Good(p, j)'
  <2>1. next[r] \in Index
    BY <1>5, NextIsIndex
  <2>2. at'[p][j] = IF p = r /\ j = next[r] THEN "lookup" ELSE at[p][j]
    BY <1>2, <1>5, <2>1, Updated DEF Spawn
  <2>3. CASE p = r /\ j = next[r]
    <3>1. at[p][j] = "unspawned"
      BY <2>1, <2>3 DEF LoopInv, TypeOK, Index
    <3>2. at' = [at EXCEPT ![p][j] = "lookup"] /\ UNCHANGED <<samples, held>>
      BY <1>5, <2>3 DEF Spawn
    <3>3. QED
      BY <1>3, <3>1, <3>2
  <2>4. CASE ~(p = r /\ j = next[r])
    BY <1>1, <1>5, <2>2, <2>4 DEF Spawn
  <2>5. QED
    BY <2>3, <2>4
<1>6. ASSUME NEW r \in Run, NEW i \in Index, ~(p = r /\ j = i), Join(r, i) \/ TaskStep(r, i)
      PROVE  Same(p, j)
  <2>1. ASSUME NEW where, at' = [at EXCEPT ![r][i] = where] PROVE at'[p][j] = at[p][j]
    BY <1>2, <1>6, <2>1, Updated
  <2>2. ASSUME NEW a, held' = [held EXCEPT ![r][i] = a] PROVE held'[p][j] = held[p][j]
    BY <1>2, <1>6, <2>2, Updated
  <2>3. ASSUME NEW t, samples' = [samples EXCEPT ![r][i] = t]
        PROVE  samples'[p][j] = samples[p][j]
    BY <1>2, <1>6, <2>3, Updated
  <2>4. CASE Hit(r, i) \/ Store(r, i)
    BY <2>1, <2>2, <2>3, <2>4 DEF Hit, Store, Take
  <2>5. CASE \E a \in Answer : Answered(r, i, a)
    BY <2>1, <2>2, <2>5 DEF Answered
  <2>6. CASE Join(r, i) \/ RefuseEntry(r, i) \/ Ask(r, i) \/ AskFailed(r, i)
               \/ StoreFailed(r, i) \/ Cancel(r, i)
    BY <2>1, <2>6 DEF Join, RefuseEntry, Ask, AskFailed, StoreFailed, Cancel
  <2>7. QED
    BY <1>6, <2>4, <2>5, <2>6 DEF TaskStep
<1>7. CASE Join(p, j) \/ RefuseEntry(p, j) \/ Ask(p, j) \/ AskFailed(p, j)
        \/ StoreFailed(p, j) \/ Cancel(p, j)
  BY <1>3, <1>7 DEF Join, RefuseEntry, Ask, AskFailed, StoreFailed, Cancel
<1>8. ASSUME NEW a \in Answer, Answered(p, j, a) PROVE Good(p, j)'
  <2>1. at'[p][j] = "storing" /\ held'[p][j] = a /\ samples' = samples
    BY <1>2, <1>8, Updated DEF Answered
  <2>2. Prefix(p, j, samples[p][j])'
    <3>1. Len(samples[p][j]) \in Nat
      BY <1>2
    <3>2. QED
      BY <1>0, <2>1, <3>1, PrefixStays DEF Prefix, Entry
  <2>3. Current(p, j) \in Slot /\ Inputs[p] \in Circumstance
    BY <1>8, CurrentIsSlot DEF TaskInv, Answered
  <2>4. a \in given'[Inputs[p]][Current(p, j)]
    <3>1. given' = [given EXCEPT ![Inputs[p]][Current(p, j)] =
                        given[Inputs[p]][Current(p, j)] \union {a}]
      BY <1>8 DEF Answered
    <3>2. QED
      BY <2>3, <3>1, Updated DEF TypeOK
  <2>5. Current(p, j)' = Current(p, j)
    BY <2>1 DEF Current
  <2>6. QED
    BY <1>0, <1>8, <2>1, <2>2, <2>4, <2>5 DEF Answered
<1>9. CASE Hit(p, j)
  <2>1. Current(p, j) \in Slot /\ Inputs[p] \in Circumstance
    BY <1>9, CurrentIsSlot DEF TaskInv, Hit
  <2>2. /\ Entry(p, Current(p, j)) \in Answer
        /\ cache' = cache
        /\ Entry(p, Current(p, j)) \in given'[Inputs[p]][Current(p, j)]
    BY <1>9, <2>1 DEF Hit, CacheGenuine, Entry
  <2>3. QED
    BY <1>9, <2>2, TakeKeeps DEF Hit, Entry
<1>10. CASE Store(p, j)
  <2>1. Current(p, j) \in Slot /\ Inputs[p] \in Circumstance
    BY <1>10, CurrentIsSlot DEF TaskInv, Store
  <2>2. held[p][j] \in Answer /\ held[p][j] \in given'[Inputs[p]][Current(p, j)]
    BY <1>10, <2>1 DEF TypeOK, TaskInv, Store
  <2>3. cache'[Inputs[p]][Current(p, j)] = held[p][j]
    BY <1>10, <2>1, Updated DEF TypeOK, Store
  <2>4. QED
    BY <1>10, <2>2, <2>3, TakeKeeps DEF Store
<1>11. ASSUME NEW r \in Run, NEW i \in Index, Join(r, i) \/ TaskStep(r, i)
       PROVE  Good(p, j)'
  BY <1>1, <1>6, <1>7, <1>8, <1>9, <1>10, <1>11 DEF TaskStep
<1>12. QED
  BY <1>4, <1>5, <1>11 DEF Next, MainStep, vars, tasks, Start, Kill, Conclude

\* The filed traces' part.
LEMMA TraceStepKeeps ==
    ASSUME TypeOK, TaskInv, TraceInv, [Next]_vars
    PROVE  TraceInv'
<1> SUFFICES ASSUME NEW p \in Run, NEW j \in Index, traces'[p][j] # <<>>
             PROVE  Len(traces'[p][j]) = Repeat[j] /\ Prefix(p, j, traces[p][j])'
  BY DEF TraceInv
<1>0. traces \in [Run -> [Index -> Seq(Answer)]] /\ samples \in [Run -> [Index -> Seq(Answer)]]
  BY DEF TypeOK
<1>1. CASE traces'[p][j] = traces[p][j]
  <2>1. Len(traces[p][j]) = Repeat[j] /\ Prefix(p, j, traces[p][j])
    BY <1>1 DEF TraceInv
  <2>2. Len(traces[p][j]) \in Nat
    BY <1>0
  <2>3. QED
    BY <1>1, <2>1, <2>2, PrefixStays DEF Prefix, Entry
<1>2. ASSUME NEW r \in Run, NEW i \in Index, Join(r, i), traces'[p][j] # traces[p][j]
      PROVE  Len(traces'[p][j]) = Repeat[j] /\ Prefix(p, j, traces[p][j])'
  <2>1. at[r][i] = "ended" /\ traces' = [traces EXCEPT ![r][i] = samples[r][i]]
    BY <1>2 DEF Join
  <2>2. traces'[p][j] = IF p = r /\ j = i THEN samples[r][i] ELSE traces[p][j]
    BY <1>0, <2>1, Updated
  <2>3. traces'[p][j] = samples[p][j] /\ at[p][j] = "ended"
    BY <1>2, <2>1, <2>2
  <2>4. /\ Prefix(p, j, samples[p][j])
        /\ Len(samples[p][j]) = Repeat[j]
        /\ Len(samples[p][j]) \in Nat
    BY <1>0, <2>3 DEF TaskInv
  <2>5. QED
    BY <2>3, <2>4, PrefixStays DEF Prefix, Entry
<1>3. ASSUME NEW r \in Run, Start(r) \/ Spawn(r) \/ Conclude(r) \/ Kill(r)
      PROVE  UNCHANGED traces
  BY <1>3 DEF Start, Spawn, Conclude, Kill
<1>4. ASSUME NEW r \in Run, NEW i \in Index, TaskStep(r, i)
      PROVE  UNCHANGED traces
  BY <1>4 DEF TaskStep, Hit, RefuseEntry, Ask, Answered, AskFailed, Store, StoreFailed, Cancel
<1>5. QED
  BY <1>1, <1>2, <1>3, <1>4 DEF Next, MainStep, vars

\* The main loop's part.
LEMMA LoopStepKeeps ==
    ASSUME TypeOK, TaskInv, LoopInv, [Next]_vars
    PROVE  LoopInv'
<1> DEFINE Good(p) ==
        /\ phase[p] = "captured" => \A i \in Index : traces[p][i] # <<>>
        /\ phase[p] # "incomplete"
        /\ \A i \in Index :
            /\ at[p][i] = "unspawned" <=> i >= next[p]
            /\ phase[p] \in {"idle", "capturing"} =>
                /\ at[p][i] # "aborted"
                /\ at[p][i] = "joined" => traces[p][i] # <<>>
<1> SUFFICES ASSUME NEW p \in Run PROVE Good(p)'
  BY DEF LoopInv
<1>0. Good(p)
  BY DEF LoopInv
<1>1. /\ at \in [Run -> [Index -> Stands]]
      /\ samples \in [Run -> [Index -> Seq(Answer)]]
      /\ traces \in [Run -> [Index -> Seq(Answer)]]
      /\ phase \in [Run -> Phases]
      /\ next \in [Run -> 1..NumProbes + 1]
      /\ NumProbes \in Nat
  BY CaptureAssumption DEF TypeOK
<1>2. CASE /\ phase'[p] = phase[p] /\ next'[p] = next[p]
           /\ at'[p] = at[p] /\ traces'[p] = traces[p]
  BY <1>0, <1>2
<1>3. CASE Start(p) \/ Kill(p)
  <2>1. /\ phase'[p] \in {"capturing", "killed"}
        /\ phase[p] \in {"idle", "capturing", "failed"}
        /\ phase'[p] = "capturing" => phase[p] = "idle"
        /\ at' = at /\ next' = next /\ traces' = traces
    BY <1>1, <1>3 DEF Start, Kill, Alive, tasks
  <2>2. QED
    BY <1>0, <2>1
<1>4. CASE Spawn(p)
  <2>1. next[p] \in Index
    BY <1>4, NextIsIndex
  <2>2. \A i \in Index : at'[p][i] = IF i = next[p] THEN "lookup" ELSE at[p][i]
    BY <1>1, <1>4, <2>1, Updated DEF Spawn
  <2>3. /\ phase[p] = "capturing" /\ phase'[p] = "capturing"
        /\ traces' = traces
        /\ next'[p] = next[p] + 1
    BY <1>1, <1>4 DEF Spawn
  <2>4. \A i \in Index : i >= next[p] + 1 <=> i >= next[p] /\ i # next[p]
    BY <1>1 DEF Index
  <2>5. QED
    BY <1>0, <2>2, <2>3, <2>4
<1>5. ASSUME NEW i \in Index, Join(p, i) PROVE Good(p)'
  <2>1. \A k \in Index : at'[p][k] = IF k = i THEN "joined" ELSE at[p][k]
    BY <1>1, <1>5, Updated DEF Join
  <2>2. next' = next /\ phase[p] = "capturing" /\ at[p][i] # "unspawned"
    BY <1>5 DEF Join
  <2>3. CASE at[p][i] = "ended"
    <3>1. phase' = phase /\ traces' = [traces EXCEPT ![p][i] = samples[p][i]]
      BY <1>5, <2>3 DEF Join
    <3>2. \A k \in Index : traces'[p][k] = IF k = i THEN samples[p][i] ELSE traces[p][k]
      BY <1>1, <3>1, Updated
    <3>3. samples[p][i] # <<>>
      <4>1. Len(samples[p][i]) = Repeat[i] /\ Repeat[i] # 0
        BY <2>3, CaptureAssumption DEF TaskInv
      <4>2. QED
        BY <4>1
    <3>4. QED
      BY <1>0, <2>1, <2>2, <3>1, <3>2, <3>3
  <2>4. CASE at[p][i] = "broken"
    <3>1. phase'[p] = "failed" /\ traces' = traces
      BY <1>1, <1>5, <2>4 DEF Join
    <3>2. QED
      BY <1>0, <2>1, <2>2, <3>1
  <2>5. QED
    BY <1>5, <2>3, <2>4 DEF Join
<1>6. CASE Conclude(p)
  <2>1. \A i \in Index : at[p][i] = "joined"
    <3> SUFFICES ASSUME NEW i \in Index PROVE at[p][i] = "joined"
      OBVIOUS
    <3>1. ~(i >= next[p])
      BY <1>1, <1>6 DEF Conclude, Index
    <3>2. at[p][i] \notin InSet
      BY <1>6 DEF Conclude, InFlight
    <3>3. at[p][i] # "aborted"
      BY <1>0, <1>6 DEF Conclude
    <3>4. at[p][i] \in Stands
      BY <1>1
    <3>5. QED
      BY <1>0, <3>1, <3>2, <3>3, <3>4 DEF Stands
  <2>2. \A i \in Index : traces[p][i] # <<>>
    BY <1>0, <1>6, <2>1 DEF Conclude
  <2>3. phase'[p] = "captured" /\ next' = next /\ at' = at /\ traces' = traces
    BY <1>1, <1>6, <2>2 DEF Conclude, tasks
  <2>4. QED
    BY <1>0, <2>2, <2>3
<1>7. ASSUME NEW i \in Index, TaskStep(p, i) PROVE Good(p)'
  <2>1. /\ phase' = phase /\ next' = next /\ traces' = traces
        /\ at[p][i] \in {"lookup", "asking", "storing"}
    BY <1>7 DEF TaskStep, Hit, RefuseEntry, Ask, Answered, AskFailed, Store, StoreFailed, Cancel
  <2>2. PICK where \in InSet \union {"aborted"} :
          at' = [at EXCEPT ![p][i] = where] /\ (where = "aborted" => phase[p] = "failed")
    <3>1. CASE Hit(p, i) \/ Store(p, i)
      <4>1. \E where \in {"lookup", "ended"} : at' = [at EXCEPT ![p][i] = where]
        BY <3>1 DEF Hit, Store, Take
      <4>2. QED
        BY <4>1 DEF InSet
    <3>2. CASE Ask(p, i)
      BY <3>2 DEF Ask, InSet
    <3>3. CASE \E a \in Answer : Answered(p, i, a)
      BY <3>3 DEF Answered, InSet
    <3>4. CASE RefuseEntry(p, i) \/ AskFailed(p, i) \/ StoreFailed(p, i)
      BY <3>4 DEF RefuseEntry, AskFailed, StoreFailed, InSet
    <3>5. CASE Cancel(p, i)
      BY <3>5 DEF Cancel
    <3>6. QED
      BY <1>7, <3>1, <3>2, <3>3, <3>4, <3>5 DEF TaskStep
  <2>3. \A k \in Index : at'[p][k] = IF k = i THEN where ELSE at[p][k]
    BY <1>1, <2>2, Updated
  <2>4. QED
    BY <1>0, <2>1, <2>2, <2>3 DEF InSet
<1>8. ASSUME NEW r \in Run, r # p,
             Start(r) \/ MainStep(r) \/ (\E i \in Index : TaskStep(r, i)) \/ Kill(r)
      PROVE  /\ phase'[p] = phase[p] /\ next'[p] = next[p]
             /\ at'[p] = at[p] /\ traces'[p] = traces[p]
  BY <1>1, <1>8 DEF Start, MainStep, Spawn, Join, Conclude, Kill, TaskStep, Hit, RefuseEntry, Ask,
      Answered, AskFailed, Store, StoreFailed, Cancel, Take, tasks
<1>9. QED
  BY <1>2, <1>3, <1>4, <1>5, <1>6, <1>7, <1>8 DEF Next, MainStep, vars

\* The invariant holds initially: no task has a sample, and what the cache holds
\* counts as given.
LEMMA InitIInv == Init => IInv
<1> SUFFICES ASSUME Init PROVE IInv
  OBVIOUS
<1>1. TypeOK
  <2>1. 1 \in 1..NumProbes + 1
    BY CaptureAssumption
  <2>2. given \in [Circumstance -> [Slot -> SUBSET Answer]]
    BY DEF Init
  <2>3. QED
    BY <2>1, <2>2 DEF Init, TypeOK, Phases, Stands
<1>2. CacheGenuine
  BY DEF Init, CacheGenuine
<1>3. TaskInv
  <2> SUFFICES ASSUME NEW r \in Run, NEW i \in Index
               PROVE  /\ Prefix(r, i, samples[r][i])
                      /\ Len(samples[r][i]) < Repeat[i]
                      /\ at[r][i] = "unspawned"
    BY DEF TaskInv
  <2>1. samples[r][i] = <<>> /\ at[r][i] = "unspawned" /\ Repeat[i] \in Nat \ {0}
    BY CaptureAssumption DEF Init
  <2>2. QED
    BY <2>1 DEF Prefix
<1>4. TraceInv
  BY DEF Init, TraceInv
<1>5. LoopInv
  BY DEF Init, LoopInv, Index
<1>6. QED
  BY <1>1, <1>2, <1>3, <1>4, <1>5 DEF IInv

\* Every step keeps it.
LEMMA StepIInv == IInv /\ [Next]_vars => IInv'
BY TypeStep, CacheStep, TaskStepKeeps, TraceStepKeeps, LoopStepKeeps DEF IInv

\* The strengthening holds in every reachable state.
THEOREM Inductive == Spec => []IInv
BY InitIInv, StepIInv, PTL DEF Spec

\* Processes, tasks, traces, cache and counts are always of their types.
THEOREM TypeCorrect == Spec => []TypeOK
<1>1. IInv => TypeOK
  BY DEF IInv
<1>2. QED
  BY <1>1, Inductive, PTL

\* The cache holds under a key only what the model gave to that sample under
\* those inputs, however runs overlap, fail or die.
THEOREM CacheIsGenuine == Spec => []CacheGenuine
<1>1. IInv => CacheGenuine
  BY DEF IInv
<1>2. QED
  BY <1>1, Inductive, PTL

\* A captured run files under each probe exactly its own samples.
THEOREM TracesAreGenuine == Spec => []TracesGenuine
<1>1. IInv => TracesGenuine
  BY DEF IInv, LoopInv, TraceInv, TracesGenuine, Prefix
<1>2. QED
  BY <1>1, Inductive, PTL

\* A captured suite can be captured again from the cache alone.
THEOREM CapturedSuitesAreCached == Spec => []CapturedIsCached
<1>1. IInv => CapturedIsCached
  <2> SUFFICES ASSUME IInv, NEW r \in Run, phase[r] = "captured", NEW k \in Slot
               PROVE  Entry(r, k) \in Answer
    BY DEF CapturedIsCached
  <2>1. k = <<k[1], k[2]>> /\ k[1] \in Index /\ k[2] \in 1..Repeat[k[1]]
    BY SlotIs
  <2>2. Len(traces[r][k[1]]) = Repeat[k[1]] /\ Prefix(r, k[1], traces[r][k[1]])
    BY <2>1 DEF IInv, LoopInv, TraceInv
  <2>3. QED
    BY <2>1, <2>2 DEF Prefix
<1>2. QED
  BY <1>1, Inductive, PTL

\* The refusal of an incomplete capture is never reached.
THEOREM NoIncompleteCapture == Spec => []NeverIncomplete
<1>1. IInv => NeverIncomplete
  BY DEF IInv, LoopInv, NeverIncomplete
<1>2. QED
  BY <1>1, Inductive, PTL

------------------------------------------------------------------------------
(* The set of tasks never outgrows --jobs, and nothing is asked twice.       *)

\* The samples a task has not come to have not been asked for, nor has the one it looks up.
Unasked ==
    \A r \in Run, k \in Slot :
        /\ asked[r][k] <= 1
        /\ k[2] > Len(samples[r][k[1]]) + 1 => asked[r][k] = 0
        /\ k[2] = Len(samples[r][k[1]]) + 1 /\ at[r][k[1]] \in {"unspawned", "lookup"} =>
               asked[r][k] = 0

\* No more tasks than --jobs.
Crowd == \A r \in Run : Cardinality(InFlight(r)) <= Jobs[r]

\* How a step of a task moves the task, its samples and the requests.
LEMMA TaskMoves ==
    ASSUME TypeOK, TaskInv, NEW p \in Run, NEW i \in Index, TaskStep(p, i)
    PROVE  /\ at[p][i] \in {"lookup", "asking", "storing"}
           /\ \E where \in InSet \union {"aborted"} :
                /\ at' = [at EXCEPT ![p][i] = where]
                /\ \/ /\ at[p][i] = "lookup" /\ where = "asking"
                      /\ asked' = [asked EXCEPT ![p][Current(p, i)] = @ + 1]
                      /\ samples' = samples
                   \/ /\ asked' = asked /\ samples' = samples
                      /\ where # "lookup"
                   \/ /\ asked' = asked
                      /\ \E a \in Answer : samples' = [samples EXCEPT ![p][i] = Append(@, a)]
<1>1. at[p][i] \in {"lookup", "asking", "storing"}
  BY DEF TaskStep, Hit, RefuseEntry, Ask, Answered, AskFailed, Store, StoreFailed, Cancel
<1>2. CASE Ask(p, i)
  BY <1>1, <1>2 DEF Ask, InSet
<1>3. CASE Hit(p, i)
  <2>1. Entry(p, Current(p, i)) \in Answer
    BY <1>3 DEF Hit
  <2>2. \E where \in {"lookup", "ended"} : at' = [at EXCEPT ![p][i] = where]
    BY <1>3 DEF Hit, Take
  <2>3. asked' = asked /\ samples' = [samples EXCEPT ![p][i] = Append(@, Entry(p, Current(p, i)))]
    BY <1>3 DEF Hit, Take
  <2> QED
    BY <1>1, <2>1, <2>2, <2>3 DEF InSet
<1>4. CASE Store(p, i)
  <2>1. held[p][i] \in Answer
    <3>1. at[p][i] = "storing"
      BY <1>4 DEF Store
    <3>2. held[p][i] \in given[Inputs[p]][Current(p, i)]
      BY <3>1 DEF TaskInv
    <3>3. Current(p, i) \in Slot /\ Inputs[p] \in Circumstance
      BY <3>1, CurrentIsSlot DEF TaskInv
    <3> QED
      BY <3>2, <3>3 DEF TypeOK
  <2>2. \E where \in {"lookup", "ended"} : at' = [at EXCEPT ![p][i] = where]
    BY <1>4 DEF Store, Take
  <2>3. asked' = asked /\ samples' = [samples EXCEPT ![p][i] = Append(@, held[p][i])]
    BY <1>4 DEF Store, Take
  <2> QED
    BY <1>1, <2>1, <2>2, <2>3 DEF InSet
<1>5. CASE \E a \in Answer : Answered(p, i, a)
  BY <1>1, <1>5 DEF Answered, InSet
<1>6. CASE RefuseEntry(p, i) \/ AskFailed(p, i) \/ StoreFailed(p, i)
  BY <1>1, <1>6 DEF RefuseEntry, AskFailed, StoreFailed, InSet
<1>7. CASE Cancel(p, i)
  BY <1>1, <1>7 DEF Cancel, InSet
<1> QED
  BY <1>2, <1>3, <1>4, <1>5, <1>6, <1>7 DEF TaskStep

\* The tasks in flight are among the probes: a finite set.
LEMMA FlightIsFinite ==
    ASSUME NEW r \in Run
    PROVE  IsFiniteSet(InFlight(r)) /\ Cardinality(InFlight(r)) \in Nat
<1>1. IsFiniteSet(Index)
  BY CaptureAssumption, FS_Interval DEF Index
<1>2. InFlight(r) \in SUBSET Index
  BY DEF InFlight
<1>3. IsFiniteSet(InFlight(r))
  BY <1>1, <1>2, FS_Subset
<1> QED
  BY <1>3, FS_CardinalityType

LEMMA CrowdStep ==
    ASSUME TypeOK, TaskInv, Crowd, [Next]_vars
    PROVE  Crowd'
<1> SUFFICES ASSUME NEW r \in Run PROVE Cardinality(InFlight(r)') <= Jobs[r]
  BY DEF Crowd
<1>0. Cardinality(InFlight(r)) <= Jobs[r] /\ Jobs[r] \in Nat
  BY CaptureAssumption DEF Crowd
<1>1. ASSUME InFlight(r)' \subseteq InFlight(r)
      PROVE  Cardinality(InFlight(r)') <= Jobs[r]
  <2>1. /\ IsFiniteSet(InFlight(r)) /\ Cardinality(InFlight(r)) \in Nat
        /\ InFlight(r)' \in SUBSET InFlight(r)
    BY <1>1, FlightIsFinite
  <2>2. /\ Cardinality(InFlight(r)') <= Cardinality(InFlight(r))
        /\ IsFiniteSet(InFlight(r)')
    BY <2>1, FS_Subset
  <2>3. Cardinality(InFlight(r)') \in Nat
    BY <2>2, FS_CardinalityType
  <2> QED
    BY <1>0, <2>1, <2>2, <2>3
<1>2. CASE at' = at
  BY <1>1, <1>2 DEF InFlight
<1>3. ASSUME NEW p \in Run, Spawn(p)
      PROVE  Cardinality(InFlight(r)') <= Jobs[r]
  <2>1. next[p] \in Index
    BY <1>3, NextIsIndex
  <2>2. \A q \in Run, j \in Index :
          at'[q][j] = IF q = p /\ j = next[p] THEN "lookup" ELSE at[q][j]
    BY <1>3, <2>1, Updated, SMTT(30) DEF Spawn, TypeOK
  <2>3. CASE r = p
    <3>1. InFlight(r)' = InFlight(r) \cup {next[p]}
      BY <2>1, <2>2, <2>3 DEF InFlight, InSet
    <3>2. Cardinality(InFlight(r)) < Jobs[r]
      BY <1>3, <2>3 DEF Spawn, CanSpawn
    <3>3. Cardinality(InFlight(r)') \in {Cardinality(InFlight(r)), Cardinality(InFlight(r)) + 1}
      BY <3>1, FlightIsFinite, FS_AddElement
    <3> QED
      BY <1>0, <3>2, <3>3, FlightIsFinite
  <2>4. CASE r # p
    <3>1. InFlight(r)' = InFlight(r)
      BY <2>2, <2>4 DEF InFlight
    <3> QED
      BY <1>1, <3>1
  <2> QED
    BY <2>3, <2>4
<1>4. ASSUME NEW p \in Run, NEW i \in Index, Join(p, i)
      PROVE  Cardinality(InFlight(r)') <= Jobs[r]
  <2>1. \A q \in Run, j \in Index :
          at'[q][j] = IF q = p /\ j = i THEN "joined" ELSE at[q][j]
    BY <1>4, Updated DEF Join, TypeOK
  <2>2. InFlight(r)' \subseteq InFlight(r)
    BY <2>1 DEF InFlight, InSet
  <2> QED
    BY <1>1, <2>2
<1>5. ASSUME NEW p \in Run, NEW i \in Index, TaskStep(p, i)
      PROVE  Cardinality(InFlight(r)') <= Jobs[r]
  <2>1. PICK where : at' = [at EXCEPT ![p][i] = where]
    BY <1>5, TaskMoves
  <2>2. \A q \in Run, j \in Index :
          at'[q][j] = IF q = p /\ j = i THEN where ELSE at[q][j]
    BY <2>1, Updated DEF TypeOK
  <2>3. at[p][i] \in InSet
    BY <1>5, TaskMoves DEF InSet
  <2>4. InFlight(r)' \subseteq InFlight(r)
    BY <2>2, <2>3 DEF InFlight
  <2> QED
    BY <1>1, <2>4
<1>6. ASSUME NEW p \in Run, Start(p) \/ Conclude(p) \/ Kill(p)
      PROVE  at' = at
  BY <1>6 DEF Start, Conclude, Kill, tasks
<1> QED
  BY <1>2, <1>3, <1>4, <1>5, <1>6 DEF Next, MainStep, vars

LEMMA UnaskedStep ==
    ASSUME TypeOK, TaskInv, LoopInv, Unasked, [Next]_vars
    PROVE  Unasked'
<1>0. /\ at \in [Run -> [Index -> Stands]]
      /\ samples \in [Run -> [Index -> Seq(Answer)]]
      /\ asked \in [Run -> [Slot -> Nat]]
  BY DEF TypeOK
<1>1. ASSUME asked' = asked, samples' = samples,
             \A q \in Run, j \in Index :
                at'[q][j] \in {"unspawned", "lookup"} => at[q][j] \in {"unspawned", "lookup"}
      PROVE  Unasked'
  <2> SUFFICES ASSUME NEW r \in Run, NEW k \in Slot
               PROVE  /\ asked[r][k] <= 1
                      /\ k[2] > Len(samples[r][k[1]]) + 1 => asked[r][k] = 0
                      /\ k[2] = Len(samples[r][k[1]]) + 1 /\ at'[r][k[1]] \in {"unspawned", "lookup"} =>
                             asked[r][k] = 0
    BY <1>1 DEF Unasked
  <2> QED
    BY <1>1, SlotIs DEF Unasked
<1>2. ASSUME NEW p \in Run, Start(p) \/ Conclude(p) \/ Kill(p) PROVE Unasked'
  <2>1. at' = at /\ asked' = asked /\ samples' = samples
    BY <1>2 DEF Start, Conclude, Kill, tasks
  <2> QED
    BY <1>1, <2>1
<1>3. ASSUME NEW p \in Run, Spawn(p) PROVE Unasked'
  <2>1. next[p] \in Index
    BY <1>3, NextIsIndex
  <2>2. \A q \in Run, j \in Index :
          at'[q][j] = IF q = p /\ j = next[p] THEN "lookup" ELSE at[q][j]
    BY <1>0, <1>3, <2>1, Updated DEF Spawn
  <2>3. at[p][next[p]] = "unspawned"
    <3>1. next[p] >= next[p]
      BY DEF TypeOK
    <3> QED
      BY <2>1, <3>1 DEF LoopInv
  <2>4. asked' = asked /\ samples' = samples
    BY <1>3 DEF Spawn
  <2> QED
    BY <1>1, <2>2, <2>3, <2>4
<1>4. ASSUME NEW p \in Run, NEW i \in Index, Join(p, i) PROVE Unasked'
  <2>1. \A q \in Run, j \in Index :
          at'[q][j] = IF q = p /\ j = i THEN "joined" ELSE at[q][j]
    BY <1>0, <1>4, Updated DEF Join
  <2>2. asked' = asked /\ samples' = samples
    BY <1>4 DEF Join
  <2> QED
    BY <1>1, <2>1, <2>2
<1>5. ASSUME NEW p \in Run, NEW i \in Index, TaskStep(p, i) PROVE Unasked'
  <2>1. PICK where \in InSet \union {"aborted"} :
          /\ at' = [at EXCEPT ![p][i] = where]
          /\ \/ /\ at[p][i] = "lookup" /\ where = "asking"
                /\ asked' = [asked EXCEPT ![p][Current(p, i)] = @ + 1]
                /\ samples' = samples
             \/ /\ asked' = asked /\ samples' = samples
                /\ where # "lookup"
             \/ /\ asked' = asked
                /\ \E a \in Answer : samples' = [samples EXCEPT ![p][i] = Append(@, a)]
    BY <1>5, TaskMoves
  <2>2. \A q \in Run, j \in Index :
          at'[q][j] = IF q = p /\ j = i THEN where ELSE at[q][j]
    BY <1>0, <2>1, Updated
  <2>3. where # "unspawned"
    BY <2>1 DEF InSet
  <2>4. CASE asked' = asked /\ samples' = samples /\ where # "lookup"
    BY <1>1, <2>2, <2>3, <2>4
  <2>5. ASSUME asked' = asked, NEW a \in Answer, samples' = [samples EXCEPT ![p][i] = Append(@, a)]
        PROVE  Unasked'
    <3> SUFFICES ASSUME NEW r \in Run, NEW k \in Slot
                 PROVE  /\ asked[r][k] <= 1
                        /\ k[2] > Len(samples'[r][k[1]]) + 1 => asked[r][k] = 0
                        /\ k[2] = Len(samples'[r][k[1]]) + 1 /\ at'[r][k[1]] \in {"unspawned", "lookup"} =>
                               asked[r][k] = 0
      BY <2>5 DEF Unasked
    <3>1. k[1] \in Index /\ k[2] \in Nat
      BY SlotIs, CaptureAssumption
    <3>2. CASE r = p /\ k[1] = i
      <4>1. samples'[r][k[1]] = Append(samples[r][k[1]], a) /\ samples[r][k[1]] \in Seq(Answer)
        BY <1>0, <2>5, <3>2, Updated
      <4>2. Len(samples'[r][k[1]]) = Len(samples[r][k[1]]) + 1 /\ Len(samples[r][k[1]]) \in Nat
        BY <4>1
      <4>3. k[2] > Len(samples[r][k[1]]) + 1 => asked[r][k] = 0
        BY DEF Unasked
      <4>4. asked[r][k] <= 1
        BY DEF Unasked
      <4> QED
        BY <3>1, <4>2, <4>3, <4>4
    <3>3. CASE ~(r = p /\ k[1] = i)
      <4>1. samples'[r][k[1]] = samples[r][k[1]]
        BY <1>0, <2>5, <3>1, <3>3, Updated
      <4>2. at'[r][k[1]] = at[r][k[1]]
        BY <2>2, <3>1, <3>3
      <4> QED
        BY <4>1, <4>2 DEF Unasked
    <3> QED
      BY <3>2, <3>3
  <2>6. ASSUME at[p][i] = "lookup", where = "asking", samples' = samples,
               asked' = [asked EXCEPT ![p][Current(p, i)] = @ + 1]
        PROVE  Unasked'
    <3>1. Current(p, i) \in Slot /\ Current(p, i) = <<i, Len(samples[p][i]) + 1>>
      BY <2>6, CurrentIsSlot DEF TaskInv
    <3>2. asked[p][Current(p, i)] = 0
      BY <2>6, <3>1 DEF Unasked
    <3> SUFFICES ASSUME NEW r \in Run, NEW k \in Slot
                 PROVE  /\ asked'[r][k] <= 1
                        /\ k[2] > Len(samples[r][k[1]]) + 1 => asked'[r][k] = 0
                        /\ k[2] = Len(samples[r][k[1]]) + 1 /\ at'[r][k[1]] \in {"unspawned", "lookup"} =>
                               asked'[r][k] = 0
      BY <2>6 DEF Unasked
    <3>3. k = <<k[1], k[2]>> /\ k[1] \in Index /\ k[2] \in Nat
      BY SlotIs, CaptureAssumption
    <3>4. asked' = [asked EXCEPT ![p][Current(p, i)] = 1]
      BY <2>6, <3>2
    <3>5. asked'[r][k] = IF r = p /\ k = Current(p, i) THEN 1 ELSE asked[r][k]
      BY <1>0, <3>1, <3>4, Updated
    <3>6. CASE r = p /\ k = Current(p, i)
      <4>1. k[1] = i /\ k[2] = Len(samples[r][k[1]]) + 1
        BY <3>1, <3>6
      <4>2. at'[r][k[1]] = "asking"
        BY <2>2, <2>6, <3>6, <4>1
      <4>3. Len(samples[r][k[1]]) \in Nat
        BY <1>0, <3>3
      <4> QED
        BY <3>5, <3>6, <4>1, <4>2, <4>3
    <3>7. CASE ~(r = p /\ k = Current(p, i))
      <4>1. at'[r][k[1]] \in {"unspawned", "lookup"} => at[r][k[1]] \in {"unspawned", "lookup"}
        BY <2>2, <2>6, <3>3
      <4> QED
        BY <3>5, <3>7, <4>1 DEF Unasked
    <3> QED
      BY <3>6, <3>7
  <2> QED
    BY <2>1, <2>4, <2>5, <2>6
<1>6. CASE UNCHANGED vars
  BY <1>1, <1>6 DEF vars
<1> QED
  BY <1>2, <1>3, <1>4, <1>5, <1>6 DEF Next, MainStep

\* capture_all never has more than --jobs captures in flight, and no process asks twice
\* for one sample.
THEOREM JobsAreBounded == Spec => []Bounded
<1>1. Init => Crowd /\ Unasked
  <2>1. Init => Unasked
    BY SlotIs DEF Init, Unasked
  <2>2. ASSUME Init, NEW r \in Run PROVE Cardinality(InFlight(r)) <= Jobs[r]
    <3>1. InFlight(r) = {}
      BY <2>2 DEF Init, InFlight, InSet
    <3>2. Cardinality(InFlight(r)) = 0 /\ Jobs[r] \in Nat
      BY <3>1, FS_EmptySet, CaptureAssumption
    <3> QED
      BY <3>2
  <2> QED
    BY <2>1, <2>2 DEF Crowd
<1>2. IInv /\ Crowd /\ Unasked /\ [Next]_vars => Crowd' /\ Unasked'
  BY CrowdStep, UnaskedStep DEF IInv
<1>3. Crowd /\ Unasked => Bounded
  BY DEF Crowd, Unasked, Bounded
<1> QED
  BY <1>1, <1>2, <1>3, Inductive, PTL DEF Spec

\* A step of one process leaves what the others have to show alone.
LEMMA OthersKeepTheirResult ==
    ASSUME TypeOK, NEW r \in Run, NEW p \in Run, p # r,
           Start(r) \/ MainStep(r) \/ (\E i \in Index : TaskStep(r, i)) \/ Kill(r)
    PROVE  phase'[p] = phase[p] /\ traces'[p] = traces[p] /\ Result(p)' = Result(p)
<1>1. phase'[p] = phase[p] /\ traces'[p] = traces[p]
  BY DEF TypeOK, Start, MainStep, Spawn, Join, Conclude, Kill, TaskStep, Hit, RefuseEntry, Ask,
     Answered, AskFailed, Store, StoreFailed, Cancel, Take, tasks
<1>2. QED
  BY <1>1 DEF Result

\* A step that ends r's capture with what Result shows next is a step of the
\* promise if the answers given stay as they are.
LEMMA ResultChanges ==
    ASSUME TypeOK, NEW r \in Run, UNCHANGED given,
           \A p \in Run \ {r} : Result(p)' = Result(p)
    PROVE  [p \in Run |-> Result(p)]' = [[p \in Run |-> Result(p)] EXCEPT ![r] = Result(r)']
OBVIOUS

\* A capture implements Experiment: a whole table of genuine answers or nothing.
THEOREM CaptureKeepsThePromise == Spec => Implements
<1>1. Init => Promise!Init
  <2> SUFFICES ASSUME Init PROVE Promise!Init
    OBVIOUS
  <2>1. given \in [Circumstance -> [Slot -> SUBSET Answer]]
    BY DEF Init
  <2>2. [r \in Run |-> Result(r)] = [r \in Run |-> Promise!Pending]
    BY DEF Init, Result, Promise!Pending
  <2>3. QED
    BY <2>1, <2>2 DEF Promise!Init, Circumstance
<1>2. IInv /\ IInv' /\ [Next]_vars => [Promise!Next]_(Promise!vars)
  <2> SUFFICES ASSUME IInv, IInv', [Next]_vars
               PROVE  Promise!Next \/ UNCHANGED Promise!vars
    BY DEF Promise!vars
  <2> DEFINE result == [p \in Run |-> Result(p)]
  <2>0. TypeOK
    BY DEF IInv
  <2>1. CASE UNCHANGED vars
    BY <2>1 DEF vars, Promise!vars, Result
  <2>2. ASSUME NEW r \in Run, NEW i \in Index, NEW a \in Answer, Answered(r, i, a)
        PROVE  Promise!Next
    <3>1. Current(r, i) \in Slot
      BY <2>0, <2>2, CurrentIsSlot DEF IInv, TaskInv, Answered
    <3>2. UNCHANGED result
      BY <2>2 DEF Answered, Result
    <3>3. Promise!Reply(Inputs[r], Current(r, i), a)
      BY <2>2, <3>2 DEF Answered, Promise!Reply
    <3>4. QED
      BY <3>1, <3>3 DEF Promise!Next
  <2>3. ASSUME NEW r \in Run, Conclude(r) PROVE Promise!Next
    <3>1. /\ phase[r] = "capturing" /\ phase'[r] = "captured"
          /\ UNCHANGED given
          /\ \A i \in Index : traces'[r][i] # <<>>
      BY <2>0, <2>3 DEF IInv, LoopInv, Conclude, TypeOK
    <3> DEFINE table == [k \in Slot |-> traces'[r][k[1]][k[2]]]
    <3>2. table \in Promise!Genuine(r)
      <4> SUFFICES ASSUME NEW k \in Slot
                   PROVE  table[k] \in given[Inputs[r]][k] /\ table[k] \in Answer
        BY DEF Promise!Genuine
      <4>1. k = <<k[1], k[2]>> /\ k[1] \in Index /\ k[2] \in 1..Repeat[k[1]]
        BY SlotIs
      <4>2. Len(traces'[r][k[1]]) = Repeat[k[1]] /\ Prefix(r, k[1], traces[r][k[1]])'
        BY <3>1, <4>1 DEF IInv, TraceInv
      <4>3. table[k] \in given[Inputs[r]][k]
        BY <3>1, <4>1, <4>2 DEF Prefix
      <4>4. given[Inputs[r]][k] \in SUBSET Answer
        BY <2>0 DEF TypeOK, Circumstance
      <4>5. QED
        BY <4>3, <4>4
    <3>3. result[r] = Promise!Pending /\ Result(r)' = Promise!Table(table)
      BY <3>1 DEF Result, Promise!Pending, Promise!Table
    <3>4. result' = [result EXCEPT ![r] = Promise!Table(table)]
      BY <2>0, <2>3, <3>1, <3>3, OthersKeepTheirResult, ResultChanges DEF MainStep
    <3>5. Promise!Publish(r)
      BY <3>1, <3>2, <3>3, <3>4 DEF Promise!Publish
    <3>6. QED
      BY <3>5 DEF Promise!Next
  <2>4. ASSUME NEW r \in Run, phase[r] = "capturing", phase'[r] \in {"failed", "killed"},
               UNCHANGED given, \A p \in Run \ {r} : Result(p)' = Result(p)
        PROVE  Promise!Next
    <3>1. result[r] = Promise!Pending /\ Result(r)' = Promise!Nothing
      BY <2>4 DEF Result, Promise!Pending, Promise!Nothing
    <3>2. result' = [result EXCEPT ![r] = Promise!Nothing]
      BY <2>0, <2>4, <3>1, ResultChanges
    <3>3. Promise!Abandon(r)
      BY <2>4, <3>1, <3>2 DEF Promise!Abandon
    <3>4. QED
      BY <3>3 DEF Promise!Next
  <2>5. ASSUME NEW r \in Run, UNCHANGED given, Result(r)' = Result(r),
               \A p \in Run \ {r} : Result(p)' = Result(p)
        PROVE  UNCHANGED Promise!vars
    BY <2>5 DEF Promise!vars
  <2>6. ASSUME NEW r \in Run, Start(r) \/ Kill(r)
        PROVE  Promise!Next \/ UNCHANGED Promise!vars
    <3>1. UNCHANGED given /\ \A p \in Run \ {r} : Result(p)' = Result(p)
      BY <2>0, <2>6, OthersKeepTheirResult DEF Start, Kill
    <3>2. CASE Start(r)
      BY <2>0, <2>5, <3>1, <3>2 DEF Start, Result, TypeOK
    <3>3. CASE Kill(r) /\ phase[r] = "capturing"
      BY <2>0, <2>4, <3>1, <3>3 DEF Kill, TypeOK
    <3>4. CASE Kill(r) /\ phase[r] = "failed"
      BY <2>0, <2>5, <3>1, <3>4 DEF Kill, Result, TypeOK
    <3>5. QED
      BY <2>6, <3>2, <3>3, <3>4 DEF Kill, Alive
  <2>7. ASSUME NEW r \in Run, NEW i \in Index, Join(r, i)
        PROVE  Promise!Next \/ UNCHANGED Promise!vars
    <3>1. UNCHANGED given /\ \A p \in Run \ {r} : Result(p)' = Result(p)
      BY <2>0, <2>7, OthersKeepTheirResult DEF Join, MainStep
    <3>2. CASE at[r][i] = "ended"
      BY <2>5, <2>7, <3>1, <3>2 DEF Join, Result
    <3>3. CASE at[r][i] = "broken"
      BY <2>0, <2>4, <2>7, <3>1, <3>3 DEF Join, TypeOK
    <3>4. QED
      BY <2>7, <3>2, <3>3 DEF Join
  <2>8. ASSUME NEW r \in Run, Spawn(r) PROVE UNCHANGED Promise!vars
    BY <2>8 DEF Spawn, Result, Promise!vars
  <2>9. ASSUME NEW r \in Run, NEW i \in Index,
               TaskStep(r, i), ~\E a \in Answer : Answered(r, i, a)
        PROVE  UNCHANGED Promise!vars
    <3>1. UNCHANGED <<given, phase, traces>>
      BY <2>9 DEF TaskStep, Hit, RefuseEntry, Ask, AskFailed, Store, StoreFailed, Cancel
    <3>2. QED
      BY <3>1 DEF Result, Promise!vars
  <2>10. QED
    BY <2>1, <2>2, <2>3, <2>6, <2>7, <2>8, <2>9 DEF Next, MainStep
<1>3. QED
  BY <1>1, <1>2, Inductive, PTL DEF Spec, Implements, Promise!Spec

==============================================================================

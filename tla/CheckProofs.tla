----------------------------- MODULE CheckProofs -----------------------------
(***************************************************************************)
(* Proofs about Check, for any number of processes, agents, suites,        *)
(* tables, policies and command lines, and any number of commands and      *)
(* edits: the inductive invariant RunInv, the properties of the baseline   *)
(* that it gives, that accepting settles, and that evidence is honest if   *)
(* nobody edits the project while a command runs.                          *)
(***************************************************************************)
EXTENDS Check, TLAPS

\* The files have their shape and the committed baseline is acceptable.
FilesSound ==
    /\ tree \in Agent /\ suite \in Suite
    /\ lock \in Agent \union {None, Torn}
    /\ base \in BaselineFile \union {None}
    /\ cache \subseteq Evidence /\ runs \subseteq Evidence
    /\ AcceptedIsAcceptable

\* No process but p runs.
Alone(p) == \A q \in Proc : Running(q) => q = p

\* What p knows at `step` agrees with the lockfile l and the baseline b.
UpToDate(step, m, l, b) ==
    /\ /\ step \in {"prompts", "tools", "static"} \union Probing
       /\ m.opt # Snapshot
       /\ ~Given(m.opt, "from")
       => m.locked = l
    /\ step \in {"artifact", "record"} => m.seen = b

LEMMA RunInvIs ==
    ASSUME RunInv
    PROVE  /\ FilesSound
           /\ TypeOK
           /\ \A p \in Proc : /\ Known(p, at[p], mem[p])
                              /\ mem[p] \in Memory /\ at[p] \in Steps \union Nowhere
           /\ \A p \in Proc : Running(p) => Overlap \/ Alone(p)
           /\ \A p \in Proc : Overlap \/ UpToDate(at[p], mem[p], lock, base)
  BY CheckAssumption DEF RunInv, TypeOK, FilesSound, Alone, UpToDate, Current

\* A process that goes on keeps the invariant if it knows what its step needs.
LEMMA GoKeeps ==
    ASSUME RunInv, NEW p \in Proc, NEW step \in Steps, NEW m \in Memory, Go(p, step, m),
           FilesSound', runs \subseteq runs', Known(p, step, m),
           step = "record" => m.evidence \in runs',
           Overlap \/ Alone(p), Overlap \/ UpToDate(step, m, lock', base')
    PROVE  RunInv'
<1>1. TypeOK /\ FilesSound
  BY RunInvIs
<1>2. /\ at' = [at EXCEPT ![p] = step]
      /\ mem' = [mem EXCEPT ![p] = m]
      /\ code' = code
  BY DEF Go
<1>3. TypeOK'
  BY <1>1, <1>2 DEF TypeOK, FilesSound
<1>4. \A q \in Proc : IF q = p THEN at'[q] = step /\ mem'[q] = m
                      ELSE at'[q] = at[q] /\ mem'[q] = mem[q]
  BY <1>1, <1>2 DEF TypeOK
<1>5. \A q \in Proc : Known(q, at'[q], mem'[q])
  BY <1>4 DEF RunInv
<1>6. \A q \in Proc : at'[q] = "record" => mem'[q].evidence \in runs'
  BY <1>4 DEF RunInv
<1>7. ASSUME ~Overlap
      PROVE  /\ \A q, r \in Proc : Running(q)' /\ Running(r)' => q = r
             /\ \A q \in Proc : Current(q)'
  <2>1. \A q \in Proc : q # p => at'[q] \in Nowhere
    BY <1>4, <1>7 DEF Alone, Running
  <2>2. Current(p)'
    BY <1>4, <1>7 DEF Current, UpToDate
  <2>3. ASSUME NEW q \in Proc, q # p
        PROVE  Current(q)'
    BY <2>1, <2>3 DEF Current, Nowhere, Probing, Judging
  <2> QED  BY <2>1, <2>2, <2>3 DEF Running
<1> QED  BY <1>3, <1>5, <1>6, <1>7 DEF RunInv, FilesSound

LEMMA BlankIs ==
    /\ Blank \in Memory
    /\ \A p \in Proc, step \in Nowhere : Known(p, step, Blank)
  BY DEF Blank, NoEvidence, Memory, Known, Nowhere, Probing, Judging

\* A process that is over knows nothing.
LEMMA EndKeeps ==
    ASSUME RunInv, NEW p \in Proc, NEW c \in {None, 0, 1, 2, 3}, End(p, c),
           FilesSound', runs \subseteq runs', Overlap \/ Alone(p)
    PROVE  RunInv'
<1>1. TypeOK /\ FilesSound
  BY RunInvIs
<1>2. /\ at' = [at EXCEPT ![p] = "ended"]
      /\ mem' = [mem EXCEPT ![p] = Blank]
      /\ code' = [code EXCEPT ![p] = c]
  BY DEF End
<1>3. TypeOK'
  BY <1>1, <1>2, BlankIs DEF TypeOK, FilesSound, Nowhere
<1>4. \A q \in Proc : IF q = p THEN at'[q] = "ended" /\ mem'[q] = Blank
                      ELSE at'[q] = at[q] /\ mem'[q] = mem[q]
  BY <1>1, <1>2 DEF TypeOK
<1>5. \A q \in Proc : Known(q, at'[q], mem'[q])
  BY <1>4, BlankIs DEF RunInv, Nowhere
<1>6. \A q \in Proc : at'[q] = "record" => mem'[q].evidence \in runs'
  BY <1>4 DEF RunInv
<1>7. ASSUME ~Overlap
      PROVE  /\ \A q, r \in Proc : Running(q)' /\ Running(r)' => q = r
             /\ \A q \in Proc : Current(q)'
  <2>1. \A q \in Proc : at'[q] \in Nowhere
    BY <1>4, <1>7 DEF Alone, Running, Nowhere
  <2>2. ASSUME NEW q \in Proc
        PROVE  Current(q)'
    BY <2>1 DEF Current, Nowhere, Probing, Judging
  <2> QED  BY <2>1, <2>2 DEF Running
<1> QED  BY <1>3, <1>5, <1>6, <1>7 DEF RunInv, FilesSound

LEMMA InitRuns == Init => RunInv
<1> SUFFICES ASSUME Init PROVE RunInv
  OBVIOUS
<1>1. TypeOK
  BY BlankIs DEF Init, TypeOK, Nowhere
<1>2. AcceptedIsAcceptable
  BY DEF Init, AcceptedIsAcceptable
<1>3. \A p \in Proc : at[p] = "idle" /\ mem[p] = Blank
  BY DEF Init
<1>4. \A p \in Proc : Known(p, at[p], mem[p]) /\ Current(p) /\ ~Running(p)
  BY <1>3, BlankIs DEF Running, Nowhere, Current, Probing, Judging
<1> QED  BY <1>1, <1>2, <1>3, <1>4 DEF RunInv

\* What the steps that write no file, and begin none, have in common.
LEMMA GoOn ==
    ASSUME RunInv, NEW p \in Proc, Running(p), NEW step \in Steps, NEW m \in Memory,
           Go(p, step, m), UNCHANGED <<tree, suite, files>>, Known(p, step, m),
           step # "record", Overlap \/ UpToDate(step, m, lock, base)
    PROVE  RunInv'
<1>1. FilesSound' /\ runs \subseteq runs'
  BY RunInvIs DEF FilesSound, files, AcceptedIsAcceptable
<1>2. Overlap \/ Alone(p)
  BY RunInvIs
<1>3. Overlap \/ UpToDate(step, m, lock', base')
  BY DEF files, UpToDate
<1> QED  BY <1>1, <1>2, <1>3, GoKeeps

LEMMA EndNow ==
    ASSUME RunInv, NEW p \in Proc, Running(p), NEW c \in {None, 0, 1, 2, 3}, End(p, c),
           UNCHANGED <<tree, suite, files>>
    PROVE  RunInv'
<1>1. FilesSound' /\ runs \subseteq runs'
  BY RunInvIs DEF FilesSound, files, AcceptedIsAcceptable
<1>2. Overlap \/ Alone(p)
  BY RunInvIs
<1> QED  BY <1>1, <1>2, EndKeeps

LEMMA BeginRuns ==
    ASSUME RunInv, NEW p \in Proc, NEW o \in Options \union {Snapshot}, Begin(p, o)
    PROVE  RunInv'
<1>1. FilesSound' /\ runs \subseteq runs'
  BY RunInvIs DEF FilesSound, files, AcceptedIsAcceptable, Begin
<1>2. Overlap \/ Alone(p)
  BY DEF Begin, Alone
<1>3. CASE o # Snapshot /\ ~Valid(o)
  <2>1. End(p, 2)
    BY <1>3 DEF Begin
  <2> QED  BY <1>1, <1>2, <2>1, EndKeeps
<1>4. CASE o = Snapshot \/ Valid(o)
  <2> DEFINE m == [Blank EXCEPT !.opt = o]
             step == IF o = Snapshot THEN "prompts" ELSE "lock"
  <2>1. Go(p, step, m)
    BY <1>4 DEF Begin
  <2>2. m \in Memory /\ m.opt = o
    BY BlankIs DEF Blank, NoEvidence, Memory
  <2>3. step \in Steps /\ step # "record"
    BY DEF Steps
  <2> HIDE DEF m
  <2>4. Known(p, step, m)
    BY <1>4, <2>2 DEF Known, Probing, Judging
  <2>5. UpToDate(step, m, lock', base')
    BY <2>2 DEF UpToDate, Probing, Judging
  <2> HIDE DEF step
  <2> QED  BY <1>1, <1>2, <2>1, <2>2, <2>3, <2>4, <2>5, GoKeeps
<1> QED  BY <1>3, <1>4

LEMMA LoadBaselineRuns ==
    ASSUME RunInv, NEW p \in Proc, LoadBaseline(p)
    PROVE  RunInv'
<1>1. at[p] = "lock" /\ Running(p) /\ UNCHANGED <<tree, suite, files>>
  BY DEF LoadBaseline, Running, Nowhere
<1>2. mem[p].opt \in Options /\ Valid(mem[p].opt) /\ mem[p] \in Memory
  BY <1>1, RunInvIs DEF Known
<1>3. PICK a \in IF Given(mem[p].opt, "from") THEN Agent ELSE {lock} :
        IF a \in Agent
        THEN Go(p, "prompts", [mem[p] EXCEPT !.locked = a])
        ELSE End(p, 3)
  BY DEF LoadBaseline
<1>4. CASE a \in Agent
  <2> DEFINE m == [mem[p] EXCEPT !.locked = a]
  <2>1. m \in Memory /\ m.opt = mem[p].opt /\ m.locked = a
    BY <1>2, <1>4 DEF Memory
  <2>2. Go(p, "prompts", m)
    BY <1>3, <1>4
  <2> HIDE DEF m
  <2>3. Known(p, "prompts", m)
    BY <1>2, <1>4, <2>1 DEF Known, Probing, Judging
  <2>4. UpToDate("prompts", m, lock, base)
    BY <1>3, <2>1 DEF UpToDate
  <2> QED  BY <1>1, <2>1, <2>2, <2>3, <2>4, GoOn DEF Steps
<1>5. CASE a \notin Agent
  BY <1>1, <1>3, <1>5, EndNow
<1> QED  BY <1>4, <1>5

LEMMA DiscoverPromptsRuns ==
    ASSUME RunInv, NEW p \in Proc, DiscoverPrompts(p)
    PROVE  RunInv'
<1> DEFINE f == [tools |-> None, prompts |-> tree.prompts]
           m == [mem[p] EXCEPT !.found = f]
<1>1. at[p] = "prompts" /\ Running(p) /\ UNCHANGED <<tree, suite, files>> /\ Go(p, "tools", m)
  BY DEF DiscoverPrompts, Running, Nowhere
<1>2. /\ Known(p, "prompts", mem[p]) /\ mem[p] \in Memory
      /\ Overlap \/ UpToDate("prompts", mem[p], lock, base)
  BY <1>1, RunInvIs
<1>3. f \in [tools : {None}, prompts : Prompts]
  BY RunInvIs DEF FilesSound, Agent
<1> HIDE DEF f
<1>4. m \in Memory /\ m.found = f /\ m.opt = mem[p].opt /\ m.locked = mem[p].locked
  BY <1>2, <1>3 DEF Memory
<1> HIDE DEF m
<1>5. Known(p, "tools", m)
  BY <1>2, <1>3, <1>4 DEF Known, Probing, Judging
<1>6. Overlap \/ UpToDate("tools", m, lock, base)
  BY <1>2, <1>4 DEF UpToDate
<1> QED  BY <1>1, <1>4, <1>5, <1>6, GoOn DEF Steps

LEMMA DiscoverToolsRuns ==
    ASSUME RunInv, NEW p \in Proc, DiscoverTools(p)
    PROVE  RunInv'
<1> DEFINE m == [mem[p] EXCEPT !.found.tools = tree.tools]
           step == IF mem[p].opt = Snapshot THEN "write" ELSE "static"
<1>1. at[p] = "tools" /\ Running(p) /\ UNCHANGED <<tree, suite, files>> /\ Go(p, step, m)
  BY DEF DiscoverTools, Running, Nowhere
<1>2. /\ Known(p, "tools", mem[p]) /\ mem[p] \in Memory
      /\ Overlap \/ UpToDate("tools", mem[p], lock, base)
  BY <1>1, RunInvIs
<1>3. mem[p].found \in [tools : {None}, prompts : Prompts] /\ tree.tools \in Tools
  BY <1>2, RunInvIs DEF FilesSound, Agent, Known
<1>4. [mem[p].found EXCEPT !.tools = tree.tools] \in Agent
  BY <1>3 DEF Agent
<1>5. m \in Memory /\ m.found \in Agent /\ m.opt = mem[p].opt /\ m.locked = mem[p].locked
  BY <1>2, <1>4 DEF Memory, Agent
<1> HIDE DEF m
<1>6. Known(p, step, m)
  BY <1>2, <1>5 DEF Known, Probing, Judging
<1>7. Overlap \/ UpToDate(step, m, lock, base)
  BY <1>2, <1>5 DEF UpToDate, Probing, Judging
<1>8. step \in Steps /\ step # "record"
  BY DEF Steps
<1> HIDE DEF step
<1> QED  BY <1>1, <1>5, <1>6, <1>7, <1>8, GoOn

\* An exit code of a report is 0 or 1.
LEMMA CodeIs == \A p \in Proc, b \in Statuses \union {None} : Code(p, b) \in {0, 1}
  BY DEF Code, ExitCode

LEMMA CompareRuns ==
    ASSUME RunInv, NEW p \in Proc, Compare(p)
    PROVE  RunInv'
<1>1. at[p] = "static" /\ Running(p) /\ UNCHANGED <<tree, suite, files>>
  BY DEF Compare, Running, Nowhere
<1>2. /\ Known(p, "static", mem[p]) /\ mem[p] \in Memory
      /\ Overlap \/ UpToDate("static", mem[p], lock, base)
  BY <1>1, RunInvIs
<1>3. CASE Refused(p) /\ End(p, 2)
  BY <1>1, <1>3, EndNow
<1>4. CASE ~Refused(p) /\ ~Probes(mem[p].opt) /\ End(p, Code(p, None))
  BY <1>1, <1>4, CodeIs, EndNow
<1>5. CASE ~Refused(p) /\ Probes(mem[p].opt) /\ Go(p, "suite", mem[p])
  <2>1. Given(mem[p].opt, "accept") => ~Changed(mem[p].locked, mem[p].found)
    BY <1>5 DEF Refused, StaticStatus, Report, DependencyStatus
  <2>2. Known(p, "suite", mem[p])
    BY <1>2, <2>1 DEF Known, Probing, Judging
  <2>3. Overlap \/ UpToDate("suite", mem[p], lock, base)
    BY <1>2 DEF UpToDate, Probing
  <2> QED  BY <1>1, <1>2, <1>5, <2>2, <2>3, GoOn DEF Steps
<1> QED  BY <1>3, <1>4, <1>5 DEF Compare

LEMMA LoadSuiteRuns ==
    ASSUME RunInv, NEW p \in Proc, LoadSuite(p)
    PROVE  RunInv'
<1> DEFINE m == [mem[p] EXCEPT !.evidence.suite = suite]
           step == IF Given(mem[p].opt, "trace") THEN "replay" ELSE "system"
<1>1. at[p] = "suite" /\ Running(p) /\ UNCHANGED <<tree, suite, files>> /\ Go(p, step, m)
  BY DEF LoadSuite, Running, Nowhere
<1>2. /\ Known(p, "suite", mem[p]) /\ mem[p] \in Memory
      /\ Overlap \/ UpToDate("suite", mem[p], lock, base)
  BY <1>1, RunInvIs
<1>3. suite \in Suite
  BY RunInvIs DEF FilesSound
<1>4. /\ m \in Memory /\ m.evidence.suite = suite
      /\ m.opt = mem[p].opt /\ m.locked = mem[p].locked /\ m.found = mem[p].found
  BY <1>2, <1>3 DEF Memory
<1> HIDE DEF m
<1>5. Known(p, step, m)
  BY <1>2, <1>3, <1>4 DEF Known, Probing, Judging
<1>6. Overlap \/ UpToDate(step, m, lock, base)
  BY <1>2, <1>4 DEF UpToDate, Probing, Judging
<1>7. step \in Steps /\ step # "record"
  BY DEF Steps
<1> HIDE DEF step
<1> QED  BY <1>1, <1>4, <1>5, <1>6, <1>7, GoOn

\* Evidence that is bound to what p runs is what the judgement needs.
LEMMA TakeEvidence ==
    ASSUME RunInv, NEW p \in Proc, at[p] \in {"replay", "capture", "ask"}, NEW e \in Evidence,
           e.agent = mem[p].found, e.contract = Contract[p]
    PROVE  LET m == [mem[p] EXCEPT !.evidence = e]
           IN  m \in Memory /\ Known(p, "judge", m) /\ (Overlap \/ UpToDate("judge", m, lock, base))
<1> DEFINE m == [mem[p] EXCEPT !.evidence = e]
<1>1. /\ Known(p, at[p], mem[p]) /\ mem[p] \in Memory
      /\ Overlap \/ UpToDate(at[p], mem[p], lock, base)
  BY RunInvIs
<1>2. /\ m \in Memory /\ m.evidence = e
      /\ m.opt = mem[p].opt /\ m.locked = mem[p].locked /\ m.found = mem[p].found
  BY <1>1 DEF Memory, Evidence, Contracts
<1> HIDE DEF m
<1>3. Known(p, "judge", m)
  BY <1>1, <1>2 DEF Known, Probing, Judging
<1>4. Overlap \/ UpToDate("judge", m, lock, base)
  BY <1>1, <1>2 DEF UpToDate, Probing, Judging
<1> QED  BY <1>2, <1>3, <1>4 DEF m

LEMMA ReplayRuns ==
    ASSUME RunInv, NEW p \in Proc, Replay(p)
    PROVE  RunInv'
<1>1. at[p] = "replay" /\ Running(p) /\ UNCHANGED <<tree, suite, files>>
  BY DEF Replay, Running, Nowhere
<1>2. PICK e \in runs :
        IF e.agent = mem[p].found /\ e.suite = mem[p].evidence.suite /\ e.contract = Contract[p]
        THEN Go(p, "judge", [mem[p] EXCEPT !.evidence = e])
        ELSE End(p, 3)
  BY DEF Replay
<1>3. CASE End(p, 3)
  BY <1>1, <1>3, EndNow
<1>4. CASE /\ e.agent = mem[p].found /\ e.contract = Contract[p]
           /\ Go(p, "judge", [mem[p] EXCEPT !.evidence = e])
  <2>1. e \in Evidence
    BY RunInvIs DEF FilesSound
  <2> DEFINE m == [mem[p] EXCEPT !.evidence = e]
  <2>2. m \in Memory /\ Known(p, "judge", m) /\ (Overlap \/ UpToDate("judge", m, lock, base))
    BY <1>1, <1>4, <2>1, TakeEvidence
  <2>3. Go(p, "judge", m)
    BY <1>4
  <2> HIDE DEF m
  <2> QED  BY <1>1, <2>2, <2>3, GoOn DEF Steps
<1> QED  BY <1>2, <1>3, <1>4

LEMMA SystemPromptRuns ==
    ASSUME RunInv, NEW p \in Proc, SystemPrompt(p)
    PROVE  RunInv'
<1> DEFINE e == [agent |-> mem[p].found, suite |-> mem[p].evidence.suite, contract |-> Contract[p],
                 table |-> None, sent |-> tree.prompts]
           m == [mem[p] EXCEPT !.evidence = e]
<1>1. at[p] = "system" /\ Running(p) /\ UNCHANGED <<tree, suite, files>> /\ Go(p, "capture", m)
  BY DEF SystemPrompt, Running, Nowhere
<1>2. /\ Known(p, "system", mem[p]) /\ mem[p] \in Memory
      /\ Overlap \/ UpToDate("system", mem[p], lock, base)
  BY <1>1, RunInvIs
<1>3. mem[p].found \in Agent /\ mem[p].evidence.suite \in Suite /\ tree.prompts \in Prompts
  BY <1>2, RunInvIs DEF Known, Probing, FilesSound, Agent
<1>4. /\ m \in Memory /\ m.evidence = e
      /\ m.opt = mem[p].opt /\ m.locked = mem[p].locked /\ m.found = mem[p].found
  BY <1>2, <1>3 DEF Memory, Contracts
<1> HIDE DEF m
<1>5. Known(p, "capture", m)
  BY <1>2, <1>3, <1>4 DEF Known, Probing, Judging
<1>6. Overlap \/ UpToDate("capture", m, lock, base)
  BY <1>2, <1>4 DEF UpToDate, Probing, Judging
<1> QED  BY <1>1, <1>4, <1>5, <1>6, GoOn DEF Steps

LEMMA HitRuns ==
    ASSUME RunInv, NEW p \in Proc, Hit(p)
    PROVE  RunInv'
<1>1. at[p] = "capture" /\ Running(p) /\ UNCHANGED <<tree, suite, files>>
  BY DEF Hit, Running, Nowhere
<1>2. PICK e \in Cached(p) : Go(p, "judge", [mem[p] EXCEPT !.evidence = e])
  BY DEF Hit
<1>3. Known(p, "capture", mem[p])
  BY <1>1, RunInvIs
<1>4. e \in Evidence /\ e.agent = mem[p].found /\ e.contract = Contract[p]
  BY <1>3, RunInvIs DEF Cached, FilesSound, Known
<1> DEFINE m == [mem[p] EXCEPT !.evidence = e]
<1>5. m \in Memory /\ Known(p, "judge", m) /\ (Overlap \/ UpToDate("judge", m, lock, base))
  BY <1>1, <1>4, TakeEvidence
<1>6. Go(p, "judge", m)
  BY <1>2
<1> HIDE DEF m
<1> QED  BY <1>1, <1>5, <1>6, GoOn DEF Steps

LEMMA MissRuns ==
    ASSUME RunInv, NEW p \in Proc, Miss(p)
    PROVE  RunInv'
<1>1. at[p] = "capture" /\ Running(p) /\ UNCHANGED <<tree, suite, files>> /\ Go(p, "ask", mem[p])
  BY DEF Miss, Running, Nowhere
<1>2. /\ Known(p, "capture", mem[p]) /\ mem[p] \in Memory
      /\ Overlap \/ UpToDate("capture", mem[p], lock, base)
  BY <1>1, RunInvIs
<1>3. Known(p, "ask", mem[p]) /\ (Overlap \/ UpToDate("ask", mem[p], lock, base))
  BY <1>2 DEF Known, UpToDate, Probing, Judging
<1> QED  BY <1>1, <1>2, <1>3, GoOn DEF Steps

LEMMA AskRuns ==
    ASSUME RunInv, NEW p \in Proc, NEW t \in Table, Ask(p, t)
    PROVE  RunInv'
<1> DEFINE e == [mem[p].evidence EXCEPT !.table = t]
           m == [mem[p] EXCEPT !.evidence = e]
<1>1. /\ at[p] = "ask" /\ Running(p) /\ UNCHANGED <<tree, suite, lock, base, runs>>
      /\ cache' = (cache \ Cached(p)) \union {e}
      /\ Go(p, "judge", m)
  BY DEF Ask, Running, Nowhere
<1>2. Known(p, "ask", mem[p]) /\ mem[p] \in Memory
  BY <1>1, RunInvIs
<1>3. /\ mem[p].evidence.suite \in Suite /\ mem[p].evidence.sent \in Prompts
      /\ mem[p].evidence.agent = mem[p].found /\ mem[p].evidence.contract = Contract[p]
      /\ mem[p].found \in Agent
      /\ mem[p].evidence \in [agent : Agent \union {None}, suite : Suite \union {None},
                              contract : Contracts \union {None}, table : Table \union {None},
                              sent : Prompts \union {None}]
  BY <1>2 DEF Known, Probing, Memory
<1>4. e \in Evidence /\ e.agent = mem[p].found /\ e.contract = Contract[p]
  BY <1>3 DEF Evidence
<1>5. m \in Memory /\ Known(p, "judge", m) /\ (Overlap \/ UpToDate("judge", m, lock, base))
  BY <1>1, <1>4, TakeEvidence
<1>6. FilesSound'
  BY <1>1, <1>4, RunInvIs DEF FilesSound, AcceptedIsAcceptable
<1>7. Overlap \/ (Alone(p) /\ UpToDate("judge", m, lock', base'))
  BY <1>1, <1>5, RunInvIs DEF UpToDate, Probing, Judging
<1> HIDE DEF m
<1> QED  BY <1>1, <1>5, <1>6, <1>7, GoKeeps DEF Steps

LEMMA ReadBaselineRuns ==
    ASSUME RunInv, NEW p \in Proc, ReadBaseline(p)
    PROVE  RunInv'
<1> DEFINE m == [mem[p] EXCEPT !.seen = base]
           step == IF Given(mem[p].opt, "trace") THEN "report" ELSE "artifact"
<1>1. at[p] = "judge" /\ Running(p) /\ UNCHANGED <<tree, suite, files>> /\ Go(p, step, m)
  BY DEF ReadBaseline, Running, Nowhere
<1>2. /\ Known(p, "judge", mem[p]) /\ mem[p] \in Memory
      /\ Overlap \/ UpToDate("judge", mem[p], lock, base)
  BY <1>1, RunInvIs
<1>3. base \in BaselineFile \union {None}
  BY RunInvIs DEF FilesSound
<1>4. /\ m \in Memory /\ m.seen = base /\ m.evidence = mem[p].evidence
      /\ m.opt = mem[p].opt /\ m.locked = mem[p].locked /\ m.found = mem[p].found
  BY <1>2, <1>3 DEF Memory
<1> HIDE DEF m
<1>5. Known(p, step, m)
  BY <1>2, <1>4 DEF Known, Probing, Judging
<1>6. Overlap \/ UpToDate(step, m, lock, base)
  BY <1>2, <1>4 DEF UpToDate, Probing, Judging
<1>7. step \in Steps /\ step # "record"
  BY DEF Steps
<1> HIDE DEF step
<1> QED  BY <1>1, <1>4, <1>5, <1>6, <1>7, GoOn

LEMMA WriteArtifactRuns ==
    ASSUME RunInv, NEW p \in Proc, WriteArtifact(p)
    PROVE  RunInv'
<1> DEFINE step == IF Given(mem[p].opt, "accept") THEN "record" ELSE "report"
<1>1. /\ at[p] = "artifact" /\ Running(p) /\ UNCHANGED <<tree, suite, lock, base, cache>>
      /\ runs' = runs \union {mem[p].evidence}
      /\ Go(p, step, mem[p])
  BY DEF WriteArtifact, Running, Nowhere
<1>2. /\ Known(p, "artifact", mem[p]) /\ mem[p] \in Memory
      /\ Overlap \/ UpToDate("artifact", mem[p], lock, base)
  BY <1>1, RunInvIs
<1>3. mem[p].evidence \in Evidence
  BY <1>2 DEF Known, Judging
<1>4. FilesSound'
  BY <1>1, <1>3, RunInvIs DEF FilesSound, AcceptedIsAcceptable
<1>5. Known(p, step, mem[p])
  BY <1>2 DEF Known, Probing, Judging
<1>6. step \in Steps
  BY DEF Steps
<1>7. mem[p].evidence \in runs' /\ runs \subseteq runs'
  BY <1>1
<1>8. Overlap \/ (Alone(p) /\ UpToDate(step, mem[p], lock', base'))
  BY <1>1, <1>2, RunInvIs DEF UpToDate, Probing, Judging
<1> DEFINE m == mem[p]
<1>9. /\ m \in Memory /\ Go(p, step, m) /\ Known(p, step, m) /\ m.evidence \in runs'
      /\ Overlap \/ UpToDate(step, m, lock', base')
  BY <1>1, <1>2, <1>5, <1>7, <1>8
<1> HIDE DEF m, step
<1> QED  BY <1>1, <1>4, <1>6, <1>7, <1>8, <1>9, GoKeeps

\* A run without failures meets the absolute constraints, and the drops that its
\* comparable baseline can decide.
LEMMA NoFailures ==
    ASSUME NEW p \in Proc, Outcome(p).failures = {}
    PROVE  /\ MeetsAbsolutes(Scores[mem[p].evidence.table])
           /\ (/\ mem[p].seen # None
               /\ mem[p].seen.suite = mem[p].evidence.suite
               /\ mem[p].seen.contract = Contract[p]) =>
              \A m \in DOMAIN Policy :
                  ~FailsDrop(Policy[m], Get(Scores[mem[p].evidence.table], m),
                             Recorded(mem[p].seen, m), TRUE)
<1> DEFINE scores == Scores[mem[p].evidence.table]
           comparable == /\ mem[p].seen # None /\ mem[p].seen.suite = mem[p].evidence.suite
                         /\ mem[p].seen # None /\ mem[p].seen.contract = Contract[p]
           C == {"min", "max", "max_drop"}
           F(m) == Failures(Policy[m], Get(scores, m), Recorded(mem[p].seen, m), comparable)
<1>1. Outcome(p).failures = {f \in (DOMAIN Policy) \X C : f[2] \in F(f[1])}
  BY DEF Outcome, ApplyPolicy
<1>2. ASSUME NEW m \in DOMAIN Policy, NEW c \in C
      PROVE  c \notin F(m)
  <2> HIDE DEF F
  <2>1. <<m, c>> \notin {f \in (DOMAIN Policy) \X C : f[2] \in F(f[1])}
    BY <1>1
  <2> QED  BY <2>1
<1>3. \A m \in DOMAIN Policy :
        /\ ~FailsMin(Policy[m], Get(scores, m))
        /\ ~FailsMax(Policy[m], Get(scores, m))
        /\ ~FailsDrop(Policy[m], Get(scores, m), Recorded(mem[p].seen, m), comparable)
  BY <1>2 DEF Failures
<1> QED  BY <1>3 DEF MeetsAbsolutes

LEMMA RecordBaselineRuns ==
    ASSUME RunInv, NEW p \in Proc, RecordBaseline(p)
    PROVE  RunInv'
<1>1. /\ at[p] = "record" /\ Running(p) /\ UNCHANGED <<tree, suite, lock, cache, runs>>
      /\ base' = IF Outcome(p).failures = {} THEN Baseline(p) ELSE base
      /\ Go(p, "report", mem[p])
  BY DEF RecordBaseline, Running, Nowhere
<1>2. /\ Known(p, "record", mem[p]) /\ mem[p] \in Memory
      /\ Overlap \/ UpToDate("record", mem[p], lock, base)
  BY <1>1, RunInvIs
<1>3. mem[p].found \in Agent /\ mem[p].evidence \in Evidence
  BY <1>2 DEF Known, Probing, Judging
<1>4. Baseline(p) \in BaselineFile
  BY <1>3 DEF Baseline, BaselineFile, Evidence
<1>5. Outcome(p).failures = {} => MeetsAbsolutes(Baseline(p).metrics)
  BY NoFailures DEF Baseline
<1>6. FilesSound'
  <2> HIDE DEF Baseline
  <2> QED  BY <1>1, <1>4, <1>5, RunInvIs DEF FilesSound, AcceptedIsAcceptable, MeetsAbsolutes
<1>7. Known(p, "report", mem[p])
  BY <1>2 DEF Known, Probing, Judging
<1>8. Overlap \/ (Alone(p) /\ UpToDate("report", mem[p], lock', base'))
  BY <1>1, <1>2, RunInvIs DEF UpToDate, Probing, Judging
<1> DEFINE m == mem[p]
<1>9. /\ m \in Memory /\ Go(p, "report", m) /\ Known(p, "report", m)
      /\ Overlap \/ UpToDate("report", m, lock', base')
  BY <1>1, <1>2, <1>7, <1>8
<1> HIDE DEF m
<1> QED  BY <1>1, <1>6, <1>8, <1>9, GoKeeps DEF Steps

LEMMA ConcludeRuns ==
    ASSUME RunInv, NEW p \in Proc, Conclude(p)
    PROVE  RunInv'
<1>1. /\ at[p] = "report" /\ Running(p) /\ UNCHANGED <<tree, suite, files>>
      /\ End(p, Code(p, OutcomeStatus(Outcome(p))))
  BY DEF Conclude, Running, Nowhere
<1>2. OutcomeStatus(Outcome(p)) \in Statuses
  BY DEF OutcomeStatus, Statuses
<1>3. Code(p, OutcomeStatus(Outcome(p))) \in {0, 1}
  BY <1>2, CodeIs
<1> QED  BY <1>1, <1>3, EndNow

LEMMA TruncateRuns ==
    ASSUME RunInv, NEW p \in Proc, Truncate(p)
    PROVE  RunInv'
<1>1. /\ at[p] = "write" /\ Running(p) /\ UNCHANGED <<tree, suite, base, cache, runs>>
      /\ lock' = Torn /\ Go(p, "fill", mem[p])
  BY DEF Truncate, Running, Nowhere
<1>2. Known(p, "write", mem[p]) /\ mem[p] \in Memory /\ (Overlap \/ Alone(p))
  BY <1>1, RunInvIs
<1>3. FilesSound'
  BY <1>1, RunInvIs DEF FilesSound, AcceptedIsAcceptable
<1> DEFINE m == mem[p]
<1>4. m \in Memory /\ Go(p, "fill", m) /\ Known(p, "fill", m)
  BY <1>1, <1>2 DEF Known, Probing, Judging
<1>5. UpToDate("fill", m, lock', base')
  BY DEF UpToDate, Probing, Judging
<1> HIDE DEF m
<1> QED  BY <1>1, <1>2, <1>3, <1>4, <1>5, GoKeeps DEF Steps

LEMMA FillRuns ==
    ASSUME RunInv, NEW p \in Proc, Fill(p)
    PROVE  RunInv'
<1>1. /\ at[p] = "fill" /\ Running(p) /\ UNCHANGED <<tree, suite, base, cache, runs>>
      /\ lock' = mem[p].found /\ End(p, 0)
  BY DEF Fill, Running, Nowhere
<1>2. mem[p].found \in Agent /\ (Overlap \/ Alone(p))
  BY <1>1, RunInvIs DEF Known
<1>3. FilesSound'
  BY <1>1, <1>2, RunInvIs DEF FilesSound, AcceptedIsAcceptable
<1> QED  BY <1>1, <1>2, <1>3, EndKeeps

LEMMA EditRuns ==
    ASSUME RunInv, Edit
    PROVE  RunInv'
<1>1. tree' \in Agent /\ suite' \in Suite /\ UNCHANGED <<files, at, mem, code>>
  BY RunInvIs DEF Edit, FilesSound
<1> QED  BY <1>1 DEF RunInv, TypeOK, AcceptedIsAcceptable, files, Running, Current

\* Nobody relies on the evidence that is deleted.
LEMMA ForgetRuns ==
    ASSUME RunInv, Forget
    PROVE  RunInv'
<1>1. /\ cache' = {} /\ runs' = {}
      /\ UNCHANGED <<tree, suite, lock, base, at, mem, code>>
      /\ \A p \in Proc : ~Running(p)
  BY DEF Forget
<1>2. \A p \in Proc : at[p] # "record"
  BY <1>1 DEF Running, Nowhere
<1> QED  BY <1>1, <1>2 DEF RunInv, TypeOK, AcceptedIsAcceptable, Running, Current

LEMMA StepRuns == RunInv /\ [Next]_vars => RunInv'
<1> SUFFICES ASSUME RunInv, [Next]_vars PROVE RunInv'
  OBVIOUS
<1>1. ASSUME NEW p \in Proc, NEW o \in Options \union {Snapshot}, Begin(p, o)
      PROVE  RunInv'
  BY <1>1, BeginRuns
<1>2. ASSUME NEW p \in Proc, Step(p)
      PROVE  RunInv'
  <2>1. CASE Fail(p) \/ Kill(p)
    BY <2>1, EndNow DEF Fail, Kill
  <2> QED
    BY <1>2, <2>1, LoadBaselineRuns, DiscoverPromptsRuns, DiscoverToolsRuns, CompareRuns,
       LoadSuiteRuns, ReplayRuns, SystemPromptRuns, HitRuns, MissRuns, AskRuns, ReadBaselineRuns,
       WriteArtifactRuns, RecordBaselineRuns, ConcludeRuns, TruncateRuns, FillRuns DEF Step
<1>3. CASE Edit
  BY <1>3, EditRuns
<1>4. CASE Forget
  BY <1>4, ForgetRuns
<1>5. CASE UNCHANGED vars
  BY <1>5 DEF RunInv, TypeOK, AcceptedIsAcceptable, vars, files, Running, Current
<1> QED  BY <1>1, <1>2, <1>3, <1>4, <1>5 DEF Next

------------------------------------------------------------------------------

\* RunInv holds in every reachable state.
THEOREM Inductive == Spec => []RunInv
  BY InitRuns, StepRuns, PTL DEF Spec

\* The files and what the processes have read keep their shape.
THEOREM TypeCorrect == Spec => []TypeOK
<1>1. RunInv => TypeOK
  BY DEF RunInv
<1> QED  BY <1>1, Inductive, PTL

\* Whatever is committed meets the floors and ceilings, through any interleaving of
\* accepts, failures and deaths.
THEOREM BaselineIsAcceptable == Spec => []AcceptedIsAcceptable
<1>1. RunInv => AcceptedIsAcceptable
  BY DEF RunInv
<1> QED  BY <1>1, Inductive, PTL

\* Only an accept that met every constraint writes the baseline.
LEMMA WhoWrites ==
    ASSUME RunInv, [Next]_vars, Writes
    PROVE  \E p \in Proc :
             /\ at[p] = "record" /\ Given(mem[p].opt, "accept") /\ mem[p].opt \in Options
             /\ Valid(mem[p].opt)
             /\ mem[p].evidence \in runs
             /\ mem[p].evidence.agent = mem[p].found /\ mem[p].evidence.contract = Contract[p]
             /\ mem[p].locked \in Agent /\ ~Changed(mem[p].locked, mem[p].found)
             /\ base' = Baseline(p) /\ Outcome(p).failures = {}
             /\ UNCHANGED lock
<1>1. PICK p \in Proc : RecordBaseline(p)
  BY
     DEF Next, Step, Begin, LoadBaseline, DiscoverPrompts, DiscoverTools, Compare, LoadSuite, Replay,
         SystemPrompt, Hit, Miss, Ask, ReadBaseline, WriteArtifact, Conclude, Truncate, Fill, Fail,
         Kill, Edit, Forget, vars, files, Writes
<1>2. /\ at[p] = "record" /\ UNCHANGED lock
      /\ base' = Baseline(p) /\ Outcome(p).failures = {}
  BY <1>1 DEF RecordBaseline, Writes
<1>3. Known(p, "record", mem[p]) /\ mem[p].evidence \in runs
  BY <1>2 DEF RunInv
<1> QED  BY <1>2, <1>3 DEF Known, Probing, Judging

\* Before a baseline is written, the run it records is on disk, whatever processes
\* overlap, fail or die.
THEOREM EvidenceComesFirst == Spec => EvidenceFirst
<1> DEFINE E == Writes => \E e \in runs :
                  /\ e.agent = base'.agent /\ e.suite = base'.suite /\ e.contract = base'.contract
                  /\ Scores[e.table] = base'.metrics
<1>1. RunInv /\ [Next]_vars => [E]_vars
  <2> SUFFICES ASSUME RunInv, [Next]_vars, Writes PROVE E
    OBVIOUS
  <2> QED  BY WhoWrites DEF Baseline
<1> QED  BY <1>1, Inductive, PTL DEF Spec, EvidenceFirst

\* If commands run one at a time, a baseline is recorded only for an agent that the
\* lockfile, as it stands when the baseline is written, means too.
THEOREM AcceptsMatchLock == ASSUME ~Overlap PROVE Spec => AcceptMatchesLock
<1>1. RunInv /\ [Next]_vars => [Writes => lock \in Agent /\ ~Changed(lock, base'.agent)]_vars
  <2> SUFFICES ASSUME RunInv, [Next]_vars, Writes
               PROVE  lock \in Agent /\ ~Changed(lock, base'.agent)
    OBVIOUS
  <2>1. PICK p \in Proc :
          /\ at[p] = "record" /\ Given(mem[p].opt, "accept") /\ mem[p].opt \in Options
          /\ Valid(mem[p].opt) /\ base' = Baseline(p)
          /\ mem[p].locked \in Agent /\ ~Changed(mem[p].locked, mem[p].found)
    BY WhoWrites
  <2>2. ~Given(mem[p].opt, "from")
    BY <2>1 DEF Valid, Contradictions, Given
  <2>3. mem[p].opt # Snapshot
    BY <2>1, CheckAssumption
  <2>4. mem[p].locked = lock
    BY <2>1, <2>2, <2>3 DEF RunInv, Current, Probing, Judging
  <2> QED  BY <2>1, <2>4 DEF Baseline
<1> QED  BY <1>1, Inductive, PTL DEF Spec, AcceptMatchesLock

\* If commands run one at a time, an accept under the suite and contract of the
\* baseline never lets a measured metric fall by more than its max_drop.
THEOREM RatchetIsBounded == ASSUME ~Overlap PROVE Spec => RatchetBounded
<1> DEFINE R == (/\ Writes /\ base # None
                  /\ base'.suite = base.suite /\ base'.contract = base.contract) =>
                  \A m \in DOMAIN Policy :
                      ~FailsDrop(Policy[m], Get(base'.metrics, m), Recorded(base, m), TRUE)
<1>1. RunInv /\ [Next]_vars => [R]_vars
  <2> SUFFICES ASSUME RunInv, [Next]_vars, Writes, base # None,
                      base'.suite = base.suite, base'.contract = base.contract
               PROVE  \A m \in DOMAIN Policy :
                        ~FailsDrop(Policy[m], Get(base'.metrics, m), Recorded(base, m), TRUE)
    OBVIOUS
  <2>1. PICK p \in Proc :
          at[p] = "record" /\ base' = Baseline(p) /\ Outcome(p).failures = {}
    BY WhoWrites
  <2>2. mem[p].seen = base
    BY <2>1 DEF RunInv, Current
  <2> QED  BY <2>1, <2>2, NoFailures DEF Baseline
<1> QED  BY <1>1, Inductive, PTL DEF Spec, RatchetBounded

------------------------------------------------------------------------------
(* Honest evidence.                                                          *)

\* As long as p runs, the prompts are those it discovered and those it sends.
PromptsHeld ==
    /\ Honest
    /\ \A p \in Proc :
        /\ at[p] \in {"tools", "static"} \union Probing => mem[p].found.prompts = tree.prompts
        /\ at[p] \in {"capture", "ask"} => mem[p].evidence.sent = mem[p].found.prompts
        /\ at[p] \in Judging => mem[p].evidence.sent = mem[p].evidence.agent.prompts

\* What the step of p does to what PromptsHeld speaks of.
LEMMA OthersHold ==
    ASSUME RunInv, PromptsHeld, NEW p \in Proc, UNCHANGED tree,
           at' = [at EXCEPT ![p] = at'[p]], mem' = [mem EXCEPT ![p] = mem'[p]],
           Honest',
           at'[p] \in {"tools", "static"} \union Probing => mem'[p].found.prompts = tree.prompts,
           at'[p] \in {"capture", "ask"} => mem'[p].evidence.sent = mem'[p].found.prompts,
           at'[p] \in Judging => mem'[p].evidence.sent = mem'[p].evidence.agent.prompts
    PROVE  PromptsHeld'
  BY DEF PromptsHeld, RunInv, TypeOK

\* The steps that write neither evidence nor baseline.
LEMMA PassOn ==
    ASSUME RunInv, PromptsHeld, NEW p \in Proc, UNCHANGED <<tree, base, cache, runs>>,
           \/ \E step \in Steps, m \in Memory :
                /\ Go(p, step, m)
                /\ step \in {"tools", "static"} \union Probing => m.found.prompts = tree.prompts
                /\ step \in {"capture", "ask"} => m.evidence.sent = m.found.prompts
                /\ step \in Judging => m.evidence.sent = m.evidence.agent.prompts
           \/ \E c : End(p, c)
    PROVE  PromptsHeld'
<1>1. TypeOK /\ Honest
  BY DEF RunInv, PromptsHeld
<1>2. Honest'
  BY <1>1 DEF Honest
<1>3. CASE \E c : End(p, c)
  BY <1>1, <1>2, <1>3, OthersHold, ZenonT(60) DEF End, TypeOK, Probing, Judging
<1>4. CASE \E step \in Steps, m \in Memory :
             /\ Go(p, step, m)
             /\ step \in {"tools", "static"} \union Probing => m.found.prompts = tree.prompts
             /\ step \in {"capture", "ask"} => m.evidence.sent = m.found.prompts
             /\ step \in Judging => m.evidence.sent = m.evidence.agent.prompts
  <2>1. PICK step \in Steps, m \in Memory :
             /\ Go(p, step, m)
             /\ step \in {"tools", "static"} \union Probing => m.found.prompts = tree.prompts
             /\ step \in {"capture", "ask"} => m.evidence.sent = m.found.prompts
             /\ step \in Judging => m.evidence.sent = m.evidence.agent.prompts
    BY <1>4
  <2>2. at' = [at EXCEPT ![p] = step] /\ mem' = [mem EXCEPT ![p] = m]
    BY <2>1 DEF Go
  <2>3. at'[p] = step /\ mem'[p] = m
    BY <1>1, <2>2 DEF TypeOK
  <2> QED  BY <1>2, <2>1, <2>2, <2>3, OthersHold
<1> QED  BY <1>3, <1>4

LEMMA InitHonest == Init => PromptsHeld
  BY DEF Init, PromptsHeld, Honest, Probing, Judging

LEMMA StepHonest ==
    ASSUME ~EditDuring, RunInv, PromptsHeld, [Next]_vars
    PROVE  PromptsHeld'
<1>1. TypeOK /\ Honest
  BY DEF RunInv, PromptsHeld
<1> DEFINE Held(step, m) ==
             /\ step \in {"tools", "static"} \union Probing => m.found.prompts = tree.prompts
             /\ step \in {"capture", "ask"} => m.evidence.sent = m.found.prompts
             /\ step \in Judging => m.evidence.sent = m.evidence.agent.prompts
<1>2. \A p \in Proc : Held(at[p], mem[p]) /\ mem[p] \in Memory
  BY DEF PromptsHeld, RunInv, TypeOK
<1>3. ASSUME NEW p \in Proc, NEW o \in Options \union {Snapshot}, Begin(p, o)
      PROVE  PromptsHeld'
  <2>1. [Blank EXCEPT !.opt = o] \in Memory
    BY DEF Blank, NoEvidence, Memory
  <2> QED  BY <1>3, <2>1, PassOn DEF Begin, files, Steps, Probing, Judging
<1>4. ASSUME NEW p \in Proc, Step(p)
      PROVE  PromptsHeld'
  <2>1. CASE LoadBaseline(p)
    <3>1. PICK a \in IF Given(mem[p].opt, "from") THEN Agent ELSE {lock} :
            IF a \in Agent
            THEN Go(p, "prompts", [mem[p] EXCEPT !.locked = a])
            ELSE End(p, 3)
      BY <2>1 DEF LoadBaseline
    <3>2. a \in Agent => [mem[p] EXCEPT !.locked = a] \in Memory
      BY <1>2 DEF Memory
    <3> QED  BY <2>1, <3>1, <3>2, PassOn DEF LoadBaseline, files, Steps, Probing, Judging
  <2>2. CASE DiscoverPrompts(p)
    <3> DEFINE m == [mem[p] EXCEPT !.found = [tools |-> None, prompts |-> tree.prompts]]
    <3>1. m \in Memory /\ m.found.prompts = tree.prompts
      BY <1>1, <1>2, ZenonT(60) DEF Memory, TypeOK, Agent
    <3>2. Go(p, "tools", m) /\ UNCHANGED <<tree, base, cache, runs>>
      BY <2>2 DEF DiscoverPrompts, files
    <3> HIDE DEF m
    <3> QED  BY <3>1, <3>2, PassOn DEF Steps, Probing, Judging
  <2>3. CASE DiscoverTools(p)
    <3> DEFINE m == [mem[p] EXCEPT !.found.tools = tree.tools]
    <3>1. at[p] = "tools" /\ Known(p, "tools", mem[p])
      BY <2>3 DEF DiscoverTools, RunInv
    <3>2. m \in Memory /\ m.found.prompts = tree.prompts
      <4>1. /\ mem[p].found \in [tools : {None}, prompts : Prompts]
            /\ mem[p].found.prompts = tree.prompts /\ tree.tools \in Tools
        BY <1>1, <1>2, <3>1 DEF TypeOK, Agent, Known
      <4> DEFINE f == [mem[p].found EXCEPT !.tools = tree.tools]
      <4>2. f \in [tools : Tools \union {None}, prompts : Prompts] /\ f.prompts = tree.prompts
        BY <4>1
      <4>3. m = [mem[p] EXCEPT !.found = f]
        BY <1>2 DEF Memory
      <4> HIDE DEF f, m
      <4> QED  BY <1>2, <4>2, <4>3 DEF Memory
    <3>3. /\ Go(p, IF mem[p].opt = Snapshot THEN "write" ELSE "static", m)
          /\ UNCHANGED <<tree, base, cache, runs>>
      BY <2>3 DEF DiscoverTools, files
    <3> HIDE DEF m
    <3> QED  BY <3>2, <3>3, PassOn DEF Steps, Probing, Judging
  <2>4. CASE Compare(p)
    BY <1>2, <2>4, PassOn DEF Compare, files, Steps, Probing, Judging
  <2>5. CASE LoadSuite(p)
    <3> DEFINE m == [mem[p] EXCEPT !.evidence.suite = suite]
    <3>1. at[p] = "suite" /\ UNCHANGED <<tree, base, cache, runs>>
          /\ Go(p, IF Given(mem[p].opt, "trace") THEN "replay" ELSE "system", m)
      BY <2>5 DEF LoadSuite, files
    <3>2. m \in Memory /\ m.found = mem[p].found
      BY <1>1, <1>2, ZenonT(60) DEF Memory, TypeOK
    <3> HIDE DEF m
    <3> QED  BY <1>2, <3>1, <3>2, PassOn DEF Steps, Probing, Judging
  <2>6. CASE Replay(p)
    <3>1. at[p] = "replay" /\ UNCHANGED <<tree, base, cache, runs>>
      BY <2>6 DEF Replay, files
    <3>2. PICK e \in runs :
            IF e.agent = mem[p].found /\ e.suite = mem[p].evidence.suite /\ e.contract = Contract[p]
            THEN Go(p, "judge", [mem[p] EXCEPT !.evidence = e])
            ELSE End(p, 3)
      BY <2>6 DEF Replay
    <3> DEFINE m == [mem[p] EXCEPT !.evidence = e]
    <3>3. m \in Memory /\ m.evidence = e /\ m.found = mem[p].found /\ e.sent = e.agent.prompts
      BY <1>1, <1>2, ZenonT(60) DEF Memory, TypeOK, Evidence, Contracts, Honest
    <3>4. Go(p, "judge", m) \/ End(p, 3)
      BY <3>2
    <3> HIDE DEF m
    <3> QED  BY <1>2, <3>1, <3>3, <3>4, PassOn DEF Steps, Probing, Judging
  <2>7. CASE SystemPrompt(p)
    <3> DEFINE e == [agent |-> mem[p].found, suite |-> mem[p].evidence.suite,
                     contract |-> Contract[p], table |-> None, sent |-> tree.prompts]
               m == [mem[p] EXCEPT !.evidence = e]
    <3>1. at[p] = "system" /\ UNCHANGED <<tree, base, cache, runs>> /\ Go(p, "capture", m)
      BY <2>7 DEF SystemPrompt, files
    <3>2. Known(p, "system", mem[p])
      BY <3>1 DEF RunInv
    <3>3. m \in Memory /\ m.evidence = e /\ m.found = mem[p].found
      <4>1. /\ mem[p].found \in Agent /\ mem[p].evidence.suite \in Suite
            /\ tree.prompts \in Prompts
        BY <1>1, <3>2 DEF TypeOK, Known, Agent, Probing
      <4> QED  BY <1>2, <4>1 DEF Memory, Contracts
    <3> HIDE DEF m
    <3> QED  BY <1>2, <3>1, <3>3, PassOn DEF Steps, Probing, Judging
  <2>8. CASE Hit(p)
    <3>1. at[p] = "capture" /\ UNCHANGED <<tree, base, cache, runs>>
      BY <2>8 DEF Hit, files
    <3>2. PICK e \in cache : Go(p, "judge", [mem[p] EXCEPT !.evidence = e])
      BY <2>8 DEF Hit, Cached
    <3> DEFINE m == [mem[p] EXCEPT !.evidence = e]
    <3>3. m \in Memory /\ m.evidence = e /\ m.found = mem[p].found /\ e.sent = e.agent.prompts
      BY <1>1, <1>2, ZenonT(60) DEF Memory, TypeOK, Evidence, Contracts, Honest
    <3>4. Go(p, "judge", m)
      BY <3>2
    <3> HIDE DEF m
    <3> QED  BY <1>2, <3>1, <3>3, <3>4, PassOn DEF Steps, Probing, Judging
  <2>9. CASE Miss(p)
    BY <1>2, <2>9, PassOn DEF Miss, files, Steps, Probing, Judging
  <2>10. ASSUME NEW t \in Table, Ask(p, t)
         PROVE  PromptsHeld'
    <3> DEFINE e == [mem[p].evidence EXCEPT !.table = t]
               m == [mem[p] EXCEPT !.evidence = e]
    <3>1. /\ at[p] = "ask" /\ UNCHANGED <<tree, base, runs>>
          /\ cache' = (cache \ Cached(p)) \union {e}
          /\ Go(p, "judge", m)
      BY <2>10 DEF Ask
    <3>2. Known(p, "ask", mem[p])
      BY <3>1 DEF RunInv
    <3>3. e.sent = e.agent.prompts
      BY <1>2, <3>1, <3>2 DEF Memory, Known
    <3>4. Honest'
      BY <1>1, <3>1, <3>3 DEF Honest
    <3>5. m.evidence = e /\ m.found = mem[p].found
      BY <1>2 DEF Memory
    <3>6. at' = [at EXCEPT ![p] = "judge"] /\ mem' = [mem EXCEPT ![p] = m]
      BY <3>1 DEF Go
    <3>7. at'[p] = "judge" /\ mem'[p] = m
      BY <1>1, <3>6 DEF TypeOK
    <3> HIDE DEF m, e
    <3> QED  BY <1>2, <3>1, <3>3, <3>4, <3>5, <3>6, <3>7, OthersHold, ZenonT(60) DEF Probing, Judging
  <2>11. CASE ReadBaseline(p)
    <3> DEFINE m == [mem[p] EXCEPT !.seen = base]
    <3>1. /\ at[p] = "judge" /\ UNCHANGED <<tree, base, cache, runs>>
          /\ Go(p, IF Given(mem[p].opt, "trace") THEN "report" ELSE "artifact", m)
      BY <2>11 DEF ReadBaseline, files
    <3>2. m \in Memory /\ m.evidence = mem[p].evidence /\ m.found = mem[p].found
      BY <1>1, <1>2 DEF Memory, TypeOK
    <3> HIDE DEF m
    <3> QED  BY <1>2, <3>1, <3>2, PassOn DEF Steps, Probing, Judging
  <2>12. CASE WriteArtifact(p)
    <3>1. /\ at[p] = "artifact" /\ UNCHANGED <<tree, base, cache>>
          /\ runs' = runs \union {mem[p].evidence}
          /\ Go(p, IF Given(mem[p].opt, "accept") THEN "record" ELSE "report", mem[p])
      BY <2>12 DEF WriteArtifact
    <3>2. Honest'
      BY <1>1, <1>2, <3>1 DEF Honest, Judging
    <3> QED  BY <1>1, <1>2, <3>1, <3>2, OthersHold DEF Go, TypeOK, Probing, Judging
  <2>13. CASE RecordBaseline(p)
    <3>1. /\ at[p] = "record" /\ UNCHANGED <<tree, cache, runs>>
          /\ base' = Baseline(p) \/ base' = base
          /\ Go(p, "report", mem[p])
      BY <2>13 DEF RecordBaseline
    <3>2. Known(p, "record", mem[p])
      BY <3>1 DEF RunInv
    <3>3. Honest'
      BY <1>1, <1>2, <3>1, <3>2 DEF Honest, Judging, Known, Baseline
    <3> QED  BY <1>1, <1>2, <3>1, <3>3, OthersHold DEF Go, TypeOK, Probing, Judging
  <2>14. CASE Conclude(p) \/ Fill(p) \/ Fail(p) \/ Kill(p)
    BY <2>14, PassOn DEF Conclude, Fill, Fail, Kill, files
  <2>15. CASE Truncate(p)
    BY <1>2, <2>15, PassOn DEF Truncate, Steps, Probing, Judging
  <2> QED
    BY <1>4, <2>1, <2>2, <2>3, <2>4, <2>5, <2>6, <2>7, <2>8, <2>9, <2>10, <2>11, <2>12, <2>13,
       <2>14, <2>15 DEF Step
<1>5. CASE Edit
  <2>1. \A p \in Proc : ~Running(p) /\ UNCHANGED <<base, cache, runs, at, mem>>
    BY <1>5 DEF Edit, MayEdit, files
  <2> QED  BY <1>1, <1>5, <2>1 DEF PromptsHeld, Honest, Running, Nowhere, Probing, Judging, Edit, files
<1>6. CASE Forget
  BY <1>6 DEF Forget, PromptsHeld, Honest
<1>7. CASE UNCHANGED vars
  BY <1>7 DEF vars, files, PromptsHeld, Honest
<1> QED  BY <1>3, <1>4, <1>5, <1>6, <1>7 DEF Next

\* If the project is not edited while a command runs, all evidence and every baseline
\* is of the prompts it is filed under, whatever processes overlap, fail or die.
THEOREM EvidenceIsHonest == ASSUME ~EditDuring PROVE Spec => []Honest
<1>1. RunInv /\ PromptsHeld /\ [Next]_vars => PromptsHeld'
  BY StepHonest
<1>2. PromptsHeld => Honest
  BY DEF PromptsHeld
<1> QED  BY <1>1, <1>2, InitHonest, Inductive, PTL DEF Spec

------------------------------------------------------------------------------
(* Green is clean.                                                           *)

\* A process that is about to report has judged the baseline there is, or has just
\* recorded it.
Judged ==
    \A p \in Proc : at[p] = "report" =>
        base = mem[p].seen \/ (base = Baseline(p) /\ Outcome(p).failures = {})

LEMMA StepJudged ==
    ASSUME ~Overlap, RunInv, Judged, [Next]_vars
    PROVE  Judged'
<1>1. TypeOK
  BY DEF RunInv
<1>2. \A p, q \in Proc : Running(p) /\ Running(q) => p = q
  BY DEF RunInv
<1> SUFFICES ASSUME NEW p \in Proc, at'[p] = "report"
             PROVE  \/ base' = mem'[p].seen
                    \/ base' = Baseline(p)' /\ Outcome(p).failures' = {}
  BY DEF Judged
<1>3. CASE ReadBaseline(p)
  <2>1. mem' = [mem EXCEPT ![p] = [mem[p] EXCEPT !.seen = base]] /\ base' = base
    BY <1>3 DEF ReadBaseline, Go, files
  <2>2. mem[p] \in Memory /\ mem'[p] = [mem[p] EXCEPT !.seen = base]
    BY <1>1, <2>1 DEF TypeOK
  <2> QED  BY <2>1, <2>2 DEF Memory
<1>4. CASE WriteArtifact(p)
  <2>1. mem[p].seen = base
    BY <1>4 DEF WriteArtifact, RunInv, Current
  <2>2. mem'[p] = mem[p] /\ base' = base
    BY <1>1, <1>4 DEF WriteArtifact, Go, TypeOK
  <2> QED  BY <2>1, <2>2
<1>5. CASE RecordBaseline(p)
  <2>1. mem[p].seen = base
    BY <1>5 DEF RecordBaseline, RunInv, Current
  <2>2. mem'[p] = mem[p]
    BY <1>1, <1>5 DEF RecordBaseline, Go, TypeOK
  <2>3. Baseline(p)' = Baseline(p) /\ Outcome(p)' = Outcome(p)
    BY <2>2 DEF Baseline, Outcome
  <2> QED  BY <1>5, <2>1, <2>2, <2>3 DEF RecordBaseline
<1>6. CASE at[p] = "report" /\ mem'[p] = mem[p] /\ base' = base
  <2>1. Baseline(p)' = Baseline(p) /\ Outcome(p)' = Outcome(p)
    BY <1>6 DEF Baseline, Outcome
  <2> QED  BY <1>6, <2>1 DEF Judged
<1>7. ASSUME NEW q \in Proc, NEW o \in Options \union {Snapshot}, Begin(q, o)
      PROVE  at[p] = "report" /\ mem'[p] = mem[p] /\ base' = base
  <2>1. at'[p] # "report"
    BY <1>1, <1>7 DEF Begin, Go, End, TypeOK, Running, Nowhere
  <2> QED  BY <2>1
<1>8. ASSUME NEW q \in Proc, Step(q), q # p
      PROVE  at[p] = "report" /\ mem'[p] = mem[p] /\ base' = base
  <2>1. Running(q) /\ at'[p] = at[p]
    BY <1>1, <1>8
       DEF Step, LoadBaseline, DiscoverPrompts, DiscoverTools, Compare, LoadSuite, Replay,
         SystemPrompt, Hit, Miss, Ask, ReadBaseline, WriteArtifact, RecordBaseline, Conclude,
         Truncate, Fill, Fail, Kill, Go, End, TypeOK, Running, Nowhere
  <2> QED  BY <1>2, <1>8, <2>1 DEF Running, Nowhere
<1>9. ASSUME Step(p), ~ReadBaseline(p), ~WriteArtifact(p), ~RecordBaseline(p)
      PROVE  FALSE
  BY <1>1, <1>9
     DEF Step, LoadBaseline, DiscoverPrompts, DiscoverTools, Compare, LoadSuite, Replay,
         SystemPrompt, Hit, Miss, Ask, Conclude, Truncate, Fill, Fail, Kill, Go, End, TypeOK
<1>10. CASE Edit \/ Forget \/ UNCHANGED vars
  BY <1>6, <1>10 DEF Edit, Forget, vars, files
<1> QED  BY <1>3, <1>4, <1>5, <1>6, <1>7, <1>8, <1>9, <1>10 DEF Next

\* No score is short of itself.
LEMMA NoFallFromItself ==
    ASSUME NEW t \in Table, NEW m \in DOMAIN Policy
    PROVE  ~FailsDrop(Policy[m], Get(Scores[t], m), Get(Scores[t], m), TRUE)
<1> DEFINE now == Get(Scores[t], m)
           drop == Policy[m].max_drop
<1> SUFFICES ASSUME drop # None, Measured(now) PROVE ~Fell(now, now, drop)
  BY DEF FailsDrop, CanCompare
<1>1. now \in [passed : Nat, total : Nat]
  BY CheckAssumption DEF Get, Measured
<1>2. drop \in Nat
  BY CheckAssumption
<1> HIDE DEF now, drop
<1>3. now.passed \in Nat /\ now.total \in Nat
  BY <1>1
<1>4. ASSUME NEW x \in Nat, NEW n \in Nat, NEW d \in Nat, NEW u \in Nat
      PROVE  ~((x * n - x * n) * u > d * n * n)
  <2>1. x * n \in Int
    BY <1>4
  <2>2. d * n \in Nat
    BY <1>4
  <2>3. d * n * n \in Nat
    BY <1>4, <2>2
  <2>4. x * n - x * n = 0
    BY <2>1
  <2>5. (x * n - x * n) * u = 0
    BY <1>4, <2>4
  <2> QED  BY <2>3, <2>5
<1> QED  BY <1>2, <1>3, <1>4, GateAssumption DEF Fell

\* A green exit code under --fail-on-drift: every half that was asked for passed.
LEMMA GreenPasses ==
    ASSUME NEW p \in Proc, NEW b \in Statuses \union {None}, Code(p, b) = 0,
           Given(mem[p].opt, "fail_on_drift")
    PROVE  /\ Given(mem[p].opt, "probes_only") \/ ~Changed(mem[p].locked, mem[p].found)
           /\ b # None => b = "pass"
<1>1. CombinedStatus(GatedStatic(p), b, Drift(p)) = "pass"
  <2>1. CombinedStatus(GatedStatic(p), b, Drift(p)) \in Statuses
    BY DEF CombinedStatus, GatedStatic, StaticStatus, DependencyStatus, Statuses, Worst
  <2> QED  BY <2>1 DEF Code, ExitCode, Statuses
<1>2. ~Drift(p)
  BY <1>1 DEF CombinedStatus
<1>3. b # None => b = "pass"
  BY <1>1 DEF CombinedStatus, Worst, Rank, Statuses, GatedStatic, StaticStatus, DependencyStatus
<1> QED  BY <1>2, <1>3 DEF Drift, Report

\* What GreenIsClean says of p.
Clean(p) ==
    /\ Given(mem[p].opt, "probes_only") \/ ~Changed(lock, mem[p].found)
    /\ Probes(mem[p].opt) =>
         /\ base # None
         /\ base.suite = mem[p].evidence.suite /\ base.contract = Contract[p]
         /\ \A m \in DOMAIN Policy :
             Failures(Policy[m], Get(Scores[mem[p].evidence.table], m),
                      Recorded(base, m), TRUE) = {}

\* Only the dependency gate and the last step report.
LEMMA WhoReports ==
    ASSUME RunInv, [Next]_vars, NEW p \in Proc, Reports(p)
    PROVE  Compare(p) \/ Conclude(p)
<1>1. TypeOK
  BY DEF RunInv
<1>2. ~UNCHANGED at
  BY DEF Reports
<1>3. ASSUME NEW q \in Proc, NEW o \in Options \union {Snapshot}, Begin(q, o)
      PROVE  FALSE
  BY <1>1, <1>3 DEF Begin, Go, End, TypeOK, Reports
<1>4. PICK q \in Proc : Step(q)
  BY <1>2, <1>3 DEF Next, Edit, Forget, vars
<1>5. q = p
  BY <1>1, <1>4
     DEF Reports, Step, LoadBaseline, DiscoverPrompts, DiscoverTools, Compare, LoadSuite, Replay,
         SystemPrompt, Hit, Miss, Ask, ReadBaseline, WriteArtifact, RecordBaseline, Conclude,
         Truncate, Fill, Fail, Kill, Go, End, TypeOK
<1>6. ~Fill(p)
  BY DEF Fill, Reports, RunInv, Known
<1>7. code'[p] # 3 /\ code'[p] # 2 /\ code'[p] # None
  BY GateAssumption DEF Reports
<1> QED
  BY <1>1, <1>4, <1>5, <1>6, <1>7
     DEF Reports, Step, LoadBaseline, DiscoverPrompts, DiscoverTools, LoadSuite, Replay,
         SystemPrompt, Hit, Miss, Ask, ReadBaseline, WriteArtifact, RecordBaseline,
         Truncate, Fail, Kill, Go, End, TypeOK

LEMMA GreenStep ==
    ASSUME ~Overlap, RunInv, Judged, [Next]_vars, NEW p \in Proc, Reports(p), code'[p] = 0,
           Given(mem[p].opt, "fail_on_drift"), ~Given(mem[p].opt, "from")
    PROVE  Clean(p)
<1>1. TypeOK
  BY DEF RunInv
<1>7. code'[p] # 3 /\ code'[p] # 2 /\ code'[p] # None
  BY GateAssumption
<1>8. Compare(p) \/ Conclude(p)
  BY WhoReports
<1>9. /\ at[p] \in {"static", "report"} => mem[p].locked = lock
      /\ Known(p, at[p], mem[p])
  BY DEF RunInv, Current, Reports, Probing, Judging
<1>10. CASE Compare(p)
  <2>1. at[p] = "static" /\ ~Probes(mem[p].opt) /\ Code(p, None) = 0
    BY <1>1, <1>7, <1>10 DEF Compare, Go, End, TypeOK, Reports
  <2> QED  BY <1>9, <2>1, GreenPasses DEF Clean
<1>11. CASE Conclude(p)
  <2>1. at[p] = "report" /\ Code(p, OutcomeStatus(Outcome(p))) = 0
    BY <1>1, <1>11 DEF Conclude, End, TypeOK
  <2>2. OutcomeStatus(Outcome(p)) \in Statuses
    BY DEF OutcomeStatus, Statuses
  <2>3. /\ Given(mem[p].opt, "probes_only") \/ ~Changed(lock, mem[p].found)
        /\ OutcomeStatus(Outcome(p)) = "pass" \/ OutcomeStatus(Outcome(p)) = None
    BY <1>9, <2>1, <2>2, GreenPasses
  <2>4. OutcomeStatus(Outcome(p)) = "pass"
    BY <2>2, <2>3, CheckAssumption
  <2>5. Outcome(p).failures = {} /\ Comparable(Outcome(p))
    BY <2>4 DEF OutcomeStatus
  <2>6. /\ mem[p].seen # None /\ mem[p].seen.suite = mem[p].evidence.suite
        /\ mem[p].seen.contract = Contract[p]
    BY <2>5 DEF Comparable, Outcome, ApplyPolicy
  <2>7. mem[p].evidence \in Evidence /\ mem[p].found \in Agent
    BY <1>9, <2>1 DEF Known, Probing, Judging
  <2> DEFINE scores == Scores[mem[p].evidence.table]
  <2>8. /\ base # None /\ base.suite = mem[p].evidence.suite /\ base.contract = Contract[p]
        /\ \A m \in DOMAIN Policy : ~FailsDrop(Policy[m], Get(scores, m), Recorded(base, m), TRUE)
    <3>1. CASE base = mem[p].seen
      BY <2>5, <2>6, <3>1, NoFailures
    <3>2. CASE base = Baseline(p)
      <4>1. Baseline(p) \in BaselineFile
        BY <2>7 DEF Baseline, BaselineFile, Evidence
      <4>2. base # None
        BY <3>2, <4>1, CheckAssumption
      <4>3. \A m : Recorded(base, m) = Get(scores, m)
        BY <3>2, <4>2 DEF Recorded, Baseline
      <4>4. mem[p].evidence.table \in Table
        BY <2>7 DEF Evidence
      <4> QED  BY <3>2, <4>2, <4>3, <4>4, NoFallFromItself DEF Baseline
    <3> QED  BY <2>1, <3>1, <3>2 DEF Judged
  <2>9. MeetsAbsolutes(scores)
    BY <2>5, NoFailures
  <2>10. \A m \in DOMAIN Policy : Failures(Policy[m], Get(scores, m), Recorded(base, m), TRUE) = {}
    BY <2>8, <2>9 DEF MeetsAbsolutes, Failures
  <2> QED  BY <2>3, <2>8, <2>10 DEF Clean
<1> QED  BY <1>8, <1>10, <1>11

\* If commands run one at a time, exit 0 with --fail-on-drift speaks of the lockfile
\* and the baseline as they stand when the run ends.
THEOREM GreenMeansClean == ASSUME ~Overlap PROVE Spec => GreenIsClean
<1> DEFINE G == \A p \in Proc :
        (Reports(p) /\ code'[p] = 0 /\ {"fail_on_drift"} \subseteq mem[p].opt.flags
            /\ ~Given(mem[p].opt, "from"))
        => /\ Given(mem[p].opt, "probes_only") \/ ~Changed(lock, mem[p].found)
           /\ Probes(mem[p].opt) =>
                /\ base # None
                /\ base.suite = mem[p].evidence.suite /\ base.contract = Contract[p]
                /\ \A m \in DOMAIN Policy :
                    Failures(Policy[m], Get(Scores[mem[p].evidence.table], m),
                             Recorded(base, m), TRUE) = {}
<1>1. Init => Judged
  BY DEF Init, Judged
<1>2. RunInv /\ Judged /\ [Next]_vars => Judged'
  BY StepJudged
<1>3. RunInv /\ Judged /\ [Next]_vars => [G]_vars
  BY GreenStep DEF Clean, Given
<1> QED  BY <1>1, <1>2, <1>3, Inductive, PTL DEF Spec, GreenIsClean

------------------------------------------------------------------------------
(* Accepting settles.                                                        *)

\* The cache has one entry under a key, and what a process judges is filed there,
\* unless it was given.
Filed ==
    /\ \A e, f \in cache : e.agent = f.agent /\ e.suite = f.suite /\ e.contract = f.contract => e = f
    /\ \A p \in Proc : at[p] = "replay" => Given(mem[p].opt, "trace")
    /\ \A p \in Proc : at[p] \in Judging /\ ~Given(mem[p].opt, "trace") => mem[p].evidence \in cache

LEMMA StepFiled ==
    ASSUME ~Overlap, RunInv, Filed, [Next]_vars
    PROVE  Filed'
<1>1. TypeOK
  BY DEF RunInv
<1>2. \A p, q \in Proc : Running(p) /\ Running(q) => p = q
  BY DEF RunInv
<1>3. ASSUME NEW q \in Proc, NEW o \in Options \union {Snapshot}, Begin(q, o)
      PROVE  Filed'
  <2>1. cache' = cache /\ at'[q] \notin Judging \union {"replay"}
    BY <1>1, <1>3 DEF Begin, Go, End, TypeOK, files, Judging
  <2>2. \A p \in Proc : p # q => at'[p] = at[p] /\ mem'[p] = mem[p]
    BY <1>1, <1>3 DEF Begin, Go, End, TypeOK
  <2> QED  BY <2>1, <2>2 DEF Filed
<1>4. ASSUME NEW q \in Proc, Step(q)
      PROVE  Filed'
  <2>1. ASSUME NEW p \in Proc, p # q
        PROVE  at'[p] \notin Judging \union {"replay"}
    <3>1. Running(q) /\ at'[p] = at[p]
      BY <1>1, <1>4, <2>1
         DEF Step, LoadBaseline, DiscoverPrompts, DiscoverTools, Compare, LoadSuite, Replay,
           SystemPrompt, Hit, Miss, Ask, ReadBaseline, WriteArtifact, RecordBaseline, Conclude,
           Truncate, Fill, Fail, Kill, Go, End, TypeOK, Running, Nowhere
    <3>2. at[p] \in Nowhere
      BY <1>2, <2>1, <3>1 DEF Running
    <3> QED  BY <3>1, <3>2 DEF Nowhere, Judging
  <2>2. ASSUME cache' = cache,
               at'[q] = "replay" => Given(mem'[q].opt, "trace"),
               at'[q] \in Judging /\ ~Given(mem'[q].opt, "trace") => mem'[q].evidence \in cache
        PROVE  Filed'
    BY <2>1, <2>2 DEF Filed
  <2>3. mem[q] \in Memory
    BY <1>1 DEF TypeOK
  <2>4. CASE LoadSuite(q)
    <3>1. /\ cache' = cache /\ mem'[q].opt = mem[q].opt
          /\ at'[q] = IF Given(mem[q].opt, "trace") THEN "replay" ELSE "system"
      BY <1>1, <2>3, <2>4 DEF LoadSuite, Go, TypeOK, Memory, files
    <3> QED  BY <2>2, <3>1 DEF Judging
  <2>5. CASE Replay(q)
    <3>1. PICK e \in runs : Go(q, "judge", [mem[q] EXCEPT !.evidence = e]) \/ End(q, 3)
      BY <2>5 DEF Replay
    <3>2. cache' = cache /\ Given(mem[q].opt, "trace")
      BY <2>5 DEF Replay, Filed, files
    <3>3. CASE Go(q, "judge", [mem[q] EXCEPT !.evidence = e])
      <4>1. at'[q] = "judge" /\ mem'[q].opt = mem[q].opt
        BY <1>1, <2>3, <3>3 DEF Go, TypeOK, Memory
      <4> QED  BY <2>2, <3>2, <4>1
    <3>4. CASE End(q, 3)
      <4>1. at'[q] = "ended"
        BY <1>1, <3>4 DEF End, TypeOK
      <4> QED  BY <2>2, <3>2, <4>1 DEF Judging
    <3> QED  BY <3>1, <3>3, <3>4
  <2>6. CASE Hit(q)
    <3>1. PICK e \in Cached(q) : Go(q, "judge", [mem[q] EXCEPT !.evidence = e])
      BY <2>6 DEF Hit
    <3>2. e \in cache /\ cache' = cache
      BY <2>6 DEF Hit, Cached, files
    <3>3. at'[q] = "judge" /\ mem'[q].evidence = e
      BY <1>1, <2>3, <3>1 DEF Go, TypeOK, Memory
    <3> QED  BY <2>2, <3>2, <3>3
  <2>7. ASSUME NEW t \in Table, Ask(q, t)
        PROVE  Filed'
    <3> DEFINE e == [mem[q].evidence EXCEPT !.table = t]
    <3>1. cache' = (cache \ Cached(q)) \union {e} /\ Go(q, "judge", [mem[q] EXCEPT !.evidence = e])
      BY <2>7 DEF Ask
    <3>2. /\ e.agent = mem[q].evidence.agent /\ e.suite = mem[q].evidence.suite
          /\ e.contract = mem[q].evidence.contract
      BY <2>3 DEF Memory
    <3> HIDE DEF e
    <3>3. at'[q] = "judge" /\ mem'[q].evidence = e
      BY <1>1, <2>3, <3>1 DEF Go, TypeOK, Memory
    <3>4. \A f, g \in cache' : f.agent = g.agent /\ f.suite = g.suite /\ f.contract = g.contract => f = g
      BY <3>1, <3>2 DEF Filed, Cached
    <3> QED  BY <2>1, <3>1, <3>3, <3>4 DEF Filed
  <2>8. CASE ReadBaseline(q) \/ WriteArtifact(q) \/ RecordBaseline(q)
    <3>1. /\ cache' = cache /\ at[q] \in Judging /\ at'[q] # "replay"
          /\ mem'[q].opt = mem[q].opt /\ mem'[q].evidence = mem[q].evidence
      BY <1>1, <2>3, <2>8 DEF ReadBaseline, WriteArtifact, RecordBaseline, Go, TypeOK, Memory, files, Judging
    <3> QED  BY <2>2, <3>1 DEF Filed
  <2>9. CASE \/ LoadBaseline(q) \/ DiscoverPrompts(q) \/ DiscoverTools(q) \/ Compare(q)
             \/ SystemPrompt(q) \/ Miss(q) \/ Conclude(q) \/ Truncate(q) \/ Fill(q)
             \/ Fail(q) \/ Kill(q)
    <3>1. cache' = cache /\ at'[q] \notin Judging \union {"replay"}
      BY <1>1, <2>9
         DEF LoadBaseline, DiscoverPrompts, DiscoverTools, Compare, SystemPrompt, Miss, Conclude,
           Truncate, Fill, Fail, Kill, Go, End, TypeOK, files, Judging
    <3> QED  BY <2>2, <3>1
  <2> QED  BY <1>4, <2>4, <2>5, <2>6, <2>7, <2>8, <2>9 DEF Step
<1>5. CASE Forget
  BY <1>5 DEF Forget, Filed, Running, Nowhere, Judging
<1>6. CASE Edit \/ UNCHANGED vars
  BY <1>6 DEF Edit, vars, files, Filed
<1> QED  BY <1>3, <1>4, <1>5, <1>6 DEF Next

\* A process that accepts leaves its evidence in the cache.
LEMMA RecordsInPlace ==
    ASSUME ~Overlap, RunInv, Filed, [Next]_vars, NEW p \in Proc, Writes, RecordBaseline(p)
    PROVE  /\ lock \in Agent /\ ~Changed(lock, mem[p].found)
           /\ \E e \in cache :
                /\ e.agent = base'.agent /\ e.suite = base'.suite /\ e.contract = Contract[p]
                /\ Scores[e.table] = base'.metrics
<1>1. at[p] = "record" /\ base' = Baseline(p)
  BY DEF RecordBaseline, Writes
<1>2. Known(p, "record", mem[p])
  BY <1>1 DEF RunInv
<1>3. /\ Given(mem[p].opt, "accept") /\ mem[p].opt \in Options /\ Valid(mem[p].opt)
      /\ mem[p].locked \in Agent /\ ~Changed(mem[p].locked, mem[p].found)
      /\ mem[p].evidence.agent = mem[p].found /\ mem[p].evidence.contract = Contract[p]
  BY <1>2 DEF Known, Probing, Judging
<1>4. ~Given(mem[p].opt, "from") /\ ~Given(mem[p].opt, "trace") /\ mem[p].opt # Snapshot
  BY <1>3, CheckAssumption DEF Valid, Contradictions, Given
<1>5. mem[p].locked = lock
  BY <1>1, <1>4 DEF RunInv, Current, Probing, Judging
<1>6. mem[p].evidence \in cache
  BY <1>1, <1>4 DEF Filed, Judging
<1> QED  BY <1>1, <1>3, <1>5, <1>6 DEF Baseline

\* Who finds everything in place is green.
LEMMA SettledStep ==
    ASSUME ~Overlap, RunInv, Filed, [Next]_vars, NEW p \in Proc, Reports(p), InPlace(p),
           ~Given(mem[p].opt, "trace"), ~Given(mem[p].opt, "from")
    PROVE  code'[p] = 0 \/ Undecidable
<1>1. TypeOK
  BY DEF RunInv
<1>2. Compare(p) \/ Conclude(p)
  BY WhoReports
<1>3. mem[p].locked = lock /\ Known(p, at[p], mem[p])
  BY <1>2 DEF Compare, Conclude, RunInv, Current, Reports, Probing, Judging
<1>4. StaticStatus(p) = "pass" /\ GatedStatic(p) = "pass" /\ ~Drift(p)
  <2>1. Report(p).changed = FALSE
    BY <1>3 DEF InPlace, Report
  <2> QED  BY <2>1 DEF StaticStatus, DependencyStatus, GatedStatic, Drift
<1>5. CASE Compare(p)
  <2>1. code'[p] = Code(p, None)
    BY <1>1, <1>4, <1>5 DEF Compare, Refused, Go, End, TypeOK, Reports
  <2> QED  BY <1>4, <2>1 DEF Code, CombinedStatus, ExitCode
<1>6. CASE Conclude(p)
  <2> DEFINE scores == Scores[mem[p].evidence.table]
  <2>1. at[p] = "report" /\ code'[p] = Code(p, OutcomeStatus(Outcome(p)))
    BY <1>1, <1>6 DEF Conclude, End, TypeOK
  <2>2. /\ mem[p].evidence \in cache /\ mem[p].evidence.table \in Table
        /\ mem[p].evidence.agent = mem[p].found /\ mem[p].evidence.contract = Contract[p]
    BY <1>3, <2>1 DEF Filed, Known, Judging, Evidence
  <2>3. /\ base # None /\ base = mem[p].seen /\ base.suite = mem[p].evidence.suite
        /\ base.contract = Contract[p]
    BY DEF InPlace
  <2>4. base.metrics = scores
    <3>1. PICK e \in cache : /\ e.agent = mem[p].found /\ e.suite = mem[p].evidence.suite
                             /\ e.contract = Contract[p] /\ Scores[e.table] = base.metrics
      BY DEF InPlace
    <3>2. e = mem[p].evidence
      BY <2>2, <3>1 DEF Filed
    <3> QED  BY <3>1, <3>2
  <2>5. MeetsAbsolutes(scores)
    BY <2>3, <2>4 DEF RunInv, AcceptedIsAcceptable
  <2>6. \A m : Recorded(mem[p].seen, m) = Get(scores, m)
    BY <2>3, <2>4 DEF Recorded
  <2>7. Comparable(Outcome(p))
    BY <2>3 DEF Comparable, Outcome, ApplyPolicy
  <2>8. Outcome(p).failures = {}
    <3>1. ASSUME NEW m \in DOMAIN Policy
          PROVE  Failures(Policy[m], Get(scores, m), Recorded(mem[p].seen, m), TRUE) = {}
      BY <2>2, <2>5, <2>6, <3>1, NoFallFromItself DEF MeetsAbsolutes, Failures
    <3> QED  BY <2>3, <3>1 DEF Outcome, ApplyPolicy
  <2>9. Outcome(p).undecided => Undecidable
    <3>1. SUFFICES ASSUME Outcome(p).undecided
                   PROVE  Undecidable
      OBVIOUS
    <3>2. PICK m \in DOMAIN Policy : Undecided(Policy[m], Get(scores, m), Recorded(mem[p].seen, m), TRUE)
      BY <2>3, <3>1 DEF Outcome, ApplyPolicy
    <3> QED  BY <2>3, <2>6, <3>2 DEF Undecided, CanCompare, Undecidable
  <2>10. CASE ~Outcome(p).undecided
    <3>1. OutcomeStatus(Outcome(p)) = "pass"
      BY <2>7, <2>8, <2>10 DEF OutcomeStatus
    <3>2. CombinedStatus(GatedStatic(p), "pass", Drift(p)) = "pass"
      BY <1>4 DEF CombinedStatus, Worst
    <3> QED  BY <2>1, <3>1, <3>2 DEF Code, ExitCode
  <2> QED  BY <2>9, <2>10
<1> QED  BY <1>2, <1>5, <1>6

\* If commands run one at a time, accepting leaves everything in place, and whoever
\* finds everything in place exits 0.
THEOREM AcceptingSettles == ASSUME ~Overlap PROVE Spec => AcceptSettles
<1> DEFINE S == \A p \in Proc :
        /\ Writes /\ RecordBaseline(p) =>
            /\ lock \in Agent /\ ~Changed(lock, mem[p].found)
            /\ \E e \in cache :
                /\ e.agent = base'.agent /\ e.suite = base'.suite /\ e.contract = Contract[p]
                /\ Scores[e.table] = base'.metrics
        /\ Reports(p) /\ InPlace(p) /\ mem[p].opt.flags \intersect {"trace", "from"} = {} =>
            code'[p] = 0 \/ Undecidable
<1>1. Init => Filed
  BY DEF Init, Filed, Judging
<1>2. RunInv /\ Filed /\ [Next]_vars => Filed'
  BY StepFiled
<1>3. RunInv /\ Filed /\ [Next]_vars => [S]_vars
  BY RecordsInPlace, SettledStep DEF Given
<1> QED  BY <1>1, <1>2, <1>3, Inductive, PTL DEF Spec, AcceptSettles
==============================================================================

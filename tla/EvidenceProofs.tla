--------------------------- MODULE EvidenceProofs ---------------------------
(***************************************************************************)
(* What is proved of the evidence that a run of Behavior leaves when it is *)
(* scored again.  The invariants of BehaviorProofs say where it comes      *)
(* from; two more say that a file nobody edited is the record of the run   *)
(* that wrote it, and that a replay is judged by this record alone.  What  *)
(* is read back is what was written, each probe finds its trace in it, and *)
(* a run over the same agent judges it the same.  Then of projects that    *)
(* say the same: over the one, evidence of the other is taken.  At the end *)
(* of what is recorded of the servers: nothing of their environment.       *)
(***************************************************************************)
EXTENDS BehaviorProofs

------------------------------------------------------------------------------
(* Recorded evidence, scored again.                                           *)

\* An artifact that nobody touched is what a capture wrote.
EvidenceIsWhole ==
    evidence # Absent /\ ~evidence.touched /\ evidence.file.shape = "run" =>
        \E answers :
            /\ IsCapture(evidence.built, evidence.of, evidence.seen, answers)
            /\ evidence.file.document # Refused
            /\ evidence.file.document
                 = NewArtifact(evidence.built.checksum, evidence.built.suite, Traces(evidence.built, answers),
                               Verdict(evidence.built, Traces(evidence.built, answers)))

\* What a replay comes to over a file.
Derived(built, file) ==
    IF Usable(built, file) = Refused THEN Refused ELSE Verdict(built, Usable(built, file))

\* A replay is over the suite with its declared repeats, and its verdict over the evidence there is.
ReplayIsPlain ==
    run.replay =>
        /\ run.override = Absent
        /\ run.built # Absent => \E described : run.built = Built(project, described, Absent)
        /\ run.built # Absent /\ run.stage = "over" => run.verdict = Derived(run.built, evidence.file)

\* A run that is not a replay, or has nothing built, says nothing of it.
LEMMA NothingReplayed ==
    ASSUME ~run'.replay \/ (run'.override = Absent /\ run'.built = Absent)
    PROVE  ReplayIsPlain'
  BY DEF ReplayIsPlain

\* A run that goes on with what it has built stays plain.
LEMMA ReplayStays ==
    ASSUME ReplayIsPlain, run'.replay = run.replay, run'.override = run.override, run'.built = run.built,
           project' = project, run'.stage # "over"
    PROVE  ReplayIsPlain'
  BY DEF ReplayIsPlain

\* The artifact that a run leaves is of what the run captured.
LEMMA EvidenceConcluded ==
    ASSUME BehaviorInv, EvidenceIsWhole, NEW accept \in BOOLEAN, Conclude(accept)
    PROVE  EvidenceIsWhole'
<1> DEFINE traces == Traces(run.built, run.answers)
           verdict == Verdict(run.built, traces)
           artifact == NewArtifact(run.built.checksum, run.built.suite, traces, verdict)
           left == [file |-> [name |-> Address(artifact), shape |-> "run", document |-> artifact],
                    touched |-> FALSE, built |-> run.built, seen |-> run.seen, of |-> project]
<1>1. /\ run.stage = "assembled" /\ Len(run.answers) = Len(Plan(run.built.suite))
      /\ evidence' = evidence \/ (verdict # Refused /\ artifact # Refused /\ evidence' = left)
  BY DEF Conclude
<1>2. CASE evidence' = evidence
  BY <1>2 DEF EvidenceIsWhole
<1>3. CASE verdict # Refused /\ artifact # Refused /\ evidence' = left
  <2>1. /\ left.built = run.built /\ left.of = project /\ left.seen = run.seen
        /\ left.file.document = artifact
    OBVIOUS
  <2>2. IsCapture(run.built, project, run.seen, run.answers)
    BY <1>1, <1>3 DEF BehaviorInv, RunIsMade, IsCapture
  <2> HIDE DEF left
  <2>3. /\ IsCapture(evidence'.built, evidence'.of, evidence'.seen, run.answers)
        /\ evidence'.file.document # Refused
        /\ evidence'.file.document
             = NewArtifact(evidence'.built.checksum, evidence'.built.suite, Traces(evidence'.built, run.answers),
                           Verdict(evidence'.built, Traces(evidence'.built, run.answers)))
    BY <1>3, <2>1, <2>2
  <2> QED  BY <2>3 DEF EvidenceIsWhole
<1> QED  BY <1>1, <1>2, <1>3

\* The evidence of every other step is dropped, kept as it is, touched, or one of its traces.
LEMMA EvidenceInductive == BehaviorInv /\ EvidenceIsWhole /\ [Next]_vars => EvidenceIsWhole'
<1> SUFFICES ASSUME BehaviorInv, EvidenceIsWhole, [Next]_vars PROVE EvidenceIsWhole'
  OBVIOUS
<1>1. CASE evidence' = evidence
  BY <1>1 DEF EvidenceIsWhole
<1>2. ASSUME NEW override \in Overrides, NEW replay \in BOOLEAN, Begin(override, replay) PROVE EvidenceIsWhole'
  <2>1. evidence' \in {evidence, Absent}
    BY <1>2 DEF Begin
  <2> QED  BY <1>1, <2>1 DEF EvidenceIsWhole
<1>3. ASSUME NEW accept \in BOOLEAN, Conclude(accept) PROVE EvidenceIsWhole'
  BY <1>3, EvidenceConcluded
<1>4. CASE EditEvidence
  <2>1. PICK file : evidence' = [evidence EXCEPT !.file = file, !.touched = TRUE]
    BY <1>4 DEF EditEvidence, Touch
  <2>2. DOMAIN evidence = {"file", "touched", "built", "seen", "of"}
    BY <1>4 DEF EditEvidence, BehaviorInv, EvidenceIsMade
  <2>3. evidence'.touched
    BY <2>1, <2>2
  <2> QED  BY <2>3 DEF EvidenceIsWhole
<1>5. CASE ExtractTrace
  <2>1. PICK file : evidence' = [evidence EXCEPT !.file = file] /\ file.shape = "trace"
    <3>1. PICK i \in DOMAIN evidence.file.document.traces :
            evidence' = [evidence EXCEPT !.file = [name |-> Absent, shape |-> "trace",
                                                   document |-> evidence.file.document.traces[i]]]
      BY <1>5 DEF ExtractTrace
    <3>2. [name |-> Absent, shape |-> "trace", document |-> evidence.file.document.traces[i]].shape = "trace"
      OBVIOUS
    <3> QED  BY <3>1, <3>2
  <2>2. DOMAIN evidence = {"file", "touched", "built", "seen", "of"}
    BY <1>5 DEF ExtractTrace, BehaviorInv, EvidenceIsMade
  <2>3. evidence'.file.shape = "trace"
    BY <2>1, <2>2
  <2> QED  BY <2>3 DEF EvidenceIsWhole
<1>6. CASE ReadTags \/ ReadShow \/ RequestFails \/ Assemble \/ Replay
  BY <1>1, <1>6 DEF ReadTags, ReadShow, RequestFails, Assemble, Replay
<1>7. ASSUME NEW response \in Responses, Ask(response) PROVE EvidenceIsWhole'
  BY <1>1, <1>7 DEF Ask
<1>8. ASSUME NEW next \in Projects, Edit(next) PROVE EvidenceIsWhole'
  BY <1>1, <1>8 DEF Edit
<1>9. ASSUME NEW model \in Models, Replace(model) PROVE EvidenceIsWhole'
  BY <1>1, <1>9 DEF Replace
<1>10. CASE UNCHANGED vars
  BY <1>1, <1>10 DEF vars
<1> QED  BY <1>2, <1>3, <1>4, <1>5, <1>6, <1>7, <1>8, <1>9, <1>10 DEF Next

\* A replay takes no `--repeat` and leaves the evidence; whatever touches that begins anew.
LEMMA ReplayInductive == BehaviorInv /\ ReplayIsPlain /\ [Next]_vars => ReplayIsPlain'
<1> SUFFICES ASSUME BehaviorInv, ReplayIsPlain, [Next]_vars PROVE ReplayIsPlain'
  OBVIOUS
<1>0. DOMAIN run = RunFields
  BY DEF BehaviorInv, RunIsMade
<1>1. ASSUME NEW override \in Overrides, NEW replay \in BOOLEAN, Begin(override, replay) PROVE ReplayIsPlain'
  <2>1. /\ replay => override = Absent
        /\ run' = [Idle EXCEPT !.stage = IF Local THEN "tags" ELSE "assemble",
                               !.override = override, !.replay = replay, !.seen = {served}]
    BY <1>1 DEF Begin
  <2>2. run'.replay = replay /\ run'.override = override /\ run'.built = Absent
    BY <2>1, IdleIsMade DEF RunFields
  <2> QED  BY <2>1, <2>2, NothingReplayed
<1>2. CASE run' \in {Idle, Failed}
  BY <1>2, IdleIsMade, NothingReplayed
<1>3. CASE ReadTags
  <2>1. /\ project' = project
        /\ run' = Failed \/ \E entry : run' = [run EXCEPT !.stage = "show", !.entry = entry]
    BY <1>3 DEF ReadTags
  <2> QED  BY <1>0, <1>2, <2>1, ReplayStays DEF RunFields
<1>4. CASE ReadShow
  <2>1. PICK described : run' = [run EXCEPT !.stage = "assemble", !.described = described, !.entry = Absent]
    BY <1>4 DEF ReadShow
  <2>2. project' = project
    BY <1>4 DEF ReadShow
  <2> QED  BY <1>0, <2>1, <2>2, ReplayStays DEF RunFields
<1>5. CASE RequestFails
  BY <1>2, <1>5 DEF RequestFails
<1>6. CASE Assemble
  <2> DEFINE built == Built(project, run.described, run.override)
  <2>1. /\ project' = project
        /\ run' = Failed \/ run' = [run EXCEPT !.stage = "assembled", !.described = Absent, !.built = built]
    BY <1>6 DEF Assemble
  <2>2. CASE run' = [run EXCEPT !.stage = "assembled", !.described = Absent, !.built = built]
    <3> HIDE DEF built
    <3>1. /\ run'.replay = run.replay /\ run'.override = run.override /\ run'.built = built
          /\ run'.stage = "assembled"
      BY <1>0, <2>2 DEF RunFields
    <3>2. run.replay => built = Built(project, run.described, Absent)
      BY DEF built, ReplayIsPlain
    <3> QED  BY <2>1, <3>1, <3>2 DEF ReplayIsPlain
  <2> QED  BY <1>2, <2>1, <2>2
<1>7. ASSUME NEW response \in Responses, Ask(response) PROVE ReplayIsPlain'
  <2>1. ~run.replay /\ (run' = Failed \/ \E answers : run' = [run EXCEPT !.answers = answers])
    BY <1>7 DEF Ask
  <2> QED  BY <1>0, <1>2, <2>1, NothingReplayed DEF RunFields
<1>8. ASSUME NEW accept \in BOOLEAN, Conclude(accept) PROVE ReplayIsPlain'
  <2>1. ~run.replay /\ (run' = Failed \/ \E verdict : run' = [run EXCEPT !.stage = "over", !.verdict = verdict])
    BY <1>8 DEF Conclude
  <2> QED  BY <1>0, <1>2, <2>1, NothingReplayed DEF RunFields
<1>9. CASE Replay
  <2>1. /\ project' = project /\ evidence' = evidence
        /\ run' = [run EXCEPT !.stage = "over", !.verdict = Derived(run.built, evidence.file)]
    BY <1>9 DEF Replay, Derived, Usable
  <2> DEFINE verdict == Derived(run.built, evidence.file)
  <2> HIDE DEF verdict
  <2>2. /\ run'.replay = run.replay /\ run'.override = run.override /\ run'.built = run.built
        /\ run'.verdict = verdict
    BY <1>0, <2>1 DEF RunFields, verdict
  <2>3. Derived(run'.built, evidence'.file) = verdict
    BY <2>1, <2>2 DEF verdict
  <2>4. run'.replay => /\ run'.override = Absent
                       /\ run'.built # Absent => \E described : run'.built = Built(project', described, Absent)
    BY <2>1, <2>2 DEF ReplayIsPlain
  <2> QED  BY <2>2, <2>3, <2>4 DEF ReplayIsPlain
<1>10. ASSUME NEW next \in Projects, Edit(next) PROVE ReplayIsPlain'
  BY <1>2, <1>10 DEF Edit
<1>11. ASSUME NEW model \in Models, Replace(model) PROVE ReplayIsPlain'
  <2>1. /\ project' = project
        /\ run' = Idle \/ (run.stage # "over" /\ \E seen : run' = [run EXCEPT !.seen = seen])
    BY <1>11 DEF Replace
  <2> QED  BY <1>0, <1>2, <2>1, ReplayStays DEF RunFields
<1>12. CASE EditEvidence
  BY <1>2, <1>12 DEF EditEvidence, Touch
<1>13. CASE ExtractTrace
  BY <1>2, <1>13 DEF ExtractTrace
<1>14. CASE UNCHANGED vars
  BY <1>14 DEF vars, ReplayIsPlain
<1> QED  BY <1>1, <1>3, <1>4, <1>5, <1>6, <1>7, <1>8, <1>9, <1>10, <1>11, <1>12, <1>13, <1>14 DEF Next

\* Of a tool the digest of the schema is in the checksum, and nothing is recorded of its description.
LEMMA ToolRecord ==
    ASSUME NEW alias, NEW tool
    PROVE  LET facets == ToolDependency(alias, tool).facets
           IN  /\ DepDigest(facets)["input_schema"] = Digest(Payload(facets, "input_schema"))
               /\ Payload(facets, "description") = Absent
<1> DEFINE own == [input_schema |-> SchemaFacet(tool.input_schema)]
           described == Optional("description", tool.description, TextFacet(tool.description))
           output == Optional("output_schema", tool.output_schema, SchemaFacet(tool.output_schema))
           able == IF tool.capabilities = {} THEN <<>>
                   ELSE [capabilities |-> Facet(tool.capabilities, Absent, tool.capabilities)]
           first == Overlay(own, described)
           rest == Overlay(output, able)
           facets == Overlay(first, rest)
<1>1. ToolDependency(alias, tool).facets = facets
  BY DEF ToolDependency, Dependency
<1>2. DOMAIN own = {"input_schema"} /\ own["input_schema"] = SchemaFacet(tool.input_schema)
  OBVIOUS
<1>3. /\ DOMAIN described \subseteq {"description"}
      /\ "description" \in DOMAIN described => described["description"] = TextFacet(tool.description)
  BY DEF Optional
<1>4. DOMAIN output \subseteq {"output_schema"}
  BY DEF Optional
<1>5. DOMAIN able \subseteq {"capabilities"}
  OBVIOUS
<1> HIDE DEF own, described, output, able
<1>6. "input_schema" \in DOMAIN first /\ first["input_schema"] = SchemaFacet(tool.input_schema)
  BY <1>2 DEF Overlay
<1>7. "description" \in DOMAIN first => first["description"] = TextFacet(tool.description)
  BY <1>2, <1>3 DEF Overlay
<1>8. "description" \notin DOMAIN rest
  BY <1>4, <1>5 DEF Overlay
<1> HIDE DEF first, rest
<1>9. "input_schema" \in DOMAIN facets /\ facets["input_schema"] = SchemaFacet(tool.input_schema)
  BY <1>6 DEF Overlay
<1>10. "description" \in DOMAIN facets => facets["description"] = TextFacet(tool.description)
  BY <1>7, <1>8 DEF Overlay
<1> HIDE DEF facets
<1>11. SchemaFacet(tool.input_schema).digest = Digest(SchemaFacet(tool.input_schema).normalized)
  BY DEF SchemaFacet, RecordedFacet, Facet
<1>12. TextFacet(tool.description).normalized = Absent
  BY DEF TextFacet, Facet
<1>13. Payload(facets, "description") = Absent
  BY <1>10, <1>12 DEF Payload
<1>14. Payload(facets, "input_schema") = SchemaFacet(tool.input_schema).normalized
  BY <1>9 DEF Payload
<1>15. DepDigest(facets)["input_schema"] = SchemaFacet(tool.input_schema).digest
  BY <1>9 DEF DepDigest
<1>16. DepDigest(facets)["input_schema"] = Digest(Payload(facets, "input_schema"))
  BY <1>11, <1>14, <1>15
<1> QED  BY <1>1, <1>13, <1>16

\* The tools of a catalog are those of the checksum, each with the digest that is in it.
ToolsOf(checksum) == {id \in DOMAIN checksum : id[1] = "tool"}

LEMMA CatalogIsChecksummed ==
    ASSUME NEW disk \in Projects, NEW described, NEW override, Built(disk, described, override) # Refused
    PROVE  LET built == Built(disk, described, override)
           IN  /\ DOMAIN built.catalog = ToolsOf(built.checksum)
               /\ \A id \in DOMAIN built.catalog :
                    /\ built.catalog[id].name = RemoteName(id) /\ built.catalog[id].description = Absent
                    /\ Digest(built.catalog[id].input_schema) = built.checksum[id]["input_schema"]
<1> DEFINE built == Built(disk, described, override)
           catalog == built.catalog
           checksum == built.checksum
           list == Discovered(disk, described)
           lock == FromDependencies(list)
           servers == disk.config.servers
           ids == {key \in DOMAIN lock.dependencies : lock.dependencies[key].kind = "tool"}
           tools == [key \in ids |-> ToolContract(key, lock.dependencies[key].facets)]
<1>1. /\ list # Refused /\ catalog = FromLockfile(lock) /\ FromLockfile(lock) # Refused
      /\ Loads(disk.config) /\ checksum = AgentChecksum(list)
  BY BuiltParts
<1>2. /\ ValidConfig(disk.config) /\ McpDependencies(servers) # Refused /\ VerifyUnique(list)
  BY <1>1, Listed DEF Loads
<1>3. \A i \in 1..Len(servers) : DiscoveredServer(servers[i]) # Refused /\ IsSeq(servers[i].tools)
  BY <1>2, ServersTell
<1>4. catalog = tools
  BY <1>1 DEF FromLockfile
<1>5. /\ DOMAIN lock.dependencies = Ids(list)
      /\ \A key \in Ids(list) : /\ lock.dependencies[key].facets = Of(list, key).facets
                                /\ lock.dependencies[key].kind = Of(list, key).kind
  <2> HIDE DEF list
  <2> QED  BY DEF FromDependencies
<1>6. \A k \in DOMAIN list : IsSeq(list[k].id) /\ list[k].kind = list[k].id[1]
  <2> TAKE k \in DOMAIN list
  <2>1. OfItsKind(disk, described, list[k])
    BY <1>1, KindOf
  <2> HIDE DEF list
  <2> QED  BY <2>1 DEF OfItsKind
<1>7. \A k \in DOMAIN list : list[k].kind = "tool" =>
        /\ DepDigest(list[k].facets)["input_schema"] = Digest(Payload(list[k].facets, "input_schema"))
        /\ Payload(list[k].facets, "description") = Absent
  <2> SUFFICES ASSUME NEW k \in DOMAIN list, list[k].kind = "tool"
               PROVE  /\ DepDigest(list[k].facets)["input_schema"] = Digest(Payload(list[k].facets, "input_schema"))
                      /\ Payload(list[k].facets, "description") = Absent
    OBVIOUS
  <2>1. \E i \in 1..Len(servers) : \E j \in 1..Len(servers[i].tools) : list[k] = Part(servers[i])[1 + j]
    BY <1>1, ToolKind
  <2> HIDE DEF list
  <2>2. PICK i \in 1..Len(servers) : \E j \in 1..Len(servers[i].tools) : list[k] = Part(servers[i])[1 + j]
    BY <2>1
  <2>3. PICK j \in 1..Len(servers[i].tools) : list[k] = Part(servers[i])[1 + j]
    BY <2>2
  <2> DEFINE server == servers[i]
             tool == server.tools[j]
  <2>4. Part(server)[1 + j] = ToolDependency(server.alias, DiscoveredTool(tool))
    <3>1. IsSeq(server.tools) /\ DiscoveredServer(server) # Refused /\ j \in 1..Len(server.tools)
      BY <1>3, <2>2, <2>3
    <3> HIDE DEF server
    <3> QED  BY <3>1, ServerPart
  <2>5. list[k] = ToolDependency(server.alias, DiscoveredTool(tool))
    BY <2>3, <2>4
  <2> HIDE DEF server, tool
  <2> QED  BY <2>5, ToolRecord
<1> HIDE DEF list, catalog, checksum, built, tools
<1>8. DOMAIN catalog = ids /\ \A key \in ids : catalog[key] = ToolContract(key, lock.dependencies[key].facets)
  BY <1>4 DEF tools
<1> HIDE DEF lock
<1>9. ASSUME NEW k \in DOMAIN list
      PROVE  /\ list[k].id \in Ids(list) /\ Of(list, list[k].id) = list[k]
             /\ list[k].id \in DOMAIN checksum /\ checksum[list[k].id] = DepDigest(list[k].facets)
  BY <1>1, <1>2, OfUnique, Checksummed DEF Ids
<1>10. /\ \A id \in Ids(list) : \E k \in DOMAIN list : list[k].id = id
       /\ \A id \in DOMAIN checksum : \E k \in DOMAIN list : list[k].id = id
  BY <1>1, <1>2, Checksummed DEF Ids
<1>11. DOMAIN catalog = ToolsOf(checksum)
  <2>1. ASSUME NEW id \in ids PROVE id \in ToolsOf(checksum)
    <3>1. PICK k \in DOMAIN list : list[k].id = id
      BY <1>5, <1>10
    <3> QED  BY <1>5, <1>6, <1>9, <3>1 DEF ToolsOf
  <2>2. ASSUME NEW id \in ToolsOf(checksum) PROVE id \in ids
    <3>1. PICK k \in DOMAIN list : list[k].id = id
      BY <1>10 DEF ToolsOf
    <3> QED  BY <1>5, <1>6, <1>9, <3>1 DEF ToolsOf
  <2> QED  BY <1>8, <2>1, <2>2
<1>12. ASSUME NEW id \in DOMAIN catalog
       PROVE  /\ catalog[id].name = RemoteName(id) /\ catalog[id].description = Absent
              /\ Digest(catalog[id].input_schema) = checksum[id]["input_schema"]
  <2>1. PICK k \in DOMAIN list : list[k].id = id
    BY <1>5, <1>8, <1>10
  <2>2. list[k].kind = "tool" /\ lock.dependencies[id].facets = list[k].facets
    BY <1>5, <1>8, <1>9, <2>1
  <2> DEFINE facets == list[k].facets
  <2>3. catalog[id] = ToolContract(id, facets)
    BY <1>8, <2>2
  <2>4. /\ DepDigest(facets)["input_schema"] = Digest(Payload(facets, "input_schema"))
        /\ Payload(facets, "description") = Absent
    BY <1>7, <2>2
  <2>5. checksum[id] = DepDigest(facets)
    BY <1>9, <2>1
  <2> HIDE DEF facets
  <2> QED  BY <2>3, <2>4, <2>5 DEF ToolContract
<1> QED  BY <1>11, <1>12 DEF built, catalog, checksum

\* Catalogs that agree tool by tool go over the wire as one.
LEMMA OneWire ==
    ASSUME NEW catalog, NEW other, DOMAIN catalog = DOMAIN other,
           \A id \in DOMAIN catalog :
                /\ catalog[id].name = other[id].name /\ catalog[id].description = other[id].description
                /\ Digest(catalog[id].input_schema) = Digest(other[id].input_schema)
    PROVE  CatalogDigest(catalog) = CatalogDigest(other)
<1> DEFINE names(c) == {c[id].name : id \in DOMAIN c}
           wires(c, name) == {WireTool(c[id]) : id \in ByName(c, name)}
           of(c, name, tool) == {id \in ByName(c, name) : WireTool(c[id]) = tool}
           counted(c, name) == [tool \in wires(c, name) |-> Cardinality(of(c, name, tool))]
<1>1. /\ CatalogDigest(catalog) = [name \in names(catalog) |-> counted(catalog, name)]
      /\ CatalogDigest(other) = [name \in names(other) |-> counted(other, name)]
  BY DEF CatalogDigest, WireTools
<1>2. \A id \in DOMAIN catalog : WireTool(catalog[id]) = WireTool(other[id])
  BY DEF WireTool, Digest
<1>3. names(catalog) = names(other)
  OBVIOUS
<1>4. \A name : ByName(catalog, name) = ByName(other, name) /\ ByName(catalog, name) \subseteq DOMAIN catalog
  BY DEF ByName
<1>5. ASSUME NEW name PROVE counted(catalog, name) = counted(other, name)
  <2>1. wires(catalog, name) = wires(other, name)
    BY <1>2, <1>4
  <2>2. \A tool : of(catalog, name, tool) = of(other, name, tool)
    BY <1>2, <1>4
  <2> HIDE DEF wires, of
  <2> QED  BY <2>1, <2>2
<1> HIDE DEF names, counted
<1> QED  BY <1>1, <1>3, <1>5

\* Runs of one checksum have catalogs that are alike, and that go over the wire as one.
LEMMA ChecksummedCatalogs ==
    ASSUME NEW disk \in Projects, NEW described, NEW override,
           NEW built, built = Built(disk, described, override), built # Refused,
           NEW place \in Projects, NEW told, NEW repeat,
           NEW first, first = Built(place, told, repeat), first # Refused,
           Nameable(first.catalog), built.checksum = first.checksum
    PROVE  /\ CatalogDigest(built.catalog) = CatalogDigest(first.catalog)
           /\ Alike(built.catalog, first.catalog) /\ Alike(first.catalog, built.catalog)
<1> DEFINE catalog == built.catalog
           other == first.catalog
<1>1. /\ DOMAIN catalog = ToolsOf(built.checksum)
      /\ \A id \in DOMAIN catalog :
            /\ catalog[id].name = RemoteName(id) /\ catalog[id].description = Absent
            /\ Digest(catalog[id].input_schema) = built.checksum[id]["input_schema"]
  BY CatalogIsChecksummed
<1>2. /\ DOMAIN other = ToolsOf(first.checksum)
      /\ \A id \in DOMAIN other :
            /\ other[id].name = RemoteName(id) /\ other[id].description = Absent
            /\ Digest(other[id].input_schema) = first.checksum[id]["input_schema"]
  BY CatalogIsChecksummed
<1> HIDE DEF catalog, other
<1>3. /\ DOMAIN catalog = DOMAIN other
      /\ \A id \in DOMAIN catalog :
            /\ catalog[id].name = other[id].name /\ catalog[id].description = other[id].description
            /\ Digest(catalog[id].input_schema) = Digest(other[id].input_schema)
  BY <1>1, <1>2
<1>4. CatalogDigest(catalog) = CatalogDigest(other)
  BY <1>3, OneWire
<1>5. Nameable(catalog) /\ Nameable(other)
  BY <1>3 DEF Nameable, other
<1>6. \A id \in DOMAIN other : Digest(other[id].input_schema) = Digest(catalog[id].input_schema)
  BY <1>3
<1>7. Alike(catalog, other)
  BY <1>3, <1>5, CatalogsAlike DEF catalog, other
<1>8. Alike(other, catalog)
  BY <1>3, <1>5, <1>6, CatalogsAlike DEF catalog, other
<1> QED  BY <1>4, <1>7, <1>8 DEF catalog, other

\* Every check but that of the arguments holds or does not.
LEMMA HoldsOrNot ==
    ASSUME NEW m, m # "argument_validity", NEW probe, NEW sample, m \in Applicable(probe, sample), NEW catalog
    PROVE  Check(m, probe, sample, catalog) \in BOOLEAN
<1>1. CASE m = "tool_selection"
  <2>1. Check(m, probe, sample, catalog) = (CallsTo(sample, probe.expect_tool) # {})
    BY <1>1 DEF Check
  <2> QED  BY <2>1
<1>2. CASE m = "argument_expectation"
  <2>1. Check(m, probe, sample, catalog) = SatisfiedBy(sample, probe)
    BY <1>2 DEF Check
  <2> QED  BY <2>1 DEF SatisfiedBy
<1>3. CASE m = "forbidden_tool_usage"
  <2>1. Check(m, probe, sample, catalog) = (\A tool \in probe.forbid_tools : CallsTo(sample, tool) = {})
    BY <1>3 DEF Check
  <2> QED  BY <2>1
<1>4. CASE m = "tool_restraint"
  <2>1. Check(m, probe, sample, catalog) = (sample.tool_calls = <<>>)
    BY <1>4 DEF Check
  <2> QED  BY <2>1
<1>5. CASE m = "structured_output_validity"
  <2>1. Check(m, probe, sample, catalog) = CheckFinalText(sample.final_text, probe.output_schema)
    BY <1>5 DEF Check
  <2> QED  BY <2>1 DEF CheckFinalText
<1>6. m \in {"tool_selection", "argument_expectation", "forbidden_tool_usage", "tool_restraint",
             "structured_output_validity"}
  BY DEF Applicable
<1> QED  BY <1>1, <1>2, <1>3, <1>4, <1>5, <1>6

\* Over catalogs that are alike, probes that ask for the same and expect the same arguments judge an
\* answer in the same way.
LEMMA JudgedTheSame ==
    ASSUME NEW catalog, NEW other, Alike(catalog, other), NEW sample, IsSeq(sample.tool_calls),
           Identified(sample, catalog), Identified(sample, other),
           NEW probe, NEW twin, AskTheSame(probe, twin), IsOver(probe, catalog), IsOver(twin, other),
           probe.expect_args = twin.expect_args
    PROVE  CheckSample(probe, sample, catalog) = CheckSample(twin, sample, other)
<1>1. SayTheSame(sample, sample)
  BY DEF SayTheSame
<1>2. \A m : m # "argument_expectation" =>
        /\ m \in Applicable(probe, sample) <=> m \in Applicable(twin, sample)
        /\ m \in Applicable(probe, sample) =>
             (Check(m, probe, sample, catalog) <=> Check(m, twin, sample, other))
  BY <1>1, SameChecks
<1>3. "argument_expectation" \in Applicable(probe, sample) <=> "argument_expectation" \in Applicable(twin, sample)
  BY DEF Applicable
<1>4. Applicable(probe, sample) = Applicable(twin, sample)
  BY <1>2, <1>3 DEF Applicable
<1>5. CallsTo(sample, probe.expect_tool) = CallsTo(sample, twin.expect_tool)
  <2>1. CASE probe.expect_tool = Absent
    BY <2>1 DEF AskTheSame
  <2>2. CASE probe.expect_tool # Absent
    <3>1. PICK id \in DOMAIN catalog : probe.expect_tool = catalog[id]
      BY <2>2 DEF IsOver
    <3>2. PICK more \in DOMAIN other : twin.expect_tool = other[more]
      BY <2>2 DEF IsOver, AskTheSame
    <3>3. id = more
      BY <2>2, <3>1, <3>2 DEF AskTheSame, Alike
    <3>4. CallsTo(sample, catalog[id]) = CallsTo(sample, other[id])
      BY <1>1, CallsAlike
    <3> QED  BY <3>1, <3>2, <3>3, <3>4
  <2> QED  BY <2>1, <2>2
<1>6. ASSUME NEW m \in Applicable(probe, sample)
      PROVE  Check(m, probe, sample, catalog) = Check(m, twin, sample, other)
  <2>1. CASE m = "argument_expectation"
    <3>1. SatisfiedBy(sample, probe) = SatisfiedBy(sample, twin)
      BY <1>5 DEF SatisfiedBy
    <3>2. Check(m, probe, sample, catalog) = SatisfiedBy(sample, probe)
      BY <2>1 DEF Check
    <3>3. Check(m, twin, sample, other) = SatisfiedBy(sample, twin)
      BY <2>1 DEF Check
    <3> QED  BY <3>1, <3>2, <3>3
  <2>2. CASE m = "argument_validity"
    <3>1. CheckArguments(sample, catalog) = CheckArguments(sample, other)
      BY <1>1, SameArguments
    <3>2. Check(m, probe, sample, catalog) = CheckArguments(sample, catalog)
      BY <2>2 DEF Check
    <3>3. Check(m, twin, sample, other) = CheckArguments(sample, other)
      BY <2>2 DEF Check
    <3> QED  BY <3>1, <3>2, <3>3
  <2>3. CASE m # "argument_expectation" /\ m # "argument_validity"
    <3>1. Check(m, probe, sample, catalog) \in BOOLEAN
      BY <2>3, HoldsOrNot
    <3>2. Check(m, twin, sample, other) \in BOOLEAN
      BY <1>4, <2>3, HoldsOrNot
    <3>3. Check(m, probe, sample, catalog) <=> Check(m, twin, sample, other)
      BY <1>2, <2>3
    <3> QED  BY <3>1, <3>2, <3>3
  <2> QED  BY <2>1, <2>2, <2>3
<1> QED  BY <1>4, <1>6 DEF CheckSample

\* An outcome is of the name, the digest and the repeat of a probe, and of the checks.
LEMMA JudgedByChecks ==
    ASSUME NEW probe, NEW twin, probe.name = twin.name, probe.repeat = twin.repeat,
           ProbeDigest(probe) = ProbeDigest(twin), NEW trace, NEW catalog, NEW other,
           \A i \in DOMAIN trace.samples :
                CheckSample(probe, trace.samples[i], catalog) = CheckSample(twin, trace.samples[i], other)
    PROVE  Judge(probe, trace, catalog) = Judge(twin, trace, other)
<1> DEFINE samples == trace.samples
           checked(p, c) == [i \in DOMAIN samples |-> CheckSample(p, samples[i], c)]
           passes(held, i) == \A metric \in DOMAIN held[i] : held[i][metric]
           outcome(name, digest, repeat, held) ==
                IF \E i \in DOMAIN held : \E metric \in DOMAIN held[i] : held[i][metric] = Refused
                THEN Refused
                ELSE [probe |-> name, probe_digest |-> digest,
                      samples |-> [i \in DOMAIN samples |->
                                    [sample |-> samples[i].index, passed |-> passes(held, i), checks |-> held[i]]],
                      passed |-> Cardinality({i \in DOMAIN samples : passes(held, i)}), total |-> repeat,
                      metrics |-> [metric \in UNION {DOMAIN held[i] : i \in DOMAIN held} |-> Tally(held, metric)]]
<1>1. Judge(probe, trace, catalog) = outcome(probe.name, ProbeDigest(probe), probe.repeat, checked(probe, catalog))
  BY DEF Judge
<1>2. Judge(twin, trace, other) = outcome(twin.name, ProbeDigest(twin), twin.repeat, checked(twin, other))
  BY DEF Judge
<1>3. checked(probe, catalog) = checked(twin, other)
  OBVIOUS
<1> HIDE DEF outcome, checked
<1> QED  BY <1>1, <1>2, <1>3

\* A trace in which no argument was the text `null` is read back as it was written.
LEMMA TraceReadBack ==
    ASSUME NEW trace, trace = [field \in TraceFields |-> trace[field]], AreSamples(trace.samples), ~SaysNull(trace)
    PROVE  RereadTrace(trace) = trace
<1> DEFINE samples == trace.samples
           calls == RereadCalls(samples)
           read == RereadTrace(trace)
<1>1. /\ read = [field \in TraceFields |-> read[field]]
      /\ \A field \in TraceFields \ {"samples"} : read[field] = trace[field]
      /\ read.samples = WithCalls(samples, calls)
  BY RereadKeeps
<1>2. DOMAIN samples = 1..Len(samples)
      /\ \A i \in 1..Len(samples) :
            AreCalls(samples[i].tool_calls) /\ \A j \in DOMAIN samples[i].tool_calls : IsCall(samples[i].tool_calls[j])
  BY CallsOf
<1>3. \A i \in DOMAIN samples : \A j \in DOMAIN samples[i].tool_calls : samples[i].tool_calls[j].arguments # Null
  BY DEF SaysNull
<1>4. \A call : IsCall(call) /\ call.arguments # Null => Reread(call) = call
  BY DEF IsCall, Reread
<1> HIDE DEF read, calls, samples
<1>5. ASSUME NEW i \in 1..Len(samples) PROVE samples[i].tool_calls = calls[i]
  <2>1. /\ AreCalls(calls[i]) /\ DOMAIN calls[i] = DOMAIN samples[i].tool_calls
        /\ \A j \in DOMAIN samples[i].tool_calls : calls[i][j] = Reread(samples[i].tool_calls[j])
    BY RereadCallsOf DEF calls, samples
  <2>2. \A j \in DOMAIN samples[i].tool_calls : calls[i][j] = samples[i].tool_calls[j]
    BY <1>2, <1>3, <1>4, <2>1
  <2>3. \A s : AreCalls(s) => s = [j \in DOMAIN s |-> s[j]]
    BY DEF AreCalls, IsSeq
  <2>4. calls[i] = [j \in DOMAIN calls[i] |-> calls[i][j]]
    BY <2>1, <2>3
  <2>5. samples[i].tool_calls = [j \in DOMAIN samples[i].tool_calls |-> samples[i].tool_calls[j]]
    BY <1>2, <2>3
  <2> QED  BY <2>1, <2>2, <2>4, <2>5
<1>6. WithCalls(samples, calls) = samples
  BY <1>5, SameCalls DEF samples
<1>7. \A field \in TraceFields : read[field] = trace[field]
  BY <1>1, <1>6 DEF samples
<1> QED  BY <1>1, <1>7 DEF read

\* A capture and the artifact it left.
IsWritten(document, built, answers) ==
    /\ document # Refused
    /\ document = NewArtifact(built.checksum, built.suite, Traces(built, answers),
                              Verdict(built, Traces(built, answers)))

\* What an artifact holds.
LEMMA WrittenParts ==
    ASSUME NEW built, NEW disk, NEW seen, NEW answers, IsCapture(built, disk, seen, answers),
           NEW document, IsWritten(document, built, answers)
    PROVE  LET traces == Traces(built, answers)
           IN  /\ document = [field \in ArtifactFields |-> document[field]]
               /\ document.run_version = RunVersion /\ document.agent_checksum = built.checksum
               /\ document.probe_suite_digest = built.suite.digest
               /\ document.captured_with = CapturedWith(built.client, Version, built.catalog)
               /\ document.traces = traces /\ document.probes = Verdict(built, traces)
               /\ Consistent(document) /\ traces # <<>>
<1> DEFINE traces == Traces(built, answers)
           outcomes == Verdict(built, traces)
           artifact == [run_version |-> RunVersion, agent_checksum |-> built.checksum,
                        probe_suite_digest |-> built.suite.digest, captured_with |-> traces[1].captured_with,
                        traces |-> traces, probes |-> outcomes, metrics |-> Aggregate(outcomes)]
<1> HIDE DEF traces, outcomes
<1>1. document = artifact /\ traces # <<>> /\ Consistent(artifact)
  BY DEF IsWritten, NewArtifact, traces, outcomes
<1>2. /\ document = [field \in ArtifactFields |-> document[field]]
      /\ document.run_version = RunVersion /\ document.agent_checksum = built.checksum
      /\ document.probe_suite_digest = built.suite.digest
      /\ document.captured_with = traces[1].captured_with
      /\ document.traces = traces /\ document.probes = outcomes
  BY <1>1 DEF ArtifactFields
<1>3. document.captured_with = CapturedWith(built.client, Version, built.catalog)
  <2>1. DOMAIN traces = DOMAIN built.suite.probes
    BY DEF Traces, traces
  <2>2. Len(built.suite.probes) \in Nat /\ DOMAIN built.suite.probes = 1..Len(built.suite.probes)
    BY MadeSuite DEF IsCapture, IsSeq
  <2>3. traces = [i \in DOMAIN built.suite.probes |-> traces[i]]
    BY DEF Traces, traces
  <2>4. 1 \in DOMAIN traces
    <3> DEFINE n == Len(built.suite.probes)
    <3> HIDE DEF n
    <3>1. n \in Nat /\ traces = [i \in 1..n |-> traces[i]]
      BY <2>2, <2>3 DEF n
    <3>2. CASE n = 0
      <4>1. 1..n = {}
        BY <3>2
      <4>2. traces = <<>>
        BY <3>1, <4>1
      <4> QED  BY <1>1, <4>2
    <3>3. CASE n # 0
      BY <3>1, <3>3
    <3> QED  BY <3>2, <3>3
  <2>5. traces[1].captured_with = CapturedWith(built.client, Version, built.catalog)
    <3>1. 1 \in DOMAIN built.suite.probes
      BY <2>1, <2>4
    <3> QED  BY <3>1 DEF Traces, traces
  <2> QED  BY <1>2, <2>5
<1> QED  BY <1>1, <1>2, <1>3 DEF traces, outcomes

\* An artifact that was recorded as a capture left it, with the declared repeats and no argument that was
\* the text `null`.
IsRecord(file, first, place, watched, answers) ==
    /\ IsCapture(first, place, watched, answers) /\ first.client # Refused
    /\ file.shape = "run" /\ IsWritten(file.document, first, answers)
    /\ file.name = Address(file.document)
    /\ \A i \in DOMAIN file.document.traces : ~SaysNull(file.document.traces[i])
    /\ \A i \in DOMAIN first.suite.probes : first.suite.probes[i].repeat = first.suite.probes[i].declared_repeat

\* A run over the agent, the suite and the expectations of an earlier one.
IsOfTheSame(built, disk, first) ==
    /\ disk \in Projects /\ \E described : built = Built(disk, described, Absent)
    /\ built # Refused /\ built.checksum = first.checksum
    /\ built.suite.digest = first.suite.digest /\ Expected(built.suite) = Expected(first.suite)

\* The trace of a probe in a capture.
LEMMA TraceAt ==
    ASSUME NEW built, NEW answers, NEW i \in DOMAIN built.suite.probes
    PROVE  /\ DOMAIN Traces(built, answers) = DOMAIN built.suite.probes
           /\ Traces(built, answers)[i].trace_version = TraceVersion
           /\ Traces(built, answers)[i].probe = built.suite.probes[i].name
           /\ Traces(built, answers)[i].agent_checksum = built.checksum
           /\ Traces(built, answers)[i].captured_with = CapturedWith(built.client, Version, built.catalog)
  BY DEF Traces

\* Such an artifact is read back as it was written.
LEMMA DocumentReadBack ==
    ASSUME NEW file, NEW first, NEW place, NEW watched, NEW answers,
           IsRecord(file, first, place, watched, answers)
    PROVE  RereadArtifact(file.document) = file.document
<1> DEFINE document == file.document
           traces == Traces(first, answers)
           read == [i \in DOMAIN traces |-> RereadTrace(traces[i])]
<1>1. /\ document = [field \in ArtifactFields |-> document[field]] /\ document.traces = traces
  <2>1. IsCapture(first, place, watched, answers) /\ IsWritten(document, first, answers)
    BY DEF IsRecord
  <2> HIDE DEF document
  <2> QED  BY <2>1, WrittenParts
<1>2. traces = [i \in DOMAIN traces |-> traces[i]] /\ DOMAIN traces = DOMAIN first.suite.probes
  BY DEF Traces
<1>3. \A i \in DOMAIN traces : AreSamples(traces[i].samples)
  BY <1>2, CapturedOutcomes DEF IsRecord, IsCapture
<1>4. \A i \in DOMAIN traces : traces[i] = [field \in TraceFields |-> traces[i][field]]
  <2> TAKE i \in DOMAIN traces
  <2>1. TraceIsOf(traces[i], first)
    BY CapturedTraces
  <2> QED  BY <2>1 DEF TraceIsOf
<1>5. \A i \in DOMAIN traces : ~SaysNull(traces[i])
  BY <1>1 DEF IsRecord
<1> HIDE DEF traces
<1>6. \A i \in DOMAIN traces : RereadTrace(traces[i]) = traces[i]
  BY <1>3, <1>4, <1>5, TraceReadBack
<1>7. read = traces
  BY <1>2, <1>6
<1>8. RereadArtifact(document) = [document EXCEPT !.traces = read]
  BY <1>1 DEF RereadArtifact
<1> HIDE DEF read, document
<1>9. [document EXCEPT !.traces = traces] = document
  BY <1>1
<1> QED  BY <1>7, <1>8, <1>9 DEF document

\* Its traces are evidence for a run over the same.
LEMMA RecordIsUsable ==
    ASSUME NEW file, NEW first, NEW place, NEW watched, NEW answers,
           IsRecord(file, first, place, watched, answers),
           NEW built, built.checksum = first.checksum, built.suite.digest = first.suite.digest,
           CatalogDigest(built.catalog) = CatalogDigest(first.catalog)
    PROVE  UsableTraces(file, Context(built.checksum, built.suite, built.catalog, Version)) = Traces(first, answers)
<1> DEFINE document == file.document
           traces == Traces(first, answers)
           context == Context(built.checksum, built.suite, built.catalog, Version)
           circumstances == CapturedWith(first.client, Version, first.catalog)
<1>1. /\ document.run_version = RunVersion /\ document.agent_checksum = first.checksum
      /\ document.probe_suite_digest = first.suite.digest /\ document.captured_with = circumstances
      /\ document.traces = traces /\ Consistent(document)
  <2>1. IsCapture(first, place, watched, answers) /\ IsWritten(document, first, answers)
    BY DEF IsRecord
  <2> HIDE DEF document
  <2> QED  BY <2>1, WrittenParts
<1>2. document # Refused /\ file.shape = "run" /\ file.name = Address(document)
  BY DEF IsRecord, IsWritten
<1>3. RereadArtifact(document) = document
  BY DocumentReadBack
<1>4. /\ context.agent_checksum = first.checksum /\ context.probe_suite_digest = first.suite.digest
      /\ context.tool_catalog_digest = CatalogDigest(first.catalog) /\ context.runner_version = Version
  BY DEF Context
<1>5. /\ circumstances.runner = Runner /\ circumstances.runner_version = Version
      /\ circumstances.tool_catalog_digest = CatalogDigest(first.catalog)
  BY DEF CapturedWith
<1>6. \A i \in DOMAIN traces :
        /\ traces[i].trace_version = TraceVersion /\ traces[i].agent_checksum = first.checksum
        /\ traces[i].captured_with = circumstances
  <2>1. DOMAIN traces = DOMAIN first.suite.probes
    BY DEF Traces
  <2> QED  BY <2>1, TraceAt
<1> HIDE DEF document, traces, context, circumstances
<1>7. ReadArtifact(file) = document
  BY <1>1, <1>2, <1>3, <1>6 DEF ReadArtifact, document
<1>8. Matching(circumstances, context)
  BY <1>4, <1>5 DEF Matching
<1>9. \A i \in DOMAIN traces : ValidTrace(traces[i], context)
  BY <1>4, <1>6, <1>8 DEF ValidTrace
<1>10. ValidArtifact(document, context)
  BY <1>1, <1>4, <1>8, <1>9 DEF ValidArtifact
<1>11. UsableTraces(file, context) = traces
  BY <1>1, <1>2, <1>7, <1>10 DEF UsableTraces
<1> QED  BY <1>11 DEF traces, context

\* Without `--repeat` the sources of a repeat are those of the declared one.
LEMMA FirstOfRest ==
    ASSUME NEW a, NEW b
    PROVE  FirstOf(<<Absent, a, b>>, 1) = FirstOf(<<a, b>>, 1)
<1> DEFINE three == <<Absent, a, b>>
           two == <<a, b>>
           said == {i \in DOMAIN three : three[i] # Absent}
           rest == {i \in DOMAIN two : two[i] # Absent}
<1>1. /\ FirstOf(three, 1) = IF said = {} THEN 1 ELSE three[Min(said)]
      /\ FirstOf(two, 1) = IF rest = {} THEN 1 ELSE two[Min(rest)]
  BY DEF FirstOf
<1>2. DOMAIN three = {1, 2, 3} /\ three[1] = Absent /\ three[2] = a /\ three[3] = b
  OBVIOUS
<1>3. DOMAIN two = {1, 2} /\ two[1] = a /\ two[2] = b
  OBVIOUS
<1> HIDE DEF three, two
<1>4. said \in SUBSET (1..3) /\ rest \in SUBSET (1..2)
  BY <1>2, <1>3
<1>5. CASE a # Absent
  <2>1. 2 \in said /\ 1 \notin said /\ 1 \in rest
    BY <1>2, <1>3, <1>5
  <2> HIDE DEF said, rest
  <2>2. Min(said) \in said /\ Min(said) <= 2
    BY <1>4, <2>1, Bounded
  <2>3. Min(rest) \in rest /\ Min(rest) <= 1
    BY <1>4, <2>1, Bounded
  <2>4. Min(said) \in 1..3 /\ Min(said) # 1 /\ Min(rest) \in 1..2
    BY <1>4, <2>1, <2>2, <2>3
  <2> DEFINE least == Min(said)
             other == Min(rest)
  <2>5. least = 2 /\ other = 1
    <3> HIDE DEF least, other
    <3>1. least \in 1..3 /\ least # 1 /\ least <= 2 /\ other \in 1..2 /\ other <= 1
      BY <2>2, <2>3, <2>4 DEF least, other
    <3> QED  BY <3>1
  <2> QED  BY <1>1, <1>2, <1>3, <2>1, <2>5 DEF three, two
<1>6. CASE a = Absent /\ b # Absent
  <2>1. said = {3} /\ rest = {2}
    BY <1>2, <1>3, <1>6
  <2> HIDE DEF said, rest
  <2>2. Min(said) \in said /\ Min(rest) \in rest
    BY <1>4, <2>1, Bounded
  <2> QED  BY <1>1, <1>2, <1>3, <2>1, <2>2 DEF three, two
<1>7. CASE a = Absent /\ b = Absent
  <2>1. said = {} /\ rest = {}
    BY <1>2, <1>3, <1>7
  <2> HIDE DEF said, rest
  <2> QED  BY <1>1, <2>1 DEF three, two
<1> QED  BY <1>5, <1>6, <1>7

\* A suite that is loaded without `--repeat` has the repeats it declares.
LEMMA DeclaredRepeats ==
    ASSUME NEW disk, NEW described, NEW built, built = Built(disk, described, Absent), built # Refused,
           NEW i \in DOMAIN built.suite.probes
    PROVE  built.suite.probes[i].repeat = built.suite.probes[i].declared_repeat
<1> DEFINE config == disk.config.probes
           specs == Declared(disk.directory)
           suite == LoadSuite(config, disk.directory, disk.schemas, built.catalog, Absent)
           probe == ResolvedProbe(specs[i], built.catalog, disk.schemas, config.repeat, Absent)
<1>1. built.suite = suite /\ suite # Refused
  BY BuiltParts
<1>2. /\ IsSeq(suite.probes) /\ Len(suite.probes) = Len(specs)
      /\ \A k \in 1..Len(specs) :
            suite.probes[k] = ResolvedProbe(specs[k], built.catalog, disk.schemas, config.repeat, Absent)
  <2>1. suite # Refused
    BY <1>1
  <2> HIDE DEF config
  <2>2. /\ IsSeq(suite.probes) /\ IsSeq(specs) /\ Len(suite.probes) = Len(specs)
        /\ suite.digest = SuiteDigest(suite.probes)
        /\ \A k \in 1..Len(specs) :
            /\ suite.probes[k] = ResolvedProbe(specs[k], built.catalog, disk.schemas, config.repeat, Absent)
            /\ Resolved(suite.probes[k])
            /\ suite.probes[k].repeat \in Nat \ {0}
        /\ IsInjective([k \in DOMAIN specs |-> specs[k].name])
    BY <2>1, SuiteParts
  <2> QED  BY <2>2
<1>3. i \in 1..Len(specs)
  <2>1. DOMAIN suite.probes = 1..Len(suite.probes)
    BY <1>2 DEF IsSeq
  <2> QED  BY <1>1, <1>2, <2>1
<1>4. built.suite.probes[i] = probe
  BY <1>1, <1>2, <1>3
<1>5. /\ probe.repeat = FirstOf(<<Absent, specs[i].repeat, config.repeat>>, 1)
      /\ probe.declared_repeat = FirstOf(<<specs[i].repeat, config.repeat>>, 1)
  BY DEF ResolvedProbe
<1>6. FirstOf(<<Absent, specs[i].repeat, config.repeat>>, 1) = FirstOf(<<specs[i].repeat, config.repeat>>, 1)
  BY FirstOfRest
<1> HIDE DEF probe, specs, config
<1>7. probe.repeat = probe.declared_repeat
  BY <1>5, <1>6
<1> QED  BY <1>4, <1>7

\* Suites that expect the same expect it of the probes of one name.
LEMMA ExpectedTells ==
    ASSUME NEW suite, NEW other, Expected(suite) = Expected(other),
           \A i, j \in DOMAIN suite.probes : suite.probes[i].name = suite.probes[j].name => i = j,
           \A i, j \in DOMAIN other.probes : other.probes[i].name = other.probes[j].name => i = j,
           NEW i \in DOMAIN suite.probes, NEW j \in DOMAIN other.probes, suite.probes[i].name = other.probes[j].name
    PROVE  suite.probes[i].expect_args = other.probes[j].expect_args
<1> DEFINE names(s) == {s.probes[k].name : k \in DOMAIN s.probes}
           at(s, name) == CHOOSE k \in DOMAIN s.probes : s.probes[k].name = name
           name == suite.probes[i].name
<1>1. /\ Expected(suite) = [n \in names(suite) |-> suite.probes[at(suite, n)].expect_args]
      /\ Expected(other) = [n \in names(other) |-> other.probes[at(other, n)].expect_args]
  BY DEF Expected
<1>2. name \in names(suite) /\ name \in names(other)
  OBVIOUS
<1>3. at(suite, name) = i
  OBVIOUS
<1>4. at(other, name) = j
  OBVIOUS
<1> HIDE DEF names, at, name
<1>5. Expected(suite)[name] = suite.probes[i].expect_args /\ Expected(other)[name] = other.probes[j].expect_args
  BY <1>1, <1>2, <1>3, <1>4
<1> QED  BY <1>5

\* The catalog that such an artifact was recorded with tells its tools apart by name.
LEMMA RecordedNames ==
    ASSUME NEW file, NEW first, NEW place, NEW watched, NEW answers,
           IsRecord(file, first, place, watched, answers)
    PROVE  Nameable(first.catalog)
<1> DEFINE catalog == first.catalog
<1>1. place \in Projects /\ Made(first, place, watched) /\ first.client # Refused
  BY DEF IsRecord, IsCapture
<1>2. PICK told, repeat : first = Built(place, told, repeat) /\ first # Refused
  BY <1>1 DEF Made
<1>3. IsFiniteSet(DOMAIN catalog)
  BY <1>1, <1>2, CatalogOf
<1>4. WireCatalog(catalog) # Refused
  BY <1>1, <1>2, WiredClient
<1> HIDE DEF catalog
<1> QED  BY <1>3, <1>4, WireNamesTell DEF catalog, Nameable

\* The catalogs of a recording and of a run over the same are alike.
LEMMA RecordedCatalog ==
    ASSUME NEW file, NEW first, NEW place, NEW watched, NEW answers,
           IsRecord(file, first, place, watched, answers),
           NEW built, NEW disk, IsOfTheSame(built, disk, first)
    PROVE  /\ CatalogDigest(built.catalog) = CatalogDigest(first.catalog)
           /\ Alike(built.catalog, first.catalog) /\ Alike(first.catalog, built.catalog)
<1>1. place \in Projects /\ Made(first, place, watched)
  BY DEF IsRecord, IsCapture
<1>2. PICK told, repeat : first = Built(place, told, repeat) /\ first # Refused
  BY <1>1 DEF Made
<1>3. disk \in Projects /\ built # Refused /\ built.checksum = first.checksum
  BY DEF IsOfTheSame
<1>4. PICK described : built = Built(disk, described, Absent)
  BY DEF IsOfTheSame
<1>5. Nameable(first.catalog)
  BY RecordedNames
<1> QED  BY <1>1, <1>2, <1>3, <1>4, <1>5, ChecksummedCatalogs

\* Among the recorded traces, that of a probe is found by its name.
LEMMA RecordedTrace ==
    ASSUME NEW file, NEW first, NEW place, NEW watched, NEW answers,
           IsRecord(file, first, place, watched, answers), NEW j \in DOMAIN first.suite.probes
    PROVE  /\ TraceFor(Traces(first, answers), first.suite.probes[j].name) = Traces(first, answers)[j]
           /\ Traces(first, answers)[j] # Absent
<1> DEFINE probes == first.suite.probes
           traces == Traces(first, answers)
           outcomes == Verdict(first, Traces(first, answers))
           name == probes[j].name
           of == {i \in DOMAIN traces : traces[i].probe = name}
<1>1. IsCapture(first, place, watched, answers) /\ IsWritten(file.document, first, answers)
  BY DEF IsRecord
<1>2. /\ DOMAIN outcomes = DOMAIN probes /\ DOMAIN traces = DOMAIN probes
      /\ \A i, k \in DOMAIN probes : probes[i].name = probes[k].name => i = k
      /\ \A i \in DOMAIN probes : outcomes[i].probe = probes[i].name /\ traces[i].probe = probes[i].name
  BY <1>1, CapturedOutcomes DEF IsCapture
<1>3. file.document.traces = traces /\ file.document.probes = outcomes /\ Consistent(file.document)
  BY <1>1, WrittenParts
<1>4. DOMAIN probes = 1..Len(probes)
  BY <1>1, MadeSuite DEF IsCapture
<1>5. TraceFor(traces, name) = IF of = {} THEN Absent ELSE traces[Min(of)]
  BY DEF TraceFor
<1> HIDE DEF traces, outcomes
<1>6. TraceFor(traces, name) # Absent
  <2>1. OutcomeAgrees(outcomes[j], TraceFor(traces, outcomes[j].probe))
    BY <1>2, <1>3 DEF Consistent
  <2> QED  BY <1>2, <2>1 DEF OutcomeAgrees
<1>7. of = {j}
  BY <1>2
<1>8. Min(of) = j
  <2> HIDE DEF of
  <2>1. \A x, y \in {j} : x <= y
    BY <1>4
  <2> QED  BY <1>7, <2>1 DEF Min
<1> QED  BY <1>5, <1>6, <1>7, <1>8 DEF traces

\* What a run over the same has built.
LEMMA SameIsMade ==
    ASSUME NEW built, NEW disk, NEW first, IsOfTheSame(built, disk, first)
    PROVE  \E seen : Made(built, disk, seen)
<1>1. PICK described : built = Built(disk, described, Absent)
  BY DEF IsOfTheSame
<1>2. built # Refused
  BY DEF IsOfTheSame
<1>3. \E m \in {described} : described.digest = m.digest
  OBVIOUS
<1>4. Made(built, disk, {described})
  BY <1>1, <1>2, <1>3 DEF Made
<1> QED  BY <1>4

\* A probe of such a run is what the probe of its name was when the evidence was recorded: it asks the
\* same of the answers, and of as many.
LEMMA RecordedProbe ==
    ASSUME NEW file, NEW first, NEW place, NEW watched, NEW answers,
           IsRecord(file, first, place, watched, answers),
           NEW built, NEW disk, IsOfTheSame(built, disk, first),
           NEW i \in DOMAIN built.suite.probes, NEW j \in DOMAIN first.suite.probes,
           built.suite.probes[i].name = first.suite.probes[j].name,
           ProbeDigest(built.suite.probes[i]) = ProbeDigest(first.suite.probes[j])
    PROVE  LET probe == built.suite.probes[i]
               twin == first.suite.probes[j]
           IN  /\ AskTheSame(probe, twin) /\ probe.repeat = twin.repeat /\ probe.expect_args = twin.expect_args
               /\ IsOver(probe, built.catalog) /\ IsOver(twin, first.catalog)
<1> DEFINE probe == built.suite.probes[i]
           twin == first.suite.probes[j]
           schemas == UNION {Yardsticks(p) : p \in Projects}
<1>1. IsCapture(first, place, watched, answers)
  BY DEF IsRecord
<1>2. PICK described : built = Built(disk, described, Absent)
  BY DEF IsOfTheSame
<1>3. disk \in Projects /\ built # Refused /\ Expected(built.suite) = Expected(first.suite)
  BY DEF IsOfTheSame
<1>4. /\ IsOver(twin, first.catalog) /\ (twin.output_schema # Absent => twin.output_schema \in schemas)
  BY <1>1, CapturedProbe
<1>5. /\ IsOver(probe, built.catalog) /\ (probe.output_schema # Absent => probe.output_schema \in Yardsticks(disk))
  <2>1. Built(disk, described, Absent) # Refused /\ i \in DOMAIN Built(disk, described, Absent).suite.probes
    BY <1>2, <1>3
  <2>2. LET it == Built(disk, described, Absent)
        IN  /\ IsOver(it.suite.probes[i], it.catalog)
            /\ it.suite.probes[i].output_schema # Absent => it.suite.probes[i].output_schema \in Yardsticks(disk)
    BY <2>1, NamedByProbes
  <2> QED  BY <1>2, <2>2
<1>6. probe.output_schema # Absent => probe.output_schema \in schemas
  BY <1>3, <1>5
<1>7. /\ \A v, w \in schemas : Digest(v) = Digest(w) => Demands(v) = Demands(w)
      /\ Absent \notin {Digest(v) : v \in schemas}
  BY Digested
<1>8. Telling(built.catalog) /\ Telling(first.catalog)
  BY RecordedCatalog, BothTell
<1>9. probe.repeat = probe.declared_repeat
  BY <1>2, <1>3, DeclaredRepeats
<1>10. twin.repeat = twin.declared_repeat
  BY DEF IsRecord
<1>11. probe.declared_repeat = twin.declared_repeat
  <2>1. \A p : ProbeDigest(p).repeat = p.declared_repeat
    BY DEF ProbeDigest, ProbeIdentity
  <2>2. ProbeDigest(probe) = ProbeDigest(twin)
    OBVIOUS
  <2> HIDE DEF probe, twin
  <2> QED  BY <2>1, <2>2
<1>12. probe.expect_args = twin.expect_args
  <2>1. PICK seen : Made(built, disk, seen)
    BY SameIsMade
  <2>2. \A k, l \in DOMAIN built.suite.probes : built.suite.probes[k].name = built.suite.probes[l].name => k = l
    BY <2>1, MadeSuite DEF IsInjective
  <2>3. \A k, l \in DOMAIN first.suite.probes : first.suite.probes[k].name = first.suite.probes[l].name => k = l
    BY <1>1, CapturedOutcomes DEF IsCapture
  <2> QED  BY <1>3, <2>2, <2>3, ExpectedTells
<1>13. ProbeDigest(probe) = ProbeDigest(twin)
  OBVIOUS
<1> HIDE DEF probe, twin, schemas
<1>14. AskTheSame(probe, twin)
  BY <1>4, <1>5, <1>6, <1>7, <1>8, <1>13, DigestAsks
<1> QED  BY <1>4, <1>5, <1>9, <1>10, <1>11, <1>12, <1>14 DEF probe, twin

\* The recorded trace of such a probe is scored by the run as it was when it was recorded.
LEMMA RecordedOutcome ==
    ASSUME NEW file, NEW first, NEW place, NEW watched, NEW answers,
           IsRecord(file, first, place, watched, answers),
           NEW built, NEW disk, IsOfTheSame(built, disk, first),
           NEW i \in DOMAIN built.suite.probes, NEW j \in DOMAIN first.suite.probes,
           built.suite.probes[i].name = first.suite.probes[j].name,
           ProbeDigest(built.suite.probes[i]) = ProbeDigest(first.suite.probes[j])
    PROVE  /\ Evaluation(built.suite.probes[i], Traces(first, answers)[j], built.catalog)
                = Verdict(first, Traces(first, answers))[j]
           /\ Verdict(first, Traces(first, answers))[j] # Refused
<1> DEFINE probe == built.suite.probes[i]
           twin == first.suite.probes[j]
           trace == Traces(first, answers)[j]
           outcomes == Verdict(first, Traces(first, answers))
           catalog == built.catalog
           other == first.catalog
<1>1. IsCapture(first, place, watched, answers)
  BY DEF IsRecord
<1>2. Alike(catalog, other)
  BY RecordedCatalog
<1>3. /\ AskTheSame(probe, twin) /\ probe.repeat = twin.repeat /\ probe.expect_args = twin.expect_args
      /\ IsOver(probe, catalog) /\ IsOver(twin, other)
  BY RecordedProbe
<1>4. AreSamples(trace.samples)
  BY <1>1, CapturedProbe
<1>5. /\ outcomes[j] = Judge(twin, trace, other) /\ outcomes[j] # Refused
      /\ IsTraceOf(trace, twin) /\ ValidIdentities(trace, other)
  <2> DEFINE traces == Traces(first, answers)
  <2>1. Verdict(first, traces) # Refused
    BY <1>1 DEF IsCapture
  <2> HIDE DEF traces
  <2> QED  BY <2>1, VerdictParts DEF traces
<1>6. probe.name = twin.name /\ ProbeDigest(probe) = ProbeDigest(twin)
  OBVIOUS
<1> HIDE DEF probe, twin, trace, outcomes, catalog, other
<1>7. ValidIdentities(trace, catalog)
  BY <1>2, <1>5 DEF ValidIdentities, TrueIdentity, Alike
<1>8. ASSUME NEW k \in DOMAIN trace.samples
      PROVE  CheckSample(probe, trace.samples[k], catalog) = CheckSample(twin, trace.samples[k], other)
  <2> DEFINE sample == trace.samples[k]
  <2>1. IsSeq(sample.tool_calls)
    BY <1>4 DEF AreSamples, IsSeq, IsSample
  <2>2. Identified(sample, catalog) /\ Identified(sample, other)
    BY <1>5, <1>7 DEF ValidIdentities, Identified
  <2> HIDE DEF sample
  <2>3. CheckSample(probe, sample, catalog) = CheckSample(twin, sample, other)
    BY <1>2, <1>3, <2>1, <2>2, JudgedTheSame
  <2> QED  BY <2>3 DEF sample
<1>9. Judge(probe, trace, catalog) = Judge(twin, trace, other)
  BY <1>3, <1>6, <1>8, JudgedByChecks
<1>10. IsTraceOf(trace, probe)
  BY <1>3, <1>5, <1>6 DEF IsTraceOf
<1>11. Evaluation(probe, trace, catalog) = Judge(probe, trace, catalog)
  BY <1>7, <1>10 DEF Evaluation
<1>12. Evaluation(probe, trace, catalog) = outcomes[j] /\ outcomes[j] # Refused
  BY <1>5, <1>9, <1>11
<1> QED  BY <1>12 DEF probe, trace, catalog, outcomes

\* What is refused is no list: in the program it is the error of a result whose value is a vector.
RefusedIsNoList == \A list : IsSeq(list) => list # Refused

\* Every probe of the one suite has its namesake of the same digest in the other.
LEMMA RecordedNamesakes ==
    ASSUME NEW file, NEW first, NEW place, NEW watched, NEW answers,
           IsRecord(file, first, place, watched, answers),
           NEW built, NEW disk, IsOfTheSame(built, disk, first)
    PROVE  LET probes == built.suite.probes
               twins == first.suite.probes
               Namesakes(i, j) == probes[i].name = twins[j].name /\ ProbeDigest(probes[i]) = ProbeDigest(twins[j])
           IN  /\ IsSeq(probes)
               /\ \A i \in DOMAIN probes : \E j \in DOMAIN twins : Namesakes(i, j)
               /\ \A j \in DOMAIN twins : \E i \in DOMAIN probes : Namesakes(i, j)
<1> DEFINE probes == built.suite.probes
           twins == first.suite.probes
<1>1. PICK seen : Made(built, disk, seen)
  BY SameIsMade
<1>2. /\ IsSeq(probes) /\ built.suite.digest = SuiteDigest(probes)
      /\ \A i, j \in DOMAIN probes : probes[i].name = probes[j].name => i = j
  BY <1>1, MadeSuite DEF IsInjective
<1>3. IsCapture(first, place, watched, answers)
  BY DEF IsRecord
<1>4. \A i, j \in DOMAIN twins : twins[i].name = twins[j].name => i = j
  BY <1>3, CapturedOutcomes DEF IsCapture
<1>5. SuiteDigest(probes) = SuiteDigest(twins)
  <2>1. first.suite.digest = SuiteDigest(twins)
    BY <1>3, MadeSuite DEF IsCapture
  <2> QED  BY <1>2, <2>1 DEF IsOfTheSame
<1> HIDE DEF probes, twins
<1>6. \A i \in DOMAIN probes : \E j \in DOMAIN twins :
        probes[i].name = twins[j].name /\ ProbeDigest(probes[i]) = ProbeDigest(twins[j])
  BY <1>2, <1>4, <1>5, SuiteTells
<1>7. \A j \in DOMAIN twins : \E i \in DOMAIN probes :
        probes[i].name = twins[j].name /\ ProbeDigest(probes[i]) = ProbeDigest(twins[j])
  <2> TAKE j \in DOMAIN twins
  <2>1. SuiteDigest(twins) = SuiteDigest(probes)
    BY <1>5
  <2>2. PICK i \in DOMAIN probes : twins[j].name = probes[i].name /\ ProbeDigest(twins[j]) = ProbeDigest(probes[i])
    BY <1>2, <1>4, <2>1, SuiteTells
  <2> QED  BY <2>2
<1> QED  BY <1>2, <1>6, <1>7 DEF probes, twins

\* A run over the same finds the trace of each of its probes.
LEMMA RecordedAligned ==
    ASSUME RefusedIsNoList,
           NEW file, NEW first, NEW place, NEW watched, NEW answers,
           IsRecord(file, first, place, watched, answers),
           NEW built, NEW disk, IsOfTheSame(built, disk, first)
    PROVE  /\ Usable(built, file) # Refused
           /\ \A i \in DOMAIN built.suite.probes :
                Usable(built, file)[i] = TraceFor(Traces(first, answers), built.suite.probes[i].name)
<1> DEFINE probes == built.suite.probes
           twins == first.suite.probes
           traces == Traces(first, answers)
           context == Context(built.checksum, built.suite, built.catalog, Version)
           aligned == [i \in DOMAIN probes |-> TraceFor(traces, probes[i].name)]
<1>1. UsableTraces(file, context) = traces
  <2>1. built.checksum = first.checksum /\ built.suite.digest = first.suite.digest
    BY DEF IsOfTheSame
  <2>2. CatalogDigest(built.catalog) = CatalogDigest(first.catalog)
    BY RecordedCatalog
  <2> QED  BY <2>1, <2>2, RecordIsUsable
<1>2. traces # Refused
  <2>1. Verdict(first, traces) # Refused
    BY DEF IsRecord, IsCapture
  <2> HIDE DEF traces
  <2> QED  BY <2>1, VerdictParts
<1>3. /\ IsSeq(probes)
      /\ \A i \in DOMAIN probes : \E j \in DOMAIN twins : probes[i].name = twins[j].name
  BY RecordedNamesakes
<1>4. \A j \in DOMAIN twins : TraceFor(traces, twins[j].name) # Absent
  BY RecordedTrace
<1> HIDE DEF probes, twins, traces
<1>5. \A i \in DOMAIN probes : aligned[i] # Absent
  BY <1>3, <1>4
<1>6. DOMAIN aligned = DOMAIN probes
  OBVIOUS
<1>7. RecordedTraces(file, built.suite, context) = aligned
  <2>1. RecordedTraces(file, built.suite, context)
          = IF traces = Refused \/ \E i \in DOMAIN aligned : aligned[i] = Absent THEN Refused ELSE aligned
    <3> HIDE DEF context
    <3> QED  BY <1>1 DEF RecordedTraces, probes
  <2> HIDE DEF aligned
  <2> QED  BY <1>2, <1>5, <1>6, <2>1
<1>8. aligned # Refused
  <2>1. Len(probes) \in Nat /\ DOMAIN probes = 1..Len(probes)
    BY <1>3 DEF IsSeq
  <2>2. aligned = [i \in 1..Len(probes) |-> aligned[i]]
    BY <2>1
  <2> HIDE DEF aligned
  <2>3. IsSeq(aligned)
    BY <2>1, <2>2, FunctionIsSeq
  <2> QED  BY <2>3 DEF RefusedIsNoList
<1>9. \A i \in DOMAIN probes : aligned[i] = TraceFor(traces, probes[i].name)
  OBVIOUS
<1> HIDE DEF aligned, context
<1>10. Usable(built, file) = aligned
  BY <1>7 DEF Usable, context
<1> QED  BY <1>8, <1>9, <1>10 DEF probes, traces

\* And comes to the outcomes that were recorded.
LEMMA Rederived ==
    ASSUME RefusedIsNoList,
           NEW file, NEW first, NEW place, NEW watched, NEW answers,
           IsRecord(file, first, place, watched, answers),
           NEW built, NEW disk, IsOfTheSame(built, disk, first)
    PROVE  Derived(built, file) # Refused /\ AsSet(Derived(built, file)) = AsSet(file.document.probes)
<1> DEFINE probes == built.suite.probes
           twins == first.suite.probes
           traces == Traces(first, answers)
           recorded == Verdict(first, Traces(first, answers))
           aligned == Usable(built, file)
           outcomes == EvaluateAll(built.suite, aligned, built.catalog)
           Namesakes(i, j) == probes[i].name = twins[j].name /\ ProbeDigest(probes[i]) = ProbeDigest(twins[j])
<1>1. /\ aligned # Refused
      /\ \A i \in DOMAIN probes : aligned[i] = TraceFor(traces, probes[i].name)
  BY RecordedAligned
<1>2. /\ IsSeq(probes)
      /\ \A i \in DOMAIN probes : \E j \in DOMAIN twins : Namesakes(i, j)
      /\ \A j \in DOMAIN twins : \E i \in DOMAIN probes : Namesakes(i, j)
  BY RecordedNamesakes
<1>3. IsCapture(first, place, watched, answers) /\ IsWritten(file.document, first, answers)
  BY DEF IsRecord
<1>4. DOMAIN recorded = DOMAIN twins
  BY <1>3, CapturedOutcomes DEF IsCapture
<1>5. file.document.probes = recorded
  BY <1>3, WrittenParts
<1>6. /\ DOMAIN outcomes = DOMAIN probes
      /\ \A i \in DOMAIN probes : outcomes[i] = Evaluation(probes[i], aligned[i], built.catalog)
  <2> HIDE DEF aligned
  <2> QED  BY DEF EvaluateAll
<1>7. ASSUME NEW i \in DOMAIN probes, NEW j \in DOMAIN twins, Namesakes(i, j)
      PROVE  outcomes[i] = recorded[j] /\ outcomes[i] # Refused
  <2>1. TraceFor(traces, twins[j].name) = traces[j]
    BY RecordedTrace
  <2>2. probes[i].name = twins[j].name
    BY <1>7
  <2>3. aligned[i] = traces[j]
    <3> HIDE DEF aligned, probes, twins, traces
    <3> QED  BY <1>1, <2>1, <2>2
  <2>4. Evaluation(probes[i], traces[j], built.catalog) = recorded[j] /\ recorded[j] # Refused
    BY <1>7, RecordedOutcome
  <2> HIDE DEF outcomes, aligned, recorded, probes, twins, traces
  <2> QED  BY <1>6, <2>3, <2>4
<1> HIDE DEF probes, twins, traces, recorded, aligned, outcomes, Namesakes
<1>8. \A i \in DOMAIN outcomes : outcomes[i] # Refused
  BY <1>2, <1>6, <1>7
<1>9. outcomes # Refused
  <2>1. Len(probes) \in Nat /\ DOMAIN probes = 1..Len(probes)
    BY <1>2 DEF IsSeq
  <2>2. outcomes = [i \in 1..Len(probes) |-> outcomes[i]]
    <3>1. outcomes = [i \in DOMAIN probes |-> outcomes[i]]
      BY DEF EvaluateAll, outcomes, probes
    <3> QED  BY <2>1, <3>1
  <2>3. IsSeq(outcomes)
    BY <2>1, <2>2, FunctionIsSeq
  <2> QED  BY <2>3 DEF RefusedIsNoList
<1>10. Derived(built, file) = outcomes
  <2>1. Verdict(built, aligned) = outcomes
    BY <1>1, <1>8 DEF Verdict, outcomes
  <2> QED  BY <1>1, <2>1 DEF Derived, aligned
<1>11. AsSet(outcomes) = AsSet(recorded)
  <2>1. \A i \in DOMAIN outcomes : \E j \in DOMAIN recorded : outcomes[i] = recorded[j]
    BY <1>2, <1>4, <1>6, <1>7
  <2>2. \A j \in DOMAIN recorded : \E i \in DOMAIN outcomes : outcomes[i] = recorded[j]
    BY <1>2, <1>4, <1>6, <1>7
  <2> QED  BY <2>1, <2>2 DEF AsSet
<1> QED  BY <1>5, <1>9, <1>10, <1>11

\* So a replay over the same rederives the artifact that nobody touched.
LEMMA ReplayFits ==
    ASSUME RefusedIsNoList
    PROVE  BehaviorInv /\ EvidenceIsWhole /\ ReplayIsPlain => ReplayRederives
<1> SUFFICES ASSUME BehaviorInv, EvidenceIsWhole, ReplayIsPlain,
                    Replayed, run.built # Absent, Genuine,
                    run.built.checksum = evidence.built.checksum,
                    run.built.suite.digest = evidence.built.suite.digest,
                    Expected(run.built.suite) = Expected(evidence.built.suite)
             PROVE  run.verdict # Refused /\ AsSet(run.verdict) = AsSet(Recorded)
  BY DEF ReplayRederives
<1>1. evidence # Absent /\ ~evidence.touched /\ evidence.file.shape = "run"
  BY DEF Genuine
<1>2. PICK answers :
        /\ IsCapture(evidence.built, evidence.of, evidence.seen, answers)
        /\ IsWritten(evidence.file.document, evidence.built, answers)
  BY <1>1 DEF EvidenceIsWhole, IsWritten
<1>3. evidence.built.client # Refused /\ evidence.file.name = Address(evidence.file.document)
  BY <1>1, EvidenceParts
<1>4. IsRecord(evidence.file, evidence.built, evidence.of, evidence.seen, answers)
  BY <1>1, <1>2, <1>3 DEF IsRecord, Genuine
<1>5. /\ \E described : run.built = Built(project, described, Absent)
      /\ run.verdict = Derived(run.built, evidence.file)
  BY DEF ReplayIsPlain, Replayed, Over
<1>6. project \in Projects /\ run.built # Refused
  BY MadeSuite DEF BehaviorInv, RunIsMade
<1>7. IsOfTheSame(run.built, project, evidence.built)
  BY <1>5, <1>6 DEF IsOfTheSame
<1>8. /\ Derived(run.built, evidence.file) # Refused
      /\ AsSet(Derived(run.built, evidence.file)) = AsSet(evidence.file.document.probes)
  BY <1>4, <1>7, Rederived
<1> QED  BY <1>5, <1>8 DEF Recorded

\* A replay over the agent, the suite and the expectations that an untouched artifact was recorded with
\* comes to the outcomes that the artifact records.
THEOREM GreenRunsRederive ==
    ASSUME RefusedIsNoList
    PROVE  Spec => []ReplayRederives
<1>1. Init => EvidenceIsWhole /\ ReplayIsPlain
  BY IdleIsMade DEF Init, EvidenceIsWhole, ReplayIsPlain
<1>2. BehaviorInv /\ BehaviorInv' /\ EvidenceIsWhole /\ ReplayIsPlain /\ [Next]_vars
        => EvidenceIsWhole' /\ ReplayIsPlain'
  BY EvidenceInductive, ReplayInductive
<1>3. BehaviorInv /\ EvidenceIsWhole /\ ReplayIsPlain => ReplayRederives
  BY ReplayFits
<1>4. Spec => []BehaviorInv
  BY EvidenceHasAnOrigin
<1> QED  BY <1>1, <1>2, <1>3, <1>4, PTL DEF Spec

------------------------------------------------------------------------------
(* Evidence under another spelling of the project.                            *)

\* What is kept of a list of dependencies, in no order.
Fingerprint(dep) == [id |-> dep.id, digest |-> DepDigest(dep.facets)]
Fingerprints(list) == {Fingerprint(list[k]) : k \in DOMAIN list}

\* One model, however its parameters are spelled, and a local one wherever it is served.
OneModel(m, n) ==
    /\ m = Absent <=> n = Absent
    /\ m # Absent /\ n # Absent =>
        /\ m.provider = n.provider /\ m.id = n.id
        /\ CanonicalTable(m.params) = CanonicalTable(n.params)
        /\ m.provider = "openai-compatible" => CanonicalEndpoint(m.endpoint) = CanonicalEndpoint(n.endpoint)

\* The suite of a project, with its declared repeats.
SuiteOf(disk) ==
    LoadSuite(disk.config.probes, disk.directory, disk.schemas,
              FromLockfile(FromDependencies(McpDependencies(disk.config.servers))), Absent)

\* What the probes of a suite ask and expect, in no order.
Probing(suite) ==
    {[digest |-> ProbeDigest(suite.probes[i]), expect_args |-> suite.probes[i].expect_args] : i \in DOMAIN suite.probes}

\* Two projects that say the same: the same prompts, the same servers and tools, one model and the same
\* probes, in whatever order and however they are written.
SaysTheSame(p, q) ==
    /\ Fingerprints(PromptDependencies(p.config.prompts, p.files))
         = Fingerprints(PromptDependencies(q.config.prompts, q.files))
    /\ Fingerprints(McpDependencies(p.config.servers)) = Fingerprints(McpDependencies(q.config.servers))
    /\ OneModel(p.config.model, q.config.model)
    /\ Probing(SuiteOf(p)) = Probing(SuiteOf(q))

\* The checksum of an agent is taken over the fingerprints of its parts.
LEMMA FingerprintsTell ==
    ASSUME NEW list, NEW other, VerifyUnique(list), VerifyUnique(other), Fingerprints(list) = Fingerprints(other)
    PROVE  AgentChecksum(list) = AgentChecksum(other)
<1>1. \A k \in DOMAIN list : \E l \in DOMAIN other :
        list[k].id = other[l].id /\ DepDigest(list[k].facets) = DepDigest(other[l].facets)
  <2> TAKE k \in DOMAIN list
  <2>1. Fingerprint(list[k]) \in Fingerprints(other)
    BY DEF Fingerprints
  <2>2. PICK l \in DOMAIN other : Fingerprint(list[k]) = Fingerprint(other[l])
    BY <2>1 DEF Fingerprints
  <2> QED  BY <2>2 DEF Fingerprint
<1>2. \A l \in DOMAIN other : \E k \in DOMAIN list :
        list[k].id = other[l].id /\ DepDigest(list[k].facets) = DepDigest(other[l].facets)
  <2> TAKE l \in DOMAIN other
  <2>1. Fingerprint(other[l]) \in Fingerprints(list)
    BY DEF Fingerprints
  <2>2. PICK k \in DOMAIN list : Fingerprint(list[k]) = Fingerprint(other[l])
    BY <2>1 DEF Fingerprints
  <2> QED  BY <2>2 DEF Fingerprint
<1>3. Ids(list) = Ids(other)
  BY <1>1, <1>2 DEF Ids
<1>4. ASSUME NEW id \in Ids(list)
      PROVE  DepDigest(Of(list, id).facets) = DepDigest(Of(other, id).facets)
  <2>1. PICK k \in DOMAIN list : list[k].id = id
    BY DEF Ids
  <2>2. PICK l \in DOMAIN other :
          list[k].id = other[l].id /\ DepDigest(list[k].facets) = DepDigest(other[l].facets)
    BY <1>1
  <2>3. Of(list, list[k].id) = list[k] /\ Of(other, other[l].id) = other[l]
    BY OfUnique
  <2> QED  BY <2>1, <2>2, <2>3
<1> QED  BY <1>3, <1>4 DEF AgentChecksum

\* Equal tables of parameters make facets of equal digests.
LEMMA ParamsTold ==
    ASSUME NEW configured, NEW other, CanonicalTable(configured) = CanonicalTable(other), NEW reported
    PROVE  DepDigest(ParamsFacet(configured, reported)) = DepDigest(ParamsFacet(other, reported))
<1>1. DOMAIN configured = DOMAIN other
  <2>1. DOMAIN CanonicalTable(configured) = DOMAIN configured /\ DOMAIN CanonicalTable(other) = DOMAIN other
    BY DEF CanonicalTable
  <2> QED  BY <2>1
<1>2. CASE DOMAIN configured = {} /\ DOMAIN reported = {}
  BY <1>1, <1>2 DEF ParamsFacet
<1>3. CASE ~(DOMAIN configured = {} /\ DOMAIN reported = {})
  <2> DEFINE facet(table) == Facet([configured |-> CanonicalTable(table), reported |-> reported],
                                   Absent, [configured |-> table, reported |-> reported])
  <2>1. /\ ParamsFacet(configured, reported) = [params |-> facet(configured)]
        /\ ParamsFacet(other, reported) = [params |-> facet(other)]
    BY <1>1, <1>3 DEF ParamsFacet
  <2>2. facet(configured).digest = facet(other).digest
    BY DEF Facet
  <2> HIDE DEF facet
  <2> QED  BY <2>1, <2>2 DEF DepDigest
<1> QED  BY <1>2, <1>3

\* The digests of an overlay are those of its parts.
LEMMA OverlayTold ==
    ASSUME NEW facets, NEW more, NEW other, DepDigest(more) = DepDigest(other)
    PROVE  DepDigest(Overlay(facets, more)) = DepDigest(Overlay(facets, other))
<1>1. DOMAIN more = DOMAIN other /\ \A name \in DOMAIN more : more[name].digest = other[name].digest
  <2>1. DOMAIN DepDigest(more) = DOMAIN more /\ DOMAIN DepDigest(other) = DOMAIN other
    BY DEF DepDigest
  <2>2. \A name \in DOMAIN more : DepDigest(more)[name] = more[name].digest
    BY DEF DepDigest
  <2>3. \A name \in DOMAIN other : DepDigest(other)[name] = other[name].digest
    BY DEF DepDigest
  <2> QED  BY <2>1, <2>2, <2>3
<1> DEFINE left == Overlay(facets, more)
           right == Overlay(facets, other)
<1>2. DOMAIN left = DOMAIN right
  BY <1>1 DEF Overlay
<1>3. \A name \in DOMAIN left : left[name].digest = right[name].digest
  BY <1>1 DEF Overlay
<1> HIDE DEF left, right
<1>4. DepDigest(left) = DepDigest(right)
  BY <1>2, <1>3 DEF DepDigest
<1> QED  BY <1>4 DEF left, right

\* One model makes one fingerprint.
LEMMA OneModelTells ==
    ASSUME NEW m, NEW n, OneModel(m, n), m # Absent, NEW described, NEW again,
           m.provider = "ollama" => described = again,
           ModelDependency(m, described) # Refused, ModelDependency(n, again) # Refused
    PROVE  Fingerprint(ModelDependency(m, described)) = Fingerprint(ModelDependency(n, again))
<1>1. /\ m.provider = n.provider /\ m.id = n.id /\ CanonicalTable(m.params) = CanonicalTable(n.params)
      /\ m.provider = "openai-compatible" => CanonicalEndpoint(m.endpoint) = CanonicalEndpoint(n.endpoint)
  BY DEF OneModel
<1> DEFINE dep == ModelDependency(m, described)
           twin == ModelDependency(n, again)
<1>2. dep.id = twin.id
  <2>1. dep.id = ModelId(m) /\ twin.id = ModelId(n)
    BY ModelIdIs
  <2> HIDE DEF dep, twin
  <2> QED  BY <1>1, <2>1 DEF ModelId
<1>3. DepDigest(dep.facets) = DepDigest(twin.facets)
  <2>1. CASE m.provider = "ollama"
    <3> DEFINE reported == IF described.parameters = Absent THEN <<>> ELSE ParseParameters(described.parameters)
               identity == [provider |-> m.provider, id |-> m.id, digest |-> described.digest,
                            details |-> described.details]
               own == Overlay([identity |-> Facet(identity, Absent, identity)], ReportedFacets(described))
    <3>1. described = again
      BY <2>1
    <3>2. dep = OllamaDependency(m, described) /\ twin = OllamaDependency(n, described)
      BY <1>1, <2>1, <3>1 DEF ModelDependency
    <3>3. dep.facets = Overlay(own, ParamsFacet(m.params, reported))
      BY <3>2 DEF OllamaDependency, Dependency
    <3>4. twin.facets = Overlay(own, ParamsFacet(n.params, reported))
      BY <1>1, <3>2 DEF OllamaDependency, Dependency
    <3> HIDE DEF own, reported, dep, twin
    <3>5. DepDigest(ParamsFacet(m.params, reported)) = DepDigest(ParamsFacet(n.params, reported))
      BY <1>1, ParamsTold
    <3> QED  BY <3>3, <3>4, <3>5, OverlayTold
  <2>2. CASE m.provider = "openai-compatible"
    <3> DEFINE identity == [provider |-> m.provider, id |-> m.id, endpoint |-> CanonicalEndpoint(m.endpoint)]
               own == [identity |-> Facet(identity, Absent, identity)]
    <3>1. dep = CompatibleDependency(m) /\ twin = CompatibleDependency(n)
      BY <1>1, <2>2 DEF ModelDependency
    <3>2. dep.facets = Overlay(own, ParamsFacet(m.params, <<>>))
      BY <3>1 DEF CompatibleDependency, Dependency
    <3>3. twin.facets = Overlay(own, ParamsFacet(n.params, <<>>))
      <4> DEFINE its == [provider |-> n.provider, id |-> n.id, endpoint |-> CanonicalEndpoint(n.endpoint)]
      <4>1. its = identity
        BY <1>1, <2>2
      <4>2. twin.facets = Overlay([identity |-> Facet(its, Absent, its)], ParamsFacet(n.params, <<>>))
        BY <3>1 DEF CompatibleDependency, Dependency
      <4> HIDE DEF its, identity
      <4> QED  BY <4>1, <4>2
    <3> HIDE DEF own, dep, twin
    <3>4. DepDigest(ParamsFacet(m.params, <<>>)) = DepDigest(ParamsFacet(n.params, <<>>))
      BY <1>1, ParamsTold
    <3> QED  BY <3>2, <3>3, <3>4, OverlayTold
  <2> QED  BY <2>1, <2>2 DEF ModelDependency
<1> HIDE DEF dep, twin
<1>4. Fingerprint(dep) = Fingerprint(twin)
  BY <1>2, <1>3 DEF Fingerprint
<1> QED  BY <1>4 DEF dep, twin

\* What discovery finds has the fingerprints of its sources, and no other.
LEMMA DiscoveredFingerprints ==
    ASSUME NEW disk \in Projects, NEW described, Discovered(disk, described) # Refused
    PROVE  LET config == disk.config
           IN  Fingerprints(Discovered(disk, described))
                 = Fingerprints(PromptDependencies(config.prompts, disk.files))
                   \union Fingerprints(McpDependencies(config.servers))
                   \union {print \in {Fingerprint(ModelDependency(config.model, described))} : config.model # Absent}
<1> DEFINE config == disk.config
           list == Discovered(disk, described)
           prompts == PromptDependencies(config.prompts, disk.files)
           mcp == McpDependencies(config.servers)
           model == ModelDependency(config.model, described)
<1>1. /\ prompts # Refused /\ mcp # Refused
      /\ \A i \in 1..Len(config.prompts) : \E k \in DOMAIN list : list[k] = PromptDependency(disk, i)
      /\ config.model # Absent => \E k \in DOMAIN list : list[k] = model
      /\ \A i \in 1..Len(config.servers) : \A j \in 1..Len(Part(config.servers[i])) :
            \E k \in DOMAIN list : list[k] = Part(config.servers[i])[j]
      /\ \A k \in DOMAIN list :
            \/ \E i \in 1..Len(config.prompts) : list[k] = PromptDependency(disk, i)
            \/ config.model # Absent /\ list[k] = model
            \/ \E i \in 1..Len(config.servers) : \E j \in 1..Len(Part(config.servers[i])) :
                list[k] = Part(config.servers[i])[j]
  BY Listed
<1>2. /\ DOMAIN prompts = 1..Len(config.prompts)
      /\ \A i \in 1..Len(config.prompts) : prompts[i] = PromptDependency(disk, i)
  <2>1. /\ IsSeq(prompts) /\ Len(prompts) = Len(config.prompts)
        /\ \A i \in 1..Len(config.prompts) : prompts[i] = PromptDependency(disk, i)
    BY <1>1, PromptList
  <2> HIDE DEF prompts
  <2> QED  BY <2>1 DEF IsSeq
<1>3. /\ \A k \in DOMAIN mcp : \E i \in 1..Len(config.servers) : \E j \in 1..Len(Part(config.servers[i])) :
            mcp[k] = Part(config.servers[i])[j]
      /\ \A i \in 1..Len(config.servers) : \A j \in 1..Len(Part(config.servers[i])) :
            \E k \in DOMAIN mcp : mcp[k] = Part(config.servers[i])[j]
  BY <1>1, McpListed
<1> DEFINE own == {print \in {Fingerprint(model)} : config.model # Absent}
<1> HIDE DEF list, prompts, mcp, model
<1>4. \A k \in DOMAIN list :
        \/ \E i \in DOMAIN prompts : list[k] = prompts[i]
        \/ config.model # Absent /\ list[k] = model
        \/ \E l \in DOMAIN mcp : list[k] = mcp[l]
  <2> TAKE k \in DOMAIN list
  <2>1. CASE \E i \in 1..Len(config.prompts) : list[k] = PromptDependency(disk, i)
    BY <1>2, <2>1
  <2>2. CASE config.model # Absent /\ list[k] = model
    BY <2>2
  <2>3. CASE \E i \in 1..Len(config.servers) : \E j \in 1..Len(Part(config.servers[i])) :
                list[k] = Part(config.servers[i])[j]
    <3>1. PICK i \in 1..Len(config.servers) : \E j \in 1..Len(Part(config.servers[i])) :
                list[k] = Part(config.servers[i])[j]
      BY <2>3
    <3>2. PICK j \in 1..Len(Part(config.servers[i])) : list[k] = Part(config.servers[i])[j]
      BY <3>1
    <3>3. \E l \in DOMAIN mcp : mcp[l] = Part(config.servers[i])[j]
      BY <1>3
    <3> QED  BY <3>2, <3>3
  <2> QED  BY <1>1, <2>1, <2>2, <2>3
<1>5. /\ \A i \in DOMAIN prompts : \E k \in DOMAIN list : list[k] = prompts[i]
      /\ config.model # Absent => \E k \in DOMAIN list : list[k] = model
      /\ \A l \in DOMAIN mcp : \E k \in DOMAIN list : list[k] = mcp[l]
  <2>1. \A i \in DOMAIN prompts : \E k \in DOMAIN list : list[k] = prompts[i]
    BY <1>1, <1>2
  <2>2. ASSUME NEW l \in DOMAIN mcp PROVE \E k \in DOMAIN list : list[k] = mcp[l]
    <3>1. PICK i \in 1..Len(config.servers) : \E j \in 1..Len(Part(config.servers[i])) :
                mcp[l] = Part(config.servers[i])[j]
      BY <1>3
    <3>2. PICK j \in 1..Len(Part(config.servers[i])) : mcp[l] = Part(config.servers[i])[j]
      BY <3>1
    <3>3. \E k \in DOMAIN list : list[k] = Part(config.servers[i])[j]
      BY <1>1
    <3> QED  BY <3>2, <3>3
  <2> QED  BY <1>1, <2>1, <2>2
<1>6. Fingerprints(list) = Fingerprints(prompts) \union Fingerprints(mcp) \union own
  <2>1. ASSUME NEW print \in Fingerprints(list)
        PROVE  print \in Fingerprints(prompts) \union Fingerprints(mcp) \union own
    <3>1. PICK k \in DOMAIN list : print = Fingerprint(list[k])
      BY DEF Fingerprints
    <3> QED  BY <1>4, <3>1 DEF Fingerprints
  <2>2. ASSUME NEW print \in Fingerprints(prompts) PROVE print \in Fingerprints(list)
    BY <1>5 DEF Fingerprints
  <2>3. ASSUME NEW print \in Fingerprints(mcp) PROVE print \in Fingerprints(list)
    BY <1>5 DEF Fingerprints
  <2>4. ASSUME NEW print \in own PROVE print \in Fingerprints(list)
    BY <1>5 DEF Fingerprints
  <2> HIDE DEF own
  <2> QED  BY <2>1, <2>2, <2>3, <2>4
<1> QED  BY <1>6 DEF list, prompts, mcp, model

\* So two projects that say the same have one checksum, if they were built over the same description of
\* a local model.
LEMMA ChecksumRetold ==
    ASSUME NEW disk \in Projects, NEW described, NEW override, Built(disk, described, override) # Refused,
           NEW other \in Projects, NEW again, NEW repeat, Built(other, again, repeat) # Refused,
           SaysTheSame(disk, other), IsLocal(disk) => described = again
    PROVE  Built(disk, described, override).checksum = Built(other, again, repeat).checksum
<1> DEFINE list == Discovered(disk, described)
           twin == Discovered(other, again)
           m == disk.config.model
           n == other.config.model
<1>1. list # Refused /\ Built(disk, described, override).checksum = AgentChecksum(list)
  BY BuiltParts
<1>2. twin # Refused /\ Built(other, again, repeat).checksum = AgentChecksum(twin)
  BY BuiltParts
<1>3. VerifyUnique(list) /\ (m # Absent => ModelDependency(m, described) # Refused)
  BY <1>1, Listed
<1>4. VerifyUnique(twin) /\ (n # Absent => ModelDependency(n, again) # Refused)
  BY <1>2, Listed
<1>5. Fingerprints(list) = Fingerprints(twin)
  <2> DEFINE own == {print \in {Fingerprint(ModelDependency(m, described))} : m # Absent}
             its == {print \in {Fingerprint(ModelDependency(n, again))} : n # Absent}
  <2>1. Fingerprints(list) = Fingerprints(PromptDependencies(disk.config.prompts, disk.files))
                             \union Fingerprints(McpDependencies(disk.config.servers)) \union own
    BY <1>1, DiscoveredFingerprints
  <2>2. Fingerprints(twin) = Fingerprints(PromptDependencies(other.config.prompts, other.files))
                             \union Fingerprints(McpDependencies(other.config.servers)) \union its
    BY <1>2, DiscoveredFingerprints
  <2>3. OneModel(m, n)
    BY DEF SaysTheSame
  <2>4. own = its
    <3>1. m = Absent <=> n = Absent
      BY <2>3 DEF OneModel
    <3>2. CASE m # Absent
      <4>1. m.provider = "ollama" => described = again
        BY <3>2 DEF IsLocal
      <4>2. Fingerprint(ModelDependency(m, described)) = Fingerprint(ModelDependency(n, again))
        <5> HIDE DEF m, n
        <5> QED  BY <1>3, <1>4, <2>3, <3>1, <3>2, <4>1, OneModelTells
      <4> HIDE DEF m, n
      <4> QED  BY <3>1, <3>2, <4>2
    <3> QED  BY <3>1, <3>2
  <2> HIDE DEF own, its, list, twin
  <2> QED  BY <2>1, <2>2, <2>4 DEF SaysTheSame
<1> HIDE DEF list, twin
<1>6. AgentChecksum(list) = AgentChecksum(twin)
  BY <1>3, <1>4, <1>5, FingerprintsTell
<1> QED  BY <1>1, <1>2, <1>6

\* Probes that ask and expect the same, in no order, make one suite.
LEMMA ProbingTells ==
    ASSUME NEW suite, NEW other, Probing(suite) = Probing(other),
           \A i, j \in DOMAIN suite.probes : suite.probes[i].name = suite.probes[j].name => i = j,
           \A i, j \in DOMAIN other.probes : other.probes[i].name = other.probes[j].name => i = j
    PROVE  SuiteDigest(suite.probes) = SuiteDigest(other.probes) /\ Expected(suite) = Expected(other)
<1> DEFINE probes == suite.probes
           twins == other.probes
           Asks(probe) == [digest |-> ProbeDigest(probe), expect_args |-> probe.expect_args]
           Twin(i, j) == /\ probes[i].name = twins[j].name /\ ProbeDigest(probes[i]) = ProbeDigest(twins[j])
                         /\ probes[i].expect_args = twins[j].expect_args
           names == {probes[i].name : i \in DOMAIN probes}
           at(name) == CHOOSE i \in DOMAIN probes : probes[i].name = name
           twinAt(name) == CHOOSE j \in DOMAIN twins : twins[j].name = name
<1>1. \A probe : ProbeDigest(probe).name = probe.name
  BY DEF ProbeDigest, ProbeIdentity
<1>2. \A probe, twin : Asks(probe) = Asks(twin) =>
        /\ probe.name = twin.name /\ ProbeDigest(probe) = ProbeDigest(twin) /\ probe.expect_args = twin.expect_args
  <2> TAKE probe, twin
  <2> HAVE Asks(probe) = Asks(twin)
  <2>1. ProbeDigest(probe) = ProbeDigest(twin) /\ probe.expect_args = twin.expect_args
    OBVIOUS
  <2> HIDE DEF Asks
  <2> QED  BY <1>1, <2>1
<1>3. /\ Probing(suite) = {Asks(probes[i]) : i \in DOMAIN probes}
      /\ Probing(other) = {Asks(twins[j]) : j \in DOMAIN twins}
  BY DEF Probing
<1> HIDE DEF Asks, probes, twins
<1>4. \A i \in DOMAIN probes : \E j \in DOMAIN twins : Twin(i, j)
  <2> TAKE i \in DOMAIN probes
  <2>1. Asks(probes[i]) \in Probing(suite)
    BY <1>3
  <2>2. Asks(probes[i]) \in {Asks(twins[j]) : j \in DOMAIN twins}
    BY <1>3, <2>1
  <2>3. PICK j \in DOMAIN twins : Asks(probes[i]) = Asks(twins[j])
    BY <2>2
  <2>4. Twin(i, j)
    BY <1>2, <2>3
  <2> QED  BY <2>4
<1>5. \A j \in DOMAIN twins : \E i \in DOMAIN probes : Twin(i, j)
  <2> TAKE j \in DOMAIN twins
  <2>1. Asks(twins[j]) \in Probing(other)
    BY <1>3
  <2>2. Asks(twins[j]) \in {Asks(probes[i]) : i \in DOMAIN probes}
    BY <1>3, <2>1
  <2>3. PICK i \in DOMAIN probes : Asks(twins[j]) = Asks(probes[i])
    BY <2>2
  <2>4. Twin(i, j)
    BY <1>2, <2>3
  <2> QED  BY <2>4
<1>6. names = {twins[j].name : j \in DOMAIN twins}
  BY <1>4, <1>5
<1>7. ASSUME NEW name \in names
      PROVE  Twin(at(name), twinAt(name))
  <2>1. PICK i \in DOMAIN probes : probes[i].name = name
    OBVIOUS
  <2>2. PICK j \in DOMAIN twins : Twin(i, j)
    BY <1>4
  <2>3. at(name) = i
    BY <2>1 DEF probes
  <2>4. twinAt(name) = j
    BY <2>1, <2>2 DEF twins
  <2> HIDE DEF at, twinAt, Twin
  <2> QED  BY <2>2, <2>3, <2>4
<1> HIDE DEF at, twinAt, names
<1>8. /\ SuiteDigest(probes) = [name \in names |-> ProbeDigest(probes[at(name)])]
      /\ Expected(suite) = [name \in names |-> probes[at(name)].expect_args]
  BY DEF SuiteDigest, Expected, names, at, probes
<1>9. /\ SuiteDigest(twins) = [name \in names |-> ProbeDigest(twins[twinAt(name)])]
      /\ Expected(other) = [name \in names |-> twins[twinAt(name)].expect_args]
  BY <1>6 DEF SuiteDigest, Expected, twinAt, twins
<1>10. SuiteDigest(probes) = SuiteDigest(twins) /\ Expected(suite) = Expected(other)
  BY <1>7, <1>8, <1>9
<1> QED  BY <1>10 DEF probes, twins

\* The suite of a run asks and expects what that of its project does, whatever the `--repeat`.
LEMMA ProbingOf ==
    ASSUME NEW disk \in Projects, NEW described, NEW override, Built(disk, described, override) # Refused
    PROVE  Probing(Built(disk, described, override).suite) = Probing(SuiteOf(disk))
<1> DEFINE catalog == Built(disk, described, override).catalog
           suite == Built(disk, described, override).suite
           again == LoadSuite(disk.config.probes, disk.directory, disk.schemas, catalog, Absent)
<1>1. suite = LoadSuite(disk.config.probes, disk.directory, disk.schemas, catalog, override) /\ suite # Refused
  BY BuiltParts
<1>2. again = SuiteOf(disk)
  <2>1. FromLockfile(FromDependencies(McpDependencies(disk.config.servers))) = catalog
    BY CatalogOfServers
  <2> HIDE DEF catalog
  <2> QED  BY <2>1 DEF SuiteOf
<1> HIDE DEF catalog, suite
<1>3. /\ DOMAIN again.probes = DOMAIN suite.probes
      /\ \A i \in DOMAIN suite.probes : ButRepeat(again.probes[i]) = ButRepeat(suite.probes[i])
  BY <1>1, SuiteAgain
<1> HIDE DEF again
<1>4. \A i \in DOMAIN suite.probes :
        /\ ProbeDigest(again.probes[i]) = ProbeDigest(suite.probes[i])
        /\ again.probes[i].expect_args = suite.probes[i].expect_args
  <2> TAKE i \in DOMAIN suite.probes
  <2>1. ButRepeat(again.probes[i]) = ButRepeat(suite.probes[i])
    BY <1>3
  <2>2. ProbeDigest(again.probes[i]) = ProbeDigest(suite.probes[i])
    BY <2>1, DigestButRepeat
  <2>3. again.probes[i].expect_args = suite.probes[i].expect_args
    BY <2>1 DEF ButRepeat
  <2> QED  BY <2>2, <2>3
<1>5. Probing(suite) = Probing(again)
  BY <1>3, <1>4 DEF Probing
<1> QED  BY <1>2, <1>5 DEF suite

\* The names in a suite that was loaded tell its probes apart.
LEMMA SuiteIs ==
    ASSUME NEW disk, NEW described, NEW override, Built(disk, described, override) # Refused
    PROVE  LET suite == Built(disk, described, override).suite
           IN  /\ suite.digest = SuiteDigest(suite.probes)
               /\ \A i, j \in DOMAIN suite.probes : suite.probes[i].name = suite.probes[j].name => i = j
<1> DEFINE built == Built(disk, described, override)
<1>1. \E m \in {described} : described.digest = m.digest
  OBVIOUS
<1>2. Made(built, disk, {described})
  BY <1>1 DEF Made
<1> HIDE DEF built
<1>3. /\ built.suite.digest = SuiteDigest(built.suite.probes)
      /\ IsInjective([i \in DOMAIN built.suite.probes |-> built.suite.probes[i].name])
  BY <1>2, MadeSuite
<1>4. \A i, j \in DOMAIN built.suite.probes : built.suite.probes[i].name = built.suite.probes[j].name => i = j
  BY <1>3 DEF IsInjective
<1> QED  BY <1>3, <1>4 DEF built

\* So two projects that say the same have one suite.
LEMMA SuiteRetold ==
    ASSUME NEW disk \in Projects, NEW described, NEW override, Built(disk, described, override) # Refused,
           NEW other \in Projects, NEW again, NEW repeat, Built(other, again, repeat) # Refused,
           SaysTheSame(disk, other)
    PROVE  LET suite == Built(disk, described, override).suite
               twin == Built(other, again, repeat).suite
           IN  suite.digest = twin.digest /\ Expected(suite) = Expected(twin)
<1> DEFINE suite == Built(disk, described, override).suite
           twin == Built(other, again, repeat).suite
<1>1. /\ suite.digest = SuiteDigest(suite.probes)
      /\ \A i, j \in DOMAIN suite.probes : suite.probes[i].name = suite.probes[j].name => i = j
  BY SuiteIs
<1>2. /\ twin.digest = SuiteDigest(twin.probes)
      /\ \A i, j \in DOMAIN twin.probes : twin.probes[i].name = twin.probes[j].name => i = j
  BY SuiteIs
<1>3. Probing(suite) = Probing(SuiteOf(disk))
  BY ProbingOf
<1>4. Probing(twin) = Probing(SuiteOf(other))
  BY ProbingOf
<1>5. Probing(suite) = Probing(twin)
  <2> HIDE DEF suite, twin
  <2> QED  BY <1>3, <1>4 DEF SaysTheSame
<1> HIDE DEF suite, twin
<1>6. SuiteDigest(suite.probes) = SuiteDigest(twin.probes) /\ Expected(suite) = Expected(twin)
  BY <1>1, <1>2, <1>5, ProbingTells
<1> QED  BY <1>1, <1>2, <1>6 DEF suite, twin

\* What a run is told of a local model: by one answer who it is, by the next the rest.
Told(entry, shown) == [shown EXCEPT !.digest = entry.digest, !.details = entry.details]

ToldBy(described, seen) == \E m, n \in seen : described = Told(m, n)

\* What was built over a description that models seen at the time gave.
MadeAsTold(built, disk, seen) ==
    \E described, override :
        built = Built(disk, described, override) /\ built # Refused /\ (IsLocal(disk) => ToldBy(described, seen))

\* So it is with a run and with the evidence.
RunIsTold ==
    /\ run.stage = "assemble" /\ IsLocal(project) => ToldBy(run.described, run.seen)
    /\ run.stage = "assembled" \/ run.built # Absent => MadeAsTold(run.built, project, run.seen)

EvidenceIsTold == evidence # Absent => MadeAsTold(evidence.built, evidence.of, evidence.seen)

\* A run that only goes on was told the same.
LEMMA StillTold ==
    ASSUME RunIsTold, project' = project, run'.built = run.built, run.seen \subseteq run'.seen,
           run'.stage = "assemble" => run.stage = "assemble" /\ run'.described = run.described,
           run'.stage = "assembled" => run.stage = "assembled"
    PROVE  RunIsTold'
<1>1. \A described : ToldBy(described, run.seen) => ToldBy(described, run'.seen)
  BY DEF ToldBy
<1>2. run'.stage = "assemble" /\ IsLocal(project') => ToldBy(run'.described, run'.seen)
  BY <1>1 DEF RunIsTold
<1>3. ASSUME run'.stage = "assembled" \/ run'.built # Absent
      PROVE  MadeAsTold(run'.built, project', run'.seen)
  <2>1. MadeAsTold(run.built, project, run.seen)
    BY <1>3 DEF RunIsTold
  <2>2. PICK described, override :
          /\ run.built = Built(project, described, override) /\ run.built # Refused
          /\ IsLocal(project) => ToldBy(described, run.seen)
    BY <2>1 DEF MadeAsTold
  <2>3. IsLocal(project) => ToldBy(described, run'.seen)
    BY <1>1, <2>2
  <2> QED  BY <2>2, <2>3 DEF MadeAsTold
<1> QED  BY <1>2, <1>3 DEF RunIsTold, IsLocal

\* A run that has nothing built, and nothing to build of, was told nothing.
LEMMA NothingTold ==
    ASSUME run'.built = Absent, run'.stage # "assembled", run'.stage = "assemble" => ~IsLocal(project')
    PROVE  RunIsTold'
  BY DEF RunIsTold, IsLocal

\* Each step that tells a run something tells it of a model that it has seen.
LEMMA RunToldInductive == BehaviorInv /\ RunIsTold /\ [Next]_vars => RunIsTold'
<1> SUFFICES ASSUME BehaviorInv, RunIsTold, [Next]_vars PROVE RunIsTold'
  OBVIOUS
<1>0. DOMAIN run = RunFields
  BY DEF BehaviorInv, RunIsMade
<1>1. ASSUME NEW override \in Overrides, NEW replay \in BOOLEAN, Begin(override, replay) PROVE RunIsTold'
  <2>1. /\ project' = project
        /\ run' = [Idle EXCEPT !.stage = IF Local THEN "tags" ELSE "assemble",
                               !.override = override, !.replay = replay, !.seen = {served}]
    BY <1>1 DEF Begin
  <2>2. run'.built = Absent /\ run'.stage = IF Local THEN "tags" ELSE "assemble"
    BY <2>1, IdleIsMade DEF RunFields
  <2>3. IsLocal(project') <=> Local
    BY <2>1 DEF IsLocal, Local
  <2> QED  BY <2>2, <2>3, NothingTold
<1>2. CASE run' \in {Idle, Failed}
  BY <1>2, IdleIsMade, NothingTold
<1>3. CASE ReadTags
  <2>1. /\ run.stage = "tags" /\ project' = project
        /\ run' = Failed \/ \E entry : run' = [run EXCEPT !.stage = "show", !.entry = entry]
    BY <1>3 DEF ReadTags
  <2>2. CASE run' # Failed
    <3>1. run'.built = run.built /\ run'.seen = run.seen /\ run'.stage = "show"
      BY <1>0, <2>1, <2>2 DEF RunFields
    <3> QED  BY <2>1, <3>1, StillTold
  <2> QED  BY <1>2, <2>2
<1>4. CASE ReadShow
  <2> DEFINE described == Told(run.entry, served)
  <2>1. /\ run.stage = "show" /\ project' = project
        /\ run' = [run EXCEPT !.stage = "assemble", !.described = described, !.entry = Absent]
    BY <1>4 DEF ReadShow, Told
  <2>2. run.entry \in run.seen /\ served \in run.seen
    BY <2>1 DEF BehaviorInv, RunIsMade
  <2>3. ToldBy(described, run.seen)
    BY <2>2 DEF ToldBy
  <2> HIDE DEF described
  <2>4. /\ run'.stage = "assemble" /\ run'.described = described /\ run'.built = run.built
        /\ run'.seen = run.seen
    BY <1>0, <2>1 DEF RunFields
  <2>5. run.built # Absent => MadeAsTold(run.built, project, run.seen)
    BY DEF RunIsTold
  <2> QED  BY <2>1, <2>3, <2>4, <2>5 DEF RunIsTold
<1>5. CASE RequestFails
  BY <1>2, <1>5 DEF RequestFails
<1>6. CASE Assemble
  <2> DEFINE built == Built(project, run.described, run.override)
  <2>1. /\ run.stage = "assemble" /\ project' = project
        /\ \/ run' = Failed
           \/ built # Refused /\ run' = [run EXCEPT !.stage = "assembled", !.described = Absent, !.built = built]
    BY <1>6 DEF Assemble
  <2>2. CASE run' # Failed
    <3>1. IsLocal(project) => ToldBy(run.described, run.seen)
      BY <2>1 DEF RunIsTold
    <3>2. MadeAsTold(built, project, run.seen)
      BY <2>1, <2>2, <3>1 DEF MadeAsTold
    <3> HIDE DEF built
    <3>3. run'.stage = "assembled" /\ run'.built = built /\ run'.seen = run.seen
      BY <1>0, <2>1, <2>2 DEF RunFields
    <3> QED  BY <2>1, <3>2, <3>3 DEF RunIsTold
  <2> QED  BY <1>2, <2>2
<1>7. ASSUME NEW response \in Responses, Ask(response) PROVE RunIsTold'
  <2>1. /\ run.stage = "assembled" /\ project' = project
        /\ run' = Failed \/ \E answers : run' = [run EXCEPT !.answers = answers]
    BY <1>7 DEF Ask
  <2>2. CASE run' # Failed
    <3>1. run'.built = run.built /\ run'.seen = run.seen /\ run'.stage = run.stage
      BY <1>0, <2>1, <2>2 DEF RunFields
    <3> QED  BY <2>1, <3>1, StillTold
  <2> QED  BY <1>2, <2>2
<1>8. ASSUME NEW accept \in BOOLEAN, Conclude(accept) PROVE RunIsTold'
  <2>1. /\ project' = project
        /\ run' = Failed \/ \E verdict : run' = [run EXCEPT !.stage = "over", !.verdict = verdict]
    BY <1>8 DEF Conclude
  <2>2. CASE run' # Failed
    <3>1. run'.built = run.built /\ run'.seen = run.seen /\ run'.stage = "over"
      BY <1>0, <2>1, <2>2 DEF RunFields
    <3> QED  BY <2>1, <3>1, StillTold
  <2> QED  BY <1>2, <2>2
<1>9. CASE Replay
  <2>1. /\ project' = project
        /\ \E verdict : run' = [run EXCEPT !.stage = "over", !.verdict = verdict]
    BY <1>9 DEF Replay
  <2>2. run'.built = run.built /\ run'.seen = run.seen /\ run'.stage = "over"
    BY <1>0, <2>1 DEF RunFields
  <2> QED  BY <2>1, <2>2, StillTold
<1>10. ASSUME NEW next \in Projects, Edit(next) PROVE RunIsTold'
  BY <1>2, <1>10 DEF Edit
<1>11. ASSUME NEW model \in Models, Replace(model) PROVE RunIsTold'
  <2>1. /\ project' = project
        /\ run' = Idle \/ run' = [run EXCEPT !.seen = @ \union {model}]
    BY <1>11 DEF Replace
  <2>2. CASE run' # Idle
    <3>1. /\ run'.built = run.built /\ run'.seen = run.seen \union {model} /\ run'.stage = run.stage
          /\ run'.described = run.described
      BY <1>0, <2>1, <2>2 DEF RunFields
    <3> QED  BY <2>1, <3>1, StillTold
  <2> QED  BY <1>2, <2>2
<1>12. CASE EditEvidence
  BY <1>2, <1>12 DEF EditEvidence, Touch
<1>13. CASE ExtractTrace
  BY <1>2, <1>13 DEF ExtractTrace
<1>14. CASE UNCHANGED vars
  BY <1>14 DEF vars, RunIsTold
<1> QED  BY <1>1, <1>3, <1>4, <1>5, <1>6, <1>7, <1>8, <1>9, <1>10, <1>11, <1>12, <1>13, <1>14 DEF Next

\* The evidence keeps what the run was told that left it, whatever is done to the file.
LEMMA EvidenceToldInductive == BehaviorInv /\ RunIsTold /\ EvidenceIsTold /\ [Next]_vars => EvidenceIsTold'
<1> SUFFICES ASSUME BehaviorInv, RunIsTold, EvidenceIsTold, [Next]_vars PROVE EvidenceIsTold'
  OBVIOUS
<1>1. CASE evidence' = evidence
  BY <1>1 DEF EvidenceIsTold
<1>2. ASSUME evidence # Absent, evidence'.built = evidence.built, evidence'.of = evidence.of,
             evidence'.seen = evidence.seen
      PROVE  EvidenceIsTold'
  BY <1>2 DEF EvidenceIsTold
<1>3. ASSUME NEW override \in Overrides, NEW replay \in BOOLEAN, Begin(override, replay) PROVE EvidenceIsTold'
  <2>1. evidence' \in {evidence, Absent}
    BY <1>3 DEF Begin
  <2> QED  BY <1>1, <2>1 DEF EvidenceIsTold
<1>4. ASSUME NEW accept \in BOOLEAN, Conclude(accept) PROVE EvidenceIsTold'
  <2>1. /\ run.stage = "assembled"
        /\ evidence' = evidence
           \/ \E file : evidence' = [file |-> file, touched |-> FALSE, built |-> run.built, seen |-> run.seen,
                                     of |-> project]
    BY <1>4 DEF Conclude
  <2>2. CASE evidence' # evidence
    <3>1. evidence'.built = run.built /\ evidence'.seen = run.seen /\ evidence'.of = project
      BY <2>1, <2>2
    <3>2. MadeAsTold(run.built, project, run.seen)
      BY <2>1 DEF RunIsTold
    <3> QED  BY <3>1, <3>2 DEF EvidenceIsTold
  <2> QED  BY <1>1, <2>2
<1>5. CASE EditEvidence
  <2>1. PICK file : evidence' = [evidence EXCEPT !.file = file, !.touched = TRUE]
    BY <1>5 DEF EditEvidence, Touch
  <2>2. evidence # Absent
    BY <1>5 DEF EditEvidence
  <2>3. DOMAIN evidence = {"file", "touched", "built", "seen", "of"}
    BY <2>2 DEF BehaviorInv, EvidenceIsMade
  <2>4. evidence'.built = evidence.built /\ evidence'.of = evidence.of /\ evidence'.seen = evidence.seen
    BY <2>1, <2>3
  <2> QED  BY <1>2, <2>2, <2>4
<1>6. CASE ExtractTrace
  <2>1. \E file : evidence' = [evidence EXCEPT !.file = file]
    BY <1>6 DEF ExtractTrace
  <2>2. evidence # Absent
    BY <1>6 DEF ExtractTrace
  <2>3. DOMAIN evidence = {"file", "touched", "built", "seen", "of"}
    BY <2>2 DEF BehaviorInv, EvidenceIsMade
  <2>4. evidence'.built = evidence.built /\ evidence'.of = evidence.of /\ evidence'.seen = evidence.seen
    BY <2>1, <2>3
  <2> QED  BY <1>2, <2>2, <2>4
<1>7. CASE ReadTags \/ ReadShow \/ RequestFails \/ Assemble \/ Replay
  BY <1>1, <1>7 DEF ReadTags, ReadShow, RequestFails, Assemble, Replay
<1>8. ASSUME NEW response \in Responses, Ask(response) PROVE EvidenceIsTold'
  BY <1>1, <1>8 DEF Ask
<1>9. ASSUME NEW next \in Projects, Edit(next) PROVE EvidenceIsTold'
  BY <1>1, <1>9 DEF Edit
<1>10. ASSUME NEW model \in Models, Replace(model) PROVE EvidenceIsTold'
  BY <1>1, <1>10 DEF Replace
<1>11. CASE UNCHANGED vars
  BY <1>1, <1>11 DEF vars
<1> QED  BY <1>3, <1>4, <1>5, <1>6, <1>7, <1>8, <1>9, <1>10, <1>11 DEF Next

\* Runs over two projects that say the same, while one model was served.
AreRetold(disk, other, seen, built, first) ==
    /\ disk \in Projects /\ other \in Projects /\ SaysTheSame(disk, other)
    /\ \E model : seen = {model}
    /\ MadeAsTold(built, disk, seen) /\ MadeAsTold(first, other, seen)

\* They build one agent and one suite.
LEMMA RespelledIsTheSame ==
    ASSUME NEW disk, NEW other, NEW seen, NEW built, NEW first, AreRetold(disk, other, seen, built, first)
    PROVE  /\ built.checksum = first.checksum /\ built.suite.digest = first.suite.digest
           /\ Expected(built.suite) = Expected(first.suite)
<1>0. /\ disk \in Projects /\ other \in Projects /\ SaysTheSame(disk, other)
      /\ \E model : seen = {model}
      /\ MadeAsTold(built, disk, seen) /\ MadeAsTold(first, other, seen)
  BY DEF AreRetold
<1>1. PICK described, override :
        /\ built = Built(disk, described, override) /\ built # Refused
        /\ IsLocal(disk) => ToldBy(described, seen)
  BY <1>0 DEF MadeAsTold
<1>2. PICK again, repeat :
        /\ first = Built(other, again, repeat) /\ first # Refused
        /\ IsLocal(other) => ToldBy(again, seen)
  BY <1>0 DEF MadeAsTold
<1>3. IsLocal(disk) => IsLocal(other)
  BY <1>0 DEF SaysTheSame, OneModel, IsLocal
<1>4. IsLocal(disk) => described = again
  BY <1>0, <1>1, <1>2, <1>3 DEF ToldBy
<1>5. Built(disk, described, override) # Refused /\ Built(other, again, repeat) # Refused
  BY <1>1, <1>2
<1>6. Built(disk, described, override).checksum = Built(other, again, repeat).checksum
  BY <1>0, <1>4, <1>5, ChecksumRetold
<1>7. /\ Built(disk, described, override).suite.digest = Built(other, again, repeat).suite.digest
      /\ Expected(Built(disk, described, override).suite) = Expected(Built(other, again, repeat).suite)
  BY <1>0, <1>5, SuiteRetold
<1> QED  BY <1>1, <1>2, <1>6, <1>7

\* So evidence over one of them is rederived over the other.
LEMMA RespellingFits ==
    ASSUME \A p, q \in Respelled : SaysTheSame(p, q)
    PROVE  BehaviorInv /\ RunIsTold /\ EvidenceIsTold /\ ReplayRederives => RespellingKeepsEvidence
<1> SUFFICES ASSUME BehaviorInv, RunIsTold, EvidenceIsTold, ReplayRederives,
                    Replayed, run.built # Absent, Genuine,
                    {project, evidence.of} \subseteq Respelled, Cardinality(evidence.seen) = 1,
                    run.seen = evidence.seen
             PROVE  run.verdict # Refused
  BY DEF RespellingKeepsEvidence
<1>1. evidence # Absent
  BY DEF Genuine
<1>2. project \in Projects /\ evidence.of \in Projects /\ SeenIsServed(evidence.seen)
  BY <1>1 DEF BehaviorInv, EvidenceIsMade
<1>3. \E model : evidence.seen = {model}
  BY <1>2, FS_Singleton DEF SeenIsServed
<1>4. MadeAsTold(run.built, project, evidence.seen)
  BY DEF RunIsTold
<1>5. MadeAsTold(evidence.built, evidence.of, evidence.seen)
  BY <1>1 DEF EvidenceIsTold
<1>6. SaysTheSame(project, evidence.of)
  OBVIOUS
<1>7. /\ run.built.checksum = evidence.built.checksum /\ run.built.suite.digest = evidence.built.suite.digest
      /\ Expected(run.built.suite) = Expected(evidence.built.suite)
  <2>1. AreRetold(project, evidence.of, evidence.seen, run.built, evidence.built)
    BY <1>2, <1>3, <1>4, <1>5, <1>6 DEF AreRetold
  <2> QED  BY <2>1, RespelledIsTheSame
<1> QED  BY <1>7 DEF ReplayRederives

\* Evidence survives an edit that changes no more than how the agent is written, and the green run is
\* derived from it again: whatever the projects are, if those of `Respelled` do say the same.
THEOREM RespellingIsTaken ==
    ASSUME RefusedIsNoList, \A p, q \in Respelled : SaysTheSame(p, q)
    PROVE  Spec => []RespellingKeepsEvidence
<1>1. Init => RunIsTold /\ EvidenceIsTold
  BY IdleIsMade DEF Init, RunIsTold, EvidenceIsTold
<1>2. BehaviorInv /\ RunIsTold /\ EvidenceIsTold /\ [Next]_vars => RunIsTold' /\ EvidenceIsTold'
  BY RunToldInductive, EvidenceToldInductive
<1>3. BehaviorInv /\ RunIsTold /\ EvidenceIsTold /\ ReplayRederives => RespellingKeepsEvidence
  BY RespellingFits
<1>4. Spec => []BehaviorInv
  BY EvidenceHasAnOrigin
<1>5. Spec => []ReplayRederives
  BY GreenRunsRederive
<1> QED  BY <1>1, <1>2, <1>3, <1>4, <1>5, PTL DEF Spec

------------------------------------------------------------------------------
(* What the environment of a server held is not recorded.                     *)

\* What is recorded of a server that the server did not say does not happen to be a value of its
\* environment: its alias, the escapes in a name, what the normal form of a schema adds.  And what the normal
\* form takes from a schema is looked at where it was declared.
OwnWords(server) ==
    LET secrets == Secrets(server)
    IN  /\ ~Exposes(secrets, server.alias)
        /\ \A j \in DOMAIN server.tools :
            LET tool == server.tools[j]
            IN  /\ Exposes(secrets, EncodeToolName(tool.name)) => Exposes(secrets, tool.name)
                /\ \A schema \in {tool.input_schema} \union ({tool.output_schema} \ {Absent}) :
                    \A text \in Pieces(Digest(NormalizedSchema(schema))) :
                        Exposes(secrets, text) => DocumentExposes(secrets, schema)

\* What follows the first item of a list.
LEMMA RestIs ==
    ASSUME NEW x, NEW text, IsSeq(text)
    PROVE  Tail(<<x>> \o text) = text
<1> DEFINE long == <<x>> \o text
           S == {long[j] : j \in 1..Len(long)}
<1>1. IsSeq(<<x>>) /\ Len(<<x>>) = 1
  BY Single
<1>2. /\ IsSeq(long) /\ Len(text) \in Nat /\ Len(long) = 1 + Len(text)
      /\ \A j \in 1..Len(text) : long[1 + j] = text[j]
  BY <1>1, Joined
<1>3. \A j \in 1..Len(long) : long[j] \in S
  OBVIOUS
<1> HIDE DEF long, S
<1>4. long \in Seq(S)
  BY <1>2, <1>3, SeqOver
<1>5. long # <<>>
  BY <1>2
<1>6. /\ Tail(long) \in Seq(S) /\ Len(Tail(long)) = Len(long) - 1
      /\ \A i \in 1..Len(Tail(long)) : Tail(long)[i] = long[i + 1]
  BY <1>4, <1>5, HeadTailProperties
<1>7. Len(Tail(long)) = Len(text)
  BY <1>2, <1>6
<1>8. \A i \in 1..Len(text) : Tail(long)[i] = text[i]
  <2> TAKE i \in 1..Len(text)
  <2>1. i + 1 = 1 + i
    BY <1>2
  <2> QED  BY <1>2, <1>6, <1>7, <2>1
<1>9. IsSeq(Tail(long))
  BY <1>6, SeqIsSeq
<1> QED  BY <1>7, <1>8, <1>9 DEF IsSeq, long

\* An alias has no dot: it is what the id of a server says after its kind.
LEMMA AliasIs ==
    ASSUME NEW alias, IsSeq(alias), \A j \in 1..Len(alias) : alias[j] # Dot
    PROVE  RemoteName(<<"mcp">> \o alias) = alias
<1> DEFINE dots == {i \in DOMAIN alias : alias[i] = Dot}
<1>1. Tail(<<"mcp">> \o alias) = alias
  BY RestIs
<1>2. dots = {}
  BY DEF IsSeq
<1>3. RemoteName(<<"mcp">> \o alias) = IF dots = {} THEN alias ELSE SubSeq(alias, Min(dots) + 1, Len(alias))
  BY <1>1 DEF RemoteName
<1> QED  BY <1>2, <1>3

\* A list that begins as another does has its items.
LEMMA PrefixItems ==
    ASSUME NEW s, NEW t, IsSeq(s), IsSeq(t), IsPrefix(s, t)
    PROVE  Len(s) \in Nat /\ Len(t) \in Nat /\ Len(s) <= Len(t) /\ \A j \in 1..Len(s) : s[j] = t[j]
<1> DEFINE n == Len(s)
           S == {s[j] : j \in 1..Len(s)} \union {t[j] : j \in 1..Len(t)}
           one == SubSeq(s, 1, n)
           other == SubSeq(t, 1, n)
<1>1. n \in Nat /\ Len(t) \in Nat /\ n <= Len(t) /\ one = other
  BY DEF IsSeq, IsPrefix
<1>2. (\A j \in 1..n : s[j] \in S) /\ \A j \in 1..n : t[j] \in S
  <2>1. \A j \in 1..n : j \in 1..Len(t)
    BY <1>1
  <2> QED  BY <2>1
<1>3. n - 1 + 1 = n /\ 1 \in Int /\ n \in Int /\ \A j \in 1..n : 1 + j - 1 = j
  BY <1>1
<1> HIDE DEF S, n, one, other
<1>4. \A j \in 1..n - 1 + 1 : SubSeq(s, 1, n)[j] = s[1 + j - 1]
  BY <1>2, <1>3, SubSeqProperties
<1>5. \A j \in 1..n - 1 + 1 : SubSeq(t, 1, n)[j] = t[1 + j - 1]
  BY <1>2, <1>3, SubSeqProperties
<1>6. \A j \in 1..n : s[j] = t[j]
  BY <1>1, <1>3, <1>4, <1>5 DEF one, other
<1> QED  BY <1>1, <1>6 DEF n

\* The id of a tool begins with the alias of its own server, and with no other.
LEMMA AliasOfTool ==
    ASSUME NEW a, NEW b, NEW name, IsSeq(a), IsSeq(b), IsSeq(name),
           \A j \in 1..Len(a) : a[j] # Dot, \A j \in 1..Len(b) : b[j] # Dot,
           IsPrefix(<<"tool">> \o a \o <<Dot>>, <<"tool">> \o ToolId(b, name))
    PROVE  a = b
<1> DEFINE id == ToolId(b, name)
           first == <<"tool">> \o a
           start == first \o <<Dot>>
           long == <<"tool">> \o id
<1>1. /\ IsSeq(id) /\ Len(b) \in Nat /\ Len(EncodeToolName(name)) \in Nat
      /\ Len(id) = Len(b) + 1 + Len(EncodeToolName(name))
      /\ (\A j \in 1..Len(b) : id[j] = b[j]) /\ id[Len(b) + 1] = Dot
  BY ToolIdIsSeq
<1>2. IsSeq(<<"tool">>) /\ Len(<<"tool">>) = 1 /\ IsSeq(<<Dot>>) /\ Len(<<Dot>>) = 1 /\ <<Dot>>[1] = Dot /\ 1 \in 1..1
  BY Single
<1>3. /\ IsSeq(first) /\ Len(a) \in Nat /\ Len(first) = 1 + Len(a)
      /\ \A j \in 1..Len(a) : first[1 + j] = a[j]
  BY <1>2, Joined
<1> HIDE DEF first
<1>4. /\ IsSeq(start) /\ Len(start) = Len(first) + 1
      /\ (\A j \in 1..Len(first) : start[j] = first[j]) /\ start[Len(first) + 1] = Dot
  BY <1>2, <1>3, Joined
<1> HIDE DEF id
<1>5. IsSeq(long) /\ Len(long) = 1 + Len(id) /\ \A j \in 1..Len(id) : long[1 + j] = id[j]
  <2>1. IsSeq(id) /\ IsSeq(<<"tool">>) /\ Len(<<"tool">>) = 1
    BY <1>1, <1>2
  <2> QED  BY <2>1, Joined
<1>6. IsPrefix(start, long)
  BY DEF start, first, long, id
<1> HIDE DEF start, long
<1>7. Len(start) <= Len(long) /\ \A j \in 1..Len(start) : start[j] = long[j]
  BY <1>4, <1>5, <1>6, PrefixItems
<1> DEFINE m == Len(a)
           n == Len(b)
<1>8. /\ \A j \in 1..m : j \in 1..Len(id) /\ id[j] = a[j]
      /\ m + 1 \in 1..Len(id) /\ id[m + 1] = Dot
  <2>1. m + 1 <= Len(id) /\ Len(start) = m + 2 /\ Len(first) = m + 1
    BY <1>1, <1>3, <1>4, <1>5, <1>7
  <2>2. ASSUME NEW j \in 1..m PROVE j \in 1..Len(id) /\ id[j] = a[j]
    <3>1. 1 + j \in 1..Len(first) /\ 1 + j \in 1..Len(start) /\ j \in 1..Len(id)
      BY <1>1, <1>3, <2>1
    <3> QED  BY <1>3, <1>4, <1>5, <1>7, <3>1
  <2>3. m + 1 \in 1..Len(id) /\ id[m + 1] = Dot
    <3>1. m + 1 \in 1..Len(id) /\ m + 2 \in 1..Len(start) /\ m + 2 = 1 + (m + 1) /\ m + 2 = Len(first) + 1
      BY <1>1, <1>3, <2>1
    <3>2. start[m + 2] = Dot /\ start[m + 2] = long[m + 2] /\ long[1 + (m + 1)] = id[m + 1]
      BY <1>4, <1>5, <1>7, <3>1
    <3> QED  BY <3>1, <3>2
  <2> QED  BY <2>2, <2>3
<1>9. m \in Nat /\ n \in Nat
  BY <1>1, <1>3
<1> HIDE DEF m, n
<1>10. m = n
  <2>1. ~(m < n)
    <3> SUFFICES ASSUME m < n PROVE FALSE
      OBVIOUS
    <3>1. m + 1 \in 1..n
      BY <1>9
    <3> QED  BY <1>1, <1>8, <3>1 DEF n
  <2>2. ~(n < m)
    <3> SUFFICES ASSUME n < m PROVE FALSE
      OBVIOUS
    <3>1. n + 1 \in 1..m
      BY <1>9
    <3> QED  BY <1>1, <1>8, <3>1 DEF n, m
  <2> QED  BY <1>9, <2>1, <2>2
<1>11. \A j \in 1..m : a[j] = b[j]
  BY <1>1, <1>8, <1>10 DEF n
<1> QED  BY <1>10, <1>11 DEF IsSeq, m, n

\* What is recorded of a part of the project, one kind of facet after the other.
LEMMA SaidParts ==
    ASSUME NEW id, NEW facets, NEW text \in Said(id, facets)
    PROVE  \/ text = RemoteName(id)
           \/ \E name \in DOMAIN facets \intersect {"description", "instructions"} : text = <<facets[name].words>>
           \/ \E name \in DOMAIN facets \intersect {"input_schema", "output_schema"} : text \in Pieces(facets[name])
           \/ \E name \in DOMAIN facets \intersect {"identity"} : text \in OfItself(facets[name])
<1> DEFINE Those(names) == {facets[name] : name \in DOMAIN facets \intersect names}
           A == {<<said.words>> : said \in Those({"description", "instructions"})}
           B == {Pieces(schema) : schema \in Those({"input_schema", "output_schema"})}
           C == {OfItself(identity) : identity \in Those({"identity"})}
<1>1. Said(id, facets) = {RemoteName(id)} \union A \union (UNION B) \union (UNION C)
  BY DEF Said
<1>2. \A names : \A x \in Those(names) : \E name \in DOMAIN facets \intersect names : x = facets[name]
  OBVIOUS
<1>3. CASE text = RemoteName(id)
  BY <1>3
<1>4. CASE text \in A
  BY <1>2, <1>4
<1>5. CASE \E x \in B : text \in x
  BY <1>2, <1>5
<1>6. CASE \E x \in C : text \in x
  BY <1>2, <1>6
<1> HIDE DEF A, B, C
<1>7. text = RemoteName(id) \/ text \in A \/ (\E x \in B : text \in x) \/ \E x \in C : text \in x
  BY <1>1
<1> QED  BY <1>3, <1>4, <1>5, <1>6, <1>7

\* What is recorded of a server of its own: who it says it is, and what it gives as instructions.
LEMMA ServerSays ==
    ASSUME NEW server, DiscoveredServer(server) # Refused, IsSeq(server.alias),
           \A j \in 1..Len(server.alias) : server.alias[j] # Dot,
           server.instructions # Absent => DOMAIN server.instructions = {"words", "spacing", "ends"},
           OwnWords(server),
           NEW text \in Said(<<"mcp">> \o server.alias,
                             DepDigest(ServerDependency(DiscoveredServer(server)).facets))
    PROVE  ~Exposes(Secrets(server), text)
<1> DEFINE secrets == Secrets(server)
           found == DiscoveredServer(server)
           own == [identity |-> Facet(found.identity, Absent, found.identity)]
           told == Optional("instructions", found.instructions, TextFacet(found.instructions))
           facets == ServerDependency(found).facets
           digests == DepDigest(facets)
           identity == Identity(server)
           payload == CapabilityPayload(server.capabilities)
<1>1. /\ found.identity = Identity(server) /\ found.instructions = server.instructions
      /\ AcceptableIdentity(secrets, server) /\ AcceptableInstructions(secrets, server.instructions)
  BY DEF DiscoveredServer
<1>2. facets = Overlay(own, told)
  BY DEF ServerDependency, Dependency
<1>3. DOMAIN own = {"identity"} /\ own["identity"].digest = identity
  BY <1>1 DEF Facet
<1>4. /\ DOMAIN told \subseteq {"instructions"}
      /\ "instructions" \in DOMAIN told =>
            server.instructions # Absent /\ told["instructions"].digest = NormalizeText(server.instructions)
  BY <1>1 DEF Optional, TextFacet, Facet
<1> HIDE DEF own, told, found, identity
<1>5. /\ DOMAIN facets \subseteq {"identity", "instructions"} /\ facets["identity"].digest = identity
      /\ "instructions" \in DOMAIN facets =>
            server.instructions # Absent /\ facets["instructions"].digest = NormalizeText(server.instructions)
  BY <1>2, <1>3, <1>4 DEF Overlay
<1> HIDE DEF facets
<1>6. DOMAIN digests = DOMAIN facets /\ \A name \in DOMAIN facets : digests[name] = facets[name].digest
  BY DEF DepDigest
<1>7. text \in Said(<<"mcp">> \o server.alias, digests)
  BY DEF digests, facets, found
<1> HIDE DEF digests
<1>8. \/ text = RemoteName(<<"mcp">> \o server.alias)
      \/ \E name \in DOMAIN digests \intersect {"description", "instructions"} : text = <<digests[name].words>>
      \/ \E name \in DOMAIN digests \intersect {"input_schema", "output_schema"} : text \in Pieces(digests[name])
      \/ \E name \in DOMAIN digests \intersect {"identity"} : text \in OfItself(digests[name])
  BY <1>7, SaidParts
<1>9. CASE text = RemoteName(<<"mcp">> \o server.alias)
  BY <1>9, AliasIs DEF OwnWords
<1>10. CASE \E name \in DOMAIN digests \intersect {"description", "instructions"} : text = <<digests[name].words>>
  <2>1. "instructions" \in DOMAIN facets /\ text = <<digests["instructions"].words>>
    BY <1>5, <1>6, <1>10
  <2>2. server.instructions # Absent /\ digests["instructions"] = NormalizeText(server.instructions)
    BY <1>5, <1>6, <2>1
  <2>3. NormalizeText(server.instructions).words = server.instructions.words
    BY <2>2 DEF NormalizeText
  <2> QED  BY <1>1, <2>1, <2>2, <2>3 DEF AcceptableInstructions, TextExposes
<1>11. CASE \E name \in DOMAIN digests \intersect {"input_schema", "output_schema"} : text \in Pieces(digests[name])
  BY <1>5, <1>6, <1>11
<1>12. CASE \E name \in DOMAIN digests \intersect {"identity"} : text \in OfItself(digests[name])
  <2>1. text \in OfItself(identity)
    BY <1>5, <1>6, <1>12
  <2>2. /\ identity.supported_versions = server.supported /\ identity.server_info = server.info
        /\ identity.capabilities = payload
    BY DEF Identity, identity
  <2>3. \A name \in DOMAIN payload \intersect {"extensions", "experimental"} :
            payload[name] = server.capabilities[name]
    <3> DEFINE flagged == {name \in {"tools", "prompts", "resources"} : server.capabilities[name] # Absent}
               present == {name \in {"logging", "completions"} : server.capabilities[name]}
               extended == {name \in {"extensions", "experimental"} : server.capabilities[name] # {}}
               flags == [name \in flagged |-> Flags(server.capabilities[name])]
               shown == [name \in present |-> <<>>]
               others == [name \in extended |-> server.capabilities[name]]
    <3>1. payload = Overlay(flags, Overlay(shown, others))
      BY DEF CapabilityPayload
    <3>2. /\ DOMAIN flags \intersect {"extensions", "experimental"} = {}
          /\ DOMAIN shown \intersect {"extensions", "experimental"} = {}
          /\ \A name \in DOMAIN others : others[name] = server.capabilities[name]
      OBVIOUS
    <3> HIDE DEF payload, flags, shown, others
    <3> QED  BY <3>1, <3>2 DEF Overlay
  <2> HIDE DEF payload
  <2>4. \/ text \in Or(server.supported, {})
        \/ server.info # Absent /\ text \in {<<server.info.name>>, <<server.info.version>>}
        \/ \E name \in DOMAIN payload \intersect {"extensions", "experimental"} :
                \E identifier \in payload[name] : text = <<identifier>>
    BY <2>1, <2>2 DEF OfItself
  <2>5. CASE text \in Or(server.supported, {})
    BY <1>1, <2>5 DEF Or, AcceptableIdentity
  <2>6. CASE server.info # Absent /\ text \in {<<server.info.name>>, <<server.info.version>>}
    BY <1>1, <2>6 DEF AcceptableIdentity
  <2>7. CASE \E name \in DOMAIN payload \intersect {"extensions", "experimental"} :
                \E identifier \in payload[name] : text = <<identifier>>
    BY <1>1, <2>3, <2>7 DEF AcceptableIdentity
  <2> QED  BY <2>4, <2>5, <2>6, <2>7
<1> QED  BY <1>8, <1>9, <1>10, <1>11, <1>12

\* What is recorded of a tool: its name, its description and the normal form of its schemas.
LEMMA ToolSays ==
    ASSUME NEW server, DiscoveredServer(server) # Refused, IsSeq(server.alias), IsSeq(server.tools),
           \A k \in 1..Len(server.alias) : server.alias[k] # Dot,
           NEW j \in 1..Len(server.tools), IsSeq(server.tools[j].name),
           server.tools[j].description # Absent =>
                DOMAIN server.tools[j].description = {"words", "spacing", "ends"},
           OwnWords(server),
           NEW text \in Said(<<"tool">> \o ToolId(server.alias, server.tools[j].name),
                             DepDigest(ToolDependency(server.alias, DiscoveredTool(server.tools[j])).facets))
    PROVE  ~Exposes(Secrets(server), text)
<1> DEFINE secrets == Secrets(server)
           tool == server.tools[j]
           found == DiscoveredTool(tool)
           own == [input_schema |-> SchemaFacet(found.input_schema)]
           described == Optional("description", found.description, TextFacet(found.description))
           output == Optional("output_schema", found.output_schema, SchemaFacet(found.output_schema))
           able == IF found.capabilities = {} THEN <<>>
                   ELSE [capabilities |-> Facet(found.capabilities, Absent, found.capabilities)]
           first == Overlay(own, described)
           rest == Overlay(output, able)
           facets == ToolDependency(server.alias, found).facets
           digests == DepDigest(facets)
           id == <<"tool">> \o ToolId(server.alias, tool.name)
<1>1. AcceptableTool(secrets, tool)
  <2>1. j \in DOMAIN server.tools
    BY DEF IsSeq
  <2> QED  BY <2>1 DEF DiscoveredServer
<1>2. /\ found.description = tool.description /\ found.input_schema = tool.input_schema
      /\ found.output_schema = tool.output_schema
  BY DEF DiscoveredTool
<1>3. facets = Overlay(first, rest)
  BY DEF ToolDependency, Dependency
<1>4. \A schema : SchemaFacet(schema).digest = Digest(NormalizedSchema(schema))
  BY DEF SchemaFacet, RecordedFacet, Facet
<1>5. DOMAIN own = {"input_schema"} /\ own["input_schema"].digest = Digest(NormalizedSchema(tool.input_schema))
  BY <1>2, <1>4
<1>6. /\ DOMAIN described \subseteq {"description"}
      /\ "description" \in DOMAIN described =>
            tool.description # Absent /\ described["description"].digest = NormalizeText(tool.description)
  BY <1>2 DEF Optional, TextFacet, Facet
<1>7. /\ DOMAIN output \subseteq {"output_schema"}
      /\ "output_schema" \in DOMAIN output =>
            /\ tool.output_schema # Absent
            /\ output["output_schema"].digest = Digest(NormalizedSchema(tool.output_schema))
  BY <1>2, <1>4 DEF Optional
<1>8. DOMAIN able \subseteq {"capabilities"}
  OBVIOUS
<1> HIDE DEF own, described, output, able
<1>9. /\ DOMAIN first \subseteq {"input_schema", "description"}
      /\ "input_schema" \in DOMAIN first => first["input_schema"] = own["input_schema"]
      /\ "description" \in DOMAIN first => "description" \in DOMAIN described /\ first["description"] = described["description"]
  BY <1>5, <1>6 DEF Overlay
<1>10. /\ DOMAIN rest \subseteq {"output_schema", "capabilities"}
       /\ "output_schema" \in DOMAIN rest => "output_schema" \in DOMAIN output /\ rest["output_schema"] = output["output_schema"]
  BY <1>7, <1>8 DEF Overlay
<1> HIDE DEF first, rest
<1>11. /\ DOMAIN facets \subseteq {"input_schema", "description", "output_schema", "capabilities"}
       /\ "input_schema" \in DOMAIN facets => facets["input_schema"] = own["input_schema"]
       /\ "description" \in DOMAIN facets => "description" \in DOMAIN described /\ facets["description"] = described["description"]
       /\ "output_schema" \in DOMAIN facets => "output_schema" \in DOMAIN output /\ facets["output_schema"] = output["output_schema"]
  <2>1. /\ DOMAIN facets = DOMAIN first \union DOMAIN rest
        /\ \A key \in DOMAIN first : facets[key] = first[key]
        /\ \A key \in DOMAIN rest : key \notin DOMAIN first => facets[key] = rest[key]
    BY <1>3 DEF Overlay
  <2> HIDE DEF facets
  <2> QED  BY <1>9, <1>10, <2>1
<1> HIDE DEF facets
<1>12. DOMAIN digests = DOMAIN facets /\ \A name \in DOMAIN facets : digests[name] = facets[name].digest
  BY DEF DepDigest
<1>13. text \in Said(id, digests)
  BY DEF digests, facets, found, tool, id
<1>14. RemoteName(id) = EncodeToolName(tool.name) /\ j \in DOMAIN server.tools
  BY RemoteNameIs DEF id, tool, IsSeq
<1> HIDE DEF digests, id, found
<1>15. \/ text = RemoteName(id)
       \/ \E name \in DOMAIN digests \intersect {"description", "instructions"} : text = <<digests[name].words>>
       \/ \E name \in DOMAIN digests \intersect {"input_schema", "output_schema"} : text \in Pieces(digests[name])
       \/ \E name \in DOMAIN digests \intersect {"identity"} : text \in OfItself(digests[name])
  BY <1>13, SaidParts
<1>16. CASE text = RemoteName(id)
  BY <1>1, <1>14, <1>16 DEF OwnWords, AcceptableTool
<1>17. CASE \E name \in DOMAIN digests \intersect {"description", "instructions"} : text = <<digests[name].words>>
  <2>1. "description" \in DOMAIN facets /\ text = <<digests["description"].words>>
    BY <1>11, <1>12, <1>17
  <2>2. tool.description # Absent /\ digests["description"] = NormalizeText(tool.description)
    BY <1>6, <1>11, <1>12, <2>1
  <2>3. NormalizeText(tool.description).words = tool.description.words
    BY <2>2 DEF NormalizeText
  <2> QED  BY <1>1, <2>1, <2>2, <2>3 DEF AcceptableTool, TextExposes
<1>18. CASE \E name \in DOMAIN digests \intersect {"input_schema", "output_schema"} : text \in Pieces(digests[name])
  <2>1. \E schema \in {tool.input_schema} \union ({tool.output_schema} \ {Absent}) :
            text \in Pieces(Digest(NormalizedSchema(schema))) /\ AcceptableSchema(secrets, schema)
    <3>1. CASE "input_schema" \in DOMAIN facets /\ text \in Pieces(digests["input_schema"])
      <4>1. digests["input_schema"] = Digest(NormalizedSchema(tool.input_schema))
        BY <1>5, <1>11, <1>12, <3>1
      <4> QED  BY <1>1, <3>1, <4>1 DEF AcceptableTool
    <3>2. CASE "output_schema" \in DOMAIN facets /\ text \in Pieces(digests["output_schema"])
      <4>1. /\ tool.output_schema # Absent
            /\ digests["output_schema"] = Digest(NormalizedSchema(tool.output_schema))
        BY <1>7, <1>11, <1>12, <3>2
      <4> QED  BY <1>1, <3>2, <4>1 DEF AcceptableTool
    <3> QED  BY <1>12, <1>18, <3>1, <3>2
  <2> QED  BY <1>14, <2>1 DEF OwnWords, AcceptableSchema
<1>19. CASE \E name \in DOMAIN digests \intersect {"identity"} : text \in OfItself(digests[name])
  BY <1>11, <1>12, <1>19
<1> QED  BY <1>15, <1>16, <1>17, <1>18, <1>19

\* What is recorded of a server and of its tools holds no value of its environment, when a run was assembled.
LEMMA PartsSay ==
    ASSUME NEW disk \in Projects, NEW described, NEW override, Built(disk, described, override) # Refused,
           NEW i \in DOMAIN disk.config.servers, OwnWords(disk.config.servers[i]),
           NEW id \in DOMAIN Built(disk, described, override).checksum,
           \/ id = <<"mcp">> \o disk.config.servers[i].alias
           \/ IsPrefix(<<"tool">> \o disk.config.servers[i].alias \o <<Dot>>, id),
           NEW text \in Said(id, Built(disk, described, override).checksum[id])
    PROVE  ~Exposes(Secrets(disk.config.servers[i]), text)
<1> DEFINE servers == disk.config.servers
           server == servers[i]
           list == Discovered(disk, described)
           checksum == Built(disk, described, override).checksum
<1>1. Loads(disk.config) /\ list # Refused /\ checksum = AgentChecksum(list)
  BY BuiltParts
<1>2. ValidConfig(disk.config) /\ McpDependencies(servers) # Refused /\ IsSeq(list) /\ VerifyUnique(list)
  BY <1>1, Listed DEF Loads
<1>3. /\ DOMAIN servers = 1..Len(servers)
      /\ \A k \in 1..Len(servers) :
            /\ DiscoveredServer(servers[k]) # Refused
            /\ IsSeq(servers[k].alias) /\ \A j \in 1..Len(servers[k].alias) : servers[k].alias[j] # Dot
            /\ IsSeq(servers[k].tools) /\ DOMAIN servers[k].tools = 1..Len(servers[k].tools)
            /\ \A j \in 1..Len(servers[k].tools) : IsSeq(servers[k].tools[j].name)
      /\ \A k, l \in 1..Len(servers) : servers[k].alias = servers[l].alias => k = l
  BY <1>2, ServersTell
<1>4. /\ DiscoveredServer(server) # Refused /\ IsSeq(server.alias) /\ IsSeq(server.tools)
      /\ \A k \in 1..Len(server.alias) : server.alias[k] # Dot
      /\ \A j \in 1..Len(server.tools) : IsSeq(server.tools[j].name)
  BY <1>3
<1>5. /\ server.instructions # Absent => DOMAIN server.instructions = {"words", "spacing", "ends"}
      /\ \A j \in 1..Len(server.tools) : server.tools[j].description # Absent =>
            DOMAIN server.tools[j].description = {"words", "spacing", "ends"}
  <2> DEFINE texts == {server.instructions} \union {server.tools[j].description : j \in DOMAIN server.tools}
  <2>1. \A said \in texts \ {Absent} : DOMAIN said = {"words", "spacing", "ends"}
    BY TextAssumption
  <2>2. server.instructions \in texts /\ \A j \in 1..Len(server.tools) : server.tools[j].description \in texts
    BY <1>3
  <2> HIDE DEF texts
  <2> QED  BY <2>1, <2>2
<1>6. \A k \in DOMAIN list : checksum[list[k].id] = DepDigest(list[k].facets)
  <2> HIDE DEF list, checksum
  <2> QED  BY <1>1, <1>2, Checksummed
<1>7. CASE id = <<"mcp">> \o server.alias
  <2>1. /\ Part(server)[1] = ServerDependency(DiscoveredServer(server)) /\ 1 \in 1..Len(Part(server))
        /\ Part(server)[1].id = id
    <3> HIDE DEF server
    <3>1. /\ Part(server)[1] = ServerDependency(DiscoveredServer(server))
          /\ Len(server.tools) \in Nat /\ Len(Part(server)) = 1 + Len(server.tools)
      BY <1>4, ServerPart
    <3> QED  BY <1>4, <1>7, <3>1, PartId
  <2>2. PICK k \in DOMAIN list : list[k] = Part(server)[1]
    <3>1. i \in 1..Len(servers) /\ list # Refused
      BY <1>1, <1>3
    <3> QED  BY <2>1, <3>1, Listed
  <2> HIDE DEF list, checksum
  <2>3. checksum[id] = DepDigest(ServerDependency(DiscoveredServer(server)).facets)
    BY <1>6, <2>1, <2>2
  <2>4. text \in Said(<<"mcp">> \o server.alias, DepDigest(ServerDependency(DiscoveredServer(server)).facets))
    BY <1>7, <2>3 DEF checksum
  <2>5. OwnWords(server)
    OBVIOUS
  <2>6. ~Exposes(Secrets(server), text)
    <3> HIDE DEF server
    <3> QED  BY <1>4, <1>5, <2>4, <2>5, ServerSays
  <2> QED  BY <2>6
<1>8. CASE IsPrefix(<<"tool">> \o server.alias \o <<Dot>>, id)
  <2> DEFINE start == <<"tool">> \o server.alias \o <<Dot>>
  <2>1. PICK k \in DOMAIN list : list[k].id = id
    BY <1>1, <1>2, Checksummed
  <2>2. OfItsKind(disk, described, list[k])
    BY <1>1, KindOf
  <2>3. id[1] = "tool"
    <3> DEFINE alias == server.alias
               first == <<"tool">> \o alias
    <3>1. IsSeq(<<"tool">>) /\ Len(<<"tool">>) = 1 /\ <<"tool">>[1] = "tool" /\ IsSeq(<<Dot>>) /\ Len(<<Dot>>) = 1 /\ 1 \in 1..1
      BY Single
    <3>2. IsSeq(alias)
      BY <1>4
    <3> HIDE DEF alias
    <3>3. IsSeq(first) /\ Len(first) = 1 + Len(alias) /\ Len(alias) \in Nat /\ first[1] = "tool"
      BY <3>1, <3>2, Joined
    <3> HIDE DEF first
    <3>4. IsSeq(first \o <<Dot>>) /\ Len(first \o <<Dot>>) = Len(first) + 1 /\ (first \o <<Dot>>)[1] = "tool"
      <4>1. 1 \in 1..Len(first)
        BY <3>3
      <4> QED  BY <3>1, <3>3, <4>1, Joined
    <3>5. IsSeq(start) /\ 1 \in 1..Len(start) /\ start[1] = "tool"
      BY <3>3, <3>4 DEF first, alias
    <3>6. IsSeq(id) /\ IsPrefix(start, id)
      BY <1>8, <2>1, <2>2 DEF OfItsKind
    <3> HIDE DEF start
    <3>7. \A j \in 1..Len(start) : start[j] = id[j]
      BY <3>5, <3>6, PrefixItems
    <3> QED  BY <3>5, <3>7
  <2>4. PICK m \in 1..Len(servers) : \E j \in 1..Len(servers[m].tools) :
            /\ list[k] = Part(servers[m])[1 + j]
            /\ id = <<"tool">> \o ToolId(servers[m].alias, servers[m].tools[j].name)
    BY <2>1, <2>2, <2>3 DEF OfItsKind
  <2>5. PICK j \in 1..Len(servers[m].tools) :
            /\ list[k] = Part(servers[m])[1 + j]
            /\ id = <<"tool">> \o ToolId(servers[m].alias, servers[m].tools[j].name)
    BY <2>4
  <2>6. m = i
    <3> DEFINE a == server.alias
               b == servers[m].alias
               name == servers[m].tools[j].name
    <3>1. /\ IsSeq(a) /\ IsSeq(b) /\ IsSeq(name)
          /\ (\A l \in 1..Len(a) : a[l] # Dot) /\ \A l \in 1..Len(b) : b[l] # Dot
      BY <1>3, <1>4
    <3>2. IsPrefix(<<"tool">> \o a \o <<Dot>>, <<"tool">> \o ToolId(b, name))
      BY <1>8, <2>5
    <3> HIDE DEF a, b, name
    <3>3. a = b
      BY <3>1, <3>2, AliasOfTool
    <3> QED  BY <1>3, <3>3 DEF a, b
  <2>7. j \in 1..Len(server.tools) /\ list[k] = Part(server)[1 + j]
        /\ id = <<"tool">> \o ToolId(server.alias, server.tools[j].name)
    BY <2>5, <2>6
  <2>8. Part(server)[1 + j] = ToolDependency(server.alias, DiscoveredTool(server.tools[j]))
    <3> HIDE DEF server
    <3> QED  BY <1>4, <2>7, ServerPart
  <2> HIDE DEF list, checksum
  <2>9. checksum[id] = DepDigest(ToolDependency(server.alias, DiscoveredTool(server.tools[j])).facets)
    BY <1>6, <2>1, <2>7, <2>8
  <2>10. text \in Said(<<"tool">> \o ToolId(server.alias, server.tools[j].name),
                       DepDigest(ToolDependency(server.alias, DiscoveredTool(server.tools[j])).facets))
    BY <2>7, <2>9 DEF checksum
  <2>11. OwnWords(server)
    OBVIOUS
  <2>12. ~Exposes(Secrets(server), text)
    <3> HIDE DEF server
    <3>1. IsSeq(server.tools[j].name) /\ (server.tools[j].description # Absent =>
                DOMAIN server.tools[j].description = {"words", "spacing", "ends"})
      BY <1>4, <1>5, <2>7
    <3> QED  BY <1>4, <2>7, <2>10, <2>11, <3>1, ToolSays
  <2> QED  BY <2>12
<1> QED  BY <1>7, <1>8

\* By the invariant, what is assembled is of the project that is there.
LEMMA EnvironmentFits ==
    ASSUME \A p \in Projects : \A i \in DOMAIN p.config.servers : OwnWords(p.config.servers[i])
    PROVE  BehaviorInv => EnvironmentStaysOut
<1> SUFFICES ASSUME BehaviorInv, JustAssembled, NEW server \in AsSet(project.config.servers),
                    NEW id \in DOMAIN run.built.checksum,
                    id = <<"mcp">> \o server.alias \/ IsPrefix(<<"tool">> \o server.alias \o <<Dot>>, id),
                    NEW text \in Said(id, run.built.checksum[id])
             PROVE  ~Exposes(Secrets(server), text)
  BY DEF EnvironmentStaysOut
<1>1. PICK i \in DOMAIN project.config.servers : server = project.config.servers[i]
  BY DEF AsSet
<1>2. project \in Projects /\ Made(run.built, project, run.seen)
  BY DEF BehaviorInv, RunIsMade, JustAssembled
<1>3. PICK described, override : run.built = Built(project, described, override) /\ run.built # Refused
  BY <1>2 DEF Made
<1>4. OwnWords(project.config.servers[i])
  BY <1>1, <1>2
<1> QED  BY <1>1, <1>2, <1>3, <1>4, PartsSay

\* No value that a server was started with is recorded of it, in a payload or in the text a digest is
\* taken over, for every project in which what the program writes itself is none of these values.
THEOREM EnvironmentIsKept ==
    ASSUME \A p \in Projects : \A i \in DOMAIN p.config.servers : OwnWords(p.config.servers[i])
    PROVE  Spec => []EnvironmentStaysOut
<1>1. BehaviorInv => EnvironmentStaysOut
  BY EnvironmentFits
<1> QED  BY <1>1, EvidenceHasAnOrigin, PTL
=============================================================================

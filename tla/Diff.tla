---------------------------------- MODULE Diff ----------------------------------
(***************************************************************************)
(* The comparison of a lockfile with the agent that was found              *)
(* (src/src/diff/engine.rs, analyze.rs, mod.rs), over the life of a        *)
(* lockfile: dependencies are revised one at a time, a snapshot records    *)
(* what there is, and a user may edit the committed file by hand.          *)
(*                                                                         *)
(* A digest stands for what it is taken of.  A facet whose content the     *)
(* lockfile keeps has it as its payload; its digest is then the payload.   *)
(***************************************************************************)
EXTENDS RiskTable

CONSTANTS
    Id,                 \* the identities of dependencies
    Revisions,          \* Revisions[id]: what discovery can find under id
    Start,              \* the agents to begin with: dependencies by identity
    SchemaFacts(_, _),  \* what the comparison of two schemas names; {} if they are equivalent
    None,               \* no payload, no shape, no field
    Editable,           \* bound: the entries of the lockfile that are edited by hand
    MaxChanges          \* bound: revisions of dependencies and edits by hand, together

IsDependency(d) ==
    /\ DOMAIN d = {"kind", "facets"} /\ d.kind \in Kind
    /\ \A name \in DOMAIN d.facets : DOMAIN d.facets[name] = {"digest", "shape", "payload"}

\* The schemas that are recorded as what they are.
SchemaPayload ==
    UNION {{d.facets[name].payload : name \in SchemaFacet \intersect DOMAIN d.facets} :
           d \in UNION {Revisions[id] : id \in Id}}

ASSUME DiffAssumption ==
    /\ \A id \in Id : \A d \in Revisions[id] :
        /\ IsDependency(d)
        /\ \A name \in DOMAIN d.facets : d.facets[name].payload \in {None, d.facets[name].digest}
        /\ d.kind = "tool" =>
            \A name \in SchemaFacet \intersect DOMAIN d.facets : d.facets[name].payload # None
    /\ \A agent \in Start :
        DOMAIN agent \subseteq Id /\ \A id \in DOMAIN agent : agent[id] \in Revisions[id]
    /\ Editable \subseteq Id /\ MaxChanges \in Nat

VARIABLES
    lock,   \* the committed lockfile
    found,  \* the dependencies that discovery finds now
    quiet,  \* history: no revision since the snapshot was reported, one compared with the next
    changes \* how many revisions and edits by hand there were

vars == <<lock, found, quiet, changes>>

--------------------------------------------------------------------------------
\* Checksums and lockfiles.  A dependency is its kind and its facets, by name.

Digests(d) == [kind |-> d.kind, facets |-> [name \in DOMAIN d.facets |-> d.facets[name].digest]]

Checksum(dependencies) == [id \in DOMAIN dependencies |-> Digests(dependencies[id])]

FromDependencies(dependencies) ==
    [checksum |-> Checksum(dependencies), dependencies |-> dependencies]

VerifiedChecksum(file) == file.checksum = Checksum(file.dependencies)

VerifiedPayloads(file) ==
    \A id \in DOMAIN file.dependencies :
        LET facets == file.dependencies[id].facets
        IN  \A name \in DOMAIN facets : facets[name].payload \in {None, facets[name].digest}

\* A lockfile that any comparison may start from.
Verified(file) == VerifiedChecksum(file) /\ VerifiedPayloads(file)

--------------------------------------------------------------------------------
\* The risk of a facet that both sides have with different digests; NoRisk if it means the same.

Field(object, key) == IF key \in DOMAIN object THEN object[key] ELSE None

\* Fault: a text without a shape was reflowed.
ReflowUnlessProven(before, after, reflow, rewrite) ==
    IF before = after \/ None \in {before, after} THEN reflow ELSE rewrite

\* Texts were only reflowed if both sides have a shape, and the same.
TextRisk(before, after, reflow, rewrite) ==
    IF before = after /\ before # None THEN reflow ELSE rewrite

\* The content of a prompt, whose shape is a facet of its own.
PromptRiskOf(b, c) ==
    LET shape(d) == IF "shape" \in DOMAIN d.facets THEN d.facets["shape"].digest ELSE None
    IN  TextRisk(shape(b), shape(c), PromptRisk.FormattingOnly, PromptRisk.TextChanged)

\* An object compared field by field; a field that comes or goes has no name.
FieldsRisk(x, y, names, other) ==
    LET fields == DOMAIN x.payload \union DOMAIN y.payload
        differing == {key \in fields : Field(x.payload, key) # Field(y.payload, key)}
        named == DOMAIN x.payload \intersect DOMAIN y.payload \intersect DOMAIN names
    IN  IF None \in {x.payload, y.payload} \/ differing = {} THEN other
        ELSE MaxRisk({IF key \in named THEN names[key] ELSE other : key \in differing})

ModelIdentity ==
    [digest |-> ModelRisk.ContentDigestChanged, provider |-> ModelRisk.ProviderChanged,
     family |-> ModelRisk.FamilyChanged, parameter_size |-> ModelRisk.ParameterSizeChanged,
     quantization_level |-> ModelRisk.QuantizationChanged, endpoint |-> ModelRisk.EndpointChanged]

McpIdentity ==
    [era |-> McpRisk.ProtocolChanged, protocol_version |-> McpRisk.ProtocolChanged,
     supported_versions |-> McpRisk.ProtocolChanged, server_info |-> McpRisk.ServerInfoChanged]

\* A set of names compared member by member.
NamesRisk(x, y, Gone(_), New(_), opaque) ==
    IF None \in {x.payload, y.payload} \/ x.payload = y.payload THEN opaque
    ELSE MaxRisk({Gone(name) : name \in x.payload \ y.payload}
                 \union {New(name) : name \in y.payload \ x.payload})

ModelCapabilities(x, y) ==
    LET Gone(name) == IF name = "tools" THEN ModelRisk.ToolsCapabilityRemoved
                                        ELSE ModelRisk.CapabilityRemoved
        New(name) == IF name = "tools" THEN ModelRisk.ToolsCapabilityAdded
                                       ELSE ModelRisk.CapabilityAdded
    IN  NamesRisk(x, y, Gone, New, ModelRisk.CapabilitiesChanged)

ToolCapabilities(x, y) ==
    LET Gone(name) == ToolRisk.CapabilityRemoved
        New(name) == ToolRisk.CapabilityAdded
    IN  NamesRisk(x, y, Gone, New, UnknownFacet("capabilities"))

\* Fault: what was named stands for what was not.
SchemaRiskOfNamed(x, y, table) ==
    IF None \in {x.payload, y.payload} THEN table.Generic
    ELSE LET facts == SchemaFacts(x.payload, y.payload)
         IN  MaxRisk({table[fact] : fact \in IF facts = {"Generic"} THEN facts
                                             ELSE facts \ {"Generic"}})

SchemaRisk(x, y, table) ==
    IF None \in {x.payload, y.payload} THEN table.Generic
    ELSE MaxRisk({table[fact] : fact \in SchemaFacts(x.payload, y.payload)})

\* What the analyzer of each kind makes of the facets it claims, and the generic rule for the others.
ModelIdentityRisk(x, y) == FieldsRisk(x, y, ModelIdentity, ModelRisk.IdentityOtherChanged)

ModelFacetRisk(x, y, name) ==
    CASE name = "identity" -> ModelIdentityRisk(x, y)
      [] name = "params" -> ModelRisk.ParamsChanged
      [] name = "template" -> ModelRisk.TemplateChanged
      [] name = "capabilities" -> ModelCapabilities(x, y)
      [] OTHER -> UnknownFacet(name)

ToolFacetRisk(x, y, name) ==
    CASE name = "description" ->
            TextRisk(x.shape, y.shape, ToolRisk.DescriptionFormattingOnly, ToolRisk.DescriptionChanged)
      [] name = "input_schema" -> SchemaRisk(x, y, InputRisk)
      [] name = "output_schema" -> SchemaRisk(x, y, OutputRisk)
      [] name = "capabilities" -> ToolCapabilities(x, y)
      [] OTHER -> UnknownFacet(name)

McpFacetRisk(x, y, name) ==
    CASE name = "instructions" ->
            TextRisk(x.shape, y.shape, McpRisk.InstructionsFormattingOnly, McpRisk.InstructionsChanged)
      [] name = "identity" -> FieldsRisk(x, y, McpIdentity, McpRisk.IdentityOtherChanged)
      [] OTHER -> UnknownFacet(name)

ModifiedRisk(b, c, name) ==
    LET x == b.facets[name]
        y == c.facets[name]
    IN  CASE b.kind = "prompt" /\ name = "content" -> PromptRiskOf(b, c)
          [] b.kind = "model" -> ModelFacetRisk(x, y, name)
          [] b.kind = "tool" -> ToolFacetRisk(x, y, name)
          [] b.kind = "mcp" -> McpFacetRisk(x, y, name)
          [] OTHER -> UnknownFacet(name)

--------------------------------------------------------------------------------
\* The report.

\* The risk of one facet of two dependencies of one kind; NoRisk if it is unchanged.
FacetRisk(b, c, name) ==
    CASE name \notin DOMAIN b.facets -> FacetAdded(name)
      [] name \notin DOMAIN c.facets -> FacetRemoved
      [] OTHER -> IF b.facets[name].digest = c.facets[name].digest THEN NoRisk
                  ELSE ModifiedRisk(b, c, name)

\* Fault: only the facets of the lockfile are compared.
FacetRisksOfBaseline(b, c) == {FacetRisk(b, c, name) : name \in DOMAIN b.facets}

FacetRisks(b, c) == {FacetRisk(b, c, name) : name \in DOMAIN b.facets \union DOMAIN c.facets}

DeclaresDestructive(d) ==
    "capabilities" \in DOMAIN d.facets
    /\ d.facets["capabilities"].payload # None
    /\ {"write", "destructive"} \subseteq d.facets["capabilities"].payload

\* The risk of what became of one dependency; NoRisk if it does not differ in meaning.
ChangeRisk(before, after, id) ==
    CASE id \notin DOMAIN before ->
            IF after[id].kind = "tool" /\ DeclaresDestructive(after[id])
            THEN ToolRisk.DestructiveToolAdded ELSE Added[after[id].kind]
      [] id \notin DOMAIN after -> Removed[before[id].kind]
      [] OTHER -> IF before[id].kind # after[id].kind THEN KindMismatch
                  ELSE MaxRisk(FacetRisks(before[id], after[id]))

\* The dependencies that a comparison reports, each with its risk.
Report(baseline, current) ==
    LET before == baseline.dependencies
        after == current.dependencies
        changed == {id \in DOMAIN before \union DOMAIN after : ChangeRisk(before, after, id) # NoRisk}
    IN  [id \in IF baseline.checksum = current.checksum THEN {} ELSE changed |->
            ChangeRisk(before, after, id)]

OverallRisk(report) == MaxRisk({report[id] : id \in DOMAIN report})

\* `diff`, and the comparison that `check` begins with.
Drift == Report(lock, FromDependencies(found))

--------------------------------------------------------------------------------
Init ==
    /\ found \in Start
    /\ lock = FromDependencies(found)
    /\ quiet = TRUE
    /\ changes = 0

Put(dependencies, id, d) ==
    [other \in DOMAIN dependencies \union {id} |-> IF other = id THEN d ELSE dependencies[other]]

Without(dependencies, id) == [other \in DOMAIN dependencies \ {id} |-> dependencies[other]]

\* A dependency is revised, appears or disappears.
Revise(id) ==
    /\ changes < MaxChanges
    /\ \/ \E d \in Revisions[id] : found' = Put(found, id, d)
       \/ found' = Without(found, id)
    /\ quiet' = (quiet /\ DOMAIN Report(FromDependencies(found), FromDependencies(found')) = {})
    /\ changes' = changes + 1
    /\ UNCHANGED lock

Snapshot ==
    /\ lock' = FromDependencies(found)
    /\ quiet' = TRUE
    /\ UNCHANGED <<found, changes>>

\* An entry in which one thing is replaced: its kind, or the payload or the digest of a facet.
Doctored(entry, d) ==
    {[entry EXCEPT !.kind = kind] : kind \in Kind}
    \union {[entry EXCEPT !.facets[name].payload = d.facets[name].payload] :
            name \in DOMAIN entry.facets \intersect DOMAIN d.facets}
    \union {[entry EXCEPT !.facets[name].digest = d.facets[name].digest] :
            name \in DOMAIN entry.facets \intersect DOMAIN d.facets}

\* Someone edits the lockfile by hand: an entry, or the checksum, or both so that they agree.
HandEdit(id) ==
    /\ changes < MaxChanges /\ id \in Editable \intersect DOMAIN lock.dependencies
    /\ \E d \in Revisions[id], refreshed \in BOOLEAN :
        \/ lock' = [lock EXCEPT !.checksum = Checksum(Put(lock.dependencies, id, d))]
        \/ \E entry \in Doctored(lock.dependencies[id], d) :
            LET dependencies == Put(lock.dependencies, id, entry)
            IN  lock' = [dependencies |-> dependencies,
                         checksum |-> IF refreshed THEN Checksum(dependencies) ELSE lock.checksum]
    /\ quiet' = FALSE
    /\ changes' = changes + 1
    /\ UNCHANGED found

Next == Snapshot \/ \E id \in Id : Revise(id) \/ HandEdit(id)

Spec == Init /\ [][Next]_vars

--------------------------------------------------------------------------------
(* Properties.                                                             *)

\* Type: there are dependencies only under Id, and a report lists none without a risk.
TypeOK ==
    /\ DOMAIN found \subseteq Id
    /\ \A id \in DOMAIN found : found[id] \in Revisions[id]
    /\ DOMAIN lock.dependencies \subseteq Id
    /\ \A id \in DOMAIN lock.dependencies : IsDependency(lock.dependencies[id])
    /\ DOMAIN Drift \subseteq Id /\ \A id \in DOMAIN Drift : Drift[id] \in Low..Critical
    /\ quiet \in BOOLEAN /\ changes \in 0..MaxChanges

\* What the fingerprints of a facet say, whether or not there is one.
Fingerprint(d, name) == IF name \in DOMAIN d.facets THEN {d.facets[name].digest} ELSE {}

\* Two facets that differ in bytes and that the schema comparison finds equivalent.
EquivalentSchemas(b, c, name) ==
    /\ b.kind = "tool" /\ name \in SchemaFacet \intersect DOMAIN b.facets \intersect DOMAIN c.facets
    /\ None \notin {b.facets[name].payload, c.facets[name].payload}
    /\ SchemaFacts(b.facets[name].payload, c.facets[name].payload) = {}

\* No fingerprint moves without being reported: a dependency that a report leaves out is there on
\* both sides, of one kind, with the same facets, and each has the same digest or is a schema found
\* equivalent.  It is about the aggregate's short cut (engine.rs:23), which rests on the verified
\* checksum, about facets that no analyzer claims, and about analyzers that find nothing to name.
NothingDisappears ==
    Verified(lock) =>
        \A id \in (DOMAIN lock.dependencies \union DOMAIN found) \ DOMAIN Drift :
            /\ id \in DOMAIN lock.dependencies \intersect DOMAIN found
            /\ LET b == lock.dependencies[id]
                   c == found[id]
               IN  /\ b.kind = c.kind
                   /\ \A name \in DOMAIN b.facets \union DOMAIN c.facets :
                        Fingerprint(b, name) = Fingerprint(c, name) \/ EquivalentSchemas(b, c, name)

\* Two texts with one collapsed shape: the shapes that discovery records agree only in texts of the
\* same words.
SameWords(b, c, name) ==
    \/ /\ b.kind = "prompt" /\ name = "content" /\ "shape" \in DOMAIN b.facets
       /\ Fingerprint(b, "shape") = Fingerprint(c, "shape")
    \/ /\ <<b.kind, name>> \in {<<"tool", "description">>, <<"mcp", "instructions">>}
       /\ b.facets[name].shape = c.facets[name].shape /\ b.facets[name].shape # None

\* A gate at `fail_on_risk = "medium"` that does not trip means that the same dependencies have the
\* same facets with the same digests, but for texts that keep their words, and for the schemas of
\* tools, of which BreakingIsHigh speaks.  No combination of changes adds up to less than its parts.
LowIsCosmetic ==
    Verified(lock) /\ OverallRisk(Drift) <= Low =>
        /\ DOMAIN lock.dependencies = DOMAIN found
        /\ \A id \in DOMAIN found :
            LET b == lock.dependencies[id]
                c == found[id]
            IN  /\ b.kind = c.kind /\ DOMAIN b.facets = DOMAIN c.facets
                /\ \A name \in DOMAIN b.facets :
                    \/ Fingerprint(b, name) = Fingerprint(c, name)
                    \/ SameWords(b, c, name)
                    \/ b.kind = "tool" /\ name \in SchemaFacet

\* Revisions that were not worth a report one by one are not worth one together, so a lockfile does
\* not go stale unseen: finding two schemas equivalent is transitive.
DriftDoesNotAccumulate == quiet => DOMAIN Drift = {}
================================================================================

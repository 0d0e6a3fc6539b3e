------------------------------ MODULE Manifest ------------------------------
(***************************************************************************)
(* Dependencies, their facets, and the two forms they are kept in: the     *)
(* agent checksum and the lockfile (src/src/manifest, lockfile.rs,         *)
(* fingerprint/schema.rs, discovery/mod.rs).                               *)
(*                                                                         *)
(* A digest is the canonical form it is taken over: see Json.              *)
(***************************************************************************)
EXTENDS Json, SequencesExt

CONSTANTS
    Absent,    \* Option::None
    Refused,   \* an Err: what its reason says is not modelled
    ValueRank, \* ValueRank[v]: where a JSON value stands when a list of them is sorted
    PathRank,  \* PathRank[path]: where a path stands
    NormalizeSchema(_)  \* the normal form of a schema: Documents!NormalForm

Facet(digest, shape, payload) == [digest |-> digest, shape |-> shape, normalized |-> payload]

\* A facet that records what it is a digest of.
RecordedFacet(value) == Facet(Digest(value), Absent, value)

\* Fault: the content of a prompt is what is left when its whitespace is collapsed.
CollapsedFacets(text) ==
    [content |-> Facet(ShapeText(text), Absent, Absent),
     shape |-> Facet(ShapeText(text), Absent, Absent)]

\* A prompt's facets, and the facet of a description or of instructions.
TextFacets(text) ==
    [content |-> Facet(NormalizeText(text), Absent, Absent),
     shape |-> Facet(ShapeText(text), Absent, Absent)]

TextFacet(text) == Facet(NormalizeText(text), ShapeText(text), Absent)

-----------------------------------------------------------------------------
(* Schemas.                                                                  *)

\* A schema that names no dialect is of the default one.
Dialect == String(<<"2020-12">>)

\* Fault: the order of `required` is kept.
NormalizedInOrder(schema) ==
    IF IsObject(schema) THEN Object(Overlay(schema.object, [key \in {"$schema"} |-> Dialect])) ELSE schema

NormalizedSchema(schema) ==
    NormalizeSchema(
        IF IsObject(schema) THEN Object(Overlay(schema.object, [key \in {"$schema"} |-> Dialect])) ELSE schema)

SchemaFacet(schema) == RecordedFacet(NormalizedSchema(schema))

-----------------------------------------------------------------------------
\* Dependency::digest: the digests of the facets, by name.
DepDigest(facets) == [name \in DOMAIN facets |-> facets[name].digest]

Ids(list) == {list[i].id : i \in DOMAIN list}
Of(list, id) == list[CHOOSE i \in DOMAIN list : list[i].id = id]

\* The aggregate is sorted, so the order of discovery is lost; ids are unique when it is taken.
AgentChecksum(list) == [id \in Ids(list) |-> DepDigest(Of(list, id).facets)]

\* Every id is declared by one dependency.
VerifyUnique(list) ==
    \A i, j \in DOMAIN list : list[i].id = list[j].id => i = j

\* Lockfile::from_dependencies.
FromDependencies(list) ==
    [agent_checksum |-> AgentChecksum(list),
     dependencies |->
        [id \in Ids(list) |->
            LET d == Of(list, id) IN [kind |-> d.kind, facets |-> d.facets, source |-> d.source]]]
=============================================================================

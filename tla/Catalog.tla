------------------------------ MODULE Catalog -------------------------------
(***************************************************************************)
(* The tools of a lockfile, as the model is shown them and as arguments    *)
(* are checked against them (src/src/runner/catalog.rs), and what a probe  *)
(* means by naming one (src/src/probes/resolve.rs).                        *)
(***************************************************************************)
EXTENDS Sources

\* What follows the first dot of an id, or all of it.
RemoteName(id) ==
    LET text == Tail(id)
        dots == {i \in DOMAIN text : text[i] = Dot}
    IN  IF dots = {} THEN text ELSE SubSeq(text, Min(dots) + 1, Len(text))

Payload(facets, name) == IF name \in DOMAIN facets THEN facets[name].normalized ELSE Absent

ToolContract(id, facets) ==
    [id |-> id, name |-> RemoteName(id), description |-> Payload(facets, "description"),
     input_schema |-> Payload(facets, "input_schema")]

\* ToolCatalog::from_lockfile: a tool that cannot be described is an error.
FromLockfile(lock) ==
    LET ids == {id \in DOMAIN lock.dependencies : lock.dependencies[id].kind = "tool"}
        tools == [id \in ids |-> ToolContract(id, lock.dependencies[id].facets)]
    IN  IF \E id \in ids : tools[id].input_schema = Absent THEN Refused ELSE tools

ByName(catalog, name) == {id \in DOMAIN catalog : catalog[id].name = name}

\* The declaration that goes over the wire.
WireTool(tool) ==
    [name |-> tool.name, description |-> tool.description,
     parameters |-> Canonical(tool.input_schema)]

\* Sorted by name; tools of one name are counted, and their order is left out.
WireTools(catalog) ==
    [name \in {catalog[id].name : id \in DOMAIN catalog} |->
        LET Alike(tool) == {id \in ByName(catalog, name) : WireTool(catalog[id]) = tool}
        IN  [tool \in {WireTool(catalog[id]) : id \in ByName(catalog, name)} |-> Cardinality(Alike(tool))]]

CatalogDigest(catalog) == WireTools(catalog)

\* The yardsticks that a baseline records.
InputSchemaDigests(catalog) == [id \in DOMAIN catalog |-> Digest(catalog[id].input_schema)]

-----------------------------------------------------------------------------
(* References.                                                               *)

\* A reference is [id, name]: the text read as an id, and read as a name.
ResolveTool(catalog, reference) ==
    LET named == ByName(catalog, reference.name)
    IN  CASE reference.id \in DOMAIN catalog -> catalog[reference.id]
          [] reference.id \notin DOMAIN catalog /\ Cardinality(named) = 1 ->
                catalog[CHOOSE id \in named : TRUE]
          [] OTHER -> Refused

\* The id decides; a call without one is known by its name.
IsCalledBy(tool, call) ==
    IF call.tool_id # Absent THEN call.tool_id = tool.id ELSE call.name = tool.name
=============================================================================

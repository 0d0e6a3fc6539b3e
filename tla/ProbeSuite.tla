----------------------------- MODULE ProbeSuite -----------------------------
(***************************************************************************)
(* A probe suite: what a probe file may declare, what it means against a   *)
(* catalog, and what makes two suites the same (src/src/probes/load.rs,    *)
(* model.rs, digest.rs).                                                   *)
(*                                                                         *)
(* A directory maps the place of an entry in the order of names to what it *)
(* is, [is, probes].  A declared probe is a record of its keys, Absent     *)
(* when they are not there.                                                *)
(***************************************************************************)
EXTENDS Catalog, Matchers

CONSTANTS
    BadNames,   \* names that is_valid_name refuses
    Blank,      \* a prompt of nothing but whitespace
    MaxRepeat,  \* model::MAX_REPEAT
    MaxProbes,  \* model::MAX_PROBES
    MaxFiles,   \* model::MAX_PROBE_FILES
    MaxEntries  \* model::MAX_EXPECT_ARG_ENTRIES and MAX_FORBID_TOOLS

\* The first of the sources that says something.
FirstOf(values, default) ==
    LET said == {i \in DOMAIN values : values[i] # Absent}
    IN  IF said = {} THEN default ELSE values[Min(said)]

CheckRepeat(repeat) == repeat = Absent \/ repeat \in 1..MaxRepeat

-----------------------------------------------------------------------------
(* ProbeSpec::validate.                                                      *)

\* The one operator of a matcher: a map of operators to their values.
Operator(raw) ==
    IF Cardinality(DOMAIN raw) = 1
       /\ ("one_of" \in DOMAIN raw => raw["one_of"] # <<>>)
    THEN LET operator == CHOOSE o \in DOMAIN raw : TRUE
         IN  [operator |-> operator, value |-> raw[operator]]
    ELSE Refused

\* The declared matchers, by canonical pointer: no two keys may name one path.
ArgumentMatchers(spec) ==
    LET keys == IF spec.expect_args = Absent THEN {} ELSE DOMAIN spec.expect_args
        pointers == {CanonicalPointer(key) : key \in keys}
    IN  IF \/ spec.expect_args # Absent /\ spec.expect_tool = Absent
           \/ Cardinality(keys) > MaxEntries
           \/ NoPath \in pointers
           \/ \E key \in keys : Operator(spec.expect_args[key]) = Refused
           \/ Cardinality(pointers) < Cardinality(keys)
        THEN Refused
        ELSE [pointer \in pointers |->
                Operator(spec.expect_args[CHOOSE key \in keys : CanonicalPointer(key) = pointer])]

ForbiddenTools(spec) ==
    CASE spec.forbid_tools = Absent -> <<>>
      [] spec.forbid_tools # Absent /\ Len(spec.forbid_tools) \in 1..MaxEntries -> spec.forbid_tools
      [] OTHER -> Refused

Expects(spec) ==
    \/ spec.expect_tool # Absent
    \/ ArgumentMatchers(spec) # <<>> \/ ForbiddenTools(spec) # <<>>
    \/ spec.expect_no_tool # Absent \/ spec.output_schema # Absent

ValidName(name) == name \notin BadNames

\* ProbeSpec as it is deserialized: no other key.
IsProbeSpec(spec) ==
    /\ DOMAIN spec = {"name", "prompt", "repeat", "expect_tool", "expect_args", "forbid_tools",
                      "expect_no_tool", "output_schema"}
    /\ spec.repeat \in Nat \union {Absent}
    /\ spec.expect_no_tool \in BOOLEAN \union {Absent}

Valid(spec) ==
    /\ ValidName(spec.name)
    /\ spec.prompt # Blank /\ spec.prompt \notin Oversize
    /\ CheckRepeat(spec.repeat)
    /\ spec.expect_no_tool # FALSE
    /\ spec.expect_no_tool # Absent =>
        spec.expect_tool = Absent /\ spec.expect_args = Absent /\ spec.forbid_tools = Absent
    /\ ArgumentMatchers(spec) # Refused
    /\ ForbiddenTools(spec) # Refused
    /\ Expects(spec)
    /\ spec.output_schema # Absent => NormalizeRelPath(spec.output_schema) # Refused

-----------------------------------------------------------------------------
(* Resolution.                                                               *)

\* What a JSON Schema validator goes by is external: whether a schema refers to another, is of an
\* object, and what it requires.
Demands(schema) ==
    LET Says(keyword) == IsObject(schema) /\ keyword \in DOMAIN schema.object
    IN  [reference |-> Says("$ref"),
         object |-> Says("type") /\ schema.object["type"] = String(<<"object">>),
         required |-> IF Says("required")
                      THEN LET list == schema.object["required"].array
                           IN  {list[i].string[1] : i \in DOMAIN list}
                      ELSE {}]

\* The validator fetches nothing.
Compiles(schema) == ~Demands(schema).reference

\* load_schema: `schemas` are the documents that can be read.
LoadSchema(path, schemas) ==
    IF path \in DOMAIN schemas /\ schemas[path] \notin Oversize /\ Compiles(schemas[path])
    THEN schemas[path] ELSE Refused

\* One valid probe against a catalog, a document of schemas, and what `[probes]` says.
ResolvedProbe(spec, catalog, schemas, configured, override) ==
    [name |-> spec.name, prompt |-> spec.prompt,
     repeat |-> FirstOf(<<override, spec.repeat, configured>>, 1),
     declared_repeat |-> FirstOf(<<spec.repeat, configured>>, 1),
     expect_tool |-> IF spec.expect_tool = Absent THEN Absent ELSE ResolveTool(catalog, spec.expect_tool),
     expect_args |-> ArgumentMatchers(spec),
     forbid_tools |-> {ResolveTool(catalog, ForbiddenTools(spec)[i]) : i \in DOMAIN ForbiddenTools(spec)},
     expect_no_tool |-> spec.expect_no_tool = TRUE,
     output_schema |-> IF spec.output_schema = Absent THEN Absent
                       ELSE LoadSchema(NormalizeRelPath(spec.output_schema), schemas)]

Resolved(probe) ==
    /\ probe.expect_tool # Refused
    /\ Refused \notin probe.forbid_tools
    /\ probe.output_schema # Refused

\* A matcher as it is hashed.
HashedMatcher(matcher) ==
    [operator |-> matcher.operator,
     value |-> IF matcher.operator = "one_of" THEN CanonicalTable(matcher.value)
               ELSE Canonical(matcher.value)]

\* ProbeIdentity: tools by id, the schema by content.
ProbeIdentity(probe, repeat, forbidden) ==
    [name |-> probe.name, prompt |-> probe.prompt, repeat |-> repeat,
     expect_tool |-> IF probe.expect_tool = Absent THEN Absent ELSE probe.expect_tool.id,
     expect_args |-> [pointer \in DOMAIN probe.expect_args |-> HashedMatcher(probe.expect_args[pointer])],
     forbid_tools |-> {tool.id : tool \in forbidden},
     expect_no_tool |-> probe.expect_no_tool,
     output_schema |-> IF probe.output_schema = Absent THEN Absent ELSE Digest(probe.output_schema)]

\* Fault: the forbidden tools are left out.
DigestWithoutForbidden(probe) == ProbeIdentity(probe, probe.declared_repeat, {})

\* Fault: the repeat of the run is hashed.
DigestOfRun(probe) == ProbeIdentity(probe, probe.repeat, probe.forbid_tools)

\* The declared repeat is part of a probe, `--repeat` is not.
ProbeDigest(probe) == ProbeIdentity(probe, probe.declared_repeat, probe.forbid_tools)

-----------------------------------------------------------------------------
(* load_suite.                                                               *)

\* The probe files of a directory, sorted by name; what has no `.toml` name is "other".
ProbeFiles(directory) ==
    LET files == {name \in DOMAIN directory : directory[name].is # "other"}
    IN  IF \/ \E name \in files : directory[name].is = "directory"
           \/ Cardinality(files) \notin 1..MaxFiles
        THEN Refused
        ELSE [i \in 1..Cardinality(files) |->
                CHOOSE name \in files : Cardinality({other \in files : other < name}) = i - 1]

Readable(entry) ==
    /\ entry.is = "file" /\ IsList(entry.probes) /\ entry.probes # <<>>
    /\ \A i \in DOMAIN entry.probes : IsProbeSpec(entry.probes[i])

\* Every probe in file order and then in the order of declaration.
Declared(directory) ==
    FlattenSeq([i \in DOMAIN ProbeFiles(directory) |-> directory[ProbeFiles(directory)[i]].probes])

\* The digest of a suite: names and digests, in the order of the names.
SuiteDigest(probes) ==
    [name \in {probes[i].name : i \in DOMAIN probes} |->
        ProbeDigest(probes[CHOOSE i \in DOMAIN probes : probes[i].name = name])]

ResolvedProbes(config, directory, schemas, catalog, override) ==
    [i \in DOMAIN Declared(directory) |->
        ResolvedProbe(Declared(directory)[i], catalog, schemas, config.repeat, override)]

\* What load_suite asks of the files, and of the probes in them.
Loadable(config, directory, schemas, catalog, override) ==
    LET specs == Declared(directory)
        probes == ResolvedProbes(config, directory, schemas, catalog, override)
    IN  /\ NormalizeRelPath(config.path) # Refused
        /\ CheckRepeat(config.repeat) /\ CheckRepeat(override)
        /\ ProbeFiles(directory) # Refused
        /\ \A name \in ToSet(ProbeFiles(directory)) : Readable(directory[name])
        /\ \A i \in DOMAIN specs : Valid(specs[i])
        /\ IsInjective([i \in DOMAIN specs |-> specs[i].name])
        /\ Len(specs) <= MaxProbes
        /\ \A i \in DOMAIN probes : Resolved(probes[i])

LoadSuite(config, directory, schemas, catalog, override) ==
    LET probes == ResolvedProbes(config, directory, schemas, catalog, override)
    IN  IF Loadable(config, directory, schemas, catalog, override)
        THEN [probes |-> probes, digest |-> SuiteDigest(probes)] ELSE Refused
=============================================================================

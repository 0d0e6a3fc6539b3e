------------------------------- MODULE MCContract -------------------------------
(* Small instances of Contract for TLC.                                      *)
EXTENDS Contract, TLC

CONSTANTS odd, w1, w2, f1, f2

A == [type |-> "string", value |-> "a"]
B == [type |-> "string", value |-> "b"]
One == [type |-> "integer", value |-> 1]
Object(fields) == [type |-> "object", fields |-> fields]
Array(elements) == [type |-> "array", elements |-> elements]
NoFields == [name \in {} |-> A]

Deep(v) == Object("x" :> Object("y" :> v))

MCValues ==
    {A, B, One, Object(NoFields), Array({A}), Array({One})}
    \union {Object("x" :> v) : v \in {A, B, One, Array({A}), Array({One})}}
    \union {Object("y" :> v) : v \in {A, One}} \union {Object("x" :> A @@ "y" :> v) : v \in {A, One}}
    \union {Object("z" :> A), Deep(A), Deep(One)}

--------------------------------------------------------------------------------
Anything == [key \in {} |-> Absent]
Str == [type |-> "string"]
Enum(values) == [type |-> "string", enum |-> values]
Number == [type |-> "integer"]
With(key, value) == "type" :> "object" @@ key :> value

\* A node in which a keyword may be missing.
Node(properties, required, additional) ==
    "type" :> "object"
    @@ (IF properties = Absent THEN Anything ELSE "properties" :> properties)
    @@ (IF required = Absent THEN Anything ELSE "required" :> required)
    @@ (IF additional = Absent THEN Anything ELSE "additionalProperties" :> additional)

\* An object in an object, so that what the inner one declares lies beyond MaxDepth.
Nested(inner) == With("properties", "x" :> With("properties", "y" :> inner))

Objects ==
    {Node(properties, required, additional) :
        properties \in {Absent, "x" :> Str, "x" :> Enum({A}), "x" :> Str @@ "y" :> Number},
        required \in {Absent, {"x"}, {"z"}},
        additional \in {Absent, Anything, Never}}

\* What additionalProperties can say of one object, some of it in several spellings; and deep schemas.
Spellings ==
    {Node("x" :> Str, {"x"}, additional) :
        additional \in {Absent, Anything, Always, Never, odd, Str, Number}}
    \union {Nested(Str), Nested(Number)}

Others ==
    {Nested(Enum({A, B})), Str, Always,
     With("properties", odd), With("required", odd),
     With("properties", "x" :> [type |-> "string", description |-> w1]),
     With("properties", "x" :> [type |-> "string", other |-> {A}]),
     With("properties", "x" :> Enum({B})), With("properties", "x" :> [enum |-> {A, B}]),
     With("properties", "x" :> [type |-> "array", items |-> Str]),
     With("properties", "x" :> [type |-> "array", items |-> Number]),
     With("properties", "x" :> [type |-> "array"])}

--------------------------------------------------------------------------------
Facet(value) == [digest |-> value, shape |-> None, payload |-> value]
Hashed(value) == [digest |-> value, shape |-> None, payload |-> None]
Text(value, shape) == [digest |-> value, shape |-> shape, payload |-> None]

Dependency(kind, facets) == [kind |-> kind, facets |-> facets]

\* A text of two words, reflowed or rewritten; and one recorded without its shape.
Prompts ==
    {Dependency("prompt", "content" :> Hashed(f1) @@ "shape" :> Hashed(w1)),
     Dependency("prompt", "content" :> Hashed(f2) @@ "shape" :> Hashed(w1)),
     Dependency("prompt", "content" :> Hashed(w2) @@ "shape" :> Hashed(w2)),
     Dependency("prompt", "content" :> Hashed(f2))}

Identity == [provider |-> "ollama", digest |-> "d1", family |-> "f"]

Models ==
    {Dependency("model", "identity" :> Facet(Identity) @@ "capabilities" :> Facet({"tools"})),
     Dependency("model", "identity" :> Facet([Identity EXCEPT !.digest = "d2"])
                         @@ "capabilities" :> Facet({"tools", "vision"})),
     Dependency("model", "identity" :> Facet([provider |-> "ollama"]) @@ "template" :> Hashed(w1)
                         @@ "params" :> Facet({"cold"})),
     Dependency("model", "identity" :> Facet(Identity) @@ "capabilities" :> Facet({"vision"})
                         @@ "template" :> Hashed(w2) @@ "params" :> Facet({"hot"}))}

Servers ==
    {Dependency("mcp", "identity" :> Facet([era |-> "stateless", server_info |-> "1"])
                       @@ "instructions" :> Text(f1, w1)),
     Dependency("mcp", "identity" :> Facet([era |-> "stateless", server_info |-> "2"])
                       @@ "instructions" :> Text(f2, w1)),
     Dependency("mcp", "identity" :> Facet([era |-> "legacy"]) @@ "instructions" :> Text(w2, w2)),
     Dependency("mcp", "identity" :> Facet([era |-> "stateless", server_info |-> "1"])
                       @@ "instructions" :> Text(f2, None))}

\* A tool with every facet, of few revisions: what is edited by hand.
Closed == Node("x" :> Str, {"x"}, Never)

Tools ==
    {Dependency("tool", "description" :> Text(f1, w1) @@ "input_schema" :> Facet(Closed)
                        @@ "capabilities" :> Facet({"read"})),
     Dependency("tool", "description" :> Text(f2, w1) @@ "input_schema" :> Facet(Closed)
                        @@ "output_schema" :> Facet(Node("x" :> Str, {"x"}, Absent))
                        @@ "capabilities" :> Facet({"write", "destructive"})),
     Dependency("tool", "description" :> Text(w2, w2)
                        @@ "input_schema" :> Facet(Node("x" :> Str, {"x"}, Absent))
                        @@ "output_schema" :> Facet(Node("x" :> Str, {"x"}, Anything))),
     Dependency("tool", "description" :> Text(f2, None)
                        @@ "input_schema" :> Facet(Node("x" :> Str, {"x"}, Anything))
                        @@ "output_schema" :> Facet(Node("x" :> Str, {}, Absent)))}

Call(s) == Dependency("tool", "input_schema" :> Facet(s))
Calls == {Call(s) : s \in Objects \union Others \union Spellings}

Answer(s) ==
    Dependency("tool", "input_schema" :> Facet(Closed) @@ "output_schema" :> Facet(s))
Answers == {Answer(s) : s \in {o \in Objects : Get(o, "additionalProperties") # Anything}}

MCRevisions ==
    [id \in Id |->
        CASE id = "prompt" -> Prompts [] id = "model" -> Models [] id = "mcp" -> Servers
          [] id = "tool" -> Tools [] id = "call" -> Calls [] OTHER -> Answers]

\* The schemas of the tools, and what lies within those.
Within(s) ==
    IF ~IsNode(s) THEN {}
    ELSE {Properties(s)[name] : name \in DOMAIN Properties(s)}
         \union ({Get(s, "items"), Get(s, "additionalProperties")} \ {Absent})

MCSchemas ==
    LET inner == UNION {Within(s) : s \in SchemaPayload}
        all == SchemaPayload \union inner \union UNION {Within(s) : s \in inner}
    IN  {s \in all : s # None}

Base == [id \in Id |-> CHOOSE d \in MCRevisions[id] : TRUE]

\* From each of these, chains of two revisions; from one of them, every pair of schemas.
MCStart ==
    {Put(Base, "call", Call(s)) :
        s \in {Node("x" :> Str, {"x"}, additional) : additional \in {Absent, Str}}
              \union {Nested(Str)}}
================================================================================

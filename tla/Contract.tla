-------------------------------- MODULE Contract --------------------------------
(***************************************************************************)
(* What a report says of the contract of a tool: Diff with the comparison  *)
(* of Schema, held against what JSON Schema means by the keywords that     *)
(* the analyzer interprets.                                                *)
(*                                                                         *)
(* A value is an object with fields, an array of elements, or a scalar.    *)
(* The keywords that the analyzer does not interpret are one keyword here, *)
(* "other", which names the values it refuses.                             *)
(***************************************************************************)
EXTENDS Diff, Schema

CONSTANTS
    Values, \* the calls and answers to consider, with all that lie within them
    Height  \* bound: how deep a value is looked into

ASSUME ContractAssumption ==
    /\ Height \in Nat \ {0}
    /\ \A v \in Values :
        /\ v.type = "object" => \A name \in DOMAIN v.fields : v.fields[name] \in Values
        /\ v.type = "array" => v.elements \subseteq Values
    /\ SchemaPayload \subseteq Schemas \union {None} /\ None \notin Schemas
    /\ \A b, c \in Schemas : SchemaFacts(b, c) = Compare(b, c)

\* What a value may have to meet: a schema, or none.
Rules == Schemas \union {Absent}

\* `admitted` says which rule admits which value, one level deeper.
AdmitsFields(s, v, admitted) ==
    LET declared == DOMAIN Properties(s)
    IN  /\ Required(s) \subseteq DOMAIN v.fields
        /\ \A name \in DOMAIN v.fields \intersect declared :
            <<Properties(s)[name], v.fields[name]>> \in admitted
        /\ \A name \in DOMAIN v.fields \ declared :
            <<Get(s, "additionalProperties"), v.fields[name]>> \in admitted

\* What a node says of the value itself; a keyword that is absent or malformed refuses nothing.
AdmitsHere(s, v) ==
    /\ Get(s, "type") \in Odd \union {Absent, v.type}
    /\ "enum" \notin DOMAIN s \/ s.enum \in Odd \/ v \in s.enum
    /\ "other" \notin DOMAIN s \/ v \notin s.other

AdmitsValue(s, v, admitted) ==
    CASE s = Never -> FALSE
      [] s \in Odd \union {Always, Absent} -> TRUE
      [] OTHER ->
            /\ AdmitsHere(s, v)
            /\ v.type = "object" => AdmitsFields(s, v, admitted)
            /\ v.type = "array" =>
                \A element \in v.elements : <<Get(s, "items"), element>> \in admitted

\* Which rule admits which value, as far as so many levels tell.
Admitted[height \in 0..Height] ==
    LET below == Admitted[height - 1]
    IN  {pair \in Rules \X Values : height = 0 \/ AdmitsValue(pair[1], pair[2], below)}

Acceptance == Admitted[Height]
Accepts(s, v) == <<s, v>> \in Acceptance

\* Every name that is required is a property, here and wherever `declared` says so of what lies below.
DeclaresRequired(s, declared) ==
    \/ ~IsNode(s)
    \/ /\ Required(s) \subseteq DOMAIN Properties(s)
       /\ \A name \in DOMAIN Properties(s) : Properties(s)[name] \in declared
       /\ Get(s, "items") \in declared \union {Absent}

\* The schemas of which that holds in every property and item that is compared.
DeclaredBelow[left \in 0..MaxDepth + 1] ==
    LET below == DeclaredBelow[left - 1]
    IN  {s \in Schemas : left = 0 \/ DeclaresRequired(s, below)}

DeclaredSchemas == DeclaredBelow[MaxDepth + 1]

\* The second schema declares a property that the first one left undeclared and admitted, so that a
\* field of that name was free and is now checked; or it does so in a pair of `constrained`.
Constrains(b, c, constrained) ==
    /\ IsNode(b) /\ IsNode(c)
    /\ \/ DOMAIN Properties(c) \ DOMAIN Properties(b) # {} /\ Admission(b) # "Nothing"
       \/ \E name \in DOMAIN Properties(b) \intersect DOMAIN Properties(c) :
            <<Properties(b)[name], Properties(c)[name]>> \in constrained
       \/ <<Get(b, "items"), Get(c, "items")>> \in constrained

ConstrainedBelow[left \in 0..MaxDepth + 1] ==
    LET below == ConstrainedBelow[left - 1]
    IN  {pair \in Pairs : left # 0 /\ Constrains(pair[1], pair[2], below)}

Constrained == ConstrainedBelow[MaxDepth + 1]

\* The tools that are on both sides with this facet, as <<schema before, schema after>>.
SchemasOf(name) ==
    {<<lock.dependencies[id].facets[name].payload, found[id].facets[name].payload>> :
        id \in {tool \in DOMAIN lock.dependencies \intersect DOMAIN found :
                /\ lock.dependencies[tool].kind = "tool" /\ found[tool].kind = "tool"
                /\ \A d \in {lock.dependencies[tool], found[tool]} :
                    name \in DOMAIN d.facets /\ d.facets[name].payload # None}}

\* A call that the tool took and now refuses makes the change HIGH at least, so that
\* `fail_on_risk = "high"` trips, whichever keywords changed at whatever depth.  Exempt are a name that
\* is required without being declared, which the analyzer does not see, and an optional property that
\* appears where fields were free, which is LOW by decision.
BreakingIsHigh ==
    Verified(lock) /\ OverallRisk(Drift) < High =>
        \A pair \in SchemasOf("input_schema") :
            {pair[1], pair[2]} \subseteq DeclaredSchemas /\ pair \notin Constrained =>
                \A call \in Values : Accepts(pair[1], call) => Accepts(pair[2], call)

\* An answer that always had a field and may now lack it makes the change CRITICAL: whether the name
\* is merely no longer required, or the property is gone and its requirement with it, and whatever
\* else changed beside it.
LostAnswerIsCritical ==
    Verified(lock) /\ OverallRisk(Drift) < Critical =>
        \A pair \in SchemasOf("output_schema") :
            IsNode(pair[1]) /\ IsNode(pair[2]) /\ pair[1] \in DeclaredSchemas =>
                \A answer \in Values :
                    answer.type = "object" /\ Accepts(pair[2], answer) =>
                        Required(pair[1]) \subseteq DOMAIN answer.fields

SameContract(b, c) == \A value \in Values : Accepts(b, value) = Accepts(c, value)

\* A silent report is earned: if nothing is reported, the schemas on both sides of a tool admit the
\* same calls and the same answers, as long as they declare what they require.
SilenceIsEarned ==
    Verified(lock) /\ DOMAIN Drift = {} =>
        \A pair \in SchemasOf("input_schema") \union SchemasOf("output_schema") :
            {pair[1], pair[2]} \subseteq DeclaredSchemas => SameContract(pair[1], pair[2])

\* The same of every schema, as src/diff/schema.rs:16 promises: "Nothing I could name" is never reported
\* as "there is nothing there".
NothingNamedIsNothingThere ==
    Verified(lock) /\ DOMAIN Drift = {} =>
        \A pair \in SchemasOf("input_schema") : SameContract(pair[1], pair[2])
================================================================================

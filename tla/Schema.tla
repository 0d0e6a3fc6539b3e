-------------------------------- MODULE Schema --------------------------------
(***************************************************************************)
(* The bounded comparison of two JSON Schemas (src/src/diff/schema.rs):    *)
(* the differences it can name, and whether anything differed that it      *)
(* cannot.                                                                 *)
(*                                                                         *)
(* A schema is a boolean schema (Always, Never), a node, or something that *)
(* is neither.  A node is a function from the keywords it holds.  A member *)
(* of Odd stands, under any keyword, for a form that the analyzer does not *)
(* read there: a tuple of items, a `required` that is not a list of names. *)
(*                                                                         *)
(* The recursion is a function of the levels that are left, so that the    *)
(* comparison can be proved about for any set of schemas.                  *)
(***************************************************************************)
EXTENDS FiniteSets, Naturals

CONSTANTS
    Always, Never,  \* the schemas `true` and `false`
    Odd,            \* forms that the analyzer does not read
    Absent,         \* a keyword that is not there
    Schemas,        \* the schemas there are, with all that lie within them
    MaxDepth        \* how deep the analyzer descends

IsNode(s) == s \notin Odd \union {Always, Never}

\* The keywords that are interpreted; any other is compared verbatim.
InterpretedKeys ==
    {"type", "description", "enum", "additionalProperties", "properties", "required", "items"}

Get(s, key) == IF key \in DOMAIN s THEN s[key] ELSE Absent

Differ(b, c, key) == Get(b, key) # Get(c, key)

\* The properties a node declares, and the names it requires; what is not understood is empty.
Properties(s) ==
    IF Get(s, "properties") \in Odd \union {Absent} THEN [name \in {} |-> Absent]
    ELSE s.properties

Required(s) == IF Get(s, "required") \in Odd \union {Absent} THEN {} ELSE s.required

\* What lies within a schema is a schema, and a keyword that is there is not absent.
ASSUME SchemaAssumption ==
    /\ MaxDepth \in Nat
    /\ Always # Never /\ {Always, Never} \intersect Odd = {}
    /\ Absent \notin Schemas \union Odd \union {Always, Never}
    /\ \A s \in Schemas : IsNode(s) =>
        /\ \A key \in DOMAIN s : s[key] # Absent
        /\ \A name \in DOMAIN Properties(s) : Properties(s)[name] \in Schemas
        /\ {Get(s, "items"), Get(s, "additionalProperties")} \subseteq Schemas \union {Absent}

\* A keyword that differs, and that one side holds in a form that is not read.
Unread(b, c, key) == Differ(b, c, key) /\ {Get(b, key), Get(c, key)} \intersect Odd # {}

--------------------------------------------------------------------------------
\* One keyword of one node.  The fact Generic says that something differed that has no name.

Fact(condition, fact) == IF condition THEN {fact} ELSE {}

\* The part of a node that is not interpreted.
CompareRest(b, c) ==
    Fact(\E key \in (DOMAIN b \union DOMAIN c) \ InterpretedKeys : Differ(b, c, key), "Generic")

CompareProperties(b, c) ==
    LET before == DOMAIN Properties(b)
        after == DOMAIN Properties(c)
    IN  Fact(before \ after # {}, "PropertyRemoved")
        \union Fact((after \ before) \ Required(c) # {}, "OptionalPropertyAdded")
        \union Fact(Unread(b, c, "properties"), "Generic")

\* Fault: a property that is gone takes no requirement with it.
RequiredRemovedOfThoseThatStay(b, c) ==
    (Required(b) \ Required(c)) \intersect DOMAIN Properties(c)

\* The names whose requirement was dropped, or that disappeared while they were required.
RequiredRemoved(b, c) ==
    LET before == DOMAIN Properties(b)
        after == DOMAIN Properties(c)
    IN  (Required(b) \intersect (before \ after))
        \union ((Required(b) \ Required(c)) \intersect after)

\* The names that appeared as required, or became so.
RequiredAdded(b, c) ==
    LET before == DOMAIN Properties(b)
        after == DOMAIN Properties(c)
    IN  (Required(c) \intersect (after \ before))
        \union ((Required(c) \ Required(b)) \intersect before)

CompareRequired(b, c) ==
    Fact(RequiredAdded(b, c) # {}, "RequiredAdded")
    \union Fact(RequiredRemoved(b, c) # {}, "RequiredRemoved")
    \union Fact(Unread(b, c, "required"), "Generic")

CompareType(b, c) ==
    Fact(Differ(b, c, "type"),
         IF "type" \in DOMAIN b \intersect DOMAIN c THEN "TypeChanged" ELSE "Generic")

CompareDescription(b, c) == Fact(Differ(b, c, "description"), "DescriptionChanged")

CompareEnum(b, c) ==
    LET unread == Odd \union {Absent}
        before == Get(b, "enum")
        after == Get(c, "enum")
    IN  CASE before \in unread /\ after \in unread -> Fact(before # after, "Generic")
          [] before \in unread /\ after \notin unread -> {"EnumNarrowed"}
          [] before \notin unread /\ after \in unread -> {"EnumExpanded"}
          [] OTHER -> Fact(before \ after # {}, "EnumNarrowed")
                      \union Fact(after \ before # {}, "EnumExpanded")

\* How a node treats properties that it does not declare.
Admission(s) ==
    LET value == Get(s, "additionalProperties")
    IN  CASE value \in {Absent, Always} -> "Anything"
          [] value = Never -> "Nothing"
          [] value \in Odd -> "Unsupported"
          [] OTHER -> IF DOMAIN value = {} THEN "Anything" ELSE "Schema"

\* Fault: a schema for undeclared properties is as good as none.
CompareAdmissionLoosely(b, c) ==
    LET before == Admission(b)
        after == Admission(c)
    IN  CASE ~Differ(b, c, "additionalProperties") -> {}
          [] before = "Anything" /\ after = "Nothing" -> {"AdditionalPropertiesTightened"}
          [] before = "Nothing" /\ after = "Anything" -> {"AdditionalPropertiesLoosened"}
          [] before = "Anything" \/ after = "Anything" -> {}
          [] OTHER -> {"Generic"}

CompareAdditionalProperties(b, c) ==
    LET before == Admission(b)
        after == Admission(c)
    IN  CASE ~Differ(b, c, "additionalProperties") -> {}
          [] before = "Anything" /\ after = "Nothing" -> {"AdditionalPropertiesTightened"}
          [] before = "Nothing" /\ after = "Anything" -> {"AdditionalPropertiesLoosened"}
          [] before = "Anything" /\ after = "Anything" -> {}
          [] OTHER -> {"Generic"}

--------------------------------------------------------------------------------
(* Descending.  `below` compares schemas that lie one level deeper.        *)

\* `items` is descended into when both sides hold a single node.
CompareItems(b, c, below) ==
    IF ~Differ(b, c, "items") THEN {}
    ELSE IF \E s \in {b, c} : Get(s, "items") = Absent \/ ~IsNode(Get(s, "items")) THEN {"Generic"}
    ELSE below[<<b.items, c.items>>]

CompareChildren(b, c, below) ==
    UNION {below[<<Properties(b)[name], Properties(c)[name]>>] :
           name \in DOMAIN Properties(b) \intersect DOMAIN Properties(c)}

\* Two nodes that differ.
CompareWithin(b, c, below) ==
    CompareRest(b, c) \union CompareProperties(b, c) \union CompareRequired(b, c)
    \union CompareType(b, c) \union CompareDescription(b, c) \union CompareEnum(b, c)
    \union CompareAdditionalProperties(b, c) \union CompareItems(b, c, below)
    \union CompareChildren(b, c, below)

\* Fault: what lies too deep is passed over.
CompareNodeQuietly(b, c, left, below) ==
    IF b = c \/ left = 0 THEN {}
    ELSE IF ~IsNode(b) \/ ~IsNode(c) THEN {"Generic"}
    ELSE CompareWithin(b, c, below)

CompareNode(b, c, left, below) ==
    IF b = c THEN {}
    ELSE IF left = 0 \/ ~IsNode(b) \/ ~IsNode(c) THEN {"Generic"}
    ELSE CompareWithin(b, c, below)

Pairs == Schemas \X Schemas

\* The comparison of any two schemas when so many levels are left.
Compared[left \in 0..MaxDepth + 1] ==
    [pair \in Pairs |-> CompareNode(pair[1], pair[2], left, Compared[left - 1])]

\* The facts a comparison reports; none at all is the conclusion that the two are equivalent.
\* Identical payloads are compared only if their fingerprints disagree, which nothing explains.
Compare(b, c) == IF b = c THEN {"Generic"} ELSE Compared[MaxDepth + 1][<<b, c>>]
================================================================================

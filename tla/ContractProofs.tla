----------------------------- MODULE ContractProofs -----------------------------
(***************************************************************************)
(* Theorems about Diff, for any dependencies, facets and lockfiles, and    *)
(* any comparison of schemas that reports facts of the risk table; then    *)
(* about Contract, for any schemas of any depth, any values, and any       *)
(* descent of the analyzer: what a report says of the contract of a tool   *)
(* is what JSON Schema makes of it.                                        *)
(***************************************************************************)
EXTENDS Contract, WellFoundedInduction, TLAPS

--------------------------------------------------------------------------------
(* The report.                                                                *)

Level == 0..4

\* The comparison of schemas that are recorded names only facts that have a risk.
FactsAreNamed == \A x, y \in SchemaPayload \ {None} : SchemaFacts(x, y) \subseteq SchemaFact

\* The same of the schemas of two dependencies.
Named(b, c, name) ==
    LET x == b.facets[name].payload
        y == c.facets[name].payload
    IN  None \notin {x, y} => SchemaFacts(x, y) \subseteq SchemaFact

FactsNamed(b, c) ==
    \A name \in SchemaFacet \intersect DOMAIN b.facets \intersect DOMAIN c.facets : Named(b, c, name)

--------------------------------------------------------------------------------
(* The fold of risk.                                                       *)

LEMMA LargestExists ==
    ASSUME NEW S, S \subseteq Level, S # {}
    PROVE  \E x \in S : \A y \in S : x >= y
<1>1. CASE 4 \in S  BY <1>1 DEF Level
<1>2. CASE 4 \notin S /\ 3 \in S  BY <1>2 DEF Level
<1>3. CASE 4 \notin S /\ 3 \notin S /\ 2 \in S  BY <1>3 DEF Level
<1>4. CASE 4 \notin S /\ 3 \notin S /\ 2 \notin S /\ 1 \in S  BY <1>4 DEF Level
<1>5. CASE 4 \notin S /\ 3 \notin S /\ 2 \notin S /\ 1 \notin S
  <2>1. \A y \in S : y = 0  BY <1>5 DEF Level
  <2> QED  BY <2>1
<1> QED  BY <1>1, <1>2, <1>3, <1>4, <1>5

LEMMA MaxRiskIsLargest ==
    ASSUME NEW S, S \subseteq Level
    PROVE  /\ MaxRisk(S) \in Level
           /\ \A r \in S : r <= MaxRisk(S)
           /\ MaxRisk(S) \in S \/ MaxRisk(S) = NoRisk
<1> DEFINE all == S \union {NoRisk}
<1>1. all \subseteq Level /\ all # {}
  BY DEF Level, NoRisk
<1>2. PICK x \in all : \A y \in all : x >= y
  BY <1>1, LargestExists
<1>3. MaxRisk(S) = CHOOSE z \in all : \A y \in all : z >= y
  BY DEF MaxRisk, Max
<1>4. MaxRisk(S) \in all /\ \A y \in all : MaxRisk(S) >= y
  BY <1>2, <1>3
<1> QED  BY <1>1, <1>4 DEF Level

\* A fold over something that has a risk has one, and no less.
LEMMA MaxRiskOfSome ==
    ASSUME NEW S, S \subseteq Level, NEW r \in S, r # NoRisk
    PROVE  MaxRisk(S) \in Level /\ MaxRisk(S) # NoRisk /\ r <= MaxRisk(S)
<1>1. MaxRisk(S) \in Level /\ r <= MaxRisk(S)
  BY MaxRiskIsLargest
<1>2. r \in Level
  OBVIOUS
<1> QED
  BY <1>1, <1>2 DEF Level, NoRisk

--------------------------------------------------------------------------------
(* The analyzers: what differs has a risk, unless a schema means the same. *)

LEMMA FieldsHaveRisk ==
    ASSUME NEW x, NEW y, NEW names, NEW other \in 2..4,
           \A key \in DOMAIN names : names[key] \in 2..4
    PROVE  FieldsRisk(x, y, names, other) \in 2..4
<1> DEFINE fields == DOMAIN x.payload \union DOMAIN y.payload
           differing == {key \in fields : Field(x.payload, key) # Field(y.payload, key)}
           named == DOMAIN x.payload \intersect DOMAIN y.payload \intersect DOMAIN names
           risks == {IF key \in named THEN names[key] ELSE other : key \in differing}
<1>1. risks \subseteq 2..4  OBVIOUS
<1>2. ASSUME differing # {}  PROVE MaxRisk(risks) \in 2..4
  <2>1. PICK key \in differing : TRUE  BY <1>2
  <2>2. PICK r \in risks : r \in 2..4  BY <1>1, <2>1
  <2>3. risks \subseteq Level /\ r # NoRisk  BY <1>1, <2>2 DEF Level, NoRisk
  <2>4. MaxRisk(risks) \in Level /\ r <= MaxRisk(risks)  BY <2>3, MaxRiskOfSome
  <2> QED  BY <2>2, <2>4 DEF Level
<1>3. FieldsRisk(x, y, names, other) =
        IF None \in {x.payload, y.payload} \/ differing = {} THEN other ELSE MaxRisk(risks)
  BY DEF FieldsRisk
<1> HIDE DEF differing, risks
<1> QED  BY <1>2, <1>3

LEMMA ModelCapabilitiesHaveRisk ==
    ASSUME NEW x, NEW y
    PROVE  ModelCapabilities(x, y) \in 2..4
<1> DEFINE Gone(name) == IF name = "tools" THEN ModelRisk.ToolsCapabilityRemoved
                                           ELSE ModelRisk.CapabilityRemoved
           New(name) == IF name = "tools" THEN ModelRisk.ToolsCapabilityAdded
                                          ELSE ModelRisk.CapabilityAdded
           risks == {Gone(name) : name \in x.payload \ y.payload}
                    \union {New(name) : name \in y.payload \ x.payload}
<1>1. risks \subseteq 2..4
  BY DEF ModelRisk, Critical, High, Medium
<1>2. ASSUME x.payload # y.payload  PROVE risks # {}
  <2>1. (\E name : name \in x.payload \ y.payload) \/ (\E name : name \in y.payload \ x.payload)
    BY <1>2
  <2> QED  BY <2>1
<1>3. ModelCapabilities(x, y) =
        IF None \in {x.payload, y.payload} \/ x.payload = y.payload
        THEN ModelRisk.CapabilitiesChanged ELSE MaxRisk(risks)
  BY DEF ModelCapabilities, NamesRisk
<1>4. ModelRisk.CapabilitiesChanged \in 2..4
  BY DEF ModelRisk, High
<1>5. ASSUME x.payload # y.payload  PROVE MaxRisk(risks) \in 2..4
  <2> HIDE DEF risks
  <2>1. PICK r \in risks : r \in 2..4  BY <1>1, <1>2, <1>5
  <2>2. risks \subseteq Level /\ r # NoRisk  BY <1>1, <2>1 DEF Level, NoRisk
  <2>3. MaxRisk(risks) \in Level /\ r <= MaxRisk(risks)  BY <2>2, MaxRiskOfSome
  <2> QED  BY <2>1, <2>3 DEF Level
<1> HIDE DEF risks
<1> QED  BY <1>3, <1>4, <1>5

LEMMA ToolCapabilitiesHaveRisk ==
    ASSUME NEW x, NEW y
    PROVE  ToolCapabilities(x, y) \in 2..4
<1> DEFINE Gone(name) == ToolRisk.CapabilityRemoved
           New(name) == ToolRisk.CapabilityAdded
           risks == {Gone(name) : name \in x.payload \ y.payload}
                    \union {New(name) : name \in y.payload \ x.payload}
<1>1. risks \subseteq 2..4
  BY DEF ToolRisk, High, Medium
<1>2. ASSUME x.payload # y.payload  PROVE risks # {}
  <2>1. (\E name : name \in x.payload \ y.payload) \/ (\E name : name \in y.payload \ x.payload)
    BY <1>2
  <2> QED  BY <2>1
<1>3. ToolCapabilities(x, y) =
        IF None \in {x.payload, y.payload} \/ x.payload = y.payload
        THEN UnknownFacet("capabilities") ELSE MaxRisk(risks)
  BY DEF ToolCapabilities, NamesRisk
<1>4. UnknownFacet("capabilities") \in 2..4
  BY DEF UnknownFacet, High, Medium
<1>5. ASSUME x.payload # y.payload  PROVE MaxRisk(risks) \in 2..4
  <2> HIDE DEF risks
  <2>1. PICK r \in risks : r \in 2..4  BY <1>1, <1>2, <1>5
  <2>2. risks \subseteq Level /\ r # NoRisk  BY <1>1, <2>1 DEF Level, NoRisk
  <2>3. MaxRisk(risks) \in Level /\ r <= MaxRisk(risks)  BY <2>2, MaxRiskOfSome
  <2> QED  BY <2>1, <2>3 DEF Level
<1> HIDE DEF risks
<1> QED  BY <1>3, <1>4, <1>5

LEMMA NoRiskOfNothing ==
    ASSUME NEW S, \A r \in S : r = NoRisk
    PROVE  MaxRisk(S) = NoRisk
<1>1. S \subseteq Level
  BY DEF Level, NoRisk
<1> QED  BY <1>1, MaxRiskIsLargest

\* The risk of a schema that moved is that of the worst fact about it.
LEMMA SchemaRiskIsLevel ==
    ASSUME NEW x, NEW y, NEW table, DOMAIN table = SchemaFact,
           \A fact \in SchemaFact : table[fact] \in 1..4, table.Generic \in 1..4,
           None \notin {x.payload, y.payload} => SchemaFacts(x.payload, y.payload) \subseteq SchemaFact
    PROVE  /\ SchemaRisk(x, y, table) \in Level
           /\ SchemaRisk(x, y, table) = NoRisk <=>
                /\ None \notin {x.payload, y.payload}
                /\ SchemaFacts(x.payload, y.payload) = {}
           /\ None \notin {x.payload, y.payload} =>
                \A fact \in SchemaFacts(x.payload, y.payload) :
                    table[fact] <= SchemaRisk(x, y, table)
<1> DEFINE facts == SchemaFacts(x.payload, y.payload)
           risks == {table[fact] : fact \in facts}
<1>1. SchemaRisk(x, y, table) =
        IF None \in {x.payload, y.payload} THEN table.Generic ELSE MaxRisk(risks)
  BY DEF SchemaRisk
<1>2. CASE None \in {x.payload, y.payload}
  BY <1>1, <1>2 DEF Level, NoRisk
<1>3. CASE None \notin {x.payload, y.payload}
  <2>1. facts \subseteq SchemaFact
    BY <1>3
  <2>2. risks \subseteq 1..4
    BY <2>1
  <2>3. risks \subseteq Level
    BY <2>2 DEF Level
  <2>4. \A fact \in facts : table[fact] \in risks
    OBVIOUS
  <2>5. facts = {} => risks = {}
    OBVIOUS
  <2> HIDE DEF risks, facts
  <2>6. MaxRisk(risks) \in Level /\ \A r \in risks : r <= MaxRisk(risks)
    BY <2>3, MaxRiskIsLargest
  <2>7. ASSUME facts # {}  PROVE MaxRisk(risks) # NoRisk
    <3>1. PICK fact \in facts : TRUE
      BY <2>7
    <3>2. table[fact] \in risks /\ table[fact] # NoRisk
      BY <2>2, <2>4, <3>1 DEF NoRisk
    <3> QED  BY <2>3, <3>2, MaxRiskOfSome
  <2>8. facts = {} => MaxRisk(risks) = NoRisk
    BY <2>5, NoRiskOfNothing
  <2>9. SchemaRisk(x, y, table) = MaxRisk(risks)
    BY <1>1, <1>3
  <2>10. \A fact \in facts : table[fact] <= SchemaRisk(x, y, table)
    BY <2>4, <2>6, <2>9
  <2> QED  BY <1>3, <2>6, <2>7, <2>8, <2>9, <2>10 DEF facts
<1> QED  BY <1>2, <1>3

TableOf(name) == IF name = "input_schema" THEN InputRisk ELSE OutputRisk

\* The same of a schema of a tool, by the table of its side of the contract.
LEMMA ToolSchemaRisk ==
    ASSUME NEW b, NEW c, NEW name \in SchemaFacet,
           name \in DOMAIN b.facets, name \in DOMAIN c.facets, b.kind = "tool", Named(b, c, name)
    PROVE  LET x == b.facets[name].payload
               y == c.facets[name].payload
           IN  /\ ModifiedRisk(b, c, name) \in Level
               /\ ModifiedRisk(b, c, name) = NoRisk <=> EquivalentSchemas(b, c, name)
               /\ None \notin {x, y} =>
                    \A fact \in SchemaFacts(x, y) : TableOf(name)[fact] <= ModifiedRisk(b, c, name)
<1> DEFINE x == b.facets[name]
           y == c.facets[name]
           table == TableOf(name)
<1>1. ModifiedRisk(b, c, name) = SchemaRisk(x, y, table)
  BY DEF ModifiedRisk, ToolFacetRisk, SchemaFacet, TableOf
<1>2. /\ DOMAIN InputRisk = SchemaFact /\ InputRisk.Generic \in 1..4
      /\ \A fact \in SchemaFact : InputRisk[fact] \in 1..4
  BY DEF SchemaFact, InputRisk, Low, Medium, High, Critical
<1>3. DOMAIN OutputRisk = SchemaFact /\ OutputRisk.Generic \in 1..4
  BY DEF SchemaFact, InputRisk, OutputRisk, High
<1>4. \A fact \in SchemaFact : OutputRisk[fact] \in 1..4
  BY DEF SchemaFact, InputRisk, OutputRisk, Low, Medium, High, Critical
<1>5. /\ DOMAIN table = SchemaFact /\ table.Generic \in 1..4
      /\ \A fact \in SchemaFact : table[fact] \in 1..4
  BY <1>2, <1>3, <1>4 DEF TableOf
<1>6. None \notin {x.payload, y.payload} => SchemaFacts(x.payload, y.payload) \subseteq SchemaFact
  BY DEF Named
<1>7. EquivalentSchemas(b, c, name) <=>
        None \notin {x.payload, y.payload} /\ SchemaFacts(x.payload, y.payload) = {}
  BY DEF EquivalentSchemas
<1> HIDE DEF x, y, table
<1>8. /\ SchemaRisk(x, y, table) \in Level
      /\ SchemaRisk(x, y, table) = NoRisk <=>
            None \notin {x.payload, y.payload} /\ SchemaFacts(x.payload, y.payload) = {}
      /\ None \notin {x.payload, y.payload} =>
            \A fact \in SchemaFacts(x.payload, y.payload) : table[fact] <= SchemaRisk(x, y, table)
  BY <1>5, <1>6, SchemaRiskIsLevel
<1> QED  BY <1>1, <1>7, <1>8 DEF x, y, table

\* What an analyzer, or the generic rule, makes of a facet that moved.
LEMMA ModifiedRiskIsLevel ==
    ASSUME NEW b, NEW c, FactsNamed(b, c), NEW name,
           name \in DOMAIN b.facets, name \in DOMAIN c.facets
    PROVE  /\ ModifiedRisk(b, c, name) \in Level
           /\ ModifiedRisk(b, c, name) = NoRisk => EquivalentSchemas(b, c, name)
           /\ ModifiedRisk(b, c, name) <= Low =>
                SameWords(b, c, name) \/ (b.kind = "tool" /\ name \in SchemaFacet)
<1> DEFINE x == b.facets[name]
           y == c.facets[name]
           schema == b.kind = "tool" /\ name \in SchemaFacet
<1>3. ASSUME ~schema
      PROVE  /\ ModifiedRisk(b, c, name) \in 1..4
             /\ ModifiedRisk(b, c, name) <= Low => SameWords(b, c, name)
  <2>1. CASE b.kind = "prompt" /\ name = "content"
    <3>1. ModifiedRisk(b, c, name) = PromptRiskOf(b, c)
      BY <2>1 DEF ModifiedRisk
    <3>2. PromptRiskOf(b, c) \in 1..4
      BY DEF PromptRiskOf, TextRisk, PromptRisk, Low, Medium
    <3>3. ASSUME PromptRiskOf(b, c) <= Low
          PROVE  /\ "shape" \in DOMAIN b.facets /\ "shape" \in DOMAIN c.facets
                 /\ b.facets["shape"].digest = c.facets["shape"].digest
      BY <3>3 DEF PromptRiskOf, TextRisk, PromptRisk, Low, Medium
    <3> QED  BY <2>1, <3>1, <3>2, <3>3 DEF SameWords, Fingerprint
  <2>2. CASE \/ b.kind = "tool" /\ name = "description"
             \/ b.kind = "mcp" /\ name = "instructions"
    <3>1. PICK reflow \in {Low}, rewrite \in {Medium} :
            ModifiedRisk(b, c, name) = TextRisk(x.shape, y.shape, reflow, rewrite)
      BY <2>2 DEF ModifiedRisk, ToolFacetRisk, McpFacetRisk, ToolRisk, McpRisk
    <3>2. TextRisk(x.shape, y.shape, reflow, rewrite) \in 1..4
      BY DEF TextRisk, Low, Medium
    <3>3. ASSUME TextRisk(x.shape, y.shape, reflow, rewrite) <= Low
          PROVE  x.shape = y.shape /\ x.shape # None
      BY <3>3 DEF TextRisk, Low, Medium
    <3> QED  BY <2>2, <3>1, <3>2, <3>3 DEF SameWords
  <2>3. CASE /\ ~(b.kind = "prompt" /\ name = "content")
             /\ ~(b.kind = "tool" /\ name = "description")
             /\ ~(b.kind = "mcp" /\ name = "instructions")
    <3>1. FieldsRisk(x, y, ModelIdentity, ModelRisk.IdentityOtherChanged) \in 2..4
      <4>1. \A key \in DOMAIN ModelIdentity : ModelIdentity[key] \in 2..4
        BY DEF ModelIdentity, ModelRisk, High, Critical
      <4>2. ModelRisk.IdentityOtherChanged \in 2..4
        BY DEF ModelRisk, High
      <4> QED  BY <4>1, <4>2, FieldsHaveRisk
    <3>2. FieldsRisk(x, y, McpIdentity, McpRisk.IdentityOtherChanged) \in 2..4
      <4>1. \A key \in DOMAIN McpIdentity : McpIdentity[key] \in 2..4
        BY DEF McpIdentity, McpRisk, High, Medium
      <4>2. McpRisk.IdentityOtherChanged \in 2..4
        BY DEF McpRisk, High
      <4> QED  BY <4>1, <4>2, FieldsHaveRisk
    <3>3. /\ ModelRisk.ParamsChanged \in 2..4 /\ ModelRisk.TemplateChanged \in 2..4
          /\ UnknownFacet(name) \in 2..4
      BY DEF ModelRisk, UnknownFacet, High, Medium
    <3>4. ModelCapabilities(x, y) \in 2..4 /\ ToolCapabilities(x, y) \in 2..4
      BY ModelCapabilitiesHaveRisk, ToolCapabilitiesHaveRisk
    <3>5. CASE b.kind = "model"
      <4>1. ModifiedRisk(b, c, name) = ModelFacetRisk(x, y, name)
        BY <3>5 DEF ModifiedRisk
      <4>2. ModelFacetRisk(x, y, name) \in 2..4
        BY <3>1, <3>3, <3>4, Zenon DEF ModelFacetRisk, ModelIdentityRisk
      <4> QED  BY <4>1, <4>2 DEF Low
    <3>6. CASE b.kind = "tool"
      <4>1. ModifiedRisk(b, c, name) = ToolFacetRisk(x, y, name)
        BY <3>6 DEF ModifiedRisk
      <4>2. ToolFacetRisk(x, y, name) \in 2..4
        BY <1>3, <2>3, <3>6, <3>3, <3>4, Zenon DEF ToolFacetRisk, SchemaFacet
      <4> QED  BY <4>1, <4>2 DEF Low
    <3>7. CASE b.kind = "mcp"
      <4>1. ModifiedRisk(b, c, name) = McpFacetRisk(x, y, name)
        BY <3>7 DEF ModifiedRisk
      <4>2. McpFacetRisk(x, y, name) \in 2..4
        BY <2>3, <3>7, <3>2, <3>3, Zenon DEF McpFacetRisk
      <4> QED  BY <4>1, <4>2 DEF Low
    <3>8. CASE b.kind \notin {"model", "tool", "mcp"}
      <4>1. ModifiedRisk(b, c, name) = UnknownFacet(name)
        BY <2>3, <3>8 DEF ModifiedRisk
      <4> QED  BY <4>1, <3>3 DEF Low
    <3> QED  BY <3>5, <3>6, <3>7, <3>8
  <2> QED  BY <2>1, <2>2, <2>3
<1>6. CASE schema
  <2>1. Named(b, c, name)
    BY <1>6 DEF FactsNamed
  <2> QED  BY <1>6, <2>1, ToolSchemaRisk
<1>7. CASE ~schema
  BY <1>3, <1>7 DEF Level, NoRisk
<1> QED  BY <1>6, <1>7

LEMMA FacetRiskIsLevel ==
    ASSUME NEW b, NEW c, FactsNamed(b, c),
           NEW name \in DOMAIN b.facets \union DOMAIN c.facets
    PROVE  /\ FacetRisk(b, c, name) \in Level
           /\ FacetRisk(b, c, name) = NoRisk =>
                Fingerprint(b, name) = Fingerprint(c, name) \/ EquivalentSchemas(b, c, name)
           /\ FacetRisk(b, c, name) <= Low =>
                /\ name \in DOMAIN b.facets \intersect DOMAIN c.facets
                /\ \/ Fingerprint(b, name) = Fingerprint(c, name)
                   \/ SameWords(b, c, name)
                   \/ b.kind = "tool" /\ name \in SchemaFacet
<1>1. CASE name \notin DOMAIN b.facets
  <2>1. FacetRisk(b, c, name) = FacetAdded(name)
    BY <1>1 DEF FacetRisk
  <2> QED  BY <2>1 DEF FacetAdded, Level, NoRisk, Low, High, Medium
<1>2. CASE name \in DOMAIN b.facets /\ name \notin DOMAIN c.facets
  <2>1. FacetRisk(b, c, name) = FacetRemoved
    BY <1>2 DEF FacetRisk
  <2> QED  BY <2>1 DEF FacetRemoved, Level, NoRisk, Low, High
<1>3. CASE /\ name \in DOMAIN b.facets /\ name \in DOMAIN c.facets
           /\ b.facets[name].digest = c.facets[name].digest
  BY <1>3 DEF FacetRisk, Fingerprint, Level, NoRisk
<1>4. CASE /\ name \in DOMAIN b.facets /\ name \in DOMAIN c.facets
           /\ b.facets[name].digest # c.facets[name].digest
  <2>1. FacetRisk(b, c, name) = ModifiedRisk(b, c, name)
    BY <1>4 DEF FacetRisk
  <2> QED  BY <1>4, <2>1, ModifiedRiskIsLevel
<1> QED  BY <1>1, <1>2, <1>3, <1>4

\* A dependency of one kind on both sides that has no risk has no facet with a risk.
LEMMA UnreportedFacets ==
    ASSUME NEW b, NEW c, FactsNamed(b, c), MaxRisk(FacetRisks(b, c)) = NoRisk,
           NEW name \in DOMAIN b.facets \union DOMAIN c.facets
    PROVE  Fingerprint(b, name) = Fingerprint(c, name) \/ EquivalentSchemas(b, c, name)
<1>1. FacetRisks(b, c) \subseteq Level
  BY FacetRiskIsLevel DEF FacetRisks
<1>2. FacetRisk(b, c, name) \in FacetRisks(b, c)
  BY DEF FacetRisks
<1>3. FacetRisk(b, c, name) = NoRisk
  BY <1>1, <1>2, MaxRiskOfSome
<1> QED  BY <1>3, FacetRiskIsLevel

--------------------------------------------------------------------------------
(* The report.                                                             *)

LEMMA KindsHaveRisk ==
    ASSUME NEW kind \in Kind
    PROVE  Added[kind] \in 2..4 /\ Removed[kind] \in 2..4
<1>1. kind \in {"prompt", "model", "tool", "mcp"}
  BY DEF Kind, Added
<1>2. \A k \in {"prompt", "model", "tool", "mcp"} : Added[k] \in 2..4
  BY DEF Added, PromptRisk, ModelRisk, ToolRisk, McpRisk, Medium, High
<1>3. \A k \in {"prompt", "model", "tool", "mcp"} : Removed[k] \in 2..4
  BY DEF Removed, PromptRisk, ModelRisk, ToolRisk, McpRisk, High, Critical
<1> QED  BY <1>1, <1>2, <1>3

\* What is said of one dependency: a level, and NoRisk only if nothing moved but in equivalent schemas.
LEMMA ChangeRiskIsLevel ==
    ASSUME NEW before, NEW after,
           \A d \in DOMAIN before : before[d].kind \in Kind,
           \A d \in DOMAIN after : after[d].kind \in Kind,
           NEW id \in DOMAIN before \union DOMAIN after,
           id \in DOMAIN before \intersect DOMAIN after => FactsNamed(before[id], after[id])
    PROVE  /\ ChangeRisk(before, after, id) \in Level
           /\ ChangeRisk(before, after, id) = NoRisk =>
                /\ id \in DOMAIN before \intersect DOMAIN after
                /\ before[id].kind = after[id].kind
                /\ \A name \in DOMAIN before[id].facets \union DOMAIN after[id].facets :
                    \/ Fingerprint(before[id], name) = Fingerprint(after[id], name)
                    \/ EquivalentSchemas(before[id], after[id], name)
<1>1. CASE id \notin DOMAIN before
  <2>1. ChangeRisk(before, after, id) \in {ToolRisk.DestructiveToolAdded, Added[after[id].kind]}
    BY <1>1 DEF ChangeRisk
  <2>2. ToolRisk.DestructiveToolAdded \in 1..4
    BY DEF ToolRisk, Critical
  <2>3. Added[after[id].kind] \in 2..4
    BY <1>1, KindsHaveRisk
  <2> QED  BY <2>1, <2>2, <2>3 DEF Level, NoRisk
<1>2. CASE id \in DOMAIN before /\ id \notin DOMAIN after
  <2>1. ChangeRisk(before, after, id) = Removed[before[id].kind]
    BY <1>2 DEF ChangeRisk
  <2>2. Removed[before[id].kind] \in 2..4
    BY <1>2, KindsHaveRisk
  <2> QED  BY <2>1, <2>2 DEF Level, NoRisk
<1>3. CASE /\ id \in DOMAIN before /\ id \in DOMAIN after
           /\ before[id].kind # after[id].kind
  <2>1. ChangeRisk(before, after, id) = KindMismatch
    BY <1>3 DEF ChangeRisk
  <2> QED  BY <2>1 DEF KindMismatch, Critical, Level, NoRisk
<1>4. CASE /\ id \in DOMAIN before /\ id \in DOMAIN after
           /\ before[id].kind = after[id].kind
  <2> DEFINE b == before[id]
             c == after[id]
  <2>1. ChangeRisk(before, after, id) = MaxRisk(FacetRisks(b, c))
    BY <1>4 DEF ChangeRisk
  <2>2. FactsNamed(b, c) /\ FacetRisks(b, c) \subseteq Level
    <3>1. FactsNamed(b, c)
      BY <1>4
    <3> QED  BY <3>1, FacetRiskIsLevel DEF FacetRisks
  <2>3. MaxRisk(FacetRisks(b, c)) \in Level
    BY <2>2, MaxRiskIsLargest
  <2>4. ASSUME MaxRisk(FacetRisks(b, c)) = NoRisk,
               NEW name \in DOMAIN b.facets \union DOMAIN c.facets
        PROVE  Fingerprint(b, name) = Fingerprint(c, name) \/ EquivalentSchemas(b, c, name)
    BY <2>2, <2>4, UnreportedFacets
  <2> QED  BY <1>4, <2>1, <2>3, <2>4
<1> QED  BY <1>1, <1>2, <1>3, <1>4

\* A change of no more than LOW: the dependency stays, and keeps its facets.
LEMMA LowChange ==
    ASSUME NEW before, NEW after,
           \A d \in DOMAIN before : before[d].kind \in Kind,
           \A d \in DOMAIN after : after[d].kind \in Kind,
           NEW id \in DOMAIN before \union DOMAIN after,
           id \in DOMAIN before \intersect DOMAIN after => FactsNamed(before[id], after[id]),
           ChangeRisk(before, after, id) <= Low
    PROVE  /\ id \in DOMAIN before \intersect DOMAIN after
           /\ before[id].kind = after[id].kind
           /\ DOMAIN before[id].facets = DOMAIN after[id].facets
           /\ \A name \in DOMAIN before[id].facets :
                \/ Fingerprint(before[id], name) = Fingerprint(after[id], name)
                \/ SameWords(before[id], after[id], name)
                \/ before[id].kind = "tool" /\ name \in SchemaFacet
<1> DEFINE b == before[id]
           c == after[id]
<1>1. id \in DOMAIN before
  <2> SUFFICES ASSUME id \notin DOMAIN before PROVE FALSE
    OBVIOUS
  <2>1. ChangeRisk(before, after, id) \in {ToolRisk.DestructiveToolAdded, Added[after[id].kind]}
    BY DEF ChangeRisk
  <2>2. ToolRisk.DestructiveToolAdded \in 2..4 /\ Added[after[id].kind] \in 2..4
    BY KindsHaveRisk DEF ToolRisk, Critical
  <2> QED  BY <2>1, <2>2 DEF Low
<1>2. id \in DOMAIN after
  <2> SUFFICES ASSUME id \notin DOMAIN after PROVE FALSE
    OBVIOUS
  <2>1. ChangeRisk(before, after, id) = Removed[before[id].kind]
    BY <1>1 DEF ChangeRisk
  <2>2. Removed[before[id].kind] \in 2..4
    BY <1>1, KindsHaveRisk
  <2> QED  BY <2>1, <2>2 DEF Low
<1>3. b.kind = c.kind
  <2> SUFFICES ASSUME b.kind # c.kind PROVE FALSE
    OBVIOUS
  <2>1. ChangeRisk(before, after, id) = KindMismatch
    BY <1>1, <1>2 DEF ChangeRisk
  <2> QED  BY <2>1 DEF KindMismatch, Critical, Low
<1>4. ChangeRisk(before, after, id) = MaxRisk(FacetRisks(b, c))
  BY <1>1, <1>2, <1>3 DEF ChangeRisk
<1>5. FactsNamed(b, c) /\ FacetRisks(b, c) \subseteq Level
  <2>1. FactsNamed(b, c)
    BY <1>1, <1>2
  <2> QED  BY <2>1, FacetRiskIsLevel DEF FacetRisks
<1>6. MaxRisk(FacetRisks(b, c)) \in Level /\ \A r \in FacetRisks(b, c) : r <= MaxRisk(FacetRisks(b, c))
  BY <1>5, MaxRiskIsLargest
<1>7. ASSUME NEW name \in DOMAIN b.facets \union DOMAIN c.facets
      PROVE  FacetRisk(b, c, name) <= Low
  <2>1. FacetRisk(b, c, name) \in FacetRisks(b, c)
    BY DEF FacetRisks
  <2> QED  BY <1>4, <1>5, <1>6, <2>1 DEF Level, Low
<1>8. ASSUME NEW name \in DOMAIN b.facets \union DOMAIN c.facets
      PROVE  /\ name \in DOMAIN b.facets \intersect DOMAIN c.facets
             /\ \/ Fingerprint(b, name) = Fingerprint(c, name)
                \/ SameWords(b, c, name)
                \/ b.kind = "tool" /\ name \in SchemaFacet
  BY <1>5, <1>7, FacetRiskIsLevel
<1>9. DOMAIN b.facets = DOMAIN c.facets
  BY <1>8
<1> QED
  BY <1>1, <1>2, <1>3, <1>8, <1>9

\* If two aggregates agree, so do the fingerprints they are taken of.
LEMMA SameChecksum ==
    ASSUME NEW before, NEW after, Checksum(before) = Checksum(after)
    PROVE  /\ DOMAIN before = DOMAIN after
           /\ \A id \in DOMAIN before :
                /\ before[id].kind = after[id].kind
                /\ DOMAIN before[id].facets = DOMAIN after[id].facets
                /\ \A name \in DOMAIN before[id].facets \union DOMAIN after[id].facets :
                    Fingerprint(before[id], name) = Fingerprint(after[id], name)
<1>1. DOMAIN before = DOMAIN after
  BY DEF Checksum
<1>2. ASSUME NEW id \in DOMAIN before
      PROVE  /\ before[id].kind = after[id].kind
             /\ DOMAIN before[id].facets = DOMAIN after[id].facets
             /\ \A name \in DOMAIN before[id].facets \union DOMAIN after[id].facets :
                Fingerprint(before[id], name) = Fingerprint(after[id], name)
  <2> DEFINE b == before[id]
             c == after[id]
             digests(d) == [name \in DOMAIN d.facets |-> d.facets[name].digest]
  <2>1. Digests(b) = Digests(c)
    BY <1>1, <1>2 DEF Checksum
  <2>2. b.kind = c.kind /\ digests(b) = digests(c)
    BY <2>1 DEF Digests
  <2>3. DOMAIN b.facets = DOMAIN c.facets
    BY <2>2
  <2>4. \A name \in DOMAIN b.facets : b.facets[name].digest = c.facets[name].digest
    BY <2>2, <2>3
  <2> QED  BY <2>2, <2>3, <2>4 DEF Fingerprint
<1> QED  BY <1>1, <1>2

--------------------------------------------------------------------------------
(* The theorems.                                                           *)

\* A schema that a dependency keeps is one that can be recorded.
KeepsSchemas(d) ==
    \A name \in SchemaFacet \intersect DOMAIN d.facets :
        d.facets[name].payload \in SchemaPayload \union {None}

\* What every step preserves: dependencies are under Id and of known kinds, whatever was edited.
KindsOK ==
    /\ DOMAIN found \subseteq Id
    /\ \A id \in DOMAIN found : found[id] \in Revisions[id]
    /\ DOMAIN lock.dependencies \subseteq Id
    /\ \A id \in DOMAIN lock.dependencies :
        IsDependency(lock.dependencies[id]) /\ KeepsSchemas(lock.dependencies[id])
    /\ DOMAIN lock = {"checksum", "dependencies"}
    /\ quiet \in BOOLEAN /\ changes \in 0..MaxChanges

LEMMA RevisionsAreDependencies ==
    ASSUME NEW id \in Id, NEW d \in Revisions[id]
    PROVE  IsDependency(d) /\ KeepsSchemas(d)
<1>1. d \in UNION {Revisions[other] : other \in Id}
  OBVIOUS
<1>2. KeepsSchemas(d)
  <2> SUFFICES ASSUME NEW name \in SchemaFacet \intersect DOMAIN d.facets
               PROVE  d.facets[name].payload \in SchemaPayload
    BY DEF KeepsSchemas
  <2> DEFINE kept(e) == {e.facets[n].payload : n \in SchemaFacet \intersect DOMAIN e.facets}
             all == UNION {Revisions[other] : other \in Id}
  <2>1. SchemaPayload = UNION {kept(e) : e \in all}
    BY DEF SchemaPayload
  <2>2. d.facets[name].payload \in kept(d)
    OBVIOUS
  <2> HIDE DEF kept, all
  <2> QED  BY <1>1, <2>1, <2>2 DEF all
<1> QED  BY <1>2, DiffAssumption

LEMMA FoundKinds ==
    ASSUME KindsOK
    PROVE  /\ \A id \in DOMAIN found : IsDependency(found[id]) /\ found[id].kind \in Kind
           /\ \A id \in DOMAIN found : KeepsSchemas(found[id])
           /\ \A id \in DOMAIN lock.dependencies : lock.dependencies[id].kind \in Kind
BY RevisionsAreDependencies DEF KindsOK, IsDependency

\* Whatever a comparison of the two sides names of a schema has a risk.
LEMMA SidesAreNamed ==
    ASSUME FactsAreNamed, KindsOK, NEW id \in DOMAIN lock.dependencies \intersect DOMAIN found
    PROVE  FactsNamed(lock.dependencies[id], found[id])
<1> DEFINE b == lock.dependencies[id]
           c == found[id]
<1>1. KeepsSchemas(b) /\ KeepsSchemas(c)
  BY FoundKinds DEF KindsOK
<1>2. ASSUME NEW name \in SchemaFacet \intersect DOMAIN b.facets \intersect DOMAIN c.facets
      PROVE  Named(b, c, name)
  <2>1. {b.facets[name].payload, c.facets[name].payload} \subseteq SchemaPayload \union {None}
    BY <1>1 DEF KeepsSchemas
  <2> QED  BY <2>1 DEF Named, FactsAreNamed
<1> QED  BY <1>2 DEF FactsNamed

LEMMA KindsOKInit == Init => KindsOK
<1> SUFFICES ASSUME Init PROVE KindsOK
  OBVIOUS
<1>1. lock.dependencies = found /\ DOMAIN lock = {"checksum", "dependencies"}
  BY DEF Init, FromDependencies
<1>2. DOMAIN found \subseteq Id /\ \A id \in DOMAIN found : found[id] \in Revisions[id]
  BY DiffAssumption DEF Init
<1>3. \A id \in DOMAIN found : IsDependency(found[id]) /\ KeepsSchemas(found[id])
  BY <1>2, RevisionsAreDependencies
<1>4. quiet \in BOOLEAN /\ changes \in 0..MaxChanges
  BY DiffAssumption DEF Init
<1> QED
  BY <1>1, <1>2, <1>3, <1>4 DEF KindsOK

\* An entry edited by hand still is a dependency, and of the schemas that could be recorded.
LEMMA DoctoredIsDependency ==
    ASSUME NEW entry, IsDependency(entry), KeepsSchemas(entry), NEW d, KeepsSchemas(d),
           NEW doctored \in Doctored(entry, d)
    PROVE  IsDependency(doctored) /\ KeepsSchemas(doctored)
<1> DEFINE both == DOMAIN entry.facets \intersect DOMAIN d.facets
           Payloads == {[entry EXCEPT !.facets[name].payload = d.facets[name].payload] : name \in both}
           Digested == {[entry EXCEPT !.facets[name].digest = d.facets[name].digest] : name \in both}
<1>1. CASE doctored \in {[entry EXCEPT !.kind = kind] : kind \in Kind}
  BY <1>1 DEF IsDependency, KeepsSchemas
<1>2. CASE doctored \in Payloads
  <2>1. PICK name \in both : doctored = [entry EXCEPT !.facets[name].payload = d.facets[name].payload]
    BY <1>2
  <2>2. /\ DOMAIN doctored = DOMAIN entry /\ doctored.kind = entry.kind
        /\ DOMAIN doctored.facets = DOMAIN entry.facets
        /\ \A n \in DOMAIN entry.facets : DOMAIN doctored.facets[n] = DOMAIN entry.facets[n]
    BY <2>1 DEF IsDependency
  <2>3. /\ \A n \in DOMAIN entry.facets : n # name => doctored.facets[n] = entry.facets[n]
        /\ doctored.facets[name].payload = d.facets[name].payload
    BY <2>1 DEF IsDependency
  <2>4. IsDependency(doctored)
    BY <2>2 DEF IsDependency
  <2>5. KeepsSchemas(doctored)
    BY <2>2, <2>3 DEF KeepsSchemas
  <2> QED  BY <2>4, <2>5
<1>3. CASE doctored \in Digested
  <2>1. PICK name \in both : doctored = [entry EXCEPT !.facets[name].digest = d.facets[name].digest]
    BY <1>3
  <2>2. /\ DOMAIN doctored = DOMAIN entry /\ doctored.kind = entry.kind
        /\ DOMAIN doctored.facets = DOMAIN entry.facets
        /\ \A n \in DOMAIN entry.facets : DOMAIN doctored.facets[n] = DOMAIN entry.facets[n]
    BY <2>1 DEF IsDependency
  <2>3. \A n \in DOMAIN entry.facets : doctored.facets[n].payload = entry.facets[n].payload
    BY <2>1 DEF IsDependency
  <2>4. IsDependency(doctored)
    BY <2>2 DEF IsDependency
  <2>5. KeepsSchemas(doctored)
    BY <2>2, <2>3 DEF KeepsSchemas
  <2> QED  BY <2>4, <2>5
<1> QED
  BY <1>1, <1>2, <1>3 DEF Doctored

LEMMA KindsOKNext == KindsOK /\ [Next]_vars => KindsOK'
<1> SUFFICES ASSUME KindsOK, [Next]_vars PROVE KindsOK'
  OBVIOUS
<1>1. ASSUME NEW id \in Id, Revise(id)  PROVE KindsOK'
  <2>1. DOMAIN found' \subseteq Id /\ \A other \in DOMAIN found' : found'[other] \in Revisions[other]
    <3>1. CASE \E d \in Revisions[id] : found' = Put(found, id, d)
      BY <3>1 DEF KindsOK, Put
    <3>2. CASE found' = Without(found, id)
      BY <3>2 DEF KindsOK, Without
    <3> QED  BY <1>1, <3>1, <3>2 DEF Revise
  <2>2. quiet' \in BOOLEAN
    BY <1>1, Zenon DEF Revise, KindsOK
  <2>3. changes' \in 0..MaxChanges
    BY <1>1, DiffAssumption DEF Revise, KindsOK
  <2>4. lock' = lock
    BY <1>1 DEF Revise
  <2> QED  BY <2>1, <2>2, <2>3, <2>4 DEF KindsOK
<1>2. ASSUME Snapshot  PROVE KindsOK'
  <2>1. /\ lock'.dependencies = found /\ DOMAIN lock' = {"checksum", "dependencies"}
        /\ found' = found /\ changes' = changes /\ quiet' = TRUE
    BY <1>2 DEF Snapshot, FromDependencies
  <2> QED  BY <2>1, FoundKinds DEF KindsOK
<1>3. ASSUME NEW id \in Id, HandEdit(id)  PROVE KindsOK'
  <2>1. \/ lock'.dependencies = lock.dependencies
        \/ \E d \in Revisions[id] : \E entry \in Doctored(lock.dependencies[id], d) :
            lock'.dependencies = Put(lock.dependencies, id, entry)
    BY <1>3 DEF HandEdit, KindsOK
  <2>2. id \in DOMAIN lock.dependencies
    BY <1>3 DEF HandEdit
  <2>3. /\ DOMAIN lock'.dependencies \subseteq Id
        /\ \A other \in DOMAIN lock'.dependencies :
            IsDependency(lock'.dependencies[other]) /\ KeepsSchemas(lock'.dependencies[other])
    <3>1. CASE lock'.dependencies = lock.dependencies
      BY <3>1 DEF KindsOK
    <3>2. ASSUME NEW d \in Revisions[id], NEW entry \in Doctored(lock.dependencies[id], d),
                 lock'.dependencies = Put(lock.dependencies, id, entry)
          PROVE  /\ DOMAIN lock'.dependencies \subseteq Id
                 /\ \A other \in DOMAIN lock'.dependencies :
                    IsDependency(lock'.dependencies[other]) /\ KeepsSchemas(lock'.dependencies[other])
      <4>1. IsDependency(lock.dependencies[id]) /\ KeepsSchemas(lock.dependencies[id])
        BY <2>2 DEF KindsOK
      <4>2. IsDependency(entry) /\ KeepsSchemas(entry)
        BY <3>2, <4>1, DoctoredIsDependency, RevisionsAreDependencies
      <4> QED  BY <3>2, <4>2 DEF KindsOK, Put
    <3> QED  BY <2>1, <3>1, <3>2
  <2>4. DOMAIN lock' = {"checksum", "dependencies"}
    BY <1>3 DEF HandEdit, KindsOK
  <2>5. found' = found /\ quiet' = FALSE /\ changes' \in 0..MaxChanges
    BY <1>3, DiffAssumption DEF HandEdit, KindsOK
  <2> QED  BY <2>3, <2>4, <2>5 DEF KindsOK
<1>4. ASSUME UNCHANGED vars  PROVE KindsOK'
  BY <1>4 DEF vars, KindsOK
<1> QED
  BY <1>1, <1>2, <1>3, <1>4 DEF Next

LEMMA KindsAlwaysOK == Spec => []KindsOK
BY KindsOKInit, KindsOKNext, PTL DEF Spec

\* The lines of a report: dependencies of either side, each with the risk of its change.
LEMMA ReportLines ==
    ASSUME NEW baseline, NEW current
    PROVE  LET before == baseline.dependencies
               after == current.dependencies
           IN  /\ DOMAIN Report(baseline, current) \subseteq DOMAIN before \union DOMAIN after
               /\ \A id \in DOMAIN Report(baseline, current) :
                    /\ Report(baseline, current)[id] = ChangeRisk(before, after, id)
                    /\ ChangeRisk(before, after, id) # NoRisk
               /\ \A id \in (DOMAIN before \union DOMAIN after) \ DOMAIN Report(baseline, current) :
                    baseline.checksum = current.checksum \/ ChangeRisk(before, after, id) = NoRisk
BY DEF Report

LEMMA TypeOKHolds ==
    ASSUME FactsAreNamed, KindsOK
    PROVE  TypeOK
<1> DEFINE after == FromDependencies(found).dependencies
<1>1. after = found
  BY DEF FromDependencies
<1>2. DOMAIN Drift \subseteq DOMAIN lock.dependencies \union DOMAIN found
  BY <1>1, ReportLines DEF Drift
<1>3. ASSUME NEW id \in DOMAIN Drift  PROVE Drift[id] \in Low..Critical
  <2>1. Drift[id] = ChangeRisk(lock.dependencies, found, id) /\ Drift[id] # NoRisk
    BY <1>1, <1>3, ReportLines DEF Drift
  <2>2. Drift[id] \in Level
    BY <1>2, <2>1, FoundKinds, SidesAreNamed, ChangeRiskIsLevel DEF KindsOK
  <2> QED  BY <2>1, <2>2 DEF Level, NoRisk, Low, Critical
<1> QED
  BY <1>2, <1>3 DEF KindsOK, TypeOK

\* Type correctness of a lockfile's life: dependencies are only under Id, and every line of a report
\* (engine.rs:19-103) has a risk from LOW to CRITICAL, never none.
THEOREM TypeCorrect ==
    ASSUME FactsAreNamed
    PROVE  Spec => []TypeOK
<1>1. KindsOK => TypeOK
  BY TypeOKHolds
<1> QED
  BY <1>1, KindsAlwaysOK, PTL

LEMMA NothingDisappearsHolds ==
    ASSUME FactsAreNamed, KindsOK
    PROVE  NothingDisappears
<1> DEFINE before == lock.dependencies
<1> SUFFICES ASSUME Verified(lock), NEW id \in (DOMAIN before \union DOMAIN found) \ DOMAIN Drift
             PROVE  /\ id \in DOMAIN before \intersect DOMAIN found
                    /\ before[id].kind = found[id].kind
                    /\ \A name \in DOMAIN before[id].facets \union DOMAIN found[id].facets :
                        \/ Fingerprint(before[id], name) = Fingerprint(found[id], name)
                        \/ EquivalentSchemas(before[id], found[id], name)
  BY DEF NothingDisappears
<1>1. /\ FromDependencies(found).dependencies = found
      /\ FromDependencies(found).checksum = Checksum(found)
  BY DEF FromDependencies
<1>2. lock.checksum = Checksum(before)
  BY DEF Verified, VerifiedChecksum
<1>3. CASE Checksum(before) = Checksum(found)
  BY <1>3, SameChecksum
<1>4. CASE ChangeRisk(before, found, id) = NoRisk
  BY <1>4, FoundKinds, SidesAreNamed, ChangeRiskIsLevel DEF KindsOK
<1> QED
  BY <1>1, <1>2, <1>3, <1>4, ReportLines DEF Drift

\* Of two agents compared through a verified lockfile, no fingerprint moves without being reported,
\* for any dependencies, facets and hand edits: what the aggregate's short cut (engine.rs:23) skips
\* is the same, and what the analyzers leave out is a schema found equivalent.
THEOREM NoFingerprintDisappears ==
    ASSUME FactsAreNamed
    PROVE  Spec => []NothingDisappears
<1>1. KindsOK => NothingDisappears
  BY NothingDisappearsHolds
<1> QED
  BY <1>1, KindsAlwaysOK, PTL

LEMMA LowIsCosmeticHolds ==
    ASSUME FactsAreNamed, KindsOK
    PROVE  LowIsCosmetic
<1> DEFINE before == lock.dependencies
           Cosmetic(id) ==
                /\ before[id].kind = found[id].kind
                /\ DOMAIN before[id].facets = DOMAIN found[id].facets
                /\ \A name \in DOMAIN before[id].facets :
                    \/ Fingerprint(before[id], name) = Fingerprint(found[id], name)
                    \/ SameWords(before[id], found[id], name)
                    \/ before[id].kind = "tool" /\ name \in SchemaFacet
<1> SUFFICES ASSUME Verified(lock), OverallRisk(Drift) <= Low
             PROVE  DOMAIN before = DOMAIN found /\ \A id \in DOMAIN found : Cosmetic(id)
  BY DEF LowIsCosmetic
<1>1. /\ FromDependencies(found).dependencies = found
      /\ FromDependencies(found).checksum = Checksum(found)
  BY DEF FromDependencies
<1>2. lock.checksum = Checksum(before)
  BY DEF Verified, VerifiedChecksum
<1>3. CASE Checksum(before) = Checksum(found)
  BY <1>3, SameChecksum
<1>4. CASE Checksum(before) # Checksum(found)
  <2> DEFINE risks == {Drift[id] : id \in DOMAIN Drift}
  <2>1. /\ \A id \in DOMAIN Drift : Drift[id] = ChangeRisk(before, found, id)
        /\ DOMAIN Drift \subseteq DOMAIN before \union DOMAIN found
        /\ \A id \in (DOMAIN before \union DOMAIN found) \ DOMAIN Drift :
            ChangeRisk(before, found, id) = NoRisk
    BY <1>1, <1>2, <1>4, ReportLines DEF Drift
  <2>2. risks \subseteq Level
    BY <2>1, FoundKinds, SidesAreNamed, ChangeRiskIsLevel
  <2>3. MaxRisk(risks) \in Level /\ MaxRisk(risks) <= Low /\ \A r \in risks : r <= MaxRisk(risks)
    BY <2>2, MaxRiskIsLargest DEF OverallRisk
  <2>4. ASSUME NEW id \in DOMAIN before \union DOMAIN found
        PROVE  ChangeRisk(before, found, id) <= Low
    <3>1. CASE id \in DOMAIN Drift
      <4>1. Drift[id] \in risks
        BY <3>1
      <4>2. Drift[id] <= Low
        BY <2>2, <2>3, <4>1 DEF Level, Low
      <4> QED  BY <2>1, <3>1, <4>2
    <3>2. CASE id \notin DOMAIN Drift
      BY <2>1, <3>2 DEF NoRisk, Low
    <3> QED  BY <3>1, <3>2
  <2>5. ASSUME NEW id \in DOMAIN before \union DOMAIN found
        PROVE  id \in DOMAIN before \intersect DOMAIN found /\ Cosmetic(id)
    BY <2>4, FoundKinds, SidesAreNamed, LowChange
  <2> QED  BY <2>5
<1> QED
  BY <1>3, <1>4

\* A gate at `fail_on_risk = "medium"` that a comparison does not trip lets pass only texts that keep
\* their words and schemas that the comparison weighs, for any dependencies, facets and hand edits:
\* the fold of risk over facets and dependencies (engine.rs:82-86, model.rs:230) loses nothing.
THEOREM LowRiskIsCosmetic ==
    ASSUME FactsAreNamed
    PROVE  Spec => []LowIsCosmetic
<1>1. KindsOK => LowIsCosmetic
  BY LowIsCosmeticHolds
<1> QED
  BY <1>1, KindsAlwaysOK, PTL

--------------------------------------------------------------------------------
(* Drift that is not worth a report does not add up to any that is.        *)

\* Finding two recorded schemas equivalent is transitive.
SilenceIsTransitive ==
    \A x, y, z \in SchemaPayload \ {None} :
        x # z /\ SchemaFacts(x, y) = {} /\ SchemaFacts(y, z) = {} => SchemaFacts(x, z) = {}

\* Two dependencies between which nothing moved, but for schemas found equivalent.
AlikeDependencies(b, c) ==
    /\ b.kind = c.kind /\ DOMAIN b.facets = DOMAIN c.facets
    /\ \A name \in DOMAIN b.facets :
        b.facets[name].digest = c.facets[name].digest \/ EquivalentSchemas(b, c, name)

Alike(before, after) ==
    /\ DOMAIN before = DOMAIN after
    /\ \A id \in DOMAIN before : AlikeDependencies(before[id], after[id])

LEMMA AlikeByFingerprints ==
    ASSUME NEW b, NEW c, b.kind = c.kind,
           \A name \in DOMAIN b.facets \union DOMAIN c.facets :
                Fingerprint(b, name) = Fingerprint(c, name) \/ EquivalentSchemas(b, c, name)
    PROVE  AlikeDependencies(b, c)
<1>1. \A name \in DOMAIN b.facets \union DOMAIN c.facets :
        name \in DOMAIN b.facets /\ name \in DOMAIN c.facets
  BY DEF Fingerprint, EquivalentSchemas
<1>2. DOMAIN b.facets = DOMAIN c.facets
  BY <1>1
<1>3. \A name \in DOMAIN b.facets :
        b.facets[name].digest = c.facets[name].digest \/ EquivalentSchemas(b, c, name)
  BY <1>2 DEF Fingerprint
<1> QED  BY <1>2, <1>3 DEF AlikeDependencies

\* What is alike is not reported.
LEMMA AlikeHasNoRisk ==
    ASSUME NEW b, NEW c, AlikeDependencies(b, c)
    PROVE  MaxRisk(FacetRisks(b, c)) = NoRisk
<1>1. ASSUME NEW name \in DOMAIN b.facets \union DOMAIN c.facets
      PROVE  FacetRisk(b, c, name) = NoRisk
  <2>1. name \in DOMAIN b.facets /\ name \in DOMAIN c.facets
    BY DEF AlikeDependencies
  <2>2. CASE b.facets[name].digest = c.facets[name].digest
    BY <2>1, <2>2 DEF FacetRisk
  <2>3. CASE b.facets[name].digest # c.facets[name].digest
    <3>1. EquivalentSchemas(b, c, name) /\ FacetRisk(b, c, name) = ModifiedRisk(b, c, name)
      BY <2>1, <2>3 DEF FacetRisk, AlikeDependencies
    <3>2. b.kind = "tool" /\ name \in SchemaFacet /\ Named(b, c, name)
      BY <3>1 DEF EquivalentSchemas, Named
    <3> QED  BY <2>1, <3>1, <3>2, ToolSchemaRisk
  <2> QED  BY <2>2, <2>3
<1>2. \A r \in FacetRisks(b, c) : r = NoRisk
  BY <1>1 DEF FacetRisks
<1> QED  BY <1>2, NoRiskOfNothing

LEMMA AlikeIsSilent ==
    ASSUME NEW baseline, NEW current, Alike(baseline.dependencies, current.dependencies)
    PROVE  DOMAIN Report(baseline, current) = {}
<1> DEFINE before == baseline.dependencies
           after == current.dependencies
<1>1. ASSUME NEW id \in DOMAIN before \union DOMAIN after
      PROVE  ChangeRisk(before, after, id) = NoRisk
  <2>1. /\ id \in DOMAIN before /\ id \in DOMAIN after
        /\ AlikeDependencies(before[id], after[id]) /\ before[id].kind = after[id].kind
    BY DEF Alike, AlikeDependencies
  <2>2. MaxRisk(FacetRisks(before[id], after[id])) = NoRisk
    BY <2>1, AlikeHasNoRisk
  <2> QED  BY <2>1, <2>2 DEF ChangeRisk
<1> QED  BY <1>1, ReportLines

\* What is not reported is alike.
LEMMA SilentIsAlike ==
    ASSUME NEW before, NEW after,
           \A id \in DOMAIN before : before[id].kind \in Kind,
           \A id \in DOMAIN after : after[id].kind \in Kind,
           \A id \in DOMAIN before \intersect DOMAIN after : FactsNamed(before[id], after[id]),
           DOMAIN Report(FromDependencies(before), FromDependencies(after)) = {}
    PROVE  Alike(before, after)
<1>1. /\ FromDependencies(before).dependencies = before
      /\ FromDependencies(before).checksum = Checksum(before)
      /\ FromDependencies(after).dependencies = after
      /\ FromDependencies(after).checksum = Checksum(after)
  BY DEF FromDependencies
<1>2. ASSUME NEW id \in DOMAIN before \union DOMAIN after
      PROVE  id \in DOMAIN before \intersect DOMAIN after /\ AlikeDependencies(before[id], after[id])
  <2>1. Checksum(before) = Checksum(after) \/ ChangeRisk(before, after, id) = NoRisk
    BY <1>1, ReportLines
  <2>2. CASE Checksum(before) = Checksum(after)
    <3>1. /\ DOMAIN before = DOMAIN after /\ before[id].kind = after[id].kind
          /\ \A name \in DOMAIN before[id].facets \union DOMAIN after[id].facets :
                Fingerprint(before[id], name) = Fingerprint(after[id], name)
      BY <2>2, SameChecksum
    <3> QED  BY <3>1, AlikeByFingerprints
  <2>3. CASE ChangeRisk(before, after, id) = NoRisk
    <3>1. /\ id \in DOMAIN before \intersect DOMAIN after
          /\ before[id].kind = after[id].kind
          /\ \A name \in DOMAIN before[id].facets \union DOMAIN after[id].facets :
                \/ Fingerprint(before[id], name) = Fingerprint(after[id], name)
                \/ EquivalentSchemas(before[id], after[id], name)
      BY <2>3, ChangeRiskIsLevel
    <3> QED  BY <3>1, AlikeByFingerprints
  <2> QED  BY <2>1, <2>2, <2>3
<1> QED  BY <1>2 DEF Alike

LEMMA AlikeIsTransitive ==
    ASSUME SilenceIsTransitive, NEW id \in Id,
           NEW b \in Revisions[id], NEW c \in Revisions[id], NEW d \in Revisions[id],
           AlikeDependencies(b, c), AlikeDependencies(c, d)
    PROVE  AlikeDependencies(b, d)
<1>1. /\ b.kind = c.kind /\ c.kind = d.kind
      /\ DOMAIN b.facets = DOMAIN c.facets /\ DOMAIN c.facets = DOMAIN d.facets
  BY DEF AlikeDependencies
<1>2. ASSUME NEW name \in DOMAIN b.facets, b.facets[name].digest # d.facets[name].digest
      PROVE  EquivalentSchemas(b, d, name)
  <2> DEFINE x == b.facets[name]
             y == c.facets[name]
             z == d.facets[name]
  <2>1. /\ x.digest = y.digest \/ EquivalentSchemas(b, c, name)
        /\ y.digest = z.digest \/ EquivalentSchemas(c, d, name)
    BY <1>1, <1>2 DEF AlikeDependencies
  <2>2. b.kind = "tool" /\ c.kind = "tool" /\ d.kind = "tool" /\ name \in SchemaFacet
    BY <1>1, <1>2, <2>1 DEF EquivalentSchemas
  <2>3. /\ x.payload = x.digest /\ y.payload = y.digest /\ z.payload = z.digest
        /\ None \notin {x.payload, y.payload, z.payload}
    BY <1>1, <1>2, <2>2, DiffAssumption
  <2>4. {x.payload, y.payload, z.payload} \subseteq SchemaPayload
    BY <1>1, <1>2, <2>2, <2>3, RevisionsAreDependencies DEF KeepsSchemas
  <2>5. /\ x.digest = y.digest \/ SchemaFacts(x.payload, y.payload) = {}
        /\ y.digest = z.digest \/ SchemaFacts(y.payload, z.payload) = {}
    BY <2>1 DEF EquivalentSchemas
  <2> HIDE DEF x, y, z
  <2>6. SchemaFacts(x.payload, z.payload) = {}
    BY <1>2, <2>3, <2>4, <2>5 DEF SilenceIsTransitive, x, z
  <2> QED  BY <1>1, <1>2, <2>2, <2>3, <2>6 DEF EquivalentSchemas, x, z
<1> QED  BY <1>1, <1>2 DEF AlikeDependencies

\* As long as no step was reported, the lockfile keeps what could be found, and is alike to what is.
QuietInv ==
    quiet =>
        /\ \A id \in DOMAIN lock.dependencies : lock.dependencies[id] \in Revisions[id]
        /\ Alike(lock.dependencies, found)

LEMMA QuietInit == KindsOK /\ Init => QuietInv
<1> SUFFICES ASSUME KindsOK, Init PROVE QuietInv
  OBVIOUS
<1>1. lock.dependencies = found
  BY DEF Init, FromDependencies
<1> QED  BY <1>1 DEF QuietInv, KindsOK, Alike, AlikeDependencies

LEMMA QuietNext ==
    ASSUME FactsAreNamed, SilenceIsTransitive, KindsOK, KindsOK', QuietInv, [Next]_vars
    PROVE  QuietInv'
<1>1. ASSUME NEW id \in Id, Revise(id)  PROVE QuietInv'
  <2> SUFFICES ASSUME quiet'
               PROVE  /\ \A other \in DOMAIN lock'.dependencies :
                            lock'.dependencies[other] \in Revisions[other]
                      /\ Alike(lock'.dependencies, found')
    BY DEF QuietInv
  <2>1. /\ quiet /\ lock' = lock
        /\ DOMAIN Report(FromDependencies(found), FromDependencies(found')) = {}
    BY <1>1 DEF Revise
  <2>2. /\ \A other \in DOMAIN lock.dependencies : lock.dependencies[other] \in Revisions[other]
        /\ Alike(lock.dependencies, found)
    BY <2>1 DEF QuietInv
  <2>3. /\ \A other \in DOMAIN found : other \in Id /\ found[other] \in Revisions[other]
        /\ \A other \in DOMAIN found' : other \in Id /\ found'[other] \in Revisions[other]
    BY DEF KindsOK
  <2>4. Alike(found, found')
    <3>1. /\ \A other \in DOMAIN found : found[other].kind \in Kind /\ KeepsSchemas(found[other])
          /\ \A other \in DOMAIN found' : found'[other].kind \in Kind /\ KeepsSchemas(found'[other])
      BY <2>3, RevisionsAreDependencies DEF IsDependency
    <3>2. \A other \in DOMAIN found \intersect DOMAIN found' : FactsNamed(found[other], found'[other])
      BY <3>1 DEF FactsAreNamed, FactsNamed, Named, KeepsSchemas
    <3> QED  BY <2>1, <3>1, <3>2, SilentIsAlike
  <2>5. ASSUME NEW other \in DOMAIN lock.dependencies
        PROVE  AlikeDependencies(lock.dependencies[other], found'[other])
    <3>1. /\ other \in DOMAIN found /\ AlikeDependencies(lock.dependencies[other], found[other])
          /\ other \in DOMAIN found' /\ AlikeDependencies(found[other], found'[other])
      BY <2>2, <2>4 DEF Alike
    <3>2. /\ other \in Id /\ lock.dependencies[other] \in Revisions[other]
          /\ found[other] \in Revisions[other] /\ found'[other] \in Revisions[other]
      BY <2>2, <2>3, <3>1
    <3> QED  BY <3>1, <3>2, AlikeIsTransitive
  <2>6. DOMAIN lock.dependencies = DOMAIN found'
    BY <2>2, <2>4 DEF Alike
  <2> QED  BY <2>1, <2>2, <2>5, <2>6 DEF Alike
<1>2. ASSUME Snapshot  PROVE QuietInv'
  <2>1. lock'.dependencies = found /\ found' = found
    BY <1>2 DEF Snapshot, FromDependencies
  <2> QED  BY <2>1 DEF QuietInv, KindsOK, Alike, AlikeDependencies
<1>3. ASSUME NEW id \in Id, HandEdit(id)  PROVE QuietInv'
  BY <1>3 DEF HandEdit, QuietInv
<1>4. ASSUME UNCHANGED vars  PROVE QuietInv'
  BY <1>4 DEF vars, QuietInv
<1> QED
  BY <1>1, <1>2, <1>3, <1>4 DEF Next

LEMMA QuietIsSilent == QuietInv => DriftDoesNotAccumulate
<1>1. FromDependencies(found).dependencies = found
  BY DEF FromDependencies
<1> QED  BY <1>1, AlikeIsSilent DEF QuietInv, DriftDoesNotAccumulate, Drift

\* Revisions that were not worth a report one by one are not worth one together, for any number of
\* revisions of any dependencies and any comparison of schemas whose silence is transitive: what
\* schema.rs:156 calls equivalent can be left out of a report (analyze.rs:382-388) over and over.
THEOREM QuietStaysQuiet ==
    ASSUME FactsAreNamed, SilenceIsTransitive
    PROVE  Spec => []DriftDoesNotAccumulate
<1>1. Init => KindsOK /\ QuietInv
  BY KindsOKInit, QuietInit
<1>2. KindsOK /\ QuietInv /\ [Next]_vars => (KindsOK /\ QuietInv)'
  <2>1. ASSUME KindsOK, QuietInv, [Next]_vars  PROVE KindsOK' /\ QuietInv'
    <3>1. KindsOK'
      BY <2>1, KindsOKNext
    <3> QED  BY <2>1, <3>1, QuietNext
  <2> QED  BY <2>1
<1>3. KindsOK /\ QuietInv => DriftDoesNotAccumulate
  BY QuietIsSilent
<1> QED
  BY <1>1, <1>2, <1>3, PTL DEF Spec

--------------------------------------------------------------------------------
(* Induction over 0..n, and functions defined by it.                       *)

LessThan == {p \in Nat \X Nat : p[1] < p[2]}

LEMMA LeastOf ==
    ASSUME NEW T \in SUBSET Nat, T # {}
    PROVE  \E x \in T : \A y \in T : x <= y
<1>1. IsWellFoundedOn(LessThan, Nat)
  BY NatLessThanWellFounded DEF LessThan, OpToRel
<1>2. PICK x \in T : \A y \in T : <<y, x>> \notin LessThan
  BY <1>1, WFMin
<1>3. ASSUME NEW y \in T
      PROVE  x <= y
  <2>1. <<y, x>> \in LessThan <=> y < x
    BY DEF LessThan
  <2> QED  BY <1>2, <2>1
<1> QED  BY <1>3

\* Induction: what holds at 0, and at i + 1 when at i, holds up to n.
LEMMA UpTo ==
    ASSUME NEW n \in Nat, NEW Good, 0 \in Good, \A i \in 0..n - 1 : i \in Good => i + 1 \in Good
    PROVE  \A i \in 0..n : i \in Good
<1> DEFINE T == {i \in 0..n : i \notin Good}
<1> SUFFICES ASSUME T # {} PROVE FALSE
  OBVIOUS
<1>1. PICK x \in T : \A y \in T : x <= y
  <2>1. T \in SUBSET Nat
    OBVIOUS
  <2> HIDE DEF T
  <2> QED  BY <2>1, LeastOf
<1>2. x # 0 /\ x - 1 \in 0..n - 1 /\ x - 1 \in 0..n /\ x = (x - 1) + 1
  OBVIOUS
<1>3. x - 1 \in Good
  <2>1. x - 1 \notin T
    BY <1>1, <1>2
  <2> QED  BY <2>1, <1>2
<1> QED  BY <1>2, <1>3

\* f begins with a, and each value up to n comes from the one before it.
Iterates(a, F, n, f) ==
    f = [i \in 0..n |-> IF i = 0 THEN a ELSE F[<<i, f[i - 1]>>]]

LEMMA IteratesAt ==
    ASSUME NEW a, NEW F, NEW n, NEW f, Iterates(a, F, n, f)
    PROVE  \A i \in 0..n : f[i] = IF i = 0 THEN a ELSE F[<<i, f[i - 1]>>]
<1> DEFINE h == [i \in 0..n |-> IF i = 0 THEN a ELSE F[<<i, f[i - 1]>>]]
<1>1. \A i \in 0..n : h[i] = IF i = 0 THEN a ELSE F[<<i, f[i - 1]>>]
  OBVIOUS
<1>2. f = h
  BY DEF Iterates
<1> QED  BY <1>1, <1>2

LEMMA IterationExists ==
    ASSUME NEW n \in Nat, NEW S, NEW a \in S, NEW F, \A i \in 1..n : \A x \in S : F[<<i, x>>] \in S
    PROVE  \E f : Iterates(a, F, n, f) /\ \A i \in 0..n : f[i] \in S
<1> DEFINE Good == {m \in 0..n : \E f : Iterates(a, F, m, f) /\ \A i \in 0..m : f[i] \in S}
<1>1. 0 \in Good
  <2> DEFINE f == [i \in 0..0 |-> a]
  <2>1. \A i \in 0..0 : i = 0
    OBVIOUS
  <2>2. f = [i \in 0..0 |-> IF i = 0 THEN a ELSE F[<<i, f[i - 1]>>]]
    BY <2>1
  <2>3. Iterates(a, F, 0, f) /\ \A i \in 0..0 : f[i] \in S
    BY <2>2 DEF Iterates
  <2> HIDE DEF f
  <2> QED  BY <2>3
<1>2. ASSUME NEW m \in 0..n - 1, m \in Good
      PROVE  m + 1 \in Good
  <2>1. PICK f : Iterates(a, F, m, f) /\ \A i \in 0..m : f[i] \in S
    BY <1>2
  <2> DEFINE g == [i \in 0..m + 1 |-> IF i = 0 THEN a ELSE F[<<i, f[i - 1]>>]]
  <2>2. \A i \in 0..m : g[i] = f[i]
    <3>1. \A i \in 0..m : i \in 0..m + 1
      OBVIOUS
    <3> QED  BY <2>1, <3>1, IteratesAt
  <2>3. \A i \in 0..m + 1 : i # 0 => i \in 1..n /\ i - 1 \in 0..m
    OBVIOUS
  <2>4. \A i \in 0..m + 1 : i # 0 => g[i - 1] = f[i - 1]
    <3> HIDE DEF g
    <3> QED  BY <2>2, <2>3
  <2>5. g = [i \in 0..m + 1 |-> IF i = 0 THEN a ELSE F[<<i, g[i - 1]>>]]
    BY <2>4
  <2>6. \A i \in 0..m + 1 : g[i] \in S
    BY <2>1, <2>3
  <2>7. Iterates(a, F, m + 1, g)
    BY <2>5 DEF Iterates
  <2>8. m + 1 \in 0..n
    OBVIOUS
  <2> HIDE DEF g
  <2> QED  BY <2>6, <2>7, <2>8
<1>3. n \in Good
  <2> HIDE DEF Good
  <2> QED  BY <1>1, <1>2, UpTo
<1> QED  BY <1>3

--------------------------------------------------------------------------------
(* The comparison of two schemas, level by level.                          *)

LEMMA WhatLiesWithin ==
    ASSUME NEW s \in Schemas, IsNode(s)
    PROVE  /\ \A name \in DOMAIN Properties(s) : Properties(s)[name] \in Schemas
           /\ Get(s, "items") \in Rules /\ Get(s, "additionalProperties") \in Rules
           /\ \A key \in DOMAIN s : Get(s, key) = s[key] /\ s[key] # Absent
           /\ s \notin Odd \union {Always, Never, Absent}
BY SchemaAssumption DEF Get, Rules, IsNode

\* Items are compared by what lies one level deeper only if both are nodes.
LEMMA ItemsBelow ==
    ASSUME NEW b \in Schemas, NEW c \in Schemas, IsNode(b), IsNode(c), NEW below
    PROVE  LET x == Get(b, "items")
               y == Get(c, "items")
           IN  \/ x = y /\ CompareItems(b, c, below) = {}
               \/ x # y /\ CompareItems(b, c, below) = {"Generic"}
               \/ /\ x # y /\ x \in Schemas /\ y \in Schemas /\ IsNode(x) /\ IsNode(y)
                  /\ CompareItems(b, c, below) = below[<<x, y>>]
<1> DEFINE x == Get(b, "items")
           y == Get(c, "items")
<1>1. CASE x = y
  BY <1>1 DEF CompareItems, Differ
<1>2. CASE x # y /\ (x = Absent \/ y = Absent \/ ~IsNode(x) \/ ~IsNode(y))
  BY <1>2 DEF CompareItems, Differ
<1>3. CASE x # y /\ x # Absent /\ y # Absent /\ IsNode(x) /\ IsNode(y)
  <2>1. x \in Schemas /\ y \in Schemas
    BY <1>3, WhatLiesWithin DEF Rules
  <2>2. x = b.items /\ y = c.items
    BY <1>3 DEF Get
  <2>3. CompareItems(b, c, below) = below[<<b.items, c.items>>]
    BY <1>3 DEF CompareItems, Differ
  <2> QED  BY <1>3, <2>1, <2>2, <2>3
<1> QED  BY <1>1, <1>2, <1>3

\* What the comparison of pairs of schemas can come to.
Comparisons == [Pairs -> SUBSET SchemaFact]

LEMMA SchemaFactIs ==
    SchemaFact = {"RequiredAdded", "RequiredRemoved", "PropertyRemoved", "OptionalPropertyAdded",
                  "TypeChanged", "EnumNarrowed", "EnumExpanded", "DescriptionChanged",
                  "AdditionalPropertiesTightened", "AdditionalPropertiesLoosened", "Generic"}
BY DEF SchemaFact, InputRisk

LEMMA CompareWithinNames ==
    ASSUME NEW b \in Schemas, NEW c \in Schemas, IsNode(b), IsNode(c), NEW below \in Comparisons
    PROVE  CompareWithin(b, c, below) \subseteq SchemaFact
<1>1. /\ CompareRest(b, c) \subseteq SchemaFact /\ CompareProperties(b, c) \subseteq SchemaFact
      /\ CompareRequired(b, c) \subseteq SchemaFact
  BY SchemaFactIs DEF CompareRest, CompareProperties, CompareRequired, Fact
<1>2. CompareType(b, c) \subseteq SchemaFact /\ CompareDescription(b, c) \subseteq SchemaFact
  BY SchemaFactIs DEF CompareType, CompareDescription, Fact
<1>3. CompareEnum(b, c) \subseteq SchemaFact
  BY SchemaFactIs DEF CompareEnum, Fact
<1>4. CompareAdditionalProperties(b, c) \subseteq SchemaFact
  BY SchemaFactIs DEF CompareAdditionalProperties
<1>5. \A x, y \in Schemas : below[<<x, y>>] \subseteq SchemaFact
  BY DEF Comparisons, Pairs
<1>6. CompareItems(b, c, below) \subseteq SchemaFact
  <2> DEFINE x == Get(b, "items")
             y == Get(c, "items")
             items == CompareItems(b, c, below)
  <2>1. \/ items = {} \/ items = {"Generic"}
        \/ x \in Schemas /\ y \in Schemas /\ items = below[<<x, y>>]
    BY ItemsBelow
  <2>2. {} \subseteq SchemaFact /\ {"Generic"} \subseteq SchemaFact
    BY SchemaFactIs
  <2> HIDE DEF x, y, items
  <2>3. items \subseteq SchemaFact
    BY <1>5, <2>1, <2>2
  <2> QED  BY <2>3 DEF items
<1>7. CompareChildren(b, c, below) \subseteq SchemaFact
  <2>1. \A name \in DOMAIN Properties(b) \intersect DOMAIN Properties(c) :
            below[<<Properties(b)[name], Properties(c)[name]>>] \subseteq SchemaFact
    BY <1>5, WhatLiesWithin
  <2> QED  BY <2>1 DEF CompareChildren
<1> QED  BY <1>1, <1>2, <1>3, <1>4, <1>6, <1>7 DEF CompareWithin

\* One level of the comparison of every pair.
LevelOf(left, below) == [pair \in Pairs |-> CompareNode(pair[1], pair[2], left, below)]

LEMMA LevelIsComparison ==
    ASSUME NEW left \in Nat, NEW below, left = 0 \/ below \in Comparisons
    PROVE  LevelOf(left, below) \in Comparisons
<1>1. ASSUME NEW b \in Schemas, NEW c \in Schemas
      PROVE  CompareNode(b, c, left, below) \subseteq SchemaFact
  <2>1. CASE b = c \/ left = 0 \/ ~IsNode(b) \/ ~IsNode(c)
    BY <2>1, SchemaFactIs DEF CompareNode
  <2>2. CASE b # c /\ left # 0 /\ IsNode(b) /\ IsNode(c)
    <3>1. CompareNode(b, c, left, below) = CompareWithin(b, c, below)
      BY <2>2 DEF CompareNode
    <3> QED  BY <2>2, <3>1, CompareWithinNames
  <2> QED  BY <2>1, <2>2
<1> QED  BY <1>1 DEF LevelOf, Comparisons, Pairs

Levels == MaxDepth + 1

LEMMA LevelsIsNat == Levels \in Nat /\ 0 \in 0..Levels /\ Levels \in 0..Levels /\ Levels # 0
BY SchemaAssumption DEF Levels

\* The recursion is well defined: there is a function that meets its equation.
LEMMA ComparedIs ==
    \A left \in 0..Levels : Compared[left] = LevelOf(left, Compared[left - 1])
<1> DEFINE none == [pair \in Pairs |-> {}]
           a == LevelOf(0, none)
           F == [x \in (1..Levels) \X Comparisons |-> LevelOf(x[1], x[2])]
           step(f) == [left \in 0..Levels |-> LevelOf(left, f[left - 1])]
<1>1. a \in Comparisons
  BY LevelIsComparison
<1>2. \A i \in 1..Levels : \A x \in Comparisons : F[<<i, x>>] = LevelOf(i, x)
  OBVIOUS
<1>3. \A i \in 1..Levels : \A x \in Comparisons : F[<<i, x>>] \in Comparisons
  <2>1. \A i \in 1..Levels : i \in Nat
    BY LevelsIsNat
  <2> HIDE DEF F
  <2> QED  BY <1>2, <2>1, LevelIsComparison
<1>4. PICK f : Iterates(a, F, Levels, f) /\ \A i \in 0..Levels : f[i] \in Comparisons
  <2> HIDE DEF a, F
  <2> QED  BY <1>1, <1>3, LevelsIsNat, IterationExists
<1>5. ASSUME NEW left \in 0..Levels
      PROVE  f[left] = LevelOf(left, f[left - 1])
  <2>1. f[left] = IF left = 0 THEN a ELSE F[<<left, f[left - 1]>>]
    BY <1>4, IteratesAt
  <2>2. CASE left = 0
    <3>1. \A below : LevelOf(0, below) = a
      BY DEF LevelOf, CompareNode
    <3> QED  BY <2>1, <2>2, <3>1
  <2>3. CASE left # 0
    <3>1. left \in 1..Levels /\ left - 1 \in 0..Levels
      BY <2>3, LevelsIsNat
    <3> HIDE DEF F, a
    <3> QED  BY <1>2, <1>4, <2>1, <2>3, <3>1
  <2> QED  BY <2>2, <2>3
<1>6. f = step(f)
  <2>1. f = [i \in 0..Levels |-> f[i]]
    BY <1>4 DEF Iterates
  <2> HIDE DEF a, F
  <2> QED  BY <1>5, <2>1
<1>7. Compared = CHOOSE g : g = step(g)
  BY DEF Compared, LevelOf, Levels
<1>8. Compared = step(Compared)
  <2> HIDE DEF step
  <2> QED  BY <1>6, <1>7
<1> QED  BY <1>8

LEMMA ComparedIsComparison ==
    \A left \in 0..Levels : Compared[left] \in Comparisons
<1> DEFINE Good == {left \in 0..Levels : Compared[left] \in Comparisons}
<1>1. 0 \in Good
  BY ComparedIs, LevelIsComparison, LevelsIsNat
<1>2. ASSUME NEW left \in 0..Levels - 1, left \in Good
      PROVE  left + 1 \in Good
  <2>1. left + 1 \in 0..Levels /\ left + 1 \in Nat /\ (left + 1) - 1 = left
    BY LevelsIsNat
  <2> QED  BY <1>2, <2>1, ComparedIs, LevelIsComparison
<1>3. \A left \in 0..Levels : left \in Good
  <2> HIDE DEF Good
  <2> QED  BY <1>1, <1>2, LevelsIsNat, UpTo
<1> QED  BY <1>3

\* One level of the comparison of one pair.
LEMMA ComparedAt ==
    ASSUME NEW left \in 0..Levels, NEW b \in Schemas, NEW c \in Schemas
    PROVE  Compared[left][<<b, c>>] = CompareNode(b, c, left, Compared[left - 1])
<1>1. Compared[left] = LevelOf(left, Compared[left - 1])
  BY ComparedIs
<1> QED  BY <1>1 DEF LevelOf, Pairs

\* Every fact that a comparison reports has a risk, so what is proved of Diff holds of Contract.
THEOREM SchemaFactsAreNamed == FactsAreNamed
<1> SUFFICES ASSUME NEW x \in SchemaPayload \ {None}, NEW y \in SchemaPayload \ {None}
             PROVE  SchemaFacts(x, y) \subseteq SchemaFact
  BY DEF FactsAreNamed
<1>1. x \in Schemas /\ y \in Schemas /\ SchemaFacts(x, y) = Compare(x, y)
  BY ContractAssumption
<1>2. Compared[Levels][<<x, y>>] \subseteq SchemaFact
  BY <1>1, ComparedIsComparison, LevelsIsNat DEF Comparisons, Pairs
<1>3. Compare(x, y) = IF x = y THEN {"Generic"} ELSE Compared[Levels][<<x, y>>]
  BY DEF Compare, Levels
<1> QED  BY <1>1, <1>2, <1>3, SchemaFactIs

--------------------------------------------------------------------------------
(* Nothing named: what a comparison leaves when it reports no fact.        *)

SameEnum(b, c) ==
    LET unread == Odd \union {Absent}
        before == Get(b, "enum")
        after == Get(c, "enum")
    IN  \/ before \in unread /\ before = after
        \/ before \notin unread /\ after \notin unread /\ before \subseteq after /\ after \subseteq before

SameAdmission(b, c) ==
    \/ Get(b, "additionalProperties") = Get(c, "additionalProperties")
    \/ Admission(b) = "Anything" /\ Admission(c) = "Anything"

SameItems(b, c, below) ==
    LET x == Get(b, "items")
        y == Get(c, "items")
    IN  \/ x = y
        \/ x \in Schemas /\ y \in Schemas /\ IsNode(x) /\ IsNode(y) /\ below[<<x, y>>] = {}

SameProperties(b, c, below) ==
    /\ DOMAIN Properties(b) = DOMAIN Properties(c)
    /\ \A name \in DOMAIN Properties(b) : below[<<Properties(b)[name], Properties(c)[name]>>] = {}

\* As many names are required among the properties.
SameRequired(b, c) ==
    \A name \in DOMAIN Properties(b) : name \in Required(b) <=> name \in Required(c)

\* Two nodes with nothing between them, if `below` says so of what lies within.
Silent(b, c, below) ==
    /\ \A key : key \notin InterpretedKeys => Get(b, key) = Get(c, key)
    /\ Get(b, "type") = Get(c, "type") /\ Get(b, "description") = Get(c, "description")
    /\ ~Unread(b, c, "properties") /\ ~Unread(b, c, "required")
    /\ SameProperties(b, c, below) /\ SameRequired(b, c)
    /\ SameEnum(b, c) /\ SameAdmission(b, c) /\ SameItems(b, c, below)

LEMMA FactOrNot ==
    ASSUME NEW condition \in BOOLEAN, NEW fact
    PROVE  Fact(condition, fact) = {} <=> ~condition
BY DEF Fact

LEMMA NamesSilent ==
    ASSUME NEW b, NEW c, CompareProperties(b, c) = {}, CompareRequired(b, c) = {}
    PROVE  /\ DOMAIN Properties(b) = DOMAIN Properties(c) /\ SameRequired(b, c)
           /\ ~Unread(b, c, "properties") /\ ~Unread(b, c, "required")
<1> DEFINE before == DOMAIN Properties(b)
           after == DOMAIN Properties(c)
<1>1. before \ after = {} /\ (after \ before) \ Required(c) = {} /\ ~Unread(b, c, "properties")
  BY DEF CompareProperties, Fact
<1>2. RequiredAdded(b, c) = {} /\ RequiredRemoved(b, c) = {} /\ ~Unread(b, c, "required")
  BY DEF CompareRequired, Fact
<1>3. /\ Required(c) \intersect (after \ before) = {}
      /\ (Required(c) \ Required(b)) \intersect before = {}
      /\ (Required(b) \ Required(c)) \intersect after = {}
  BY <1>2 DEF RequiredAdded, RequiredRemoved
<1> HIDE DEF before, after
<1>4. before = after
  BY <1>1, <1>3
<1>5. \A name \in before : name \in Required(b) <=> name \in Required(c)
  BY <1>3, <1>4
<1> QED  BY <1>1, <1>2, <1>4, <1>5 DEF SameRequired, before, after

LEMMA NamesSame ==
    ASSUME NEW b, NEW c, DOMAIN Properties(b) = DOMAIN Properties(c), SameRequired(b, c),
           ~Unread(b, c, "properties"), ~Unread(b, c, "required")
    PROVE  CompareProperties(b, c) = {} /\ CompareRequired(b, c) = {}
<1>1. CompareProperties(b, c) = {}
  BY DEF CompareProperties, Fact
<1>2. RequiredAdded(b, c) = {} /\ RequiredRemoved(b, c) = {}
  BY DEF RequiredAdded, RequiredRemoved, SameRequired
<1> QED  BY <1>1, <1>2 DEF CompareRequired, Fact

LEMMA EnumSilent ==
    ASSUME NEW b, NEW c
    PROVE  CompareEnum(b, c) = {} <=> SameEnum(b, c)
<1> DEFINE unread == Odd \union {Absent}
           before == Get(b, "enum")
           after == Get(c, "enum")
           enums == CompareEnum(b, c)
<1>1. CASE before \in unread /\ after \in unread
  <2>1. enums = Fact(before # after, "Generic")
    BY <1>1 DEF CompareEnum
  <2>2. SameEnum(b, c) <=> before = after
    BY <1>1 DEF SameEnum
  <2> QED  BY <2>1, <2>2 DEF Fact
<1>2. CASE before \in unread /\ after \notin unread
  <2>1. enums = {"EnumNarrowed"}
    BY <1>2 DEF CompareEnum
  <2>2. ~SameEnum(b, c)
    BY <1>2 DEF SameEnum
  <2> QED  BY <2>1, <2>2
<1>3. CASE before \notin unread /\ after \in unread
  <2>1. enums = {"EnumExpanded"}
    BY <1>3 DEF CompareEnum
  <2>2. ~SameEnum(b, c)
    BY <1>3 DEF SameEnum
  <2> QED  BY <2>1, <2>2
<1>4. CASE before \notin unread /\ after \notin unread
  <2>1. enums = Fact(before \ after # {}, "EnumNarrowed") \union Fact(after \ before # {}, "EnumExpanded")
    BY <1>4 DEF CompareEnum
  <2>2. SameEnum(b, c) <=> before \subseteq after /\ after \subseteq before
    BY <1>4 DEF SameEnum
  <2> HIDE DEF before, after, enums
  <2> QED  BY <2>1, <2>2 DEF Fact, enums
<1> QED  BY <1>1, <1>2, <1>3, <1>4

LEMMA AdmissionSilent ==
    ASSUME NEW b, NEW c
    PROVE  CompareAdditionalProperties(b, c) = {} <=> SameAdmission(b, c)
<1>1. CASE ~Differ(b, c, "additionalProperties")
  <2>1. Admission(b) = Admission(c) /\ SameAdmission(b, c)
    BY <1>1 DEF Admission, SameAdmission, Differ
  <2> QED  BY <1>1, <2>1 DEF CompareAdditionalProperties
<1>2. CASE Differ(b, c, "additionalProperties")
  <2>1. SameAdmission(b, c) <=> Admission(b) = "Anything" /\ Admission(c) = "Anything"
    BY <1>2 DEF SameAdmission, Differ
  <2> QED  BY <1>2, <2>1 DEF CompareAdditionalProperties
<1> QED  BY <1>1, <1>2

LEMMA ItemsSilent ==
    ASSUME NEW b \in Schemas, NEW c \in Schemas, IsNode(b), IsNode(c), NEW below
    PROVE  CompareItems(b, c, below) = {} <=> SameItems(b, c, below)
<1> DEFINE x == Get(b, "items")
           y == Get(c, "items")
           items == CompareItems(b, c, below)
<1>1. CASE x = y
  <2>1. items = {}
    BY <1>1 DEF CompareItems, Differ
  <2> QED  BY <1>1, <2>1 DEF SameItems
<1>2. CASE x # y /\ (x = Absent \/ y = Absent \/ ~IsNode(x) \/ ~IsNode(y))
  <2>1. items = {"Generic"}
    BY <1>2 DEF CompareItems, Differ
  <2>2. ~SameItems(b, c, below)
    BY <1>2, SchemaAssumption DEF SameItems
  <2> QED  BY <2>1, <2>2
<1>3. CASE x # y /\ x # Absent /\ y # Absent /\ IsNode(x) /\ IsNode(y)
  <2>1. x \in Schemas /\ y \in Schemas
    BY <1>3, WhatLiesWithin DEF Rules
  <2>2. x = b.items /\ y = c.items
    BY <1>3 DEF Get
  <2>3. items = below[<<x, y>>]
    BY <1>3, <2>2 DEF CompareItems, Differ
  <2>4. SameItems(b, c, below) <=> below[<<x, y>>] = {}
    BY <1>3, <2>1 DEF SameItems
  <2> QED  BY <2>3, <2>4
<1> QED  BY <1>1, <1>2, <1>3

LEMMA RestSilent ==
    ASSUME NEW b, NEW c
    PROVE  CompareRest(b, c) = {} <=> \A key : key \notin InterpretedKeys => Get(b, key) = Get(c, key)
<1>1. CompareRest(b, c) = {} <=>
        \A key \in (DOMAIN b \union DOMAIN c) \ InterpretedKeys : Get(b, key) = Get(c, key)
  BY DEF CompareRest, Fact, Differ
<1>2. \A key : key \notin DOMAIN b \union DOMAIN c => Get(b, key) = Get(c, key)
  BY DEF Get
<1> QED  BY <1>1, <1>2

LEMMA ChildrenSilent ==
    ASSUME NEW b, NEW c, NEW below, DOMAIN Properties(b) = DOMAIN Properties(c)
    PROVE  CompareChildren(b, c, below) = {} <=> SameProperties(b, c, below)
<1> DEFINE facts(name) == below[<<Properties(b)[name], Properties(c)[name]>>]
           names == DOMAIN Properties(b)
<1>1. CompareChildren(b, c, below) = UNION {facts(name) : name \in names}
  BY DEF CompareChildren
<1>2. SameProperties(b, c, below) <=> \A name \in names : facts(name) = {}
  BY DEF SameProperties
<1> HIDE DEF facts, names
<1> QED  BY <1>1, <1>2

\* No fact is reported of two nodes exactly if they are alike in every keyword.
LEMMA SilenceIs ==
    ASSUME NEW b \in Schemas, NEW c \in Schemas, IsNode(b), IsNode(c), NEW below
    PROVE  CompareWithin(b, c, below) = {} <=> Silent(b, c, below)
<1>1. CompareType(b, c) = {} <=> Get(b, "type") = Get(c, "type")
  BY DEF CompareType, Fact, Differ
<1>2. CompareDescription(b, c) = {} <=> Get(b, "description") = Get(c, "description")
  BY DEF CompareDescription, Fact, Differ
<1>3. CompareProperties(b, c) = {} /\ CompareRequired(b, c) = {} <=>
        /\ DOMAIN Properties(b) = DOMAIN Properties(c) /\ SameRequired(b, c)
        /\ ~Unread(b, c, "properties") /\ ~Unread(b, c, "required")
  BY NamesSilent, NamesSame
<1>4. CompareWithin(b, c, below) = {} <=>
        /\ CompareRest(b, c) = {} /\ CompareProperties(b, c) = {} /\ CompareRequired(b, c) = {}
        /\ CompareType(b, c) = {} /\ CompareDescription(b, c) = {} /\ CompareEnum(b, c) = {}
        /\ CompareAdditionalProperties(b, c) = {} /\ CompareItems(b, c, below) = {}
        /\ CompareChildren(b, c, below) = {}
  BY DEF CompareWithin
<1>5. SameProperties(b, c, below) => DOMAIN Properties(b) = DOMAIN Properties(c)
  BY DEF SameProperties
<1> QED
  BY <1>1, <1>2, <1>3, <1>4, <1>5, RestSilent, EnumSilent, AdmissionSilent, ItemsSilent,
     ChildrenSilent, Zenon DEF Silent

\* The same of two schemas, with so many levels left.
LEMMA SilentAt ==
    ASSUME NEW left \in 0..Levels, NEW b \in Schemas, NEW c \in Schemas
    PROVE  Compared[left][<<b, c>>] = {} <=>
            \/ b = c
            \/ left # 0 /\ IsNode(b) /\ IsNode(c) /\ Silent(b, c, Compared[left - 1])
<1>1. Compared[left][<<b, c>>] = CompareNode(b, c, left, Compared[left - 1])
  BY ComparedAt
<1>2. CASE b # c /\ left # 0 /\ IsNode(b) /\ IsNode(c)
  <2>1. CompareNode(b, c, left, Compared[left - 1]) = CompareWithin(b, c, Compared[left - 1])
    BY <1>2 DEF CompareNode
  <2> QED  BY <1>1, <1>2, <2>1, SilenceIs
<1>3. CASE b = c \/ left = 0 \/ ~IsNode(b) \/ ~IsNode(c)
  BY <1>1, <1>3 DEF CompareNode
<1> QED  BY <1>2, <1>3

SilentPair(left, b, c) == Compared[left][<<b, c>>] = {}

LEMMA SilentStep ==
    ASSUME NEW i \in 0..Levels - 1, NEW b \in Schemas, NEW c \in Schemas, b # c
    PROVE  SilentPair(i + 1, b, c) <=> IsNode(b) /\ IsNode(c) /\ Silent(b, c, Compared[i])
<1>1. i + 1 \in 0..Levels /\ (i + 1) - 1 = i /\ i + 1 # 0
  BY LevelsIsNat
<1>2. Compared[i + 1][<<b, c>>] = {} <=>
        \/ b = c
        \/ i + 1 # 0 /\ IsNode(b) /\ IsNode(c) /\ Silent(b, c, Compared[(i + 1) - 1])
  BY <1>1, SilentAt
<1> QED  BY <1>1, <1>2 DEF SilentPair

LEMMA SilenceIsSymmetric ==
    ASSUME NEW left \in 0..Levels, NEW b \in Schemas, NEW c \in Schemas, SilentPair(left, b, c)
    PROVE  SilentPair(left, c, b)
<1> DEFINE Good == {i \in 0..Levels : \A x, y \in Schemas : SilentPair(i, x, y) => SilentPair(i, y, x)}
<1>1. 0 \in Good
  BY LevelsIsNat, SilentAt DEF SilentPair
<1>2. ASSUME NEW i \in 0..Levels - 1, i \in Good
      PROVE  i + 1 \in Good
  <2>1. i + 1 \in 0..Levels /\ (i + 1) - 1 = i /\ i + 1 # 0 /\ i \in 0..Levels
    BY LevelsIsNat
  <2> SUFFICES ASSUME NEW x \in Schemas, NEW y \in Schemas, SilentPair(i + 1, x, y), x # y
               PROVE  SilentPair(i + 1, y, x)
    BY <2>1
  <2> DEFINE below == Compared[i]
  <2>2. IsNode(x) /\ IsNode(y) /\ Silent(x, y, below)
    BY SilentStep
  <2>3. \A s, t \in Schemas : below[<<s, t>>] = {} => below[<<t, s>>] = {}
    BY <1>2 DEF SilentPair
  <2> HIDE DEF below
  <2>4. SameProperties(y, x, below) /\ SameRequired(y, x)
    BY <2>2, <2>3, WhatLiesWithin DEF Silent, SameProperties, SameRequired
  <2>5. SameEnum(y, x) /\ SameAdmission(y, x)
    BY <2>2 DEF Silent, SameEnum, SameAdmission
  <2>6. SameItems(y, x, below)
    BY <2>2, <2>3 DEF Silent, SameItems
  <2>7. ~Unread(y, x, "properties") /\ ~Unread(y, x, "required")
    BY <2>2 DEF Silent, Unread, Differ
  <2>8. Silent(y, x, below)
    BY <2>2, <2>4, <2>5, <2>6, <2>7 DEF Silent
  <2> QED  BY <2>2, <2>8, SilentStep DEF below
<1>3. \A i \in 0..Levels : i \in Good
  <2> HIDE DEF Good
  <2> QED  BY <1>1, <1>2, LevelsIsNat, UpTo
<1> QED  BY <1>3

LEMMA SilenceGoesOn ==
    ASSUME NEW left \in 0..Levels, NEW b \in Schemas, NEW c \in Schemas, NEW d \in Schemas,
           SilentPair(left, b, c), SilentPair(left, c, d)
    PROVE  SilentPair(left, b, d)
<1> DEFINE Good == {i \in 0..Levels : \A x, y, z \in Schemas :
                        SilentPair(i, x, y) /\ SilentPair(i, y, z) => SilentPair(i, x, z)}
<1>1. 0 \in Good
  BY LevelsIsNat, SilentAt DEF SilentPair
<1>2. ASSUME NEW i \in 0..Levels - 1, i \in Good
      PROVE  i + 1 \in Good
  <2>1. i + 1 \in 0..Levels /\ (i + 1) - 1 = i /\ i + 1 # 0 /\ i \in 0..Levels
    BY LevelsIsNat
  <2> SUFFICES ASSUME NEW x \in Schemas, NEW y \in Schemas, NEW z \in Schemas, x # y, y # z,
                      SilentPair(i + 1, x, y), SilentPair(i + 1, y, z)
               PROVE  SilentPair(i + 1, x, z)
    BY <2>1
  <2> DEFINE below == Compared[i]
  <2>2. /\ IsNode(x) /\ IsNode(y) /\ IsNode(z)
        /\ Silent(x, y, below) /\ Silent(y, z, below)
    <3>1. IsNode(x) /\ IsNode(y) /\ Silent(x, y, below)
      BY SilentStep
    <3>2. IsNode(z) /\ Silent(y, z, below)
      BY SilentStep
    <3> QED  BY <3>1, <3>2
  <2>3. \A r, s, t \in Schemas : below[<<r, s>>] = {} /\ below[<<s, t>>] = {} => below[<<r, t>>] = {}
    BY <1>2 DEF SilentPair
  <2> HIDE DEF below
  <2>4. SameProperties(x, z, below)
    <3>1. /\ DOMAIN Properties(x) = DOMAIN Properties(y) /\ DOMAIN Properties(y) = DOMAIN Properties(z)
          /\ \A name \in DOMAIN Properties(x) :
                /\ below[<<Properties(x)[name], Properties(y)[name]>>] = {}
                /\ below[<<Properties(y)[name], Properties(z)[name]>>] = {}
      BY <2>2 DEF Silent, SameProperties
    <3>2. \A name \in DOMAIN Properties(x) :
            Properties(x)[name] \in Schemas /\ Properties(y)[name] \in Schemas /\ Properties(z)[name] \in Schemas
      BY <2>2, <3>1, WhatLiesWithin
    <3>3. \A name \in DOMAIN Properties(x) : below[<<Properties(x)[name], Properties(z)[name]>>] = {}
      <4> SUFFICES ASSUME NEW name \in DOMAIN Properties(x)
                   PROVE  below[<<Properties(x)[name], Properties(z)[name]>>] = {}
        OBVIOUS
      <4> DEFINE r == Properties(x)[name]
                 s == Properties(y)[name]
                 t == Properties(z)[name]
      <4>1. r \in Schemas /\ s \in Schemas /\ t \in Schemas /\ below[<<r, s>>] = {} /\ below[<<s, t>>] = {}
        BY <3>1, <3>2
      <4> HIDE DEF r, s, t
      <4>2. below[<<r, t>>] = {}
        BY <2>3, <4>1
      <4> QED  BY <4>2 DEF r, t
    <3> QED  BY <3>1, <3>3 DEF SameProperties
  <2>5. SameRequired(x, z)
    BY <2>2 DEF Silent, SameProperties, SameRequired
  <2>6. SameEnum(x, z) /\ SameAdmission(x, z)
    <3>1. SameEnum(x, y) /\ SameEnum(y, z) /\ SameAdmission(x, y) /\ SameAdmission(y, z)
      BY <2>2 DEF Silent
    <3>2. SameEnum(x, z)
      BY <3>1 DEF SameEnum
    <3>3. \A s, t \in {x, y, z} :
            Get(s, "additionalProperties") = Get(t, "additionalProperties") => Admission(s) = Admission(t)
      BY DEF Admission
    <3>4. SameAdmission(x, z)
      BY <3>1, <3>3 DEF SameAdmission
    <3> QED  BY <3>2, <3>4
  <2>7. SameItems(x, z, below)
    BY <2>2, <2>3 DEF Silent, SameItems
  <2>8. ~Unread(x, z, "properties") /\ ~Unread(x, z, "required")
    BY <2>2 DEF Silent, Unread, Differ
  <2>9. Silent(x, z, below)
    BY <2>2, <2>4, <2>5, <2>6, <2>7, <2>8 DEF Silent
  <2>10. x = z => SilentPair(i + 1, x, z)
    BY <2>1, SilentAt DEF SilentPair
  <2> QED  BY <2>2, <2>9, <2>10, SilentStep DEF below
<1>3. \A i \in 0..Levels : i \in Good
  <2> HIDE DEF Good
  <2> QED  BY <1>1, <1>2, LevelsIsNat, UpTo
<1> QED  BY <1>3

\* What is found equivalent step by step is found equivalent at once (schema.rs:124-350), so what is
\* proved of Diff about revisions that add up holds of Contract.
THEOREM SchemaSilenceIsTransitive == SilenceIsTransitive
<1> SUFFICES ASSUME NEW x \in SchemaPayload \ {None}, NEW y \in SchemaPayload \ {None},
                    NEW z \in SchemaPayload \ {None},
                    x # z, SchemaFacts(x, y) = {}, SchemaFacts(y, z) = {}
             PROVE  SchemaFacts(x, z) = {}
  BY DEF SilenceIsTransitive
<1>1. x \in Schemas /\ y \in Schemas /\ z \in Schemas
  BY ContractAssumption
<1>2. \A s, t \in Schemas : SchemaFacts(s, t) = IF s = t THEN {"Generic"} ELSE Compared[Levels][<<s, t>>]
  BY ContractAssumption DEF Compare, Levels
<1>3. SilentPair(Levels, x, y) /\ SilentPair(Levels, y, z)
  BY <1>1, <1>2 DEF SilentPair
<1>4. SilentPair(Levels, x, z)
  BY <1>1, <1>3, LevelsIsNat, SilenceGoesOn
<1> QED  BY <1>1, <1>2, <1>4 DEF SilentPair

\* With the comparison of schema.rs, drift that is not reported step by step is not reported at all,
\* for any schemas, any depth of descent and any number of revisions.
THEOREM DriftNeverAccumulates == Spec => []DriftDoesNotAccumulate
BY SchemaFactsAreNamed, SchemaSilenceIsTransitive, QuietStaysQuiet

--------------------------------------------------------------------------------
(* What is admitted, declared and constrained, level by level.             *)

AdmittedLevel(height, below) ==
    {pair \in Rules \X Values : height = 0 \/ AdmitsValue(pair[1], pair[2], below)}

LEMMA AdmittedIs ==
    \A height \in 0..Height : Admitted[height] = AdmittedLevel(height, Admitted[height - 1])
<1> DEFINE S == SUBSET (Rules \X Values)
           a == AdmittedLevel(0, {})
           F == [x \in (1..Height) \X S |-> AdmittedLevel(x[1], x[2])]
           step(f) == [height \in 0..Height |-> AdmittedLevel(height, f[height - 1])]
<1>1. \A i, x : AdmittedLevel(i, x) \in S
  BY DEF AdmittedLevel
<1>2. \A i \in 1..Height : \A x \in S : F[<<i, x>>] = AdmittedLevel(i, x)
  OBVIOUS
<1>3. PICK f : Iterates(a, F, Height, f) /\ \A i \in 0..Height : f[i] \in S
  <2> HIDE DEF F, S
  <2>1. a \in S /\ \A i \in 1..Height : \A x \in S : F[<<i, x>>] \in S
    BY <1>1, <1>2
  <2> HIDE DEF a
  <2> QED  BY <2>1, ContractAssumption, IterationExists
<1>4. ASSUME NEW height \in 0..Height
      PROVE  f[height] = AdmittedLevel(height, f[height - 1])
  <2>1. f[height] = IF height = 0 THEN a ELSE F[<<height, f[height - 1]>>]
    BY <1>3, IteratesAt
  <2>2. CASE height = 0
    <3>1. \A below : AdmittedLevel(0, below) = a
      BY DEF AdmittedLevel
    <3> QED  BY <2>1, <2>2, <3>1
  <2>3. CASE height # 0
    <3>1. height \in 1..Height /\ height - 1 \in 0..Height
      BY <2>3, ContractAssumption
    <3> HIDE DEF F, a, S
    <3> QED  BY <1>2, <1>3, <2>1, <2>3, <3>1
  <2> QED  BY <2>2, <2>3
<1>5. f = step(f)
  <2>1. f = [i \in 0..Height |-> f[i]]
    BY <1>3 DEF Iterates
  <2> HIDE DEF a, F, S
  <2> QED  BY <1>4, <2>1
<1>6. Admitted = CHOOSE g : g = step(g)
  BY DEF Admitted, AdmittedLevel
<1>7. Admitted = step(Admitted)
  <2> HIDE DEF step
  <2> QED  BY <1>5, <1>6
<1> QED  BY <1>7

DeclaredLevel(left, below) == {s \in Schemas : left = 0 \/ DeclaresRequired(s, below)}

LEMMA DeclaredIs ==
    \A left \in 0..Levels : DeclaredBelow[left] = DeclaredLevel(left, DeclaredBelow[left - 1])
<1> DEFINE S == SUBSET Schemas
           a == DeclaredLevel(0, {})
           F == [x \in (1..Levels) \X S |-> DeclaredLevel(x[1], x[2])]
           step(f) == [left \in 0..Levels |-> DeclaredLevel(left, f[left - 1])]
<1>1. \A i, x : DeclaredLevel(i, x) \in S
  BY DEF DeclaredLevel
<1>2. \A i \in 1..Levels : \A x \in S : F[<<i, x>>] = DeclaredLevel(i, x)
  OBVIOUS
<1>3. PICK f : Iterates(a, F, Levels, f) /\ \A i \in 0..Levels : f[i] \in S
  <2> HIDE DEF F, S
  <2>1. a \in S /\ \A i \in 1..Levels : \A x \in S : F[<<i, x>>] \in S
    BY <1>1, <1>2
  <2> HIDE DEF a
  <2> QED  BY <2>1, LevelsIsNat, IterationExists
<1>4. ASSUME NEW left \in 0..Levels
      PROVE  f[left] = DeclaredLevel(left, f[left - 1])
  <2>1. f[left] = IF left = 0 THEN a ELSE F[<<left, f[left - 1]>>]
    BY <1>3, IteratesAt
  <2>2. CASE left = 0
    <3>1. \A below : DeclaredLevel(0, below) = a
      BY DEF DeclaredLevel
    <3> QED  BY <2>1, <2>2, <3>1
  <2>3. CASE left # 0
    <3>1. left \in 1..Levels /\ left - 1 \in 0..Levels
      BY <2>3, LevelsIsNat
    <3> HIDE DEF F, a, S
    <3> QED  BY <1>2, <1>3, <2>1, <2>3, <3>1
  <2> QED  BY <2>2, <2>3
<1>5. f = step(f)
  <2>1. f = [i \in 0..Levels |-> f[i]]
    BY <1>3 DEF Iterates
  <2> HIDE DEF a, F, S
  <2> QED  BY <1>4, <2>1
<1>6. DeclaredBelow = CHOOSE g : g = step(g)
  BY DEF DeclaredBelow, DeclaredLevel, Levels
<1>7. DeclaredBelow = step(DeclaredBelow)
  <2> HIDE DEF step
  <2> QED  BY <1>5, <1>6
<1> QED  BY <1>7

ConstrainedLevel(left, below) ==
    {pair \in Pairs : left # 0 /\ Constrains(pair[1], pair[2], below)}

LEMMA ConstrainedIs ==
    \A left \in 0..Levels : ConstrainedBelow[left] = ConstrainedLevel(left, ConstrainedBelow[left - 1])
<1> DEFINE S == SUBSET Pairs
           a == ConstrainedLevel(0, {})
           F == [x \in (1..Levels) \X S |-> ConstrainedLevel(x[1], x[2])]
           step(f) == [left \in 0..Levels |-> ConstrainedLevel(left, f[left - 1])]
<1>1. \A i, x : ConstrainedLevel(i, x) \in S
  BY DEF ConstrainedLevel
<1>2. \A i \in 1..Levels : \A x \in S : F[<<i, x>>] = ConstrainedLevel(i, x)
  OBVIOUS
<1>3. PICK f : Iterates(a, F, Levels, f) /\ \A i \in 0..Levels : f[i] \in S
  <2> HIDE DEF F, S
  <2>1. a \in S /\ \A i \in 1..Levels : \A x \in S : F[<<i, x>>] \in S
    BY <1>1, <1>2
  <2> HIDE DEF a
  <2> QED  BY <2>1, LevelsIsNat, IterationExists
<1>4. ASSUME NEW left \in 0..Levels
      PROVE  f[left] = ConstrainedLevel(left, f[left - 1])
  <2>1. f[left] = IF left = 0 THEN a ELSE F[<<left, f[left - 1]>>]
    BY <1>3, IteratesAt
  <2>2. CASE left = 0
    <3>1. \A below : ConstrainedLevel(0, below) = a
      BY DEF ConstrainedLevel
    <3> QED  BY <2>1, <2>2, <3>1
  <2>3. CASE left # 0
    <3>1. left \in 1..Levels /\ left - 1 \in 0..Levels
      BY <2>3, LevelsIsNat
    <3> HIDE DEF F, a, S
    <3> QED  BY <1>2, <1>3, <2>1, <2>3, <3>1
  <2> QED  BY <2>2, <2>3
<1>5. f = step(f)
  <2>1. f = [i \in 0..Levels |-> f[i]]
    BY <1>3 DEF Iterates
  <2> HIDE DEF a, F, S
  <2> QED  BY <1>4, <2>1
<1>6. ConstrainedBelow = CHOOSE g : g = step(g)
  BY DEF ConstrainedBelow, ConstrainedLevel, Levels
<1>7. ConstrainedBelow = step(ConstrainedBelow)
  <2> HIDE DEF step
  <2> QED  BY <1>5, <1>6
<1> QED  BY <1>7

--------------------------------------------------------------------------------
(* Acceptance.                                                             *)

LEMMA AdmittedAtZero == Admitted[0] = Rules \X Values
<1>1. 0 \in 0..Height
  BY ContractAssumption
<1> QED  BY <1>1, AdmittedIs DEF AdmittedLevel

LEMMA AdmittedStep ==
    ASSUME NEW h \in 0..Height - 1, NEW s \in Rules, NEW v \in Values
    PROVE  <<s, v>> \in Admitted[h + 1] <=> AdmitsValue(s, v, Admitted[h])
<1>1. h + 1 \in 0..Height /\ (h + 1) - 1 = h /\ h + 1 # 0
  BY ContractAssumption
<1>2. Admitted[h + 1] = AdmittedLevel(h + 1, Admitted[h])
  BY <1>1, AdmittedIs
<1> QED  BY <1>1, <1>2 DEF AdmittedLevel

\* What a node admits.
LEMMA NodeAdmits ==
    ASSUME NEW s \in Schemas, IsNode(s), NEW v, NEW admitted
    PROVE  AdmitsValue(s, v, admitted) <=>
            /\ AdmitsHere(s, v)
            /\ v.type = "object" => AdmitsFields(s, v, admitted)
            /\ v.type = "array" => \A element \in v.elements : <<Get(s, "items"), element>> \in admitted
<1>1. s # Never /\ s \notin Odd \union {Always, Absent}
  BY WhatLiesWithin
<1> QED  BY <1>1 DEF AdmitsValue

LEMMA NeverAdmits ==
    ASSUME NEW v, NEW admitted
    PROVE  ~AdmitsValue(Never, v, admitted)
<1>1. Never \notin Odd \union {Always, Absent}
  BY SchemaAssumption
<1> QED  BY <1>1 DEF AdmitsValue

\* No rule, `true`, what is not read and the empty node admit everything.
Free(s) == s \in Odd \union {Always, Absent} \/ (IsNode(s) /\ s \in Schemas /\ DOMAIN s = {})

LEMMA FreeAdmits ==
    ASSUME NEW h \in 0..Height, NEW s \in Rules, Free(s), NEW v \in Values
    PROVE  <<s, v>> \in Admitted[h]
<1> DEFINE Good == {i \in 0..Height : \A t \in Rules, w \in Values : Free(t) => <<t, w>> \in Admitted[i]}
<1>1. 0 \in Good
  BY AdmittedAtZero, ContractAssumption
<1>2. ASSUME NEW i \in 0..Height - 1, i \in Good
      PROVE  i + 1 \in Good
  <2>1. i + 1 \in 0..Height
    BY ContractAssumption
  <2> SUFFICES ASSUME NEW t \in Rules, NEW w \in Values, Free(t)
               PROVE  AdmitsValue(t, w, Admitted[i])
    BY <2>1, AdmittedStep
  <2>2. CASE t \in Odd \union {Always, Absent}
    <3>1. t # Never
      BY <2>2, SchemaAssumption
    <3> QED  BY <2>2, <3>1 DEF AdmitsValue
  <2>3. CASE IsNode(t) /\ t \in Schemas /\ DOMAIN t = {}
    <3>1. \A key : Get(t, key) = Absent
      BY <2>3 DEF Get
    <3>2. DOMAIN Properties(t) = {} /\ Required(t) = {}
      BY <3>1 DEF Properties, Required
    <3>3. \A x \in Values : <<Absent, x>> \in Admitted[i]
      BY <1>2 DEF Free, Rules
    <3>4. AdmitsHere(t, w)
      BY <2>3, <3>1 DEF AdmitsHere
    <3>5. w.type = "object" => AdmitsFields(t, w, Admitted[i])
      <4>1. w.type = "object" => \A name \in DOMAIN w.fields : w.fields[name] \in Values
        BY ContractAssumption
      <4> QED  BY <3>1, <3>2, <3>3, <4>1 DEF AdmitsFields
    <3>6. w.type = "array" => \A element \in w.elements : <<Get(t, "items"), element>> \in Admitted[i]
      <4>1. w.type = "array" => w.elements \subseteq Values
        BY ContractAssumption
      <4> QED  BY <3>1, <3>3, <4>1
    <3> QED  BY <2>3, <3>4, <3>5, <3>6, NodeAdmits
  <2> QED  BY <2>2, <2>3 DEF Free
<1>3. \A i \in 0..Height : i \in Good
  <2>1. Height \in Nat
    BY ContractAssumption
  <2> HIDE DEF Good
  <2> QED  BY <1>1, <1>2, <2>1, UpTo
<1> QED  BY <1>3

--------------------------------------------------------------------------------
(* What is not HIGH is not breaking.                                       *)

\* The facts that carry less than HIGH in the table of inputs.
Mild == {"RequiredRemoved", "OptionalPropertyAdded", "EnumExpanded", "DescriptionChanged",
         "AdditionalPropertiesLoosened"}

LEMMA MildIsNotHigh == \A fact \in SchemaFact : InputRisk[fact] < High => fact \in Mild
BY SchemaFactIs DEF InputRisk, Mild, Low, Medium, High, Critical

\* What mild facts say of two nodes: c asks for no more than b.
MildNames(b, c) ==
    DOMAIN Properties(b) \subseteq DOMAIN Properties(c) /\ RequiredAdded(b, c) = {}

MildEnum(b, c) ==
    LET unread == Odd \union {Absent}
    IN  \/ Get(c, "enum") \in unread
        \/ Get(b, "enum") \notin unread /\ Get(b, "enum") \subseteq Get(c, "enum")

MildAdmission(b, c) ==
    Get(b, "additionalProperties") = Get(c, "additionalProperties") \/ Admission(c) = "Anything"

MildItems(b, c, below) ==
    LET x == Get(b, "items")
        y == Get(c, "items")
    IN  x = y \/ (x \in Schemas /\ y \in Schemas /\ below[<<x, y>>] \subseteq Mild)

MildChildren(b, c, below) ==
    \A name \in DOMAIN Properties(b) \intersect DOMAIN Properties(c) :
        below[<<Properties(b)[name], Properties(c)[name]>>] \subseteq Mild

LEMMA EnumIsMild ==
    ASSUME NEW b, NEW c, CompareEnum(b, c) \subseteq Mild
    PROVE  MildEnum(b, c)
<1> DEFINE unread == Odd \union {Absent}
           before == Get(b, "enum")
           after == Get(c, "enum")
<1>1. "EnumNarrowed" \notin CompareEnum(b, c)
  BY DEF Mild
<1>2. CASE after \in unread
  BY <1>2 DEF MildEnum
<1>3. CASE before \in unread /\ after \notin unread
  <2>1. CompareEnum(b, c) = {"EnumNarrowed"}
    BY <1>3 DEF CompareEnum
  <2> QED  BY <1>1, <2>1
<1>4. CASE before \notin unread /\ after \notin unread
  <2>1. CompareEnum(b, c)
        = Fact(before \ after # {}, "EnumNarrowed") \union Fact(after \ before # {}, "EnumExpanded")
    BY <1>4 DEF CompareEnum
  <2>2. before \ after = {}
    BY <1>1, <2>1 DEF Fact
  <2> QED  BY <1>4, <2>2 DEF MildEnum
<1> QED  BY <1>2, <1>3, <1>4

LEMMA AdmissionIsMild ==
    ASSUME NEW b, NEW c, CompareAdditionalProperties(b, c) \subseteq Mild
    PROVE  MildAdmission(b, c)
<1> SUFFICES ASSUME Differ(b, c, "additionalProperties"), Admission(c) # "Anything"
             PROVE  FALSE
  BY DEF MildAdmission, Differ
<1>1. CompareAdditionalProperties(b, c) \in {{"AdditionalPropertiesTightened"}, {"Generic"}}
  BY DEF CompareAdditionalProperties
<1> QED  BY <1>1 DEF Mild

LEMMA WithinIsMild ==
    ASSUME NEW b \in Schemas, NEW c \in Schemas, IsNode(b), IsNode(c), NEW below,
           CompareWithin(b, c, below) \subseteq Mild
    PROVE  /\ \A key : key \notin InterpretedKeys => Get(b, key) = Get(c, key)
           /\ Get(b, "type") = Get(c, "type")
           /\ MildNames(b, c) /\ MildEnum(b, c) /\ MildAdmission(b, c)
           /\ MildItems(b, c, below) /\ MildChildren(b, c, below)
<1>1. /\ CompareRest(b, c) \subseteq Mild /\ CompareProperties(b, c) \subseteq Mild
      /\ CompareRequired(b, c) \subseteq Mild /\ CompareType(b, c) \subseteq Mild
      /\ CompareEnum(b, c) \subseteq Mild /\ CompareAdditionalProperties(b, c) \subseteq Mild
      /\ CompareItems(b, c, below) \subseteq Mild /\ CompareChildren(b, c, below) \subseteq Mild
  BY DEF CompareWithin
<1>2. \A key : key \notin InterpretedKeys => Get(b, key) = Get(c, key)
  <2>1. CompareRest(b, c) = {}
    BY <1>1 DEF CompareRest, Fact, Mild
  <2> QED  BY <2>1, RestSilent
<1>3. Get(b, "type") = Get(c, "type")
  <2>1. Differ(b, c, "type") => CompareType(b, c) \in {{"TypeChanged"}, {"Generic"}}
    BY DEF CompareType, Fact
  <2> QED  BY <1>1, <2>1 DEF Mild, Differ
<1>4. MildNames(b, c)
  <2>1. DOMAIN Properties(b) \ DOMAIN Properties(c) # {} => "PropertyRemoved" \in CompareProperties(b, c)
    BY DEF CompareProperties, Fact
  <2>2. RequiredAdded(b, c) # {} => "RequiredAdded" \in CompareRequired(b, c)
    BY DEF CompareRequired, Fact
  <2> QED  BY <1>1, <2>1, <2>2 DEF Mild, MildNames
<1>5. MildItems(b, c, below)
  <2> DEFINE x == Get(b, "items")
             y == Get(c, "items")
             items == CompareItems(b, c, below)
  <2>1. \/ x = y \/ items = {"Generic"}
        \/ x \in Schemas /\ y \in Schemas /\ items = below[<<x, y>>]
    BY ItemsBelow
  <2>2. ~({"Generic"} \subseteq Mild)
    BY DEF Mild
  <2>3. items \subseteq Mild
    BY <1>1
  <2> HIDE DEF x, y, items
  <2>4. x = y \/ (x \in Schemas /\ y \in Schemas /\ below[<<x, y>>] \subseteq Mild)
    BY <2>1, <2>2, <2>3
  <2> QED  BY <2>4 DEF MildItems, x, y
<1>6. MildChildren(b, c, below)
  <2>1. \A name \in DOMAIN Properties(b) \intersect DOMAIN Properties(c) :
            below[<<Properties(b)[name], Properties(c)[name]>>] \subseteq CompareChildren(b, c, below)
    BY DEF CompareChildren
  <2> QED  BY <1>1, <2>1 DEF MildChildren
<1> QED  BY <1>1, <1>2, <1>3, <1>4, <1>5, <1>6, EnumIsMild, AdmissionIsMild

\* Of schemas with mild facts, that declare what they require and constrain nothing, the second admits
\* what the first one does.
Carries(below, declared, constrained, admitted) ==
    \A s, t \in Schemas :
        /\ below[<<s, t>>] \subseteq Mild /\ s \in declared /\ t \in declared
        /\ <<s, t>> \notin constrained
        => \A v \in Values : <<s, v>> \in admitted => <<t, v>> \in admitted

\* The value itself.
LEMMA StillAdmittedHere ==
    ASSUME NEW b \in Schemas, NEW c \in Schemas, IsNode(b), IsNode(c),
           \A key : key \notin InterpretedKeys => Get(b, key) = Get(c, key),
           Get(b, "type") = Get(c, "type"), MildEnum(b, c),
           NEW v, AdmitsHere(b, v)
    PROVE  AdmitsHere(c, v)
<1>1. /\ \A key \in DOMAIN b : Get(b, key) = b[key] /\ b[key] # Absent
      /\ \A key \in DOMAIN c : Get(c, key) = c[key] /\ c[key] # Absent
      /\ \A key : key \notin DOMAIN b => Get(b, key) = Absent
      /\ \A key : key \notin DOMAIN c => Get(c, key) = Absent
  BY WhatLiesWithin DEF Get
<1>2. Get(c, "type") \in Odd \union {Absent, v.type}
  BY DEF AdmitsHere
<1>3. "enum" \notin DOMAIN c \/ c.enum \in Odd \/ v \in c.enum
  <2>1. "enum" \notin DOMAIN b \/ b.enum \in Odd \/ v \in b.enum
    BY DEF AdmitsHere
  <2> QED  BY <1>1, <2>1 DEF MildEnum
<1>4. "other" \notin DOMAIN c \/ v \notin c.other
  <2>1. Get(b, "other") = Get(c, "other")
    BY DEF InterpretedKeys
  <2>2. "other" \notin DOMAIN b \/ v \notin b.other
    BY DEF AdmitsHere
  <2> QED  BY <1>1, <2>1, <2>2
<1> QED  BY <1>2, <1>3, <1>4 DEF AdmitsHere

\* A node that admits anything beside its properties does.
LEMMA AnythingIsFree ==
    ASSUME NEW s \in Schemas, IsNode(s), Admission(s) = "Anything"
    PROVE  Free(Get(s, "additionalProperties"))
<1> DEFINE value == Get(s, "additionalProperties")
<1>1. value \in Schemas \union {Absent}
  BY WhatLiesWithin DEF Rules
<1>2. CASE value \in {Absent, Always}
  BY <1>2 DEF Free
<1>3. CASE value \notin {Absent, Always} /\ (value = Never \/ value \in Odd)
  <2>1. Admission(s) \in {"Nothing", "Unsupported"}
    BY <1>3 DEF Admission
  <2> QED  BY <2>1
<1>4. CASE value \notin {Absent, Always, Never} /\ value \notin Odd
  <2>1. Admission(s) = IF DOMAIN value = {} THEN "Anything" ELSE "Schema"
    BY <1>4 DEF Admission
  <2> QED  BY <1>1, <1>4, <2>1 DEF Free, IsNode
<1> QED  BY <1>2, <1>3, <1>4

LEMMA NothingIsNever ==
    ASSUME NEW s, Admission(s) = "Nothing"
    PROVE  Get(s, "additionalProperties") = Never
<1> DEFINE value == Get(s, "additionalProperties")
<1>1. CASE value \in {Absent, Always}
  <2>1. value # Never /\ value \notin Odd
    BY <1>1, SchemaAssumption
  <2> QED  BY <1>1, <2>1 DEF Admission
<1>2. CASE value \notin {Absent, Always, Never} /\ value \in Odd
  BY <1>2 DEF Admission
<1>3. CASE value \notin {Absent, Always, Never} /\ value \notin Odd
  <2>1. Admission(s) = IF DOMAIN value = {} THEN "Anything" ELSE "Schema"
    BY <1>3 DEF Admission
  <2> QED  BY <2>1
<1> QED  BY <1>1, <1>2, <1>3

\* The fields of an object.
LEMMA StillAdmittedFields ==
    ASSUME NEW b \in Schemas, NEW c \in Schemas, IsNode(b), IsNode(c),
           NEW h \in 0..Height, NEW below, NEW declared, NEW constrained,
           Carries(below, declared, constrained, Admitted[h]),
           MildNames(b, c), MildAdmission(b, c), MildChildren(b, c, below),
           DeclaresRequired(b, declared), DeclaresRequired(c, declared),
           ~Constrains(b, c, constrained),
           NEW v \in Values, v.type = "object", AdmitsFields(b, v, Admitted[h])
    PROVE  AdmitsFields(c, v, Admitted[h])
<1> DEFINE before == DOMAIN Properties(b)
           after == DOMAIN Properties(c)
           fields == DOMAIN v.fields
<1>1. \A name \in fields : v.fields[name] \in Values
  BY ContractAssumption
<1>2. before \subseteq after
  BY DEF MildNames
<1>3. Required(c) \subseteq fields
  <2>1. /\ Required(c) \intersect (after \ before) = {}
        /\ (Required(c) \ Required(b)) \intersect before = {}
    BY DEF MildNames, RequiredAdded
  <2>2. Required(c) \subseteq after
    BY DEF DeclaresRequired
  <2>3. Required(b) \subseteq fields
    BY DEF AdmitsFields
  <2> HIDE DEF before, after, fields
  <2> QED  BY <2>1, <2>2, <2>3
<1>4. ASSUME NEW name \in fields \intersect after
      PROVE  <<Properties(c)[name], v.fields[name]>> \in Admitted[h]
  <2> DEFINE s == Properties(b)[name]
             t == Properties(c)[name]
             w == v.fields[name]
  <2>1. w \in Values /\ t \in Schemas /\ t \in declared
    BY <1>1, <1>4, WhatLiesWithin DEF DeclaresRequired
  <2>2. CASE name \in before
    <3>1. s \in Schemas /\ s \in declared
      BY <2>2, WhatLiesWithin DEF DeclaresRequired
    <3>2. below[<<s, t>>] \subseteq Mild
      BY <1>4, <2>2 DEF MildChildren
    <3>3. <<s, t>> \notin constrained
      BY <1>4, <2>2 DEF Constrains
    <3>4. <<s, w>> \in Admitted[h]
      BY <1>4, <2>2 DEF AdmitsFields
    <3> HIDE DEF s, t, w
    <3>5. <<t, w>> \in Admitted[h]
      BY <2>1, <3>1, <3>2, <3>3, <3>4 DEF Carries
    <3> QED  BY <3>5 DEF t, w
  <2>3. CASE name \notin before
    <3>1. after \ before # {}
      BY <1>4, <2>3
    <3>2. Get(b, "additionalProperties") = Never
      BY <3>1, NothingIsNever DEF Constrains
    <3>3. <<Never, w>> \in Admitted[h]
      BY <1>4, <2>3, <3>2 DEF AdmitsFields
    <3>4. CASE h = 0
      <4>1. t \in Rules
        BY <2>1 DEF Rules
      <4> HIDE DEF t, w
      <4>2. <<t, w>> \in Admitted[h]
        BY <2>1, <3>4, <4>1, AdmittedAtZero
      <4> QED  BY <4>2 DEF t, w
    <3>5. CASE h # 0
      <4>1. h - 1 \in 0..Height - 1 /\ (h - 1) + 1 = h
        BY <3>5, ContractAssumption
      <4>2. Never \in Rules
        BY <3>2, WhatLiesWithin
      <4>3. AdmitsValue(Never, w, Admitted[h - 1])
        <5> HIDE DEF w
        <5> QED  BY <2>1, <3>3, <4>1, <4>2, AdmittedStep
      <4> QED  BY <4>3, NeverAdmits
    <3> QED  BY <3>4, <3>5
  <2> QED  BY <2>2, <2>3
<1>5. ASSUME NEW name \in fields \ after
      PROVE  <<Get(c, "additionalProperties"), v.fields[name]>> \in Admitted[h]
  <2>1. <<Get(b, "additionalProperties"), v.fields[name]>> \in Admitted[h]
    BY <1>2, <1>5 DEF AdmitsFields
  <2>2. CASE Get(b, "additionalProperties") = Get(c, "additionalProperties")
    BY <2>1, <2>2
  <2>3. CASE Admission(c) = "Anything"
    <3>1. Get(c, "additionalProperties") \in Rules /\ v.fields[name] \in Values
      BY <1>1, <1>5, WhatLiesWithin
    <3> QED  BY <2>3, <3>1, AnythingIsFree, FreeAdmits
  <2> QED  BY <2>2, <2>3 DEF MildAdmission
<1> QED  BY <1>3, <1>4, <1>5 DEF AdmitsFields

\* One level of two nodes.
LEMMA NodeStillAdmits ==
    ASSUME NEW b \in Schemas, NEW c \in Schemas, IsNode(b), IsNode(c),
           NEW h \in 0..Height, NEW below, NEW declared, NEW constrained,
           Carries(below, declared, constrained, Admitted[h]),
           CompareWithin(b, c, below) \subseteq Mild,
           DeclaresRequired(b, declared), DeclaresRequired(c, declared),
           ~Constrains(b, c, constrained),
           NEW v \in Values, AdmitsValue(b, v, Admitted[h])
    PROVE  AdmitsValue(c, v, Admitted[h])
<1>1. /\ AdmitsHere(b, v)
      /\ v.type = "object" => AdmitsFields(b, v, Admitted[h])
      /\ v.type = "array" => \A element \in v.elements : <<Get(b, "items"), element>> \in Admitted[h]
  BY NodeAdmits
<1>2. /\ \A key : key \notin InterpretedKeys => Get(b, key) = Get(c, key)
      /\ Get(b, "type") = Get(c, "type")
      /\ MildNames(b, c) /\ MildEnum(b, c) /\ MildAdmission(b, c)
      /\ MildItems(b, c, below) /\ MildChildren(b, c, below)
  BY WithinIsMild
<1>3. AdmitsHere(c, v)
  BY <1>1, <1>2, StillAdmittedHere
<1>4. ASSUME v.type = "object"  PROVE AdmitsFields(c, v, Admitted[h])
  BY <1>1, <1>2, <1>4, StillAdmittedFields
<1>5. ASSUME v.type = "array", NEW element \in v.elements
      PROVE  <<Get(c, "items"), element>> \in Admitted[h]
  <2> DEFINE x == Get(b, "items")
             y == Get(c, "items")
  <2>1. element \in Values /\ <<x, element>> \in Admitted[h]
    BY <1>1, <1>5, ContractAssumption
  <2>2. CASE x = y
    BY <2>1, <2>2
  <2>3. CASE x \in Schemas /\ y \in Schemas /\ below[<<x, y>>] \subseteq Mild
    <3>1. x \in declared /\ y \in declared
      BY <2>3, SchemaAssumption DEF DeclaresRequired
    <3>2. <<x, y>> \notin constrained
      BY DEF Constrains
    <3> HIDE DEF x, y
    <3>3. <<y, element>> \in Admitted[h]
      BY <2>1, <2>3, <3>1, <3>2 DEF Carries
    <3> QED  BY <3>3 DEF y
  <2> QED  BY <1>2, <2>2, <2>3 DEF MildItems
<1> QED  BY <1>3, <1>4, <1>5, NodeAdmits

CarriesAt(left, h) ==
    Carries(Compared[left], DeclaredBelow[left], ConstrainedBelow[left], Admitted[h])

\* What admits less has a fact that is HIGH, at whatever depth it does.
LEMMA MildCarries ==
    \A h \in 0..Height, left \in 0..Levels : CarriesAt(left, h)
<1> DEFINE Good == {h \in 0..Height : \A left \in 0..Levels : CarriesAt(left, h)}
<1>h. Height \in Nat
  BY ContractAssumption
<1>1. 0 \in Good
  <2>1. \A t \in Schemas, v \in Values : <<t, v>> \in Admitted[0]
    BY AdmittedAtZero DEF Rules
  <2>2. \A left : CarriesAt(left, 0)
    BY <2>1 DEF CarriesAt, Carries
  <2> QED  BY <1>h, <2>2
<1>2. ASSUME NEW h \in 0..Height - 1, h \in Good
      PROVE  h + 1 \in Good
  <2>1. h + 1 \in 0..Height /\ h \in 0..Height
    BY <1>h
  <2> SUFFICES ASSUME NEW left \in 0..Levels, NEW b \in Schemas, NEW c \in Schemas,
                      Compared[left][<<b, c>>] \subseteq Mild,
                      b \in DeclaredBelow[left], c \in DeclaredBelow[left],
                      <<b, c>> \notin ConstrainedBelow[left],
                      NEW v \in Values, <<b, v>> \in Admitted[h + 1]
               PROVE  <<c, v>> \in Admitted[h + 1]
    BY <2>1 DEF CarriesAt, Carries
  <2>2. CASE b = c
    BY <2>2
  <2>3. CASE b # c
    <3> DEFINE below == Compared[left - 1]
               declared == DeclaredBelow[left - 1]
               constrained == ConstrainedBelow[left - 1]
    <3>1. CompareNode(b, c, left, below) \subseteq Mild
      BY ComparedAt
    <3>2. left # 0 /\ IsNode(b) /\ IsNode(c)
      <4>1. left = 0 \/ ~IsNode(b) \/ ~IsNode(c) => CompareNode(b, c, left, below) = {"Generic"}
        BY <2>3 DEF CompareNode
      <4> QED  BY <3>1, <4>1 DEF Mild
    <3>3. CompareWithin(b, c, below) \subseteq Mild
      BY <2>3, <3>1, <3>2 DEF CompareNode
    <3>4. left - 1 \in 0..Levels
      BY <3>2, LevelsIsNat
    <3>5. DeclaresRequired(b, declared) /\ DeclaresRequired(c, declared)
      <4>1. b \in DeclaredLevel(left, declared) /\ c \in DeclaredLevel(left, declared)
        BY DeclaredIs
      <4> QED  BY <3>2, <4>1 DEF DeclaredLevel
    <3>6. ~Constrains(b, c, constrained)
      <4>1. <<b, c>> \notin ConstrainedLevel(left, constrained)
        BY ConstrainedIs
      <4> QED  BY <3>2, <4>1 DEF ConstrainedLevel, Pairs
    <3>7. Carries(below, declared, constrained, Admitted[h])
      BY <1>2, <3>4 DEF CarriesAt
    <3>8. b \in Rules /\ c \in Rules
      BY DEF Rules
    <3>9. AdmitsValue(b, v, Admitted[h])
      BY <3>8, AdmittedStep
    <3> HIDE DEF below, declared, constrained
    <3>10. AdmitsValue(c, v, Admitted[h])
      BY <2>1, <3>2, <3>3, <3>5, <3>6, <3>7, <3>9, NodeStillAdmits
    <3> QED  BY <3>8, <3>10, AdmittedStep
  <2> QED  BY <2>2, <2>3
<1>3. \A h \in 0..Height : h \in Good
  <2> HIDE DEF Good
  <2> QED  BY <1>h, <1>1, <1>2, UpTo
<1> QED  BY <1>3

\* Two schemas compared from the top.
LEMMA MildAccepts ==
    ASSUME NEW b \in Schemas, NEW c \in Schemas, Compared[Levels][<<b, c>>] \subseteq Mild,
           b \in DeclaredSchemas, c \in DeclaredSchemas, <<b, c>> \notin Constrained,
           NEW v \in Values, Accepts(b, v)
    PROVE  Accepts(c, v)
<1>1. Height \in 0..Height
  BY ContractAssumption
<1>2. CarriesAt(Levels, Height)
  BY <1>1, MildCarries, LevelsIsNat
<1>3. /\ DeclaredSchemas = DeclaredBelow[Levels] /\ Constrained = ConstrainedBelow[Levels]
  BY DEF DeclaredSchemas, Constrained, Levels
<1> QED  BY <1>2, <1>3 DEF CarriesAt, Carries, Accepts, Acceptance

--------------------------------------------------------------------------------
(* Silence is earned.                                                      *)

\* Where nothing is named, nothing is constrained.
LEMMA SilenceConstrainsNothing ==
    ASSUME NEW left \in 0..Levels, NEW b \in Schemas, NEW c \in Schemas, SilentPair(left, b, c)
    PROVE  <<b, c>> \notin ConstrainedBelow[left]
<1> DEFINE Good == {i \in 0..Levels : \A x, y \in Schemas :
                        SilentPair(i, x, y) => <<x, y>> \notin ConstrainedBelow[i]}
<1>1. 0 \in Good
  <2>1. ConstrainedBelow[0] = {}
    BY ConstrainedIs, LevelsIsNat DEF ConstrainedLevel
  <2> QED  BY <2>1, LevelsIsNat
<1>2. ASSUME NEW i \in 0..Levels - 1, i \in Good
      PROVE  i + 1 \in Good
  <2>1. i + 1 \in 0..Levels /\ (i + 1) - 1 = i /\ i + 1 # 0 /\ i \in 0..Levels
    BY LevelsIsNat
  <2> SUFFICES ASSUME NEW x \in Schemas, NEW y \in Schemas, SilentPair(i + 1, x, y),
                      Constrains(x, y, ConstrainedBelow[i])
               PROVE  FALSE
    <3>1. ConstrainedBelow[i + 1] = ConstrainedLevel(i + 1, ConstrainedBelow[i])
      BY <2>1, ConstrainedIs
    <3>2. \A x, y \in Schemas :
            <<x, y>> \in ConstrainedBelow[i + 1] => Constrains(x, y, ConstrainedBelow[i])
      BY <3>1 DEF ConstrainedLevel
    <3> QED  BY <2>1, <3>2
  <2> DEFINE below == Compared[i]
             constrained == ConstrainedBelow[i]
  <2>2. IsNode(x) /\ IsNode(y)
    BY DEF Constrains
  <2>3. constrained \subseteq Pairs
    BY <2>1, ConstrainedIs DEF ConstrainedLevel
  <2>4. \A s, t \in Schemas : below[<<s, t>>] = {} => <<s, t>> \notin constrained
    BY <1>2 DEF SilentPair
  <2>5. \A s \in Schemas : below[<<s, s>>] = {}
    BY <2>1, SilentAt
  <2>6. x = y \/ Silent(x, y, below)
    BY SilentStep
  <2> HIDE DEF below, constrained
  <2>7. SameProperties(x, y, below) /\ SameItems(x, y, below)
    <3>1. CASE x = y
      BY <2>2, <2>5, <3>1, WhatLiesWithin DEF SameProperties, SameItems
    <3>2. CASE Silent(x, y, below)
      BY <3>2 DEF Silent
    <3> QED  BY <2>6, <3>1, <3>2
  <2>8. ASSUME NEW name \in DOMAIN Properties(x) \intersect DOMAIN Properties(y)
        PROVE  <<Properties(x)[name], Properties(y)[name]>> \notin constrained
    BY <2>2, <2>4, <2>7, WhatLiesWithin DEF SameProperties
  <2>9. <<Get(x, "items"), Get(y, "items")>> \notin constrained
    <3> DEFINE s == Get(x, "items")
               t == Get(y, "items")
    <3>1. (s = t) \/ (s \in Schemas /\ t \in Schemas /\ below[<<s, t>>] = {})
      BY <2>7 DEF SameItems
    <3> HIDE DEF s, t
    <3>2. <<s, t>> \in constrained => s \in Schemas /\ t \in Schemas
      BY <2>3 DEF Pairs
    <3>3. <<s, t>> \notin constrained
      BY <2>4, <2>5, <3>1, <3>2
    <3> QED  BY <3>3 DEF s, t
  <2>10. DOMAIN Properties(y) \ DOMAIN Properties(x) = {}
    BY <2>7 DEF SameProperties
  <2> QED  BY <2>8, <2>9, <2>10 DEF Constrains, constrained
<1>3. \A i \in 0..Levels : i \in Good
  <2> HIDE DEF Good
  <2> QED  BY <1>1, <1>2, LevelsIsNat, UpTo
<1> QED  BY <1>3

LEMMA SilentContract ==
    ASSUME NEW b \in Schemas, NEW c \in Schemas, SilentPair(Levels, b, c),
           b \in DeclaredSchemas, c \in DeclaredSchemas
    PROVE  SameContract(b, c)
<1>1. SilentPair(Levels, c, b)
  BY SilenceIsSymmetric, LevelsIsNat
<1>2. <<b, c>> \notin Constrained /\ <<c, b>> \notin Constrained
  BY <1>1, SilenceConstrainsNothing, LevelsIsNat DEF Constrained, Levels
<1>3. Compared[Levels][<<b, c>>] \subseteq Mild /\ Compared[Levels][<<c, b>>] \subseteq Mild
  BY <1>1 DEF SilentPair
<1>4. \A v \in Values : Accepts(b, v) <=> Accepts(c, v)
  BY <1>2, <1>3, MildAccepts
<1>5. \A v \in Values : Accepts(b, v) \in BOOLEAN /\ Accepts(c, v) \in BOOLEAN
  BY DEF Accepts
<1> QED  BY <1>4, <1>5 DEF SameContract

--------------------------------------------------------------------------------
(* What a report says of the schemas of a tool.                            *)

\* The schemas of one facet, before and after: fingerprints that agree are of one schema, and what the
\* comparison names of two weighs on the report.
LEMMA SchemasInReport ==
    ASSUME KindsOK, Verified(lock), NEW name \in SchemaFacet, NEW pair \in SchemasOf(name)
    PROVE  /\ pair = <<pair[1], pair[2]>> /\ pair[1] \in Schemas /\ pair[2] \in Schemas
           /\ OverallRisk(Drift) \in Level
           /\ pair[1] # pair[2] =>
                \A fact \in Compared[Levels][<<pair[1], pair[2]>>] :
                    TableOf(name)[fact] <= OverallRisk(Drift)
           /\ DOMAIN Drift = {} /\ pair[1] # pair[2] => SilentPair(Levels, pair[1], pair[2])
<1> DEFINE before == lock.dependencies
           tools == {tool \in DOMAIN before \intersect DOMAIN found :
                        /\ before[tool].kind = "tool" /\ found[tool].kind = "tool"
                        /\ \A d \in {before[tool], found[tool]} :
                            name \in DOMAIN d.facets /\ d.facets[name].payload # None}
<1>1. PICK id \in tools : pair = <<before[id].facets[name].payload, found[id].facets[name].payload>>
  BY DEF SchemasOf
<1> DEFINE b == before[id]
           c == found[id]
           x == b.facets[name].payload
           y == c.facets[name].payload
<1>2. /\ id \in DOMAIN before /\ id \in DOMAIN found /\ b.kind = "tool" /\ c.kind = "tool"
      /\ name \in DOMAIN b.facets /\ name \in DOMAIN c.facets /\ x # None /\ y # None
  BY <1>1
<1>3. pair = <<x, y>> /\ pair[1] = x /\ pair[2] = y
  BY <1>1
<1>4. x \in Schemas /\ y \in Schemas
  <2>1. KeepsSchemas(b) /\ KeepsSchemas(c)
    BY <1>2, FoundKinds DEF KindsOK
  <2>2. x \in SchemaPayload /\ y \in SchemaPayload
    BY <1>2, <2>1 DEF KeepsSchemas
  <2> QED  BY <1>2, <2>2, ContractAssumption
<1>5. FactsNamed(b, c)
  BY <1>2, SidesAreNamed, SchemaFactsAreNamed
<1>6. x # y => SchemaFacts(x, y) = Compared[Levels][<<x, y>>]
  BY <1>4, ContractAssumption DEF Compare, Levels
<1>7. /\ FromDependencies(found).dependencies = found
      /\ FromDependencies(found).checksum = Checksum(found)
  BY DEF FromDependencies
<1>8. ASSUME x # y  PROVE b.facets[name].digest # c.facets[name].digest
  <2>1. x = b.facets[name].digest
    BY <1>2 DEF Verified, VerifiedPayloads
  <2>2. y = c.facets[name].digest
    BY <1>2, DiffAssumption DEF KindsOK
  <2> QED  BY <1>8, <2>1, <2>2
<1>9. ASSUME x # y  PROVE lock.checksum # Checksum(found)
  <2>1. lock.checksum = Checksum(before)
    BY DEF Verified, VerifiedChecksum
  <2>2. Checksum(before) = Checksum(found) => Fingerprint(b, name) = Fingerprint(c, name)
    BY <1>2, SameChecksum
  <2> QED  BY <1>2, <1>8, <1>9, <2>1, <2>2 DEF Fingerprint
<1> DEFINE risks == {Drift[other] : other \in DOMAIN Drift}
<1>10. risks \subseteq Level
  <2>1. \A other \in DOMAIN Drift :
            Drift[other] = ChangeRisk(before, found, other) /\ other \in DOMAIN before \union DOMAIN found
    BY <1>7, ReportLines DEF Drift
  <2> QED  BY <2>1, FoundKinds, SidesAreNamed, ChangeRiskIsLevel, SchemaFactsAreNamed
<1>11. OverallRisk(Drift) \in Level /\ \A r \in risks : r <= OverallRisk(Drift)
  BY <1>10, MaxRiskIsLargest DEF OverallRisk
<1>12. /\ ModifiedRisk(b, c, name) \in Level
       /\ ModifiedRisk(b, c, name) = NoRisk => EquivalentSchemas(b, c, name)
       /\ \A fact \in SchemaFacts(x, y) : TableOf(name)[fact] <= ModifiedRisk(b, c, name)
  BY <1>2, <1>5, ToolSchemaRisk DEF FactsNamed
<1>13. ASSUME x # y
       PROVE  /\ ModifiedRisk(b, c, name) <= ChangeRisk(before, found, id)
              /\ ChangeRisk(before, found, id) \in Level
  <2>1. ChangeRisk(before, found, id) = MaxRisk(FacetRisks(b, c))
    BY <1>2 DEF ChangeRisk
  <2>2. FacetRisk(b, c, name) = ModifiedRisk(b, c, name)
    BY <1>2, <1>8, <1>13 DEF FacetRisk
  <2>3. FacetRisk(b, c, name) \in FacetRisks(b, c)
    BY <1>2 DEF FacetRisks
  <2>4. FacetRisks(b, c) \subseteq Level
    BY <1>5, FacetRiskIsLevel DEF FacetRisks
  <2> QED  BY <2>1, <2>2, <2>3, <2>4, MaxRiskIsLargest
<1>14. ASSUME x # y
       PROVE  \/ id \in DOMAIN Drift /\ Drift[id] = ChangeRisk(before, found, id)
              \/ id \notin DOMAIN Drift /\ ChangeRisk(before, found, id) = NoRisk
  BY <1>2, <1>7, <1>9, <1>14, ReportLines DEF Drift
<1>15. ASSUME x # y  PROVE ChangeRisk(before, found, id) <= OverallRisk(Drift)
  <2>1. CASE id \in DOMAIN Drift /\ Drift[id] = ChangeRisk(before, found, id)
    <3>1. Drift[id] \in risks
      BY <2>1
    <3> QED  BY <1>11, <2>1, <3>1
  <2>2. CASE ChangeRisk(before, found, id) = NoRisk
    BY <1>11, <2>2 DEF NoRisk, Level
  <2> QED  BY <1>14, <1>15, <2>1, <2>2
<1>16. ASSUME x # y, NEW fact \in SchemaFacts(x, y)
       PROVE  TableOf(name)[fact] <= OverallRisk(Drift)
  <2>1. /\ TableOf(name)[fact] <= ModifiedRisk(b, c, name)
        /\ ModifiedRisk(b, c, name) <= ChangeRisk(before, found, id)
        /\ ChangeRisk(before, found, id) <= OverallRisk(Drift)
    BY <1>12, <1>13, <1>15, <1>16
  <2>2. fact \in SchemaFact
    BY <1>2, <1>5 DEF FactsNamed, Named
  <2>3. TableOf(name)[fact] \in Level
    <3>1. InputRisk[fact] \in Level
      BY <2>2, SchemaFactIs DEF InputRisk, Level, Low, Medium, High, Critical
    <3>2. OutputRisk[fact] \in Level
      BY <2>2, SchemaFactIs DEF OutputRisk, Level, Low, Medium, High, Critical
    <3> QED  BY <3>1, <3>2 DEF TableOf
  <2>4. /\ ModifiedRisk(b, c, name) \in Level /\ ChangeRisk(before, found, id) \in Level
        /\ OverallRisk(Drift) \in Level
    BY <1>11, <1>12, <1>13, <1>16
  <2> HIDE DEF b, c, before
  <2> QED  BY <2>1, <2>3, <2>4 DEF Level
<1>17. ASSUME x # y, DOMAIN Drift = {}  PROVE SchemaFacts(x, y) = {}
  <2>1. ChangeRisk(before, found, id) = NoRisk
    BY <1>14, <1>17
  <2>2. ModifiedRisk(b, c, name) = NoRisk
    BY <1>12, <1>13, <1>17, <2>1 DEF NoRisk, Level
  <2> QED  BY <1>12, <2>2 DEF EquivalentSchemas
<1> HIDE DEF x, y
<1> QED  BY <1>3, <1>4, <1>6, <1>11, <1>16, <1>17 DEF SilentPair

LEMMA BreakingIsHighHolds ==
    ASSUME KindsOK
    PROVE  BreakingIsHigh
<1> SUFFICES ASSUME Verified(lock), OverallRisk(Drift) < High,
                    NEW pair \in SchemasOf("input_schema"),
                    {pair[1], pair[2]} \subseteq DeclaredSchemas, pair \notin Constrained,
                    NEW call \in Values, Accepts(pair[1], call)
             PROVE  Accepts(pair[2], call)
  BY DEF BreakingIsHigh
<1> DEFINE b == pair[1]
           c == pair[2]
<1>1. /\ pair = <<b, c>> /\ b \in Schemas /\ c \in Schemas /\ OverallRisk(Drift) \in Level
      /\ b # c => \A fact \in Compared[Levels][<<b, c>>] :
            TableOf("input_schema")[fact] <= OverallRisk(Drift)
  BY SchemasInReport DEF SchemaFacet
<1>2. CASE b = c
  BY <1>2
<1>3. CASE b # c
  <2>1. Compared[Levels][<<b, c>>] \subseteq SchemaFact
    BY <1>1, ComparedIsComparison, LevelsIsNat DEF Comparisons, Pairs
  <2>2. ASSUME NEW fact \in Compared[Levels][<<b, c>>]  PROVE fact \in Mild
    <3>1. InputRisk[fact] <= OverallRisk(Drift) /\ fact \in SchemaFact
      BY <1>1, <1>3, <2>1, <2>2 DEF TableOf
    <3>2. InputRisk[fact] \in Level
      BY <3>1, SchemaFactIs DEF InputRisk, Level, Low, Medium, High, Critical
    <3>3. InputRisk[fact] < High
      BY <1>1, <3>1, <3>2 DEF Level, High
    <3> QED  BY <3>1, <3>3, MildIsNotHigh
  <2>3. Compared[Levels][<<b, c>>] \subseteq Mild
    BY <2>2
  <2> HIDE DEF b, c
  <2>4. Accepts(c, call)
    BY <1>1, <2>3, MildAccepts DEF b, c
  <2> QED  BY <2>4 DEF c
<1> QED  BY <1>2, <1>3

\* A gate at `fail_on_risk = "high"` that a comparison does not trip leaves every call as good as it
\* was, for any schemas of any depth and any values: what schema.rs:124-350 finds of an input schema
\* and risk.rs:168-203 weighs it with is enough.
THEOREM BreakingChangesAreHigh == Spec => []BreakingIsHigh
BY BreakingIsHighHolds, KindsAlwaysOK, PTL

LEMMA SilenceIsEarnedHolds ==
    ASSUME KindsOK
    PROVE  SilenceIsEarned
<1> SUFFICES ASSUME Verified(lock), DOMAIN Drift = {}, NEW name \in SchemaFacet,
                    NEW pair \in SchemasOf(name), {pair[1], pair[2]} \subseteq DeclaredSchemas
             PROVE  SameContract(pair[1], pair[2])
  BY DEF SilenceIsEarned, SchemaFacet
<1>1. /\ pair[1] \in Schemas /\ pair[2] \in Schemas
      /\ pair[1] # pair[2] => SilentPair(Levels, pair[1], pair[2])
  BY SchemasInReport
<1>2. CASE pair[1] = pair[2]
  BY <1>2 DEF SameContract
<1>3. CASE pair[1] # pair[2]
  BY <1>1, <1>3, SilentContract
<1> QED  BY <1>2, <1>3

\* A report without a line is earned, for any schemas and any values: what schema.rs finds equivalent
\* admits the same calls and the same answers, as long as it declares what it requires.
THEOREM SilenceEarned == Spec => []SilenceIsEarned
BY SilenceIsEarnedHolds, KindsAlwaysOK, PTL

LEMMA LostAnswerIsCriticalHolds ==
    ASSUME KindsOK
    PROVE  LostAnswerIsCritical
<1> SUFFICES ASSUME Verified(lock), OverallRisk(Drift) < Critical,
                    NEW pair \in SchemasOf("output_schema"),
                    IsNode(pair[1]), IsNode(pair[2]), pair[1] \in DeclaredSchemas,
                    NEW answer \in Values, answer.type = "object", Accepts(pair[2], answer)
             PROVE  Required(pair[1]) \subseteq DOMAIN answer.fields
  BY DEF LostAnswerIsCritical
<1> DEFINE b == pair[1]
           c == pair[2]
           fields == DOMAIN answer.fields
<1>1. /\ b \in Schemas /\ c \in Schemas /\ OverallRisk(Drift) \in Level
      /\ b # c => \A fact \in Compared[Levels][<<b, c>>] :
            TableOf("output_schema")[fact] <= OverallRisk(Drift)
  BY SchemasInReport DEF SchemaFacet
<1>2. Required(c) \subseteq fields
  <2>1. Height - 1 \in 0..Height - 1 /\ (Height - 1) + 1 = Height /\ c \in Rules
    BY <1>1, ContractAssumption DEF Rules
  <2>2. AdmitsValue(c, answer, Admitted[Height - 1])
    <3>1. <<c, answer>> \in Admitted[Height]
      BY DEF Accepts, Acceptance
    <3> HIDE DEF c
    <3> QED  BY <2>1, <3>1, AdmittedStep
  <2> QED  BY <1>1, <2>2, NodeAdmits DEF AdmitsFields
<1>3. CASE b = c
  BY <1>2, <1>3
<1>4. CASE b # c
  <2> DEFINE before == DOMAIN Properties(b)
             after == DOMAIN Properties(c)
  <2>1. "RequiredRemoved" \notin Compared[Levels][<<b, c>>]
    <3>1. TableOf("output_schema")["RequiredRemoved"] = Critical
      BY DEF TableOf, OutputRisk
    <3> QED  BY <1>1, <1>4, <3>1 DEF Level, Critical
  <2>2. Compared[Levels][<<b, c>>] = CompareWithin(b, c, Compared[Levels - 1])
    BY <1>1, <1>4, ComparedAt, LevelsIsNat DEF CompareNode
  <2>3. RequiredRemoved(b, c) = {}
    BY <2>1, <2>2 DEF CompareWithin, CompareRequired, Fact
  <2>4. Required(b) \intersect (before \ after) = {} /\ (Required(b) \ Required(c)) \intersect after = {}
    BY <2>3 DEF RequiredRemoved
  <2>5. Required(b) \subseteq before
    <3>1. b \in DeclaredLevel(Levels, DeclaredBelow[Levels - 1])
      BY DeclaredIs, LevelsIsNat DEF DeclaredSchemas, Levels
    <3> QED  BY <3>1, LevelsIsNat DEF DeclaredLevel, DeclaresRequired
  <2> HIDE DEF before, after, fields
  <2>6. Required(b) \subseteq fields
    BY <1>2, <2>4, <2>5
  <2> QED  BY <2>6 DEF fields
<1> QED  BY <1>3, <1>4

\* A gate at `fail_on_risk = "critical"` that a comparison does not trip leaves every field that an
\* answer was sure to have, for any schemas: a requirement that is dropped, or gone with its property,
\* is CRITICAL on the output side (schema.rs:124-350, risk.rs:168-203).
THEOREM LostAnswersAreCritical == Spec => []LostAnswerIsCritical
BY LostAnswerIsCriticalHolds, KindsAlwaysOK, PTL
================================================================================

----------------------------- MODULE Documents ------------------------------
(***************************************************************************)
(* What is done to a JSON document of any depth: its canonical form, the   *)
(* normal form of a schema, how deep it nests and what it exposes          *)
(* (src/src/fingerprint, src/src/discovery/mcp/normalize.rs).  They are    *)
(* the values of the constant operators of the modules that Behavior is    *)
(* made of, which say nothing of how a document is walked through.         *)
(***************************************************************************)
EXTENDS Behavior

\* The canonical form: of the members of an object the order is lost, of a number the spelling.
RECURSIVE CanonicalForm(_)
CanonicalForm(v) ==
    CASE IsArray(v) -> Array([i \in DOMAIN v.array |-> CanonicalForm(v.array[i])])
      [] IsObject(v) -> Object([key \in DOMAIN v.object |-> CanonicalForm(v.object[key])])
      [] "number" \in DOMAIN v -> [number |-> v.number]
      [] OTHER -> v

-----------------------------------------------------------------------------
(* The normal form of a schema: the order of `required` and `enum` is lost,  *)
(* wherever a keyword holds a schema, and nowhere else.                      *)

Sorted(list) == SortSeq(list, LAMBDA v, w : ValueRank[v] < ValueRank[w])

OneSchema == {"items", "not", "additionalProperties", "contentSchema"}
NamedSchemas == {"properties", "$defs"}
ListedSchemas == {"allOf", "anyOf"}

RECURSIVE NormalForm(_)
NormalForm(node) ==
    LET Each(children) == [i \in DOMAIN children |-> NormalForm(children[i])]
        Under(keyword, child) ==
            CASE keyword \in {"required", "enum"} /\ IsArray(child) -> Array(Sorted(child.array))
              [] keyword \in NamedSchemas /\ IsObject(child) -> Object(Each(child.object))
              [] keyword \in OneSchema \union ListedSchemas /\ IsArray(child) -> Array(Each(child.array))
              [] keyword \in OneSchema /\ ~IsArray(child) -> NormalForm(child)
              [] OTHER -> child
    IN  IF IsObject(node)
        THEN Object([keyword \in DOMAIN node.object |-> Under(keyword, node.object[keyword])])
        ELSE node

-----------------------------------------------------------------------------
(* What a server declares.                                                   *)

RECURSIVE Nesting(_)
Nesting(v) ==
    CASE IsObject(v) -> 1 + Max({0} \union {Nesting(v.object[key]) : key \in DOMAIN v.object})
      [] IsArray(v) -> 1 + Max({0} \union {Nesting(v.array[i]) : i \in DOMAIN v.array})
      [] OTHER -> 0

\* Fault: the keys of an object are not looked at.
RECURSIVE StringsExpose(_, _)
StringsExpose(secrets, v) ==
    CASE IsString(v) -> Exposes(secrets, v.string)
      [] IsArray(v) -> \E i \in DOMAIN v.array : StringsExpose(secrets, v.array[i])
      [] IsObject(v) -> \E key \in DOMAIN v.object : StringsExpose(secrets, v.object[key])
      [] OTHER -> FALSE

\* check_json: every string and every key, however deep.
RECURSIVE AnyPartExposes(_, _)
AnyPartExposes(secrets, v) ==
    CASE IsString(v) -> Exposes(secrets, v.string)
      [] IsArray(v) -> \E i \in DOMAIN v.array : AnyPartExposes(secrets, v.array[i])
      [] IsObject(v) -> \E key \in DOMAIN v.object :
            Exposes(secrets, <<key>>) \/ AnyPartExposes(secrets, v.object[key])
      [] OTHER -> FALSE

\* What a document says, in all its strings and keys.
RECURSIVE EveryPiece(_)
EveryPiece(v) ==
    CASE IsString(v) -> {v.string}
      [] IsArray(v) -> UNION {EveryPiece(v.array[i]) : i \in DOMAIN v.array}
      [] IsObject(v) -> {<<key>> : key \in DOMAIN v.object} \union UNION {EveryPiece(v.object[key]) : key \in DOMAIN v.object}
      [] OTHER -> {}
=============================================================================

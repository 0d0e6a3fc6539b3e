------------------------------ MODULE Matchers ------------------------------
(***************************************************************************)
(* What a probe expects of the arguments of a call                         *)
(* (src/src/probes/matchers.rs): JSON Pointers, and three operators.       *)
(*                                                                         *)
(* A key of `expect_args` is [pointer, tokens]: whether it begins with a   *)
(* slash, and its tokens, unescaped.  A token of Malformed holds an escape *)
(* that is not one.  The pieces of a string are its characters.            *)
(***************************************************************************)
EXTENDS Json, SequencesExt

CONSTANTS
    Malformed,  \* tokens with an unknown escape
    IndexOf,    \* the tokens that are array indices, as RFC 6901 writes them
    NoPath      \* Option::None of a pointer that is not usable, or that leads nowhere

Operators == {"equals", "contains", "one_of"}

\* A canonical pointer is its tokens; a bare key is one plain token.
CanonicalPointer(key) ==
    IF key.pointer
    THEN IF \E i \in DOMAIN key.tokens : key.tokens[i] \in Malformed THEN NoPath ELSE key.tokens
    ELSE IF Len(key.tokens) # 1 \/ key.tokens[1] \in Malformed THEN NoPath ELSE key.tokens

\* One step from a document along a token; from nowhere there is none.
Step(document, token) ==
    CASE document = NoPath -> NoPath
      [] document # NoPath /\ IsObject(document) /\ token \in DOMAIN document.object -> document.object[token]
      [] document # NoPath /\ IsArray(document) /\ token \in DOMAIN IndexOf
            /\ IndexOf[token] + 1 \in DOMAIN document.array -> document.array[IndexOf[token] + 1]
      [] OTHER -> NoPath

ResolvePointer(document, pointer) == FoldLeft(Step, document, pointer)

\* A string is searched for a substring, an array for an element.
ContainsValue(actual, needle) ==
    \/ /\ IsString(actual) /\ IsString(needle)
       /\ \E i \in 0..(Len(actual.string) - Len(needle.string)) :
            SubSeq(actual.string, i + 1, i + Len(needle.string)) = needle.string
    \/ IsArray(actual) /\ \E i \in DOMAIN actual.array : actual.array[i] = needle

Matches(matcher, actual) ==
    CASE matcher.operator = "equals" -> actual = matcher.value
      [] matcher.operator = "contains" -> ContainsValue(actual, matcher.value)
      [] matcher.operator = "one_of" -> \E i \in DOMAIN matcher.value : matcher.value[i] = actual

Satisfies(document, matchers) ==
    \A pointer \in DOMAIN matchers :
        LET actual == ResolvePointer(document, pointer)
        IN  actual # NoPath /\ Matches(matchers[pointer], actual)
=============================================================================

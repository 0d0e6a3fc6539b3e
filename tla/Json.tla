-------------------------------- MODULE Json --------------------------------
(***************************************************************************)
(* JSON documents as the program holds them, and what a fingerprint keeps  *)
(* of one (src/src/fingerprint).  A digest stands for the canonical form   *)
(* that is hashed: SHA-256 is taken to be injective.                       *)
(*                                                                         *)
(* A number carries the way it is written: serde_json tells 1 from 1.0,    *)
(* the canonical form does not.  A string is a sequence, its pieces are    *)
(* members of any set.                                                     *)
(***************************************************************************)
EXTENDS Integers, Sequences, FiniteSets

Null == [null |-> TRUE]
Number(n, written) == [number |-> n, written |-> written]
String(pieces) == [string |-> pieces]
Array(elements) == [array |-> elements]
Object(members) == [object |-> members]

IsString(v) == "string" \in DOMAIN v
IsArray(v) == "array" \in DOMAIN v
IsObject(v) == "object" \in DOMAIN v

\* What a vector is.
IsList(v) == v \in Seq({v[i] : i \in DOMAIN v})

\* The entries of `first`, and those of `second` under the keys that it lacks.
Overlay(first, second) ==
    [key \in DOMAIN first \union DOMAIN second |->
        IF key \in DOMAIN first THEN first[key] ELSE second[key]]

CONSTANT Canonical(_)  \* the canonical form of a document: Documents!CanonicalForm

Digest(v) == Canonical(v)

\* Every member of a table of documents.
CanonicalTable(table) == [key \in DOMAIN table |-> Canonical(table[key])]

-----------------------------------------------------------------------------
(* Text.  The words are what a reader sees; spacing, the line endings and a  *)
(* byte-order mark are how the file spells them.                             *)

Text(words, spacing, ends) == [words |-> words, spacing |-> spacing, ends |-> ends]

\* The text as the model receives it: line endings and a byte-order mark are unified.
NormalizeText(text) == [text EXCEPT !.ends = "lf"]

\* Whitespace runs are collapsed.
ShapeText(text) == text.words
=============================================================================

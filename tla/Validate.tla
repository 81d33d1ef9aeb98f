------------------------------ MODULE Validate ------------------------------
(***************************************************************************)
(* Request validation, internal/core/exec/validate.go, of the schemas that *)
(* parseSchema of internal/core/spec/parser.go takes from a document.      *)
(*                                                                         *)
(* A value is a record of its kind, the text fmt prints for it, its items  *)
(* (of an array) and its fields (of an object).  A schema is a record of   *)
(* the list of types the document gives, its enum (each entry the text     *)
(* found in the document and the value it denotes), the required names,    *)
(* the schemas of its properties and those of its items, at most one.      *)
(***************************************************************************)
EXTENDS Integers, Sequences

CONSTANTS
  Values,     \* JSON values, with the items and fields of each
  Schemas,    \* schemas, with those of their properties and items
  Empty,      \* a request without a body
  Malformed   \* a body that is not JSON

Scalars == {"boolean", "number", "string"}
Kinds == Scalars \cup {"null", "array", "object"}

ValueParts ==
  [v \in Values |-> {v.items[i] : i \in DOMAIN v.items} \cup {v.fields[f] : f \in DOMAIN v.fields}]
SchemaParts == [s \in Schemas |-> s.items \cup {s.props[f] : f \in DOMAIN s.props}]

ASSUME ValidateAssumption ==
  /\ Empty # Malformed /\ {Empty, Malformed} \cap Values = {}
  /\ \A v \in Values : v.kind \in Kinds /\ ValueParts[v] \subseteq Values
  /\ \A s \in Schemas : s.types \in Seq(STRING) /\ SchemaParts[s] \subseteq Schemas

\* Values and schemas end somewhere: parseSchema would not come back from a
\* schema that holds itself.
ASSUME NestingAssumption ==
  /\ \A S \in SUBSET Values : S # {} => \E v \in S : ValueParts[v] \cap S = {}
  /\ \A S \in SUBSET Schemas : S # {} => \E s \in S : SchemaParts[s] \cap S = {}

\* What fmt prints for a scalar denotes that scalar in a document.
ASSUME TextAssumption ==
  \A s \in Schemas, v \in Values : \A e \in s.enum :
    (v.kind \in Scalars /\ e.denotes.kind = v.kind /\ e.text = v.text) => e.denotes = v

-----------------------------------------------------------------------------
(* What the code does *)

\* parseSchema keeps the first type of the list, the code's only type.
TypeOf(s) == IF s.types = << >> THEN "" ELSE s.types[1]

\* checkType: an integer may be any number, and a type it does not list, such
\* as "null", any value.
TypeFits(v, t) ==
  CASE t \in {"number", "integer"} -> v.kind = "number"
    [] t \in {"string", "boolean", "array", "object"} -> v.kind = t
    [] OTHER -> TRUE

\* enumContains compares what is printed.
InEnum(v, s) == \E e \in s.enum : e.text = v.text

Below(step, violations) == {[x EXCEPT !.path = <<step>> \o @] : x \in violations}

\* Mutant of Missing: a required name that is a property is taken to be there.
MissingUndeclared(v, s) ==
  {[path |-> <<f>>, reason |-> "required"] : f \in s.required \ DOMAIN s.props}

Missing(v, s) == {[path |-> <<f>>, reason |-> "required"] : f \in s.required \ DOMAIN v.fields}

\* validateValue: a value of the wrong type has one violation and hides those
\* below it, which found holds.
Check(found, v, s) ==
  IF ~TypeFits(v, TypeOf(s)) THEN {[path |-> << >>, reason |-> "type"]}
  ELSE
    (IF s.enum # {} /\ ~InEnum(v, s) THEN {[path |-> << >>, reason |-> "enum"]} ELSE {})
    \cup
    (IF /\ v.kind = "object"
        /\ TypeOf(s) = "object" \/ (TypeOf(s) = "" /\ DOMAIN s.props # {})
     THEN Missing(v, s) \cup
          UNION {Below(f, found[v.fields[f]][s.props[f]]) :
                   f \in DOMAIN s.props \cap DOMAIN v.fields}
     ELSE {})
    \cup
    (IF TypeOf(s) = "array"
     THEN UNION {UNION {Below(i, found[v.items[i]][t]) : t \in s.items} : i \in DOMAIN v.items}
     ELSE {})

Violations[v \in Values] == [s \in Schemas |-> Check(Violations, v, s)]

\* ValidateMiddleware, on an operation whose request body has the schema in
\* schemas (none when it declares no body), with validation enabled.
Refused(schemas, body) ==
  /\ body # Empty
  /\ \E s \in schemas :
       /\ TypeOf(s) # "" \/ DOMAIN s.props # {}
       /\ body \in Values => Violations[body][s] # {}

-----------------------------------------------------------------------------
(* What a schema means *)

OfType(v, t) == v.kind = t \/ (t = "integer" /\ v.kind = "number" /\ v.whole)

\* The values a schema admits, by the JSON Schema keywords it is made of.
AdmitsGiven(admits, v, s) ==
  /\ s.types # << >> => \E i \in DOMAIN s.types : OfType(v, s.types[i])
  /\ s.enum # {} => \E e \in s.enum : e.denotes = v
  /\ v.kind = "object" =>
       /\ s.required \subseteq DOMAIN v.fields
       /\ \A f \in DOMAIN s.props \cap DOMAIN v.fields : admits[v.fields[f]][s.props[f]]
  /\ v.kind = "array" => \A i \in DOMAIN v.items : \A t \in s.items : admits[v.items[i]][t]

Admits[v \in Values] == [s \in Schemas |-> AdmitsGiven(Admits, v, s)]

\* A schema, and those in it, that give at most one type and print the entries
\* of an enum as fmt does: what they admit is never refused.
Plain(s) == Len(s.types) <= 1 /\ \A e \in s.enum : e.text = e.denotes.text
Unambiguous[s \in Schemas] == Plain(s) /\ \A t \in SchemaParts[s] : Unambiguous[t]

\* A schema, and those in it, of one of the types checkType tells apart, that
\* says nothing the code reads less of (an enum of arrays or objects is one
\* whose entries may print alike): what they do not admit is refused.
Exact(s) ==
  /\ TypeOf(s) \in Scalars \cup {"array", "object"}
  /\ Len(s.types) = 1
  /\ \A e \in s.enum : e.denotes.kind = TypeOf(s) /\ TypeOf(s) \in Scalars
Checked[s \in Schemas] == Exact(s) /\ \A t \in SchemaParts[s] : Checked[t]
=============================================================================

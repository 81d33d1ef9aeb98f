----------------------------- MODULE Operations -----------------------------
(***************************************************************************)
(* The operations of an OpenAPI document as internal/core/spec/parser.go   *)
(* hands them on, and the URL the executor makes of one of them.           *)
(*                                                                         *)
(* A path is the sequence of its segments, the slashes around it trimmed:  *)
(* the root is one empty segment.  A segment like {id} is a template.      *)
(***************************************************************************)
EXTENDS Integers, Sequences, FiniteSets

CONSTANTS
  Segments,    \* segments of paths and of what users type
  Templates,   \* the segments that are templates
  Operation,   \* the operations, records of a method, a path, an id, a tag,
               \* whether it takes query parameters, whether it takes a body,
               \* and which templates it declares as parameters of its own
  Documents    \* the documents: their operations in the order of the parser

ASSUME OperationsAssumption ==
  /\ Templates \subseteq Segments
  /\ \A o \in Operation : o.path \in Seq(Segments) /\ o.declares \subseteq Templates
  /\ Documents \subseteq Seq(Operation)

VARIABLE document  \* the operations of the document at hand

\* The templates in the path of o.
TemplatesOf(o) == {o.path[j] : j \in 1..Len(o.path)} \cap Templates

\* Mutant of Resolve: values are put in as they are.
ResolveUnescaped(o, params) ==
  [j \in 1..Len(o.path) |->
     IF o.path[j] \in DOMAIN params
       THEN [segment |-> params[o.path[j]], escaped |-> FALSE]
       ELSE [segment |-> o.path[j], escaped |-> FALSE]]

\* resolveURL: every template that params binds is replaced by its value,
\* percent-encoded; the others, and the literal segments, stay as they are.
Resolve(o, params) ==
  [j \in 1..Len(o.path) |->
     IF o.path[j] \in DOMAIN params
       THEN [segment |-> params[o.path[j]], escaped |-> TRUE]
       ELSE [segment |-> o.path[j], escaped |-> FALSE]]
=============================================================================

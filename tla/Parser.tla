------------------------------- MODULE Parser -------------------------------
(***************************************************************************)
(* Parse of internal/core/spec/parser.go: from an OpenAPI document, as the *)
(* library that reads it presents it, to the operations that everything    *)
(* else works on.                                                          *)
(*                                                                         *)
(* A document holds its path items in order, and each of them its          *)
(* parameters and its operations.  Words[s] are the words of a segment     *)
(* between its hyphens, in lower case and without braces.                  *)
(***************************************************************************)
EXTENDS SequencesExt

CONSTANTS Words, LowerCase

\* isSwagger2: the text "swagger:" anywhere in the document will do.
Unsupported(doc) == doc.mentionsSwagger

\* generateOperationID: the method, and the words of the path.
GenerateOperationID(method, path) ==
  FoldLeft(LAMBDA id, word : id \o "_" \o word, LowerCase[method],
           FlattenSeq([j \in DOMAIN path |-> Words[path[j]]]))

\* The parameters of an operation of some kind.  Those its path item lists
\* for all of its operations are not looked at.
Parameters(op, kind) == {p.name : p \in {q \in op.parameters : q.in = kind}}

\* parseOperation
ParseOperation(path, op) ==
  [method |-> op.method, path |-> path,
   id |-> IF op.id # "" THEN op.id ELSE GenerateOperationID(op.method, path),
   tag |-> op.tag,
   query |-> Parameters(op, "query") # {},
   body |-> op.body,
   declares |-> Parameters(op, "path")]

\* Every operation of every path item, in their order.
Parse(doc) ==
  FlattenSeq([i \in DOMAIN doc.paths |->
    [j \in DOMAIN doc.paths[i].operations |->
       ParseOperation(doc.paths[i].path, doc.paths[i].operations[j])]])
=============================================================================

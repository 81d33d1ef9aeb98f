------------------------------- MODULE Lookup -------------------------------
(***************************************************************************)
(* "apimount call METHOD PATH", cmd/apimount/call.go: FindOperation,       *)
(* internal/core/spec/find.go, goes through the operations for the one     *)
(* that fits, and the executor makes a URL of it.  One operation is one    *)
(* step.                                                                   *)
(***************************************************************************)
EXTENDS Operations

CONSTANTS
  Requests,  \* [method, path] users ask for
  Decoded    \* Decoded[s]: what a server reads a segment s of a URL as

ASSUME LookupAssumption ==
  /\ \A q \in Requests : q.path \in Seq(Segments)
  /\ DOMAIN Decoded = Segments

VARIABLES
  asked,     \* the request at hand
  search,    \* "idle", "searching", "sent", "unknown"
  at,        \* index of the next operation
  best,      \* index of the best so far, 0 for none
  literals,  \* bestLiterals
  params,    \* bestParams
  sent       \* the path of the URL

searchVars == <<asked, search, at, best, literals, params, sent>>
lookupVars == <<document, searchVars>>

Empty == << >>

\* Types of the loop of FindOperation.
LookupTypeOK ==
  /\ document \in Documents
  /\ asked \in Requests
  /\ search \in {"idle", "searching", "sent", "unknown"}
  /\ at \in 1..(Len(document) + 1)
  /\ best \in 0..Len(document)
  /\ literals \in Nat \cup {-1}

LookupInit ==
  /\ document \in Documents
  /\ asked \in Requests
  /\ search = "idle"
  /\ at = 1 /\ best = 0 /\ literals = -1
  /\ params = Empty /\ sent = Empty

-----------------------------------------------------------------------------
Fits(o, q) ==
  /\ o.method = q.method
  /\ Len(o.path) = Len(q.path)
  /\ \A j \in 1..Len(q.path) : o.path[j] \in Templates \/ o.path[j] = q.path[j]

\* The code also counts the empty segment before the first slash, for all alike.
Literals(o) == Cardinality({j \in 1..Len(o.path) : o.path[j] \notin Templates})

\* A template that occurs twice is bound by its last occurrence.
Bind(o, q) ==
  [t \in TemplatesOf(o) |->
     q.path[CHOOSE j \in 1..Len(o.path) :
              /\ o.path[j] = t
              /\ \A k \in (j + 1)..Len(o.path) : o.path[k] # t]]

Ask(q) ==
  /\ search = "idle"
  /\ asked' = q
  /\ search' = "searching"
  /\ UNCHANGED <<document, at, best, literals, params, sent>>

\* Mutant of Better: the last of several wins.
BetterOrEqual(o) == Fits(o, asked) /\ Literals(o) >= literals

Better(o) == Fits(o, asked) /\ Literals(o) > literals

Consider ==
  /\ search = "searching" /\ at <= Len(document)
  /\ at' = at + 1
  /\ IF Better(document[at])
       THEN /\ best' = at
            /\ literals' = Literals(document[at])
            /\ params' = Bind(document[at], asked)
       ELSE UNCHANGED <<best, literals, params>>
  /\ UNCHANGED <<document, asked, search, sent>>

\* ExecuteGET or ExecuteWrite gets the operation, or there is none.
Send ==
  /\ search = "searching" /\ at > Len(document)
  /\ IF best = 0
       THEN search' = "unknown" /\ UNCHANGED sent
       ELSE search' = "sent" /\ sent' = Resolve(document[best], params)
  /\ UNCHANGED <<document, asked, at, best, literals, params>>

\* The command ends; the next one is a process of its own.
Finish ==
  /\ search \in {"sent", "unknown"}
  /\ search' = "idle"
  /\ at' = 1 /\ best' = 0 /\ literals' = -1
  /\ params' = Empty /\ sent' = Empty
  /\ UNCHANGED <<document, asked>>

LookupNext == (\E q \in Requests : Ask(q)) \/ Consider \/ Send \/ Finish

LookupSpec == LookupInit /\ [][LookupNext]_lookupVars

-----------------------------------------------------------------------------
(* Properties *)

\* "If multiple operations match, the one with the most literal (non-template)
\* segments wins. On a tie, the first declared operation wins." (find.go:15):
\* after any number of operations the best is that of those seen so far.
Seen == {i \in 1..(at - 1) : Fits(document[i], asked)}
BestSoFar ==
  search # "idle" =>
    IF best = 0 THEN Seen = {}
    ELSE /\ best \in Seen
         /\ \A i \in Seen :
              /\ Literals(document[i]) <= Literals(document[best])
              /\ i < best => Literals(document[i]) < Literals(document[best])

\* "path parameters are bound from the concrete URL segments automatically"
\* (call.go:66): the server reads, segment by segment, what the user typed.
Received(s) == IF s.escaped THEN s.segment ELSE Decoded[s.segment]
SentAsAsked ==
  search = "sent" => [j \in 1..Len(sent) |-> Received(sent[j])] = asked.path
=============================================================================

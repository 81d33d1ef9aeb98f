----------------------------- MODULE Pagination -----------------------------
(***************************************************************************)
(* The pagination middleware, internal/core/exec/pagination.go: from the   *)
(* first response on, fetch page after page and merge their items.         *)
(*                                                                         *)
(* The upstream, outside the repository, holds the items 1..total.  A      *)
(* request names a position, as an offset, a page number, a cursor or a    *)
(* link, and is answered with the items after it and with the position of  *)
(* the next page, in the Link header or in a field of the body, or with    *)
(* neither.  Position End stands for "no link" and for the empty cursor.   *)
(***************************************************************************)
EXTENDS Integers, Sequences, SequencesExt

CONSTANTS
  Setups,    \* the requests and servers considered
  MaxPages,  \* PaginationConfig.MaxPages
  Faults     \* what the calls down the chain may come to: "error", "blank"

End == -1
Strategies == {"link", "cursor", "offset", "page"}

\* Three of the six names of cursor fields, in the order both lists have; the
\* last is missing from the list that detectStrategy goes through.
FieldKeys == <<"cursor", "after", "next_page_token">>
StrategyKeys == <<"cursor", "after">>

Setup == [
  method : {"GET", "POST"},
  forced : Strategies \cup {"auto"},       \* PaginationConfig.Strategy
  style : {"link", "plain"} \cup ToSet(FieldKeys), \* where the server puts what is next
  decoy : BOOLEAN,                         \* an empty field "cursor" beside it
  heeds : BOOLEAN,                         \* the server knows the parameter it is sent
  basePath : BOOLEAN,                      \* the base URL has a path of its own
  start : Nat,                             \* the position the caller asked for
  limit : Nat,                             \* its limit parameter, 0 for none
  cap : Nat \ {0},                         \* the most items the server puts in a page
  total : Nat]                             \* the items the server has

ASSUME PaginationAssumption ==
  /\ Setups \subseteq Setup
  /\ MaxPages \in Nat \ {0}
  /\ Faults \subseteq {"error", "blank"}

VARIABLES
  setup,     \* the request and the server
  pc,        \* "first", "next", "done"
  strategy,  \* the strategy in use, "none" when the response passes through
  field,     \* cursorField, "" for none
  current,   \* the last page taken
  items,     \* allItems
  limit,     \* the limit of the offset strategy
  pages,     \* pages merged
  outcome,   \* "none", "error", "raw": the response as it was, or "merged"
  calls,     \* history: calls of next
  cut        \* history: an error, or an empty page before the end, ended it

vars == <<setup, pc, strategy, field, current, items, limit, pages, outcome, calls, cut>>

NoPage == [items |-> << >>, link |-> End, fields |-> << >>]

TypeOK ==
  /\ setup \in Setups
  /\ pc \in {"first", "next", "done"}
  /\ strategy \in Strategies \cup {"none"}
  /\ field \in ToSet(FieldKeys) \cup {""}
  /\ current.items \in Seq(1..setup.total) /\ current.link \in End..setup.total
  /\ items \in Seq(1..setup.total)
  /\ limit \in Nat
  /\ pages \in 0..MaxPages
  /\ outcome \in {"none", "error", "raw", "merged"}
  /\ calls \in Nat
  /\ cut \in BOOLEAN

Init ==
  /\ setup \in Setups
  /\ pc = "first"
  /\ strategy = "none" /\ field = ""
  /\ current = NoPage
  /\ items = << >> /\ limit = 0 /\ pages = 0
  /\ outcome = "none"
  /\ calls = 0 /\ cut = FALSE

-----------------------------------------------------------------------------
(* The upstream *)

Collection == [i \in 1..setup.total |-> i]
Lesser(a, b) == IF a < b THEN a ELSE b

\* What a server says of the page at position b: in a header, in a field of
\* the body, or not at all.
Announced(s, b) ==
  LET next == IF b < setup.total THEN b ELSE End
      named == IF setup.style \in ToSet(FieldKeys) THEN {setup.style} ELSE {}
      keys == named \cup (IF setup.decoy THEN {"cursor"} ELSE {})
  IN  [items |-> s,
       link |-> IF setup.style = "link" THEN next ELSE End,
       fields |-> [k \in keys |-> IF k \in named THEN next ELSE End]]

\* The answers to a request for n items (0 for as many as the server likes)
\* from position a on; with "blank", a server that announces the next page may
\* also send an empty one that is not the last.
Answers(a, n) ==
  LET from == IF setup.heeds THEN a ELSE setup.start
      size == IF n = 0 THEN setup.cap ELSE Lesser(n, setup.cap)
  IN  {Announced(SubSeq(Collection, from + 1, Lesser(from + size, setup.total)), from + size)}
        \cup (IF "blank" \in Faults /\ setup.style # "plain" THEN {Announced(<< >>, from)} ELSE {})

-----------------------------------------------------------------------------
(* The first response *)

Has(r, k) == k \in DOMAIN r.fields

\* A Link header, else a known field that holds a non-empty string.
DetectStrategy(r) ==
  IF r.link # End THEN "link"
  ELSE IF \E k \in ToSet(StrategyKeys) : Has(r, k) /\ r.fields[k] # End THEN "cursor"
  ELSE "none"

\* The first known field there is, whatever it holds.
DetectCursorField(r) ==
  LET present == {i \in DOMAIN FieldKeys : Has(r, FieldKeys[i])}
  IN  IF present = {} THEN "" ELSE FieldKeys[Min(present)]

\* Nothing to page by: the response is returned as it is.
PassesThrough(s, f, n) ==
  \/ s = "none"
  \/ s = "cursor" /\ f = ""
  \/ s = "offset" /\ n = 0

First(r) ==
  /\ pc = "first"
  /\ r \in Answers(setup.start, setup.limit)
  /\ current' = r /\ items' = r.items
  /\ pages' = 1 /\ calls' = 1
  /\ strategy' = IF setup.method # "GET" THEN "none"
                 ELSE IF setup.forced # "auto" THEN setup.forced ELSE DetectStrategy(r)
  /\ field' = DetectCursorField(r)
  /\ limit' = IF setup.limit # 0 THEN setup.limit ELSE Len(r.items)
  /\ IF PassesThrough(strategy', field', limit')
       THEN pc' = "done" /\ outcome' = "raw"
       ELSE pc' = "next" /\ outcome' = "none"
  /\ UNCHANGED <<setup, cut>>

FirstError ==
  /\ pc = "first" /\ "error" \in Faults
  /\ pc' = "done" /\ outcome' = "error"
  /\ calls' = 1 /\ cut' = TRUE
  /\ UNCHANGED <<setup, strategy, field, current, items, limit, pages>>

-----------------------------------------------------------------------------
(* The loops of the four strategies *)

\* Mutant of NextPosition: pages are counted from the caller's again.
NextPositionLate ==
  CASE strategy = "link" -> current.link
    [] strategy = "cursor" -> IF Has(current, field) THEN current.fields[field] ELSE End
    [] strategy = "offset" -> Len(items)
    [] strategy = "page" -> setup.start + (pages + 1) * setup.cap

\* What the next request asks for.  Offsets are counted from the items got so
\* far and page numbers from the caller's, whose pages have the server's size.
NextPosition ==
  CASE strategy = "link" -> current.link
    [] strategy = "cursor" -> IF Has(current, field) THEN current.fields[field] ELSE End
    [] strategy = "offset" -> Len(items)
    [] strategy = "page" -> setup.start + pages * setup.cap

NextLimit == IF strategy = "offset" THEN limit ELSE setup.limit

\* Mutant of More: one page more than the cap.
MoreByOne == pc = "next" /\ pages <= MaxPages /\ NextPosition # End

More == pc = "next" /\ pages < MaxPages /\ NextPosition # End

\* The path of a link has the path of the base URL put before it once more.
LinkBroken == strategy = "link" /\ setup.basePath

Merge == pc' = "done" /\ outcome' = "merged"

Exhausted ==
  /\ pc = "next" /\ ~More
  /\ Merge
  /\ UNCHANGED <<setup, strategy, field, current, items, limit, pages, calls, cut>>

NextPage(r) ==
  /\ More /\ ~LinkBroken
  /\ r \in Answers(NextPosition, NextLimit) /\ r.items # << >>
  /\ current' = r /\ items' = items \o r.items
  /\ pages' = pages + 1 /\ calls' = calls + 1
  /\ IF strategy = "offset" /\ Len(r.items) < limit THEN Merge ELSE UNCHANGED <<pc, outcome>>
  /\ UNCHANGED <<setup, strategy, field, limit, cut>>

\* A page without items ends the loop, and so does an error: what there is so
\* far is the result, and the error is dropped.
EmptyPage(r) ==
  /\ More /\ ~LinkBroken
  /\ r \in Answers(NextPosition, NextLimit) /\ r.items = << >>
  /\ Merge
  /\ calls' = calls + 1
  /\ cut' = (NextPosition < setup.total)
  /\ UNCHANGED <<setup, strategy, field, current, items, limit, pages>>

PageError ==
  /\ More /\ ("error" \in Faults \/ LinkBroken)
  /\ Merge
  /\ calls' = calls + 1 /\ cut' = TRUE
  /\ UNCHANGED <<setup, strategy, field, current, items, limit, pages>>

Next ==
  \/ \E r \in Answers(setup.start, setup.limit) : First(r)
  \/ FirstError
  \/ Exhausted
  \/ More /\ \E r \in Answers(NextPosition, NextLimit) : NextPage(r) \/ EmptyPage(r)
  \/ PageError

Spec == Init /\ [][Next]_vars

-----------------------------------------------------------------------------
(* Properties *)

Wanted == SubSeq(Collection, setup.start + 1, setup.total)

\* The middleware "fetches all pages of a paginated GET response and merges
\* them into a single JSON array" (pagination.go:55): a result without an
\* error, short of the cap on pages, is every item from the first asked for on.
FetchesAll == outcome = "merged" /\ pages < MaxPages => items = Wanted

\* It does when the server takes the parameters it is sent and neither an
\* error nor an empty page cut the loop short: each of the four loops goes on
\* to the last page (pagination.go:125-254).
Complete == setup.heeds /\ ~cut => FetchesAll

\* Whatever errors and empty pages come in between, what has been merged are
\* the items in their order from the first asked for on, none skipped or
\* repeated (pagination.go:125-254).
InOrder == setup.heeds => IsPrefix(items, Wanted)
=============================================================================

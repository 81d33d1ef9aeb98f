-------------------------- MODULE PaginationProofs --------------------------
(***************************************************************************)
(* Theorems about Pagination, for any total, any size of pages and any cap  *)
(* on their number.                                                        *)
(***************************************************************************)
EXTENDS Pagination, SequenceTheorems, TLAPS

\* The servers and requests for which order is claimed: the offset strategy
\* counts from 0, and page numbers need pages of the server's size, of which
\* the first is not an empty one.
Regular ==
  \A s \in Setups : s.heeds =>
    /\ s.start <= s.total
    /\ s.forced = "offset" => s.start = 0
    /\ s.forced = "page" => s.limit = 0 /\ s.style = "plain"

\* How far the caller has come.
Reached == setup.start + Len(items)

\* A response that ends at position b and names what follows, or nothing.
Ends(r, b) ==
  /\ r.link \in {End, b}
  /\ \A k \in DOMAIN r.fields : r.fields[k] \in {End, b}

\* What a server that heeds the position says of a page that ends at b.
Follow(b) == IF b < setup.total THEN b ELSE End
Names(r, b) ==
  /\ r.link = IF setup.style = "link" THEN Follow(b) ELSE End
  /\ ~setup.decoy => DOMAIN r.fields = ToSet(FieldKeys) \cap {setup.style}
  /\ setup.style \in ToSet(FieldKeys) => r.fields[setup.style] = Follow(b)

\* The items it sends when asked for n of them.
PageSize(n) == IF n = 0 THEN setup.cap ELSE Lesser(n, setup.cap)

\* With pages of one size, page numbers lead where the last page ended, or past
\* the end.
Paged ==
  LET done == pages * setup.cap
  IN  strategy = "page" =>
        Len(items) = done \/ (Len(items) <= done /\ Reached = setup.total)

Ordered ==
  /\ setup \in Setups
  /\ pc \in {"first", "next", "done"}
  /\ items = SubSeq(Collection, setup.start + 1, Reached)
  /\ Len(items) \in Nat /\ Reached <= setup.total
  /\ pages \in Nat /\ limit \in Nat
  /\ pc = "first" => items = << >>
  /\ pc = "next" =>
       /\ strategy \in Strategies
       /\ Ends(current, Reached)
       /\ Paged
       /\ strategy = "offset" => setup.start = 0
       /\ strategy = "page" => setup.limit = 0 /\ setup.style = "plain"

LEMMA SetupTypes ==
  ASSUME setup \in Setups
  PROVE  /\ setup.start \in Nat /\ setup.total \in Nat /\ setup.cap \in Nat \ {0}
         /\ setup.limit \in Nat
         /\ setup.forced \in Strategies \cup {"auto"}
<1>1. setup \in Setup
  BY PaginationAssumption
<1>. QED
  BY <1>1 DEF Setup

LEMMA CollectionType ==
  ASSUME setup \in Setups
  PROVE  Collection \in Seq(1..setup.total) /\ Len(Collection) = setup.total
<1>1. setup.total \in Nat
  BY SetupTypes
<1>. QED
  BY <1>1 DEF Collection

\* The part of the collection between two positions.
LEMMA Part ==
  ASSUME setup \in Setups, NEW a \in Nat, NEW b \in Nat, a <= b, b <= setup.total
  PROVE  Len(SubSeq(Collection, a + 1, b)) = b - a
<1>1. \A i \in (a + 1)..b : Collection[i] \in 1..setup.total
  BY SetupTypes DEF Collection
<1>2. Len(SubSeq(Collection, a + 1, b)) = IF a + 1 <= b THEN b - (a + 1) + 1 ELSE 0
  BY <1>1, SubSeqProperties
<1>. QED
  BY <1>2

\* Two parts that meet make one.
LEMMA Join ==
  ASSUME setup \in Setups, NEW a \in Nat, NEW b \in Nat, NEW c \in Nat,
         a <= b, b <= c, c <= setup.total
  PROVE  SubSeq(Collection, a + 1, b) \o SubSeq(Collection, b + 1, c)
           = SubSeq(Collection, a + 1, c)
<1>1. PICK S, C : S = 1..setup.total /\ C = Collection
  OBVIOUS
<1>2. C \in Seq(S) /\ Len(C) = setup.total /\ setup.total \in Nat
  BY <1>1, SetupTypes, CollectionType
<1>3. PICK m : m = a + 1
  OBVIOUS
<1>4. m \in 1..(Len(C) + 1) /\ b \in (m - 1)..Len(C) /\ c \in b..Len(C)
  BY <1>2, <1>3
<1>5. SubSeq(C, m, b) \o SubSeq(C, b + 1, c) = SubSeq(C, m, c)
  BY <1>2, <1>4, ConcatAdjacentSubSeq
<1>. QED
  BY <1>1, <1>3, <1>5

\* What a server that heeds the position a sends: the part of the collection
\* from there to some b, and what follows b if anything does.
LEMMA AnswerPart ==
  ASSUME setup \in Setups, setup.heeds, NEW a \in Nat, NEW n \in Nat, a <= setup.total,
         NEW r \in Answers(a, n)
  PROVE  \E b \in a..setup.total :
           /\ r.items = SubSeq(Collection, a + 1, b) /\ Ends(r, b) /\ Names(r, b)
           /\ setup.style = "plain" => b = Lesser(a + PageSize(n), setup.total)
<1> DEFINE c == a + PageSize(n)
           full == Announced(SubSeq(Collection, a + 1, Lesser(c, setup.total)), c)
<1>1. setup.total \in Nat /\ PageSize(n) \in Nat /\ c \in Nat
  BY SetupTypes DEF Lesser, PageSize
<1>2. \/ r = full
      \/ setup.style # "plain" /\ r = Announced(<< >>, a)
  BY DEF Answers, PageSize
<1>3. ASSUME NEW s, NEW b
      PROVE  /\ Announced(s, b).items = s
             /\ Ends(Announced(s, b), Follow(b)) /\ Names(Announced(s, b), b)
  <2> DEFINE named == IF setup.style \in ToSet(FieldKeys) THEN {setup.style} ELSE {}
             keys == named \cup (IF setup.decoy THEN {"cursor"} ELSE {})
             next == IF b < setup.total THEN b ELSE End
  <2>1. Announced(s, b) = [items |-> s, link |-> IF setup.style = "link" THEN next ELSE End,
                           fields |-> [k \in keys |-> IF k \in named THEN next ELSE End]]
    BY Zenon DEF Announced
  <2>2. /\ next = Follow(b)
        /\ named = ToSet(FieldKeys) \cap {setup.style}
        /\ ~setup.decoy => keys = named
        /\ named \subseteq keys
    BY DEF Follow
  <2>. HIDE DEF named, keys, next
  <2>3. Ends(Announced(s, b), Follow(b))
    BY <2>1, <2>2 DEF Ends
  <2>4. Names(Announced(s, b), b)
    <3>1. /\ Announced(s, b).link = IF setup.style = "link" THEN Follow(b) ELSE End
          /\ DOMAIN Announced(s, b).fields = keys
          /\ \A k \in named : Announced(s, b).fields[k] = Follow(b)
      BY <2>1, <2>2
    <3>. QED
      BY <2>2, <3>1 DEF Names
  <2>. QED
    BY <2>1, <2>3, <2>4
<1>4. CASE r = full
  <2> DEFINE b == Lesser(c, setup.total)
  <2>1. b \in a..setup.total /\ Follow(b) = Follow(c) /\ Follow(b) \in {End, b}
    BY <1>1 DEF Lesser, Follow
  <2>2. r.items = SubSeq(Collection, a + 1, b)
    BY <1>3, <1>4
  <2>3. Ends(r, Follow(c)) /\ Names(r, c)
    BY <1>3, <1>4
  <2>4. Ends(r, b) /\ Names(r, b)
    BY <2>1, <2>3 DEF Ends, Names
  <2>. QED
    BY <2>1, <2>2, <2>4
<1>5. CASE setup.style # "plain" /\ r = Announced(<< >>, a)
  <2>1. r.items = << >> /\ Ends(r, Follow(a)) /\ Names(r, a)
    BY <1>3, <1>5
  <2>2. Ends(r, a)
    BY <2>1 DEF Ends, Follow
  <2>3. SubSeq(Collection, a + 1, a) = << >>
    BY SubSeqEmpty
  <2>4. a \in a..setup.total
    BY <1>1
  <2>. QED
    BY <1>5, <2>1, <2>2, <2>3, <2>4
<1>. QED
  BY <1>2, <1>4, <1>5
-----------------------------------------------------------------------------
(* Types *)

\* A response of the server: some of its items, and positions it has.
Typed(r) ==
  /\ r.items \in Seq(1..setup.total)
  /\ r.link \in End..setup.total
  /\ \A k \in DOMAIN r.fields : r.fields[k] \in End..setup.total

TypeInv ==
  /\ TypeOK
  /\ Typed(current)
  /\ pc = "next" => strategy \in Strategies

\* What the server sends is typed, whatever it is asked for.
LEMMA AnswerTyped ==
  ASSUME setup \in Setups, NEW a \in Nat, NEW n \in Nat, NEW r \in Answers(a, n)
  PROVE  Typed(r)
<1>1. setup.total \in Nat /\ setup.start \in Nat /\ setup.cap \in Nat \ {0}
  BY SetupTypes
<1>2. ASSUME NEW s \in Seq(1..setup.total), NEW b \in Nat
      PROVE  Typed(Announced(s, b))
  <2> DEFINE named == IF setup.style \in ToSet(FieldKeys) THEN {setup.style} ELSE {}
             keys == named \cup (IF setup.decoy THEN {"cursor"} ELSE {})
             next == IF b < setup.total THEN b ELSE End
  <2>1. Announced(s, b) = [items |-> s, link |-> IF setup.style = "link" THEN next ELSE End,
                           fields |-> [k \in keys |-> IF k \in named THEN next ELSE End]]
    BY Zenon DEF Announced
  <2>2. next \in End..setup.total /\ End \in End..setup.total
    BY <1>1 DEF End
  <2>. HIDE DEF named, keys, next
  <2>. QED
    BY <2>1, <2>2 DEF Typed
<1> DEFINE from == IF setup.heeds THEN a ELSE setup.start
           size == IF n = 0 THEN setup.cap ELSE Lesser(n, setup.cap)
           part == SubSeq(Collection, from + 1, Lesser(from + size, setup.total))
<1>3. from \in Nat /\ size \in Nat
  BY <1>1 DEF Lesser
<1>4. part \in Seq(1..setup.total)
  <2>1. \A i \in (from + 1)..Lesser(from + size, setup.total) : Collection[i] \in 1..setup.total
    BY <1>1, <1>3 DEF Collection, Lesser
  <2>2. Lesser(from + size, setup.total) \in Int /\ from + 1 \in Int
    BY <1>1, <1>3 DEF Lesser
  <2>. HIDE DEF from, size
  <2>. QED
    BY <2>1, <2>2, SubSeqProperties
<1>5. r = Announced(part, from + size) \/ r = Announced(<< >>, from)
  BY DEF Answers
<1>6. from + size \in Nat /\ << >> \in Seq(1..setup.total)
  BY <1>3
<1>. HIDE DEF part, from, size
<1>. QED
  BY <1>2, <1>3, <1>4, <1>5, <1>6

\* The field it looks in is one of the names it knows.
LEMMA FieldKnown ==
  ASSUME NEW r
  PROVE  DetectCursorField(r) \in ToSet(FieldKeys) \cup {""}
<1> DEFINE present == {i \in DOMAIN FieldKeys : Has(r, FieldKeys[i])}
<1>1. DOMAIN FieldKeys = {1, 2, 3}
  BY DEF FieldKeys
<1>2. ASSUME present # {} PROVE Min(present) \in DOMAIN FieldKeys
  <2>1. PICK i \in present : \A j \in present : i <= j
    BY <1>1, <1>2
  <2>2. Min(present) = CHOOSE k \in present : \A j \in present : k <= j
    BY DEF Min
  <2>. HIDE DEF present
  <2>3. Min(present) \in present
    BY <2>1, <2>2
  <2>. QED
    BY <2>3 DEF present
<1>3. DetectCursorField(r) = IF present = {} THEN "" ELSE FieldKeys[Min(present)]
  BY DEF DetectCursorField
<1>. HIDE DEF present
<1>. QED
  BY <1>2, <1>3 DEF ToSet

LEMMA FirstTyped ==
  ASSUME TypeInv, NEW r, First(r)
  PROVE  TypeInv'
<1>1. /\ setup \in Setups /\ setup' = setup /\ cut' = cut /\ cut \in BOOLEAN
      /\ current' = r /\ items' = r.items /\ pages' = 1 /\ calls' = 1
      /\ r \in Answers(setup.start, setup.limit)
      /\ field' = DetectCursorField(r)
  BY DEF First, TypeInv, TypeOK
<1>2. setup.start \in Nat /\ setup.limit \in Nat /\ setup.forced \in Strategies \cup {"auto"}
  BY <1>1, SetupTypes
<1>3. Typed(r)
  BY <1>1, <1>2, AnswerTyped
<1>4. field' \in ToSet(FieldKeys) \cup {""}
  BY <1>1, FieldKnown
<1>5. limit' \in Nat
  <2>1. limit' = IF setup.limit # 0 THEN setup.limit ELSE Len(r.items)
    BY DEF First
  <2>2. Len(r.items) \in Nat
    BY <1>3 DEF Typed
  <2>. QED
    BY <1>2, <2>1, <2>2
<1>6. strategy' \in Strategies \cup {"none"}
  BY <1>2 DEF First, DetectStrategy, Strategies
<1>7. /\ pc' \in {"next", "done"} /\ outcome' \in {"none", "raw"}
      /\ pc' = "next" => strategy' # "none"
  BY DEF First, PassesThrough
<1>8. 1 \in 0..MaxPages /\ 1 \in Nat
  BY PaginationAssumption
<1>. QED
  BY <1>1, <1>3, <1>4, <1>5, <1>6, <1>7, <1>8 DEF TypeInv, TypeOK, Typed

\* No loop asks for a position before the first.
LEMMA PositionTyped ==
  ASSUME TypeInv, More
  PROVE  NextPosition \in Nat /\ NextLimit \in Nat
<1>1. /\ setup.total \in Nat /\ setup.start \in Nat /\ setup.cap \in Nat \ {0}
      /\ setup.limit \in Nat
  BY SetupTypes DEF TypeInv, TypeOK
<1>2. pages \in Nat /\ limit \in Nat /\ Len(items) \in Nat /\ Typed(current)
      /\ strategy \in {"link", "cursor", "offset", "page"}
  <2>1. pages \in 0..MaxPages /\ limit \in Nat /\ Typed(current) /\ pc = "next"
        /\ items \in Seq(1..setup.total)
    BY DEF More, TypeInv, TypeOK
  <2>2. strategy \in {"link", "cursor", "offset", "page"}
    BY <2>1 DEF TypeInv, Strategies
  <2>. QED
    BY <2>1, <2>2, PaginationAssumption
<1>3. pages * setup.cap \in Nat
  BY <1>1, <1>2, SMT
<1>4. NextPosition # End
  BY DEF More
<1>5. CASE strategy = "link"
  BY <1>1, <1>2, <1>4, <1>5 DEF NextPosition, NextLimit, Typed, End
<1>6. CASE strategy = "cursor"
  <2>1. NextPosition = IF Has(current, field) THEN current.fields[field] ELSE End
    BY <1>6 DEF NextPosition
  <2>2. Has(current, field) /\ NextPosition \in End..setup.total
    BY <1>2, <1>4, <2>1 DEF Typed, Has
  <2>. QED
    BY <1>1, <1>4, <1>6, <2>2 DEF End, NextLimit
<1>7. CASE strategy = "offset"
  BY <1>1, <1>2, <1>7 DEF NextPosition, NextLimit
<1>8. CASE strategy = "page"
  BY <1>1, <1>2, <1>3, <1>8 DEF NextPosition, NextLimit
<1>. QED
  BY <1>2, <1>5, <1>6, <1>7, <1>8

LEMMA NextPageTyped ==
  ASSUME TypeInv, NEW r, NextPage(r)
  PROVE  TypeInv'
<1>1. /\ setup \in Setups /\ More /\ r \in Answers(NextPosition, NextLimit)
      /\ current' = r /\ items' = items \o r.items /\ pages' = pages + 1 /\ calls' = calls + 1
      /\ UNCHANGED <<setup, strategy, field, limit, cut>>
  BY DEF NextPage, TypeInv, TypeOK
<1>2. Typed(r)
  BY <1>1, PositionTyped, AnswerTyped
<1>3. items' \in Seq(1..setup'.total) /\ Typed(current)'
  <2>1. PICK S : S = 1..setup.total
    OBVIOUS
  <2>2. items \in Seq(S) /\ r.items \in Seq(S)
    BY <1>2, <2>1 DEF TypeInv, TypeOK, Typed
  <2>3. items \o r.items \in Seq(S)
    BY <2>2
  <2>4. Typed(current)'
    BY <1>1, <1>2 DEF Typed
  <2>. QED
    BY <1>1, <2>1, <2>3, <2>4
<1>4. pages' \in 0..MaxPages /\ calls' \in Nat
  <2>1. pages \in 0..MaxPages /\ pages < MaxPages /\ calls \in Nat /\ MaxPages \in Nat
    BY <1>1, PaginationAssumption DEF More, TypeInv, TypeOK
  <2>. QED
    BY <1>1, <2>1
<1>5. /\ pc' \in {"next", "done"} /\ outcome' \in {"none", "error", "raw", "merged"}
      /\ strategy' \in Strategies
  BY <1>1 DEF NextPage, More, Merge, TypeInv, TypeOK
<1>6. /\ setup' \in Setups /\ field' \in ToSet(FieldKeys) \cup {""}
      /\ limit' \in Nat /\ cut' \in BOOLEAN
  BY <1>1 DEF TypeInv, TypeOK
<1>7. /\ current'.items \in Seq(1..setup'.total) /\ current'.link \in End..setup'.total
      /\ pages' \in 0..MaxPages
  BY <1>3, <1>4 DEF Typed
<1>. QED
  BY <1>3, <1>4, <1>5, <1>6, <1>7 DEF TypeInv, TypeOK

\* Nothing but pc, the outcome, the calls and cut changes.
LEMMA LoopEnds ==
  ASSUME TypeInv, calls' \in Nat, cut' \in BOOLEAN,
         pc' = "done", outcome' \in {"error", "merged"},
         UNCHANGED <<setup, strategy, field, current, items, limit, pages>>
  PROVE  TypeInv'
BY DEF TypeInv, TypeOK, Typed

\* Every variable keeps its type, among others: no more pages than the cap are
\* merged (pagination.go:128, 168, 203, 241).
THEOREM Typing == Spec => []TypeOK
<1>1. Init => TypeInv
  <2>. SUFFICES ASSUME Init PROVE TypeInv
    OBVIOUS
  <2>1. setup.total \in Nat
    BY SetupTypes DEF Init
  <2>2. End \in End..setup.total /\ << >> \in Seq(1..setup.total)
    BY <2>1 DEF End
  <2>3. NoPage.items = << >> /\ NoPage.link = End /\ DOMAIN NoPage.fields = {}
    BY DEF NoPage
  <2>. QED
    <3>1. Typed(current)
      BY <2>2, <2>3 DEF Init, Typed
    <3>2. pages \in 0..MaxPages
      <4>1. pages = 0 /\ MaxPages \in Nat
        BY PaginationAssumption DEF Init
      <4>. QED
        BY <4>1
    <3>3. current.items \in Seq(1..setup.total) /\ current.link \in End..setup.total
      BY <3>1 DEF Typed
    <3>4. items \in Seq(1..setup.total)
      BY <2>2 DEF Init
    <3>5. /\ setup \in Setups /\ pc = "first" /\ strategy \in Strategies \cup {"none"}
          /\ field \in ToSet(FieldKeys) \cup {""}
          /\ limit \in Nat /\ outcome = "none" /\ calls \in Nat /\ cut \in BOOLEAN
      BY DEF Init
    <3>. QED
      BY <3>1, <3>2, <3>3, <3>4, <3>5 DEF TypeInv, TypeOK
<1>2. TypeInv /\ [Next]_vars => TypeInv'
  <2>. SUFFICES ASSUME TypeInv, [Next]_vars PROVE TypeInv'
    OBVIOUS
  <2>1. calls \in Nat /\ cut \in BOOLEAN /\ setup.total \in Nat
    BY SetupTypes DEF TypeInv, TypeOK
  <2>2. ASSUME NEW r, EmptyPage(r) PROVE TypeInv'
    <3>1. NextPosition \in Nat
      BY <2>2, PositionTyped DEF EmptyPage
    <3>2. calls' \in Nat /\ cut' \in BOOLEAN
      BY <2>1, <2>2, <3>1 DEF EmptyPage
    <3>. QED
      BY <2>2, <3>2, LoopEnds DEF EmptyPage, More, Merge
  <2>3. ASSUME FirstError PROVE TypeInv'
    BY <2>1, <2>3, LoopEnds DEF FirstError
  <2>4. ASSUME PageError PROVE TypeInv'
    BY <2>1, <2>4, LoopEnds DEF PageError, More, Merge
  <2>5. ASSUME Exhausted PROVE TypeInv'
    BY <2>1, <2>5, LoopEnds DEF Exhausted, Merge
  <2>6. CASE UNCHANGED vars
    BY <2>6 DEF vars, TypeInv, TypeOK, Typed
  <2>. QED
    BY <2>2, <2>3, <2>4, <2>5, <2>6, FirstTyped, NextPageTyped DEF Next
<1>3. TypeInv => TypeOK
  BY DEF TypeInv
<1>. QED
  BY <1>1, <1>2, <1>3, PTL DEF Spec

-----------------------------------------------------------------------------
LEMMA OrderedInit == Regular /\ Init /\ setup.heeds => Ordered
<1>. SUFFICES ASSUME Regular, Init, setup.heeds PROVE Ordered
  OBVIOUS
<1>1. setup \in Setups /\ pc = "first" /\ items = << >> /\ pages = 0 /\ limit = 0
  BY DEF Init
<1>2. setup.start \in Nat /\ setup.total \in Nat /\ setup.start <= setup.total
  BY <1>1, SetupTypes DEF Regular
<1>3. Len(items) = 0 /\ Reached = setup.start
  BY <1>1, <1>2 DEF Reached
<1>4. SubSeq(Collection, setup.start + 1, Reached) = << >>
  BY <1>2, <1>3, SubSeqEmpty
<1>. QED
  BY <1>1, <1>2, <1>3, <1>4 DEF Ordered

\* What the first response is.
LEMMA FirstReach ==
  ASSUME Regular, Ordered, setup.heeds, NEW r, First(r)
  PROVE  \E b \in setup.start..setup.total :
           /\ r.items = SubSeq(Collection, setup.start + 1, b) /\ Ends(r, b) /\ Names(r, b)
           /\ setup.style = "plain"
                => b = Lesser(setup.start + PageSize(setup.limit), setup.total)
           /\ Len(items') = b - setup.start /\ Reached' = b
<1>1. /\ setup \in Setups /\ setup' = setup /\ items' = r.items
      /\ r \in Answers(setup.start, setup.limit)
  BY DEF Ordered, First
<1>2. /\ setup.start \in Nat /\ setup.total \in Nat /\ setup.limit \in Nat
      /\ setup.start <= setup.total
  BY <1>1, SetupTypes DEF Regular
<1>3. PICK b \in setup.start..setup.total :
        /\ r.items = SubSeq(Collection, setup.start + 1, b) /\ Ends(r, b) /\ Names(r, b)
        /\ setup.style = "plain"
             => b = Lesser(setup.start + PageSize(setup.limit), setup.total)
  BY <1>1, <1>2, AnswerPart
<1>4. b \in Nat /\ setup.start <= b /\ b <= setup.total
  BY <1>2
<1>5. Len(items') = b - setup.start
  BY <1>1, <1>2, <1>3, <1>4, Part
<1>6. Reached' = b
  BY <1>1, <1>2, <1>4, <1>5 DEF Reached
<1>. QED
  BY <1>3, <1>5, <1>6

LEMMA FirstOrdered ==
  ASSUME Regular, Ordered, setup.heeds, NEW r, First(r)
  PROVE  Ordered'
<1>1. /\ setup \in Setups /\ setup' = setup /\ pc' \in {"next", "done"}
      /\ current' = r /\ items' = r.items /\ pages' = 1
      /\ r \in Answers(setup.start, setup.limit)
  BY DEF Ordered, First
<1>2. /\ setup.start \in Nat /\ setup.total \in Nat /\ setup.cap \in Nat \ {0}
      /\ setup.limit \in Nat /\ setup.start <= setup.total
  BY <1>1, SetupTypes DEF Regular
<1>3. PICK b \in setup.start..setup.total :
        /\ r.items = SubSeq(Collection, setup.start + 1, b) /\ Ends(r, b)
        /\ setup.style = "plain"
             => b = Lesser(setup.start + PageSize(setup.limit), setup.total)
        /\ Len(items') = b - setup.start /\ Reached' = b
  BY FirstReach
<1>4. setup.limit = 0 /\ setup.style = "plain"
        => b = Lesser(setup.start + setup.cap, setup.total)
  BY <1>3 DEF PageSize
<1>5. limit' \in Nat
  <2>1. limit' = IF setup.limit # 0 THEN setup.limit ELSE Len(r.items)
    BY DEF First
  <2>. QED
    BY <1>1, <1>2, <1>3, <1>4, <2>1
<1>6. strategy' \in {"none", "link", "cursor", setup.forced}
  BY DEF First, DetectStrategy
<1>10. pc' = "next" => strategy' \in Strategies
  <2>1. setup.forced \in Strategies \cup {"auto"}
    BY <1>1, SetupTypes
  <2>2. strategy' \in {"none", "link", "cursor"}
          \/ (strategy' = setup.forced /\ setup.forced # "auto")
    BY DEF First, DetectStrategy
  <2>3. pc' = "next" => strategy' # "none"
    BY DEF First, PassesThrough
  <2>. QED
    BY <2>1, <2>2, <2>3 DEF Strategies
<1>7. /\ strategy' = "offset" => setup.start = 0
      /\ strategy' = "page" => setup.limit = 0 /\ setup.style = "plain"
  BY <1>1, <1>6 DEF Regular
<1>8. Paged'
  <2>1. pages' * setup.cap = setup.cap
    BY <1>1, <1>2
  <2>2. ASSUME strategy' = "page"
        PROVE  Len(items') = setup.cap \/ (Len(items') <= setup.cap /\ Reached' = setup.total)
    BY <1>2, <1>3, <1>4, <1>7, <2>2 DEF Lesser
  <2>. QED
    BY <1>1, <2>1, <2>2 DEF Paged
<1>9. Collection' = Collection
  BY <1>1 DEF Collection
<1>. QED
  BY <1>1, <1>2, <1>3, <1>4, <1>5, <1>7, <1>8, <1>9, <1>10 DEF Ordered, Ends

\* The next page starts where the last one ended, or past the end.
LEMMA NextFrom ==
  ASSUME Ordered, More
  PROVE  \/ NextPosition = Reached
         \/ /\ strategy = "page" /\ NextPosition \in Nat
            /\ NextPosition >= setup.total /\ Reached = setup.total
<1>1. /\ setup \in Setups /\ Len(items) \in Nat /\ pages \in Nat
      /\ pc = "next" /\ NextPosition # End
  BY DEF Ordered, More
<1>2. setup.start \in Nat /\ setup.cap \in Nat /\ setup.total \in Nat
  BY <1>1, SetupTypes
<1>3. CASE strategy = "link"
  BY <1>1, <1>3 DEF NextPosition, Ordered, Ends
<1>4. CASE strategy = "cursor"
  BY <1>1, <1>4 DEF NextPosition, Ordered, Ends, Has
<1>5. CASE strategy = "offset"
  BY <1>1, <1>2, <1>5 DEF NextPosition, Ordered, Reached
<1>6. CASE strategy = "page"
  <2>1. PICK done : done = pages * setup.cap
    OBVIOUS
  <2>2. done \in Nat
    <3>1. \A x, y \in Nat : x * y \in Nat
      BY SMT
    <3>. QED
      BY <1>1, <1>2, <2>1, <3>1
  <2>3. NextPosition = setup.start + done
    BY <1>6, <2>1 DEF NextPosition
  <2>4. Len(items) = done \/ (Len(items) <= done /\ Reached = setup.total)
    BY <1>1, <1>6, <2>1 DEF Ordered, Paged
  <2>. QED
    BY <1>1, <1>2, <1>6, <2>2, <2>3, <2>4 DEF Reached
<1>. QED
  BY <1>1, <1>3, <1>4, <1>5, <1>6 DEF Ordered, Strategies

\* What a later page adds.
LEMMA NextReach ==
  ASSUME Regular, Ordered, setup.heeds, NEW r, NextPage(r)
  PROVE  \E b \in Reached..setup.total :
           /\ items' = SubSeq(Collection, setup.start + 1, b) /\ Ends(r, b) /\ Names(r, b)
           /\ setup.style = "plain" => b = Lesser(Reached + PageSize(NextLimit), setup.total)
           /\ Len(r.items) = b - Reached
           /\ Len(items') = b - setup.start /\ Reached' = b
<1>1. /\ More /\ pc = "next" /\ setup \in Setups /\ setup' = setup
      /\ r \in Answers(NextPosition, NextLimit) /\ r.items # << >>
      /\ current' = r /\ items' = items \o r.items /\ pages' = pages + 1
      /\ strategy' = strategy /\ limit' = limit
      /\ pc' \in {"next", "done"}
  BY DEF Ordered, NextPage, More, Merge
<1>2. /\ setup.start \in Nat /\ setup.total \in Nat /\ setup.cap \in Nat \ {0}
      /\ setup.limit \in Nat /\ Reached \in Nat /\ setup.start <= Reached
      /\ Reached <= setup.total
      /\ pages \in Nat /\ NextLimit \in Nat
  BY <1>1, SetupTypes DEF Ordered, Reached, NextLimit
<1>3. NextPosition = Reached
  <2>1. SUFFICES ASSUME strategy = "page", NextPosition \in Nat,
                        NextPosition > setup.total, Reached = setup.total
                 PROVE  FALSE
    BY <1>1, <1>2, NextFrom
  <2>2. setup.style = "plain"
    BY <1>1, <2>1 DEF Ordered
  <2>3. PICK size \in Nat :
          r = Announced(SubSeq(Collection, NextPosition + 1,
                          Lesser(NextPosition + size, setup.total)), NextPosition + size)
    <3>1. \A n \in Nat : (IF n = 0 THEN setup.cap ELSE Lesser(n, setup.cap)) \in Nat
      BY <1>2 DEF Lesser
    <3>. QED
      BY <1>1, <1>2, <2>2, <3>1 DEF Answers
  <2>4. Lesser(NextPosition + size, setup.total) = setup.total
    BY <1>2, <2>1, <2>3 DEF Lesser
  <2>5. SubSeq(Collection, NextPosition + 1, setup.total) = << >>
    BY <1>2, <2>1, SubSeqEmpty
  <2>6. \A s, b : Announced(s, b).items = s
    BY DEF Announced
  <2>. QED
    BY <1>1, <2>3, <2>4, <2>5, <2>6
<1>4. PICK b \in Reached..setup.total :
        /\ r.items = SubSeq(Collection, Reached + 1, b) /\ Ends(r, b) /\ Names(r, b)
        /\ setup.style = "plain" => b = Lesser(Reached + PageSize(NextLimit), setup.total)
  BY <1>1, <1>2, <1>3, AnswerPart
<1>5. b \in Nat /\ setup.start <= b /\ Reached <= b /\ b <= setup.total
  BY <1>2, <1>4
<1>6. items' = SubSeq(Collection, setup.start + 1, b) /\ Len(items') = b - setup.start
      /\ Reached' = b
  <2>1. items = SubSeq(Collection, setup.start + 1, Reached)
    BY DEF Ordered
  <2>2. SubSeq(Collection, setup.start + 1, Reached) \o SubSeq(Collection, Reached + 1, b)
          = SubSeq(Collection, setup.start + 1, b)
    BY <1>1, <1>2, <1>5, Join
  <2>3. items' = SubSeq(Collection, setup.start + 1, b)
    BY <1>1, <1>4, <2>1, <2>2
  <2>4. Len(SubSeq(Collection, setup.start + 1, b)) = b - setup.start
    BY <1>1, <1>2, <1>5, Part
  <2>5. Len(items') = b - setup.start
    BY <2>3, <2>4
  <2>6. Reached' = setup.start + Len(items')
    BY <1>1 DEF Reached
  <2>7. setup.start + (b - setup.start) = b
    BY <1>2, <1>5
  <2>. QED
    BY <2>3, <2>5, <2>6, <2>7
<1>7. Len(r.items) = b - Reached
  BY <1>1, <1>2, <1>4, <1>5, Part
<1>. QED
  BY <1>4, <1>6, <1>7

LEMMA NextPageOrdered ==
  ASSUME Regular, Ordered, setup.heeds, NEW r, NextPage(r)
  PROVE  Ordered'
<1>1. /\ pc = "next" /\ setup \in Setups /\ setup' = setup
      /\ current' = r /\ pages' = pages + 1 /\ strategy' = strategy /\ limit' = limit
      /\ pc' \in {"next", "done"}
  BY DEF Ordered, NextPage, More, Merge
<1>2. /\ setup.start \in Nat /\ setup.total \in Nat /\ setup.cap \in Nat \ {0}
      /\ Reached \in Nat /\ setup.start <= Reached /\ pages \in Nat
  BY <1>1, SetupTypes DEF Ordered, Reached
<1>4. PICK b \in Reached..setup.total :
        /\ items' = SubSeq(Collection, setup.start + 1, b) /\ Ends(r, b)
        /\ setup.style = "plain" => b = Lesser(Reached + PageSize(NextLimit), setup.total)
        /\ Len(items') = b - setup.start /\ Reached' = b
  BY NextReach
<1>5. b \in Nat /\ setup.start <= b /\ Reached <= b /\ b <= setup.total
  BY <1>2, <1>4
<1>6. items' = SubSeq(Collection, setup.start + 1, b) /\ Len(items') = b - setup.start
      /\ Reached' = b
  BY <1>4
<1>7. Paged'
  <2>. SUFFICES ASSUME strategy = "page"
                PROVE  Paged'
    BY <1>1 DEF Paged
  <2>1. PICK done, cap : done = pages * setup.cap /\ cap = setup.cap
    OBVIOUS
  <2>2. done \in Nat /\ (pages + 1) * setup.cap = done + cap
    <3>1. \A x, y \in Nat : x * y \in Nat /\ (x + 1) * y = x * y + y
      BY SMT
    <3>. QED
      BY <1>2, <2>1, <3>1
  <2>3. b = Lesser(Reached + cap, setup.total)
    BY <1>1, <1>4, <2>1 DEF Ordered, NextLimit, PageSize
  <2>4. Len(items) = done \/ (Len(items) <= done /\ Reached = setup.total)
    BY <1>1, <2>1 DEF Ordered, Paged
  <2>5. Len(items) \in Nat /\ Reached = setup.start + Len(items)
    BY DEF Ordered, Reached
  <2>6. PICK before, from, total :
          before = Len(items) /\ from = setup.start /\ total = setup.total
    OBVIOUS
  <2>7. /\ before \in Nat /\ from \in Nat /\ total \in Nat /\ cap \in Nat /\ b \in Nat
        /\ from + before <= b /\ b <= total
        /\ b = (IF from + before + cap < total THEN from + before + cap ELSE total)
        /\ before = done \/ (before <= done /\ from + before = total)
    BY <1>2, <1>5, <2>1, <2>3, <2>4, <2>5, <2>6 DEF Lesser
  <2>8. b - from = done + cap \/ (b - from <= done + cap /\ b = total)
    BY <2>2, <2>7
  <2>9. Len(items') = done + cap \/ (Len(items') <= done + cap /\ Reached' = setup.total)
    BY <1>6, <2>6, <2>8
  <2>. QED
    BY <1>1, <2>1, <2>2, <2>9 DEF Paged
<1>8. Collection' = Collection
  BY <1>1 DEF Collection
<1>9. Ends(current', Reached')
  BY <1>1, <1>4, <1>6 DEF Ends
<1>10. items' = SubSeq(Collection', setup'.start + 1, Reached')
  BY <1>1, <1>6, <1>8
<1>11. Len(items') \in Nat /\ Reached' <= setup'.total
  BY <1>1, <1>2, <1>5, <1>6
<1>12. /\ pages' \in Nat /\ limit' \in Nat /\ setup' \in Setups
       /\ pc' \in {"first", "next", "done"} /\ pc' # "first"
  BY <1>1, <1>2 DEF Ordered
<1>13. /\ strategy' \in Strategies
       /\ strategy' = "offset" => setup'.start = 0
       /\ strategy' = "page" => setup'.limit = 0 /\ setup'.style = "plain"
  BY <1>1 DEF Ordered
<1>14. Ends(current, Reached)' <=> Ends(current', Reached')
  BY DEF Ends
<1>. QED
  BY <1>7, <1>9, <1>10, <1>11, <1>12, <1>13, <1>14 DEF Ordered

LEMMA OrderedStep == Regular /\ (setup.heeds => Ordered) /\ [Next]_vars
                       => (setup.heeds => Ordered)'
<1>. SUFFICES ASSUME Regular, setup.heeds => Ordered, [Next]_vars, setup'.heeds
              PROVE  Ordered'
  OBVIOUS
<1>1. setup' = setup /\ Ordered
  <2>1. setup' = setup
    BY DEF Next, First, FirstError, Exhausted, NextPage, EmptyPage, PageError, vars
  <2>. QED
    BY <2>1
<1>2. ASSUME NEW r, First(r) PROVE Ordered'
  BY <1>1, <1>2, FirstOrdered
<1>3. ASSUME NEW r, NextPage(r) PROVE Ordered'
  BY <1>1, <1>3, NextPageOrdered
<1>4. ASSUME \/ FirstError \/ Exhausted \/ PageError \/ UNCHANGED vars
             \/ \E r : EmptyPage(r)
      PROVE  Ordered'
  <2>1. /\ UNCHANGED <<items, pages, limit, strategy, current>>
        /\ pc' = pc \/ pc' = "done"
    BY <1>4 DEF FirstError, Exhausted, PageError, EmptyPage, Merge, vars
  <2>2. Collection' = Collection /\ Reached' = Reached
    BY <1>1, <2>1 DEF Collection, Reached
  <2>3. Paged => Paged'
    BY <1>1, <2>1, <2>2 DEF Paged
  <2>. QED
    BY <1>1, <2>1, <2>2, <2>3 DEF Ordered, Ends
<1>. QED
  BY <1>2, <1>3, <1>4 DEF Next

LEMMA OrderedPrefix == Ordered => IsPrefix(items, Wanted)
<1>. SUFFICES ASSUME Ordered PROVE IsPrefix(items, Wanted)
  OBVIOUS
<1>1. PICK S, C, i, n, total :
        /\ S = 1..setup.total /\ C = Collection /\ i = setup.start + 1
        /\ n = Len(items) /\ total = setup.total
  OBVIOUS
<1>2. /\ C \in Seq(S) /\ Len(C) = total /\ i \in Nat \ {0} /\ n \in Nat /\ total \in Nat
      /\ Reached = i + n - 1 /\ i + n - 1 <= total
  <2>1. setup \in Setups /\ Len(items) \in Nat /\ Reached <= setup.total
    BY DEF Ordered
  <2>2. setup.start \in Nat /\ setup.total \in Nat
    BY <2>1, SetupTypes
  <2>3. C \in Seq(S) /\ Len(C) = total
    BY <1>1, <2>1, CollectionType
  <2>4. i \in Nat \ {0} /\ n \in Nat /\ total \in Nat
        /\ Reached = i + n - 1 /\ i + n - 1 <= total
    BY <1>1, <2>1, <2>2 DEF Reached
  <2>. QED
    BY <2>3, <2>4
<1>3. items = SubSeq(C, i, i + n - 1) /\ Wanted = SubSeq(C, i, total)
  <2>1. Reached = i + n - 1
    BY <1>2
  <2>. QED
    BY <1>1, <2>1 DEF Ordered, Wanted
<1>4. Len(Wanted) = total - i + 1 /\ items \in Seq(S)
  <2>1. /\ \A j \in i..total : C[j] \in S
        /\ \A j \in i..(i + n - 1) : C[j] \in S
    BY <1>2
  <2>2. Len(SubSeq(C, i, total)) = IF i <= total THEN total - i + 1 ELSE 0
    BY <1>2, <2>1, SubSeqProperties
  <2>3. SubSeq(C, i, i + n - 1) \in Seq(S)
    BY <1>2, <2>1, SubSeqProperties
  <2>. QED
    BY <1>2, <1>3, <2>2, <2>3
<1>5. SubSeq(items, 1, n) = items
  BY <1>1, <1>4, SubSeqFull
<1>6. SubSeq(Wanted, 1, n) = items
  <2>1. CASE n = 0
    BY <1>2, <1>3, <2>1, SubSeqEmpty
  <2>2. CASE n # 0
    <3>1. i \in 1..Len(C) /\ total \in 1..Len(C) /\ 1 \in 1..(total - i + 1)
          /\ n \in 1..(total - i + 1)
      BY <1>2, <2>2
    <3>2. SubSeq(SubSeq(C, i, total), 1, n) = SubSeq(C, i + 1 - 1, i + n - 1)
      BY <1>2, <3>1, SubSeqOfSubSeq
    <3>3. i + 1 - 1 = i
      BY <1>2
    <3>. QED
      BY <1>3, <3>2, <3>3
  <2>. QED
    BY <2>1, <2>2
<1>7. n <= Len(Wanted)
  BY <1>2, <1>4
<1>. QED
  BY <1>1, <1>5, <1>6, <1>7 DEF IsPrefix

\* From a server that takes the parameters it is sent, whatever its size of
\* pages and however its empty pages and errors fall, the merged items are a
\* prefix of those asked for, none skipped or repeated (pagination.go:125-254).
THEOREM MergedInOrder == Regular => (Spec => []InOrder)
<1>. SUFFICES ASSUME Regular PROVE Spec => []InOrder
  OBVIOUS
<1>1. Init => (setup.heeds => Ordered)
  BY OrderedInit
<1>2. (setup.heeds => Ordered) /\ [Next]_vars => (setup.heeds => Ordered)'
  BY OrderedStep
<1>3. (setup.heeds => Ordered) => InOrder
  BY OrderedPrefix DEF InOrder
<1>. QED
  BY <1>1, <1>2, <1>3, PTL DEF Spec

-----------------------------------------------------------------------------
(* Nothing is left out. *)

\* The strategies that are forced are those the server is made for, and it
\* sends no second cursor.
Suited ==
  \A s \in Setups : s.heeds =>
    /\ ~s.decoy
    /\ s.forced = "link" => s.style = "link"
    /\ s.forced = "cursor" => s.style \in ToSet(FieldKeys)
    /\ s.forced = "offset" => s.style = "plain" /\ s.limit <= s.cap

\* A loop that goes on knows where to look for what is next, and one that is
\* over, and nothing cut it short, has come to the end.
Awaited ==
  /\ pc \in {"first", "next"} => outcome # "merged"
  /\ pc = "next" =>
       /\ Names(current, Reached)
       /\ strategy = "link" => setup.style = "link"
       /\ strategy = "cursor" => field = setup.style /\ setup.style \in ToSet(FieldKeys)
       /\ strategy = "offset" => setup.style = "plain" /\ limit # 0 /\ limit <= setup.cap
  /\ outcome = "merged" /\ ~cut /\ pages < MaxPages => Reached = setup.total

LEMMA FieldFound ==
  ASSUME NEW r, NEW b, Names(r, b), ~setup.decoy, setup.style \in ToSet(FieldKeys)
  PROVE  DetectCursorField(r) = setup.style
<1> DEFINE present == {i \in DOMAIN FieldKeys : Has(r, FieldKeys[i])}
<1>1. \A i \in DOMAIN FieldKeys : Has(r, FieldKeys[i]) <=> FieldKeys[i] = setup.style
  BY DEF Names, Has, ToSet
<1>2. PICK i \in DOMAIN FieldKeys : FieldKeys[i] = setup.style
  BY DEF ToSet
<1>3. \A j \in DOMAIN FieldKeys : FieldKeys[j] = FieldKeys[i] => j = i
  BY DEF FieldKeys
<1>4. present = {i}
  BY <1>1, <1>2, <1>3
<1>5. Min({i}) = i
  BY DEF Min, FieldKeys
<1>6. DetectCursorField(r) = IF present = {} THEN "" ELSE FieldKeys[Min(present)]
  BY DEF DetectCursorField
<1>. QED
  BY <1>2, <1>4, <1>5, <1>6

LEMMA FirstAwaited ==
  ASSUME Regular, Suited, Ordered, Awaited, setup.heeds, NEW r, First(r)
  PROVE  Awaited'
<1>1. /\ setup \in Setups /\ setup' = setup /\ current' = r /\ items' = r.items
      /\ pc = "first" /\ pc' \in {"next", "done"} /\ outcome' \in {"raw", "none"}
  BY DEF Ordered, First
<1>2. PICK b \in setup.start..setup.total :
        /\ r.items = SubSeq(Collection, setup.start + 1, b) /\ Names(r, b)
        /\ setup.style = "plain"
             => b = Lesser(setup.start + PageSize(setup.limit), setup.total)
        /\ Len(items') = b - setup.start /\ Reached' = b
  BY FirstReach
<1>3. Names(current, Reached)'
  BY <1>1, <1>2 DEF Names, Follow
<1>4. ~setup.decoy
  BY <1>1 DEF Suited
<1>5. ASSUME strategy' = "link" PROVE setup.style = "link"
  <2>1. setup.forced = "link" \/ r.link # End
    BY <1>5 DEF First, DetectStrategy
  <2>. QED
    BY <1>1, <1>2, <2>1 DEF Suited, Names
<1>6. ASSUME strategy' = "cursor" PROVE field' = setup.style /\ setup.style \in ToSet(FieldKeys)
  <2>1. setup.forced = "cursor" \/ \E k : Has(r, k)
    BY <1>6 DEF First, DetectStrategy
  <2>2. setup.style \in ToSet(FieldKeys)
    BY <1>1, <1>2, <1>4, <2>1 DEF Suited, Names, Has
  <2>3. field' = DetectCursorField(r)
    BY DEF First
  <2>. QED
    BY <1>2, <1>4, <2>2, <2>3, FieldFound
<1>7. ASSUME strategy' = "offset", pc' = "next"
      PROVE  setup.style = "plain" /\ limit' # 0 /\ limit' <= setup.cap
  <2>1. setup.forced = "offset"
    BY <1>7 DEF First, DetectStrategy
  <2>2. setup.style = "plain" /\ setup.limit <= setup.cap
    BY <1>1, <2>1 DEF Suited
  <2>3. limit' # 0
    BY <1>7 DEF First, PassesThrough
  <2>4. limit' = IF setup.limit # 0 THEN setup.limit ELSE Len(items')
    BY <1>1 DEF First
  <2>5. /\ setup.start \in Nat /\ setup.total \in Nat /\ setup.cap \in Nat
        /\ setup.start <= setup.total
    BY <1>1, SetupTypes DEF Regular
  <2>6. ASSUME setup.limit = 0 PROVE Len(items') <= setup.cap
    <3>1. b = Lesser(setup.start + setup.cap, setup.total)
      BY <1>2, <2>2, <2>6 DEF PageSize
    <3>. QED
      BY <1>2, <2>5, <3>1 DEF Lesser
  <2>. QED
    BY <2>2, <2>3, <2>4, <2>6
<1>. QED
  BY <1>1, <1>3, <1>5, <1>6, <1>7 DEF Awaited

LEMMA NextPageAwaited ==
  ASSUME Regular, Suited, Ordered, Awaited, setup.heeds, NEW r, NextPage(r)
  PROVE  Awaited'
<1>1. /\ setup \in Setups /\ setup' = setup /\ current' = r /\ pc = "next"
      /\ strategy' = strategy /\ field' = field /\ limit' = limit /\ cut' = cut
      /\ outcome # "merged"
  BY DEF Ordered, NextPage, More, Awaited
<1>2. PICK b \in Reached..setup.total :
        /\ Names(r, b)
        /\ setup.style = "plain" => b = Lesser(Reached + PageSize(NextLimit), setup.total)
        /\ Len(r.items) = b - Reached /\ Reached' = b
  BY NextReach
<1>3. Names(current, Reached)'
  BY <1>1, <1>2 DEF Names, Follow
<1>4. \/ pc' = pc /\ outcome' = outcome
      \/ pc' = "done" /\ strategy = "offset" /\ Len(r.items) < limit
  BY DEF NextPage, Merge
<1>5. ASSUME strategy = "offset", Len(r.items) < limit PROVE Reached' = setup.total
  <2>1. /\ setup.start \in Nat /\ setup.total \in Nat /\ setup.cap \in Nat
        /\ Reached \in Nat /\ limit \in Nat
    BY <1>1, SetupTypes DEF Ordered, Reached
  <2>2. setup.style = "plain" /\ limit # 0 /\ limit <= setup.cap
    BY <1>1, <1>5 DEF Awaited
  <2>3. PageSize(NextLimit) = limit
    BY <1>5, <2>1, <2>2 DEF PageSize, NextLimit, Lesser
  <2>4. b = Lesser(Reached + limit, setup.total) /\ b - Reached < limit
    BY <1>2, <1>5, <2>2, <2>3
  <2>5. b \in Int
    BY <1>2, <2>1
  <2>. QED
    BY <1>2, <2>1, <2>4, <2>5 DEF Lesser
<1>. QED
  BY <1>1, <1>3, <1>4, <1>5 DEF Awaited

LEMMA ExhaustedAwaited ==
  ASSUME Suited, Ordered, Awaited, setup.heeds, Exhausted
  PROVE  Awaited'
<1>1. /\ setup \in Setups /\ pc = "next" /\ ~More /\ pc' = "done"
      /\ UNCHANGED <<setup, items, pages, cut>>
  BY DEF Ordered, Exhausted, Merge
<1>2. /\ setup.start \in Nat /\ setup.total \in Nat /\ setup.cap \in Nat
      /\ Len(items) \in Nat /\ Reached \in Nat /\ Reached <= setup.total /\ pages \in Nat
  BY <1>1, SetupTypes DEF Ordered, Reached
<1>3. ASSUME pages < MaxPages PROVE Reached = setup.total
  <2>1. NextPosition = End
    BY <1>1, <1>3 DEF More
  <2>2. strategy \in {"link", "cursor"}
    <3>1. CASE strategy = "offset"
      BY <1>2, <2>1, <3>1 DEF NextPosition, End
    <3>2. CASE strategy = "page"
      <4>1. \A x, y \in Nat : x * y \in Nat
        BY SMT
      <4>2. PICK done \in Nat : done = pages * setup.cap
        BY <1>2, <4>1
      <4>. QED
        BY <1>2, <2>1, <3>2, <4>2 DEF NextPosition, End
    <3>. QED
      BY <1>1, <3>1, <3>2 DEF Ordered, Strategies
  <2>3. Follow(Reached) = End
    <3>1. CASE strategy = "link"
      BY <1>1, <2>1, <3>1 DEF NextPosition, Awaited, Names
    <3>2. CASE strategy = "cursor"
      <4>1. field = setup.style /\ setup.style \in ToSet(FieldKeys)
            /\ Names(current, Reached)
        BY <1>1, <3>2 DEF Awaited
      <4>2. Has(current, field)
        BY <1>1, <4>1 DEF Suited, Names, Has
      <4>. QED
        BY <2>1, <3>2, <4>1, <4>2 DEF NextPosition, Names
    <3>. QED
      BY <2>2, <3>1, <3>2
  <2>. QED
    BY <1>2, <2>3 DEF Follow, End
<1>4. Reached' = Reached /\ setup' = setup /\ pages' = pages
  BY <1>1 DEF Reached
<1>. QED
  BY <1>1, <1>3, <1>4 DEF Awaited

LEMMA EmptyPageAwaited ==
  ASSUME Ordered, Awaited, NEW r, EmptyPage(r)
  PROVE  Awaited'
<1>1. /\ setup \in Setups /\ More /\ pc' = "done" /\ UNCHANGED <<setup, items>>
      /\ cut' = (NextPosition < setup.total)
  BY DEF Ordered, EmptyPage, Merge
<1>2. /\ setup.start \in Nat /\ setup.total \in Nat
      /\ Reached \in Nat /\ Reached <= setup.total
  BY <1>1, SetupTypes DEF Ordered, Reached
<1>3. ~cut' => Reached = setup.total
  <2>1. NextPosition = Reached \/ Reached = setup.total
    BY <1>1, NextFrom
  <2>2. ~cut' => ~(NextPosition < setup.total)
    BY <1>1, Zenon
  <2>. QED
    BY <1>2, <2>1, <2>2
<1>4. Reached' = Reached /\ setup' = setup
  BY <1>1 DEF Reached
<1>. QED
  BY <1>1, <1>3, <1>4 DEF Awaited

LEMMA AwaitedStep ==
  Regular /\ Suited /\ (setup.heeds => Ordered /\ Awaited) /\ [Next]_vars
    => (setup.heeds => Awaited)'
<1>. SUFFICES ASSUME Regular, Suited, setup.heeds => Ordered /\ Awaited, [Next]_vars,
                     setup'.heeds
              PROVE  Awaited'
  OBVIOUS
<1>1. Ordered /\ Awaited /\ setup.heeds
  BY DEF Next, First, FirstError, Exhausted, NextPage, EmptyPage, PageError, vars
<1>2. ASSUME NEW r, First(r) PROVE Awaited'
  BY <1>1, <1>2, FirstAwaited
<1>3. ASSUME NEW r, NextPage(r) PROVE Awaited'
  BY <1>1, <1>3, NextPageAwaited
<1>4. ASSUME NEW r, EmptyPage(r) PROVE Awaited'
  BY <1>1, <1>4, EmptyPageAwaited
<1>5. ASSUME FirstError \/ PageError PROVE Awaited'
  BY <1>5 DEF FirstError, PageError, Merge, Awaited
<1>6. ASSUME UNCHANGED vars PROVE Awaited'
  BY <1>1, <1>6 DEF vars, Awaited, Reached, Names, Follow
<1>. QED
  BY <1>1, <1>2, <1>3, <1>4, <1>5, <1>6, ExhaustedAwaited DEF Next

\* When neither an error nor an empty page cut a loop short and the cap on pages
\* was not met, what is returned is every item from the first asked for on, with
\* each of the four strategies (pagination.go:125-254).
THEOREM MergedCompletely == Regular /\ Suited => (Spec => []Complete)
<1>. SUFFICES ASSUME Regular, Suited PROVE Spec => []Complete
  OBVIOUS
<1>1. Init => (setup.heeds => Ordered)
  BY OrderedInit
<1>2. Init => (setup.heeds => Awaited)
  BY DEF Init, Awaited
<1>3. (setup.heeds => Ordered) /\ [Next]_vars => (setup.heeds => Ordered)'
  BY OrderedStep
<1>4. (setup.heeds => Ordered) /\ (setup.heeds => Awaited) /\ [Next]_vars
        => (setup.heeds => Awaited)'
  BY AwaitedStep
<1>5. (setup.heeds => Ordered) /\ (setup.heeds => Awaited) => Complete
  BY DEF Complete, FetchesAll, Ordered, Awaited, Wanted
<1>. QED
  BY <1>1, <1>2, <1>3, <1>4, <1>5, PTL DEF Spec
=============================================================================

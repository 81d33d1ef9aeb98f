-------------------------- MODULE FrontendsProofs ---------------------------
(***************************************************************************)
(* Proofs about Frontends for any documents, requests, clients and number  *)
(* of versions: first what the command finds (Lookup), then what a server  *)
(* beside it does.                                                         *)
(***************************************************************************)
EXTENDS Frontends, Induction, SequenceTheorems

\* A path has a natural number of literal segments.
LEMMA LiteralsNat ==
  ASSUME NEW o \in Operation
  PROVE  Literals(o) \in Nat
<1>1. Len(o.path) \in Nat
  BY OperationsAssumption
<1>2. IsFiniteSet(1..Len(o.path))
  BY <1>1, FS_Interval
<1>3. IsFiniteSet({j \in 1..Len(o.path) : o.path[j] \notin Templates})
  BY <1>2, FS_Subset
<1> QED
  BY <1>3, FS_CardinalityType DEF Literals

\* A document is a sequence of operations.
LEMMA DocumentOperations ==
  ASSUME document \in Documents
  PROVE  Len(document) \in Nat /\ \A i \in 1..Len(document) : document[i] \in Operation
<1>1. document \in Seq(Operation)
  BY OperationsAssumption
<1> QED
  BY <1>1

-----------------------------------------------------------------------------
(* Types *)

LEMMA TypeInit == LookupInit => LookupTypeOK
<1> SUFFICES ASSUME LookupInit PROVE LookupTypeOK
  OBVIOUS
<1>1. Len(document) \in Nat
  BY DocumentOperations DEF LookupInit
<1> QED
  BY <1>1 DEF LookupInit, LookupTypeOK

LEMMA TypeStep == LookupTypeOK /\ [LookupNext]_lookupVars => LookupTypeOK'
<1> SUFFICES ASSUME LookupTypeOK, [LookupNext]_lookupVars PROVE LookupTypeOK'
  OBVIOUS
<1>1. Len(document) \in Nat /\ \A i \in 1..Len(document) : document[i] \in Operation
  BY DocumentOperations DEF LookupTypeOK
<1>2. ASSUME NEW q \in Requests, Ask(q) PROVE LookupTypeOK'
  BY <1>2 DEF Ask, LookupTypeOK
<1>3. ASSUME Consider PROVE LookupTypeOK'
  <2>1. at \in 1..Len(document) /\ Literals(document[at]) \in Nat
    BY <1>1, <1>3, LiteralsNat DEF Consider, LookupTypeOK
  <2>2. at' \in 1..(Len(document) + 1) /\ UNCHANGED <<document, asked, search>>
    BY <1>1, <1>3, <2>1 DEF Consider
  <2>3. best' \in 0..Len(document) /\ literals' \in Nat \cup {-1}
    BY <1>1, <1>3, <2>1 DEF Consider, LookupTypeOK
  <2> QED
    BY <2>2, <2>3 DEF LookupTypeOK
<1>4. ASSUME Send PROVE LookupTypeOK'
  BY <1>4 DEF Send, LookupTypeOK
<1>5. ASSUME Finish PROVE LookupTypeOK'
  BY <1>1, <1>5 DEF Finish, LookupTypeOK
<1>6. ASSUME UNCHANGED lookupVars PROVE LookupTypeOK'
  BY <1>6 DEF lookupVars, searchVars, LookupTypeOK
<1> QED
  BY <1>2, <1>3, <1>4, <1>5, <1>6 DEF LookupNext

\* Types: the search stays within the document.
THEOREM Typing == LookupSpec => []LookupTypeOK
BY TypeInit, TypeStep, PTL DEF LookupSpec

-----------------------------------------------------------------------------
(* The best operation *)

\* literals is what the best operation has, and -1 before there is one; a
\* search starts anew.
Counted ==
  /\ IF best = 0 THEN literals = -1
     ELSE best < at /\ literals = Literals(document[best])
  /\ search = "idle" => at = 1 /\ best = 0

SearchInv == LookupTypeOK /\ Counted /\ BestSoFar

LEMMA SearchInit == LookupInit => SearchInv
BY TypeInit DEF LookupInit, SearchInv, Counted, BestSoFar

\* One more operation is seen.
LEMMA SearchConsider ==
  ASSUME SearchInv, Consider, LookupTypeOK'
  PROVE  Counted' /\ BestSoFar'
<1>1. Len(document) \in Nat /\ \A i \in 1..Len(document) : document[i] \in Operation
  BY DocumentOperations DEF SearchInv, LookupTypeOK
<1>2. /\ at \in 1..Len(document) /\ at' = at + 1 /\ search # "idle" /\ search' = search
      /\ document' = document /\ asked' = asked
  BY <1>1 DEF Consider, SearchInv, LookupTypeOK
<1>3. \A i \in 1..at : Literals(document[i]) \in Nat
  BY <1>1, <1>2, LiteralsNat
<1>4. Seen' = Seen \cup (IF Fits(document[at], asked) THEN {at} ELSE {})
  BY <1>1, <1>2 DEF Seen, Fits
<1>5. \A i \in Seen : i \in 1..(at - 1)
  BY DEF Seen
<1>6. \A i : (Literals(document[i]))' = Literals(document[i])
  BY <1>2 DEF Literals
<1>7. CASE Better(document[at])
  <2>1. best' = at /\ literals' = Literals(document[at])
    BY <1>7 DEF Consider
  <2>2. Fits(document[at], asked) /\ Literals(document[at]) > literals
    BY <1>7 DEF Better
  <2>3. Counted'
    BY <1>1, <1>2, <2>1 DEF Counted, Literals
  <2>4. best' \in Seen'
    BY <1>4, <2>1, <2>2
  <2>5. \A i \in Seen : Literals(document[i]) < Literals(document[at])
    BY <1>2, <1>3, <1>5, <2>2 DEF SearchInv, Counted, BestSoFar
  <2>6. \A i \in Seen' :
           /\ Literals(document[i]) <= Literals(document[at])
           /\ i < at => Literals(document[i]) < Literals(document[at])
    BY <1>2, <1>3, <1>4, <1>5, <2>5
  <2> QED
    BY <1>1, <1>2, <1>6, <2>1, <2>3, <2>4, <2>6 DEF BestSoFar
<1>8. CASE ~Better(document[at])
  <2>1. best' = best /\ literals' = literals
    BY <1>8 DEF Consider
  <2>2. Counted'
    BY <1>1, <1>2, <2>1 DEF SearchInv, LookupTypeOK, Counted, Literals
  <2>3. Fits(document[at], asked) => Literals(document[at]) <= literals
    BY <1>2, <1>3, <1>8 DEF Better, SearchInv, LookupTypeOK
  <2>4. CASE best = 0
    BY <1>2, <1>3, <1>4, <2>1, <2>2, <2>3, <2>4 DEF SearchInv, Counted, BestSoFar
  <2>5. CASE best # 0
    <3>1. best \in Seen /\ literals = Literals(document[best])
      BY <1>2, <2>5 DEF SearchInv, Counted, BestSoFar
    <3>2. \A i \in Seen' :
             /\ Literals(document[i]) <= Literals(document[best])
             /\ i < best => Literals(document[i]) < Literals(document[best])
      BY <1>2, <1>3, <1>4, <1>5, <2>3, <2>5, <3>1 DEF SearchInv, BestSoFar
    <3> QED
      BY <1>2, <1>4, <1>6, <2>1, <2>2, <2>5, <3>1, <3>2 DEF BestSoFar
  <2> QED
    BY <2>2, <2>4, <2>5
<1> QED
  BY <1>7, <1>8

LEMMA SearchStep == SearchInv /\ [LookupNext]_lookupVars => SearchInv'
<1> SUFFICES ASSUME SearchInv, [LookupNext]_lookupVars PROVE SearchInv'
  OBVIOUS
<1>1. LookupTypeOK'
  BY TypeStep DEF SearchInv
<1>2. ASSUME NEW q \in Requests, Ask(q) PROVE Counted' /\ BestSoFar'
  <2>1. at' = 1 /\ best' = 0 /\ literals' = -1
    BY <1>2 DEF Ask, Counted, SearchInv
  <2> QED
    BY <1>2, <2>1 DEF Ask, Counted, BestSoFar, Seen
<1>3. ASSUME Consider PROVE Counted' /\ BestSoFar'
  BY <1>1, <1>3, SearchConsider
<1>4. ASSUME Send PROVE Counted' /\ BestSoFar'
  BY <1>4 DEF Send, SearchInv, Counted, BestSoFar, Seen, Fits, Literals
<1>5. ASSUME Finish PROVE Counted' /\ BestSoFar'
  BY <1>5 DEF Finish, Counted, BestSoFar
<1>6. ASSUME UNCHANGED lookupVars PROVE Counted' /\ BestSoFar'
  BY <1>6 DEF lookupVars, searchVars, SearchInv, Counted, BestSoFar, Seen, Fits, Literals
<1> QED
  BY <1>1, <1>2, <1>3, <1>4, <1>5, <1>6 DEF LookupNext, SearchInv

\* After any number of operations the best is the first of those with the most
\* literal segments, for any document and any request (find.go:15).
THEOREM BestFits == LookupSpec => []BestSoFar
<1>1. SearchInv => BestSoFar
  BY DEF SearchInv
<1> QED
  BY <1>1, SearchInit, SearchStep, PTL DEF LookupSpec
-----------------------------------------------------------------------------
(* The URL *)

\* Literal segments of the document stand for themselves in a URL, and no path
\* names a template twice.
PlainPaths ==
  \A o \in Operation : \A j \in 1..Len(o.path) :
    IF o.path[j] \in Templates
      THEN \A k \in 1..Len(o.path) : o.path[k] = o.path[j] => k = j
      ELSE Decoded[o.path[j]] = o.path[j]

\* What Resolve makes of an operation that fits a request.
LEMMA ConcretePath ==
  ASSUME PlainPaths, NEW o \in Operation, NEW q \in Requests, Fits(o, q)
  PROVE  LET url == Resolve(o, Bind(o, q))
         IN  [j \in 1..Len(url) |-> Received(url[j])] = q.path
<1> DEFINE url == Resolve(o, Bind(o, q))
<1>1. /\ o.path \in Seq(Segments) /\ q.path \in Seq(Segments)
      /\ Len(o.path) = Len(q.path)
  BY OperationsAssumption, LookupAssumption DEF Fits
<1>2. DOMAIN Bind(o, q) = TemplatesOf(o)
  BY DEF Bind
<1>3. Len(url) = Len(q.path)
  BY <1>1 DEF Resolve
<1>4. ASSUME NEW j \in 1..Len(q.path) PROVE Received(url[j]) = q.path[j]
  <2>1. CASE o.path[j] \in Templates
    <3>1. o.path[j] \in TemplatesOf(o)
      BY <1>1, <2>1 DEF TemplatesOf
    <3>2. \A k \in 1..Len(o.path) : o.path[k] = o.path[j] => k = j
      BY <1>1, <2>1 DEF PlainPaths
    <3>3. (CHOOSE k \in 1..Len(o.path) :
             /\ o.path[k] = o.path[j]
             /\ \A l \in (k + 1)..Len(o.path) : o.path[l] # o.path[j]) = j
      <4>1. \A l \in (j + 1)..Len(o.path) : o.path[l] # o.path[j]
        BY <1>1, <3>2
      <4> QED
        BY <1>1, <3>2, <4>1
    <3>4. Bind(o, q)[o.path[j]] = q.path[j]
      BY <3>1, <3>3 DEF Bind
    <3>5. url[j] = [segment |-> q.path[j], escaped |-> TRUE]
      BY <1>1, <1>2, <3>1, <3>4 DEF Resolve
    <3> QED
      BY <3>5 DEF Received
  <2>2. CASE o.path[j] \notin Templates
    <3>1. o.path[j] = q.path[j] /\ Decoded[o.path[j]] = o.path[j]
      BY <1>1, <2>2 DEF Fits, PlainPaths
    <3>2. url[j] = [segment |-> q.path[j], escaped |-> FALSE]
      BY <1>1, <1>2, <2>2, <3>1 DEF Resolve, TemplatesOf
    <3> QED
      BY <3>1, <3>2 DEF Received
  <2> QED
    BY <2>1, <2>2
<1>5. q.path = [j \in 1..Len(q.path) |-> q.path[j]]
  BY <1>1
<1>6. [j \in 1..Len(url) |-> Received(url[j])] = q.path
  BY <1>3, <1>4, <1>5
<1> QED
  BY <1>6

\* params are those of the best operation, and a URL is made of both.
Bound ==
  /\ best # 0 =>
       \E o \in Operation, q \in Requests :
         o = document[best] /\ q = asked /\ Fits(o, q) /\ params = Bind(o, q)
  /\ search = "sent" =>
       \E o \in Operation, q \in Requests :
         q = asked /\ Fits(o, q) /\ sent = Resolve(o, Bind(o, q))

LEMMA BoundStep == SearchInv /\ Bound /\ [LookupNext]_lookupVars => Bound'
<1> SUFFICES ASSUME SearchInv, Bound, [LookupNext]_lookupVars PROVE Bound'
  OBVIOUS
<1>1. ASSUME NEW q \in Requests, Ask(q) PROVE Bound'
  BY <1>1 DEF Ask, SearchInv, Counted, Bound
<1>2. ASSUME Consider PROVE Bound'
  <2>1. /\ search' = "searching" /\ document' = document /\ asked' = asked
        /\ document[at] \in Operation /\ asked \in Requests
    BY <1>2, DocumentOperations DEF Consider, SearchInv, LookupTypeOK
  <2>2. CASE Better(document[at])
    BY <1>2, <2>1, <2>2 DEF Consider, Better, Bound
  <2>3. CASE ~Better(document[at])
    BY <1>2, <2>1, <2>3 DEF Consider, Bound
  <2> QED
    BY <2>2, <2>3
<1>3. ASSUME Send PROVE Bound'
  BY <1>3 DEF Send, Bound
<1>4. ASSUME Finish PROVE Bound'
  BY <1>4 DEF Finish, Bound
<1>5. ASSUME UNCHANGED lookupVars PROVE Bound'
  BY <1>5 DEF lookupVars, searchVars, Bound
<1> QED
  BY <1>1, <1>2, <1>3, <1>4, <1>5 DEF LookupNext

LEMMA BoundSent ==
  ASSUME PlainPaths, Bound PROVE SentAsAsked
<1> SUFFICES ASSUME search = "sent"
             PROVE  [j \in 1..Len(sent) |-> Received(sent[j])] = asked.path
  BY DEF SentAsAsked
<1>1. PICK o \in Operation, q \in Requests :
        q = asked /\ Fits(o, q) /\ sent = Resolve(o, Bind(o, q))
  BY DEF Bound
<1> QED
  BY <1>1, ConcretePath

\* Where literal segments stand for themselves, what a server reads off the URL
\* is what the user typed, for any values (call.go:66).
THEOREM Concrete ==
  ASSUME PlainPaths PROVE LookupSpec => []SentAsAsked
<1>1. LookupInit => SearchInv /\ Bound
  BY SearchInit DEF LookupInit, Bound
<1>2. (SearchInv /\ Bound) /\ [LookupNext]_lookupVars => (SearchInv /\ Bound)'
  BY SearchStep, BoundStep
<1>3. SearchInv /\ Bound => SentAsAsked
  BY BoundSent
<1> QED
  BY <1>1, <1>2, <1>3, PTL DEF LookupSpec

-----------------------------------------------------------------------------
(* Servers beside the command *)

\* No server touches what the command reads.
LEMMA ServerAlone ==
  ASSUME Mounted \/ Tooled PROVE UNCHANGED lookupVars
<1>1. MountNext => document' = document
  BY DEF MountNext, Add, AddHelp, Change, Open, Read, Seek, ReadAt, Close
<1>2. ToolsNext => document' = document
  BY DEF ToolsNext, Register, CallTool
<1> QED
  BY <1>1, <1>2 DEF Mounted, Tooled, lookupVars

\* Beside a server the command behaves as by itself.
LEMMA CommandAlone == Spec => LookupSpec
<1>1. Init => LookupInit
  BY DEF Init
<1>2. [Next]_vars => [LookupNext]_lookupVars
  <2>1. Command => LookupNext
    BY DEF Command
  <2>2. UNCHANGED vars => UNCHANGED lookupVars
    BY DEF vars, lookupVars
  <2> QED
    BY <2>1, <2>2, ServerAlone DEF Next
<1> QED
  BY <1>1, <1>2, PTL DEF Spec, LookupSpec

-----------------------------------------------------------------------------
(* One open, one version *)

Record(p, l, k, o, s, a) ==
  [path |-> p, loaded |-> l, content |-> k, offset |-> o, seen |-> s, asks |-> a]

\* What an open file of WebDAV holds and has given out is of one version v, and
\* before it is loaded it has asked for nothing.
SteadyIn(v, p, l, k, o, s, a) ==
  /\ l \in BOOLEAN /\ k \in {<< >>, <<v>>, <<v, v>>} /\ o \in 0..(Len(k) + 1)
  /\ s \in {{}, {v}} /\ a \in {0, 1}
  /\ ~l => k = << >> /\ s = {} /\ a = 0
Steady(f) ==
  \E v, p, l, k, o, s, a : f = Record(p, l, k, o, s, a) /\ SteadyIn(v, p, l, k, o, s, a)
SteadyLoaded(f) ==
  \E v, p, l, k, o, s, a :
    l = TRUE /\ f = Record(p, l, k, o, s, a) /\ SteadyIn(v, p, l, k, o, s, a)

\* ensureLoaded leaves one version behind, whatever the API answers.
LEMMA LoadSteady ==
  ASSUME NEW f, Steady(f), NEW g \in Loads(f)
  PROVE  SteadyLoaded(g)
<1>1. PICK v, p, l, k, o, s, a :
        f = Record(p, l, k, o, s, a) /\ SteadyIn(v, p, l, k, o, s, a)
  BY DEF Steady
<1>2. f.path = p /\ f.loaded = l
  BY <1>1 DEF Record
<1>3. CASE g = [f EXCEPT !.loaded = TRUE]
  <2>1. g = Record(p, TRUE, k, o, s, a)
    BY <1>1, <1>3 DEF Record
  <2>2. SteadyIn(v, p, TRUE, k, o, s, a)
    BY <1>1 DEF SteadyIn
  <2> QED
    BY <2>1, <2>2 DEF SteadyLoaded
<1>4. CASE g # [f EXCEPT !.loaded = TRUE]
  <2>1. \/ g = [f EXCEPT !.loaded = TRUE, !.content = <<Static>>]
        \/ \E b \in Answers :
             g = [f EXCEPT !.loaded = TRUE, !.content = b, !.asks = @ + 1]
    BY <1>4 DEF Loads
  <2>2. k = << >> /\ s = {} /\ a = 0 /\ o \in 0..1
    <3>1. ~f.loaded
      BY <1>4 DEF Loads
    <3> QED
      BY <1>1, <1>2, <3>1 DEF SteadyIn
  <2>3. CASE g = [f EXCEPT !.loaded = TRUE, !.content = <<Static>>]
    <3>1. g = Record(p, TRUE, <<Static>>, o, s, a)
      BY <1>1, <2>3 DEF Record
    <3>2. SteadyIn(Static, p, TRUE, <<Static>>, o, s, a)
      BY <2>2 DEF SteadyIn
    <3> QED
      BY <3>1, <3>2 DEF SteadyLoaded
  <2>4. ASSUME NEW b \in Answers,
               g = [f EXCEPT !.loaded = TRUE, !.content = b, !.asks = @ + 1]
        PROVE  SteadyLoaded(g)
    <3>1. PICK w : b \in {<<w>>, <<w, w>>}
      BY DEF Answers
    <3>2. g = Record(p, TRUE, b, o, s, a + 1)
      BY <1>1, <2>4 DEF Record
    <3>3. SteadyIn(w, p, TRUE, b, o, s, a + 1)
      BY <2>2, <3>1 DEF SteadyIn
    <3> QED
      BY <3>2, <3>3 DEF SteadyLoaded
  <2> QED
    BY <2>1, <2>3, <2>4
<1> QED
  BY <1>3, <1>4

LEMMA LoadedSteady ==
  ASSUME NEW f, SteadyLoaded(f) PROVE Steady(f)
BY DEF SteadyLoaded, Steady

\* Read gives out parts of that version only.
LEMMA AdvanceSteady ==
  ASSUME NEW f, SteadyLoaded(f)
  PROVE  Steady(Advance(f))
<1>1. PICK v, p, l, k, o, s, a :
        l = TRUE /\ f = Record(p, l, k, o, s, a) /\ SteadyIn(v, p, l, k, o, s, a)
  BY DEF SteadyLoaded
<1>2. f.content = k /\ f.offset = o /\ f.seen = s
  BY <1>1 DEF Record
<1>3. k \in {<< >>, <<v>>, <<v, v>>} /\ o \in 0..(Len(k) + 1) /\ s \in {{}, {v}}
  BY <1>1 DEF SteadyIn
<1>4. Part(f) = {} \/ Part(f) = {v}
  <2>1. ASSUME o < Len(k) PROVE k[o + 1] = v
    <3>1. CASE k = << >>
      BY <1>3, <2>1, <3>1
    <3>2. CASE k = <<v>>
      BY <1>3, <2>1, <3>2
    <3>3. CASE k = <<v, v>>
      <4>1. o = 0 \/ o = 1
        BY <1>3, <2>1, <3>3
      <4> QED
        BY <3>3, <4>1
    <3> QED
      BY <1>3, <3>1, <3>2, <3>3
  <2> QED
    BY <1>2, <2>1 DEF Part
<1>5. o + Cardinality(Part(f)) \in 0..(Len(k) + 1)
  <2>1. Cardinality({}) = 0 /\ Cardinality({v}) = 1
    BY FS_EmptySet, FS_Singleton
  <2>2. CASE o < Len(k)
    <3>1. Len(k) \in 0..2
      BY <1>3
    <3>2. Cardinality(Part(f)) \in {0, 1}
      BY <1>4, <2>1
    <3> QED
      BY <1>3, <2>2, <3>1, <3>2
  <2>3. CASE ~(o < Len(k))
    BY <1>2, <1>3, <2>1, <2>3 DEF Part
  <2> QED
    BY <2>2, <2>3
<1>6. Advance(f) = Record(p, l, k, o + Cardinality(Part(f)), s \cup Part(f), a)
  <2>1. PICK x, y : x = s \cup Part(f) /\ y = o + Cardinality(Part(f))
    OBVIOUS
  <2>2. Advance(f) = [[f EXCEPT !.seen = x] EXCEPT !.offset = y]
    BY <1>2, <2>1 DEF Advance
  <2>3. [Record(p, l, k, o, s, a) EXCEPT !.seen = x] = Record(p, l, k, o, x, a)
    BY DEF Record
  <2>4. [Record(p, l, k, o, x, a) EXCEPT !.offset = y] = Record(p, l, k, y, x, a)
    BY DEF Record
  <2> QED
    BY <1>1, <2>1, <2>2, <2>3, <2>4
<1>7. s \cup Part(f) \in {{}, {v}}
  BY <1>3, <1>4
<1>8. SteadyIn(v, p, l, k, o + Cardinality(Part(f)), s \cup Part(f), a)
  <2>2. l = TRUE /\ l \in BOOLEAN /\ a \in {0, 1}
    BY <1>1 DEF SteadyIn
  <2> QED
    BY <1>3, <1>5, <1>7, <2>2 DEF SteadyIn
<1> QED
  BY <1>6, <1>8 DEF Steady

LEMMA SeekSteady ==
  ASSUME NEW f, SteadyLoaded(f), NEW n \in {0, Len(f.content), Len(f.content) + 1}
  PROVE  Steady([f EXCEPT !.offset = n])
<1>1. PICK v, p, l, k, o, s, a :
        l = TRUE /\ f = Record(p, l, k, o, s, a) /\ SteadyIn(v, p, l, k, o, s, a)
  BY DEF SteadyLoaded
<1>2. f.content = k /\ k \in {<< >>, <<v>>, <<v, v>>}
  BY <1>1 DEF Record, SteadyIn
<1>3. n \in 0..(Len(k) + 1)
  <2>1. Len(f.content) \in {0, 1, 2}
    <3>1. Len(<< >>) = 0 /\ Len(<<v>>) = 1 /\ Len(<<v, v>>) = 2
      OBVIOUS
    <3> QED
      BY <1>2, <3>1
  <2>2. PICK m : m = Len(f.content)
    OBVIOUS
  <2>3. n \in {0, m, m + 1} /\ (m = 0 \/ m = 1 \/ m = 2)
    BY <2>1, <2>2
  <2> QED
    BY <1>2, <2>2, <2>3
<1>4. [f EXCEPT !.offset = n] = Record(p, l, k, n, s, a)
  <2>1. [Record(p, l, k, o, s, a) EXCEPT !.offset = n] = Record(p, l, k, n, s, a)
    BY DEF Record
  <2> QED
    BY <1>1, <2>1
<1>5. SteadyIn(v, p, l, k, n, s, a)
  BY <1>1, <1>3 DEF SteadyIn
<1> QED
  BY <1>4, <1>5 DEF Steady

\* Of the other servers a file keeps what its client has been given only.
Idle(f) == \E p, o, s : o \in 0..2 /\ f = Record(p, FALSE, << >>, o, s, 0)

LEMMA FreshRecord ==
  ASSUME NEW p PROVE Fresh(p) = Record(p, FALSE, << >>, 0, {}, 0)
<1>1. PICK q, l, k, o, s : q = <<"">> /\ l = FALSE /\ k = << >> /\ o = 0 /\ s = {}
  OBVIOUS
<1>2. Fresh(p) = [Record(q, l, k, o, s, o) EXCEPT !.path = p]
  BY <1>1 DEF Fresh, Closed, Record
<1>3. [Record(q, l, k, o, s, o) EXCEPT !.path = p] = Record(p, l, k, o, s, o)
  BY DEF Record
<1> QED
  BY <1>1, <1>2, <1>3

LEMMA ClosedSteady == /\ Steady(Closed) /\ \A p : Steady(Fresh(p))
                      /\ Idle(Closed) /\ \A p : Idle(Fresh(p))
<1>1. SteadyIn(0, <<"">>, FALSE, << >>, 0, {}, 0) /\ \A p : SteadyIn(0, p, FALSE, << >>, 0, {}, 0)
  BY DEF SteadyIn
<1>2. Closed = Record(<<"">>, FALSE, << >>, 0, {}, 0)
  BY DEF Closed, Record
<1>3. \A p : Fresh(p) = Record(p, FALSE, << >>, 0, {}, 0)
  BY FreshRecord
<1>4. Steady(Closed) /\ \A p : Steady(Fresh(p))
  BY <1>1, <1>2, <1>3 DEF Steady
<1>5. Idle(Closed) /\ \A p : Idle(Fresh(p))
  <2>1. 0 \in 0..2
    OBVIOUS
  <2> QED
    BY <1>2, <1>3, <2>1 DEF Idle
<1> QED
  BY <1>4, <1>5

-----------------------------------------------------------------------------
Opened ==
  /\ file = [c \in Clients |-> file[c]]
  /\ \A c \in Clients : IF frontend = "webdav" THEN Steady(file[c]) ELSE Idle(file[c])

LEMMA OpenedInit == Init => Opened
BY ClosedSteady DEF Init, MountInit, Opened

\* One file is replaced by a steady one.
LEMMA Replaced ==
  ASSUME Opened, frontend' = frontend, NEW c \in Clients, NEW f,
         IF frontend = "webdav" THEN Steady(f) ELSE Idle(f),
         file' = [file EXCEPT ![c] = f]
  PROVE  Opened'
<1>1. \A d \in Clients : file'[d] = IF d = c THEN f ELSE file[d]
  BY DEF Opened
<1>2. file' = [d \in Clients |-> file'[d]]
  BY DEF Opened
<1>3. \A d \in Clients : IF frontend' = "webdav" THEN Steady(file'[d]) ELSE Idle(file'[d])
  BY <1>1 DEF Opened
<1> QED
  BY <1>2, <1>3 DEF Opened

LEMMA OpenedStep == Opened /\ [Next]_vars => Opened'
<1> SUFFICES ASSUME Opened, [Next]_vars PROVE Opened'
  OBVIOUS
<1>1. ASSUME UNCHANGED <<frontend, file>> PROVE Opened'
  BY <1>1 DEF Opened
<1>2. ASSUME Add \/ AddHelp \/ Change PROVE Opened'
  BY <1>1, <1>2 DEF Add, AddHelp, Change, treeVars
<1>3. ASSUME NEW c \in Clients, NEW p, Open(c, p) PROVE Opened'
  BY <1>3, ClosedSteady, Replaced DEF Open, treeVars
<1>4. ASSUME NEW c \in Clients, Read(c) PROVE Opened'
  <2>1. PICK f \in Loads(file[c]) : file' = [file EXCEPT ![c] = Advance(f)]
    BY <1>4 DEF Read
  <2>2. Steady(Advance(f)) /\ frontend' = frontend /\ frontend = "webdav"
    BY <1>4, <2>1, LoadSteady, AdvanceSteady DEF Read, Opened, treeVars
  <2> QED
    BY <2>1, <2>2, Replaced
<1>5. ASSUME NEW c \in Clients, Seek(c) PROVE Opened'
  <2>1. PICK f \in Loads(file[c]) :
          \E o \in {0, Len(f.content), Len(f.content) + 1} :
            file' = [file EXCEPT ![c] = [f EXCEPT !.offset = o]]
    BY <1>5 DEF Seek
  <2>2. PICK o \in {0, Len(f.content), Len(f.content) + 1} :
          file' = [file EXCEPT ![c] = [f EXCEPT !.offset = o]]
    BY <2>1
  <2>3. Steady([f EXCEPT !.offset = o]) /\ frontend' = frontend /\ frontend = "webdav"
    BY <1>5, <2>1, <2>2, LoadSteady, SeekSteady DEF Seek, Opened, treeVars
  <2> QED
    BY <2>2, <2>3, Replaced
<1>6. ASSUME NEW c \in Clients, NEW o \in 0..1, ReadAt(c, o) PROVE Opened'
  <2>1. PICK f : file' = [file EXCEPT ![c] =
                   [Closed EXCEPT !.path = f.path, !.offset = o + 1,
                      !.seen = file[c].seen \cup Part([f EXCEPT !.offset = o])]]
    BY <1>6 DEF ReadAt
  <2>2. PICK p, n, s : /\ p = f.path /\ n = o + 1
                       /\ s = file[c].seen \cup Part([f EXCEPT !.offset = o])
    OBVIOUS
  <2>3. [Closed EXCEPT !.path = p, !.offset = n, !.seen = s] = Record(p, FALSE, << >>, n, s, 0)
    <3>1. PICK q, l, k, z, e : q = <<"">> /\ l = FALSE /\ k = << >> /\ z = 0 /\ e = {}
      OBVIOUS
    <3>2. Closed = Record(q, l, k, z, e, z)
      BY <3>1 DEF Closed, Record
    <3>3. [Record(q, l, k, z, e, z) EXCEPT !.path = p] = Record(p, l, k, z, e, z)
      BY DEF Record
    <3>4. [Record(p, l, k, z, e, z) EXCEPT !.offset = n] = Record(p, l, k, n, e, z)
      BY DEF Record
    <3>5. [Record(p, l, k, n, e, z) EXCEPT !.seen = s] = Record(p, l, k, n, s, z)
      BY DEF Record
    <3>6. [Closed EXCEPT !.path = p, !.offset = n, !.seen = s]
            = [[[Closed EXCEPT !.path = p] EXCEPT !.offset = n] EXCEPT !.seen = s]
      OBVIOUS
    <3> QED
      BY <3>1, <3>2, <3>3, <3>4, <3>5, <3>6
  <2>4. Idle([Closed EXCEPT !.path = p, !.offset = n, !.seen = s])
    <3>1. n \in 0..2
      BY <2>2
    <3> QED
      BY <2>3, <3>1 DEF Idle
  <2>5. frontend' = frontend /\ frontend # "webdav"
    BY <1>6 DEF ReadAt, treeVars
  <2> QED
    BY <2>1, <2>2, <2>4, <2>5, Replaced
<1>7. ASSUME NEW c \in Clients, Close(c) PROVE Opened'
  BY <1>7, ClosedSteady, Replaced DEF Close, treeVars
<1>8. ASSUME Tooled \/ Command \/ UNCHANGED vars PROVE Opened'
  BY <1>1, <1>8 DEF Tooled, Command, vars, treeVars
<1> QED
  BY <1>2, <1>3, <1>4, <1>5, <1>6, <1>7, <1>8 DEF Next, Mounted, MountNext

\* However a client of WebDAV reads and seeks, one open asks the API at most
\* once and gives out one version (webdav.go:127), for any number of clients
\* and versions.
THEOREM OneAnswer == Spec => []OneVersion
<1>1. Opened => OneVersion
  <2> SUFFICES ASSUME Opened, frontend = "webdav", NEW c \in Clients
               PROVE  file[c].asks <= 1 /\ Cardinality(file[c].seen) <= 1
    BY DEF OneVersion
  <2>1. PICK v, p, l, k, o, s, a :
          file[c] = Record(p, l, k, o, s, a) /\ SteadyIn(v, p, l, k, o, s, a)
    BY DEF Opened, Steady
  <2>2. file[c].asks \in {0, 1} /\ file[c].seen \in {{}, {v}}
    BY <2>1 DEF Record, SteadyIn
  <2>3. Cardinality({}) = 0 /\ Cardinality({v}) = 1
    BY FS_EmptySet, FS_Singleton
  <2> QED
    BY <2>2, <2>3
<1> QED
  BY <1>1, OpenedInit, OpenedStep, PTL DEF Spec

-----------------------------------------------------------------------------
(* The tree of files *)

\* What directories are named after, and what a path of the tree is made of.
Labels ==
  Segments \cup {o.tag : o \in Operation} \cup {o.id : o \in Operation}

LEMMA LabelsApart == Labels \cap FileNames = {}
BY MountAssumption DEF Labels

\* A path is shorter without its first segment.
Shorter == [p \in Seq(Segments) |-> IF p = << >> THEN {} ELSE {Tail(p)}]

LEMMA ShorterWellFounded == WellFounded(Seq(Segments), Shorter)
<1>1. Shorter \in [Seq(Segments) -> SUBSET Seq(Segments)]
  <2>1. ASSUME NEW p \in Seq(Segments)
        PROVE  (IF p = << >> THEN {} ELSE {Tail(p)}) \in SUBSET Seq(Segments)
    BY HeadTailProperties
  <2>. QED
    BY <2>1 DEF Shorter
<1>2. ASSUME NEW S \in SUBSET Seq(Segments), S # {}
      PROVE  \E p \in S : Shorter[p] \cap S = {}
  <2>. DEFINE N == {Len(p) : p \in S}
  <2>1. N \in SUBSET Nat /\ N # {}
    <3>1. \A p \in S : Len(p) \in Nat
      BY LenProperties
    <3>. QED
      BY <1>2, <3>1
  <2>. HIDE DEF N
  <2>2. PICK n \in N : \A m \in N : n <= m
    BY <2>1, Least
  <2>3. PICK p \in S : n = Len(p)
    BY DEF N
  <2>4. ASSUME p # << >>, Tail(p) \in S
        PROVE  FALSE
    <3>1. Len(Tail(p)) = Len(p) - 1 /\ Len(p) \in Nat
      BY <2>4, HeadTailProperties
    <3>2. Len(Tail(p)) \in N
      BY <2>4 DEF N
    <3>. QED
      BY <2>2, <2>3, <3>1, <3>2
  <2>. QED
    BY <2>4 DEF Shorter
<1>. QED
  BY <1>1, <1>2 DEF WellFounded

\* A first segment by itself.
LEMMA Singleton ==
  ASSUME NEW S, NEW e \in S
  PROVE  <<e>> \in Seq(S) /\ Len(<<e>>) = 1 /\ << >> \in Seq(S)
OBVIOUS

LEMMA HeadAndTail ==
  ASSUME NEW S, NEW s \in Seq(S), s # << >>
  PROVE  s = <<Head(s)>> \o Tail(s)
<1>1. Len(s) \in Nat \ {0}
  BY EmptySeq
<1>2. s = SubSeq(s, 1, Len(s))
  BY SubSeqFull
<1>3. SubSeq(s, 1, Len(s)) = <<s[1]>> \o SubSeq(s, 2, Len(s))
  BY <1>1, SubSeqRecursiveFirst
<1>4. Head(s) = s[1] /\ Tail(s) = SubSeq(s, 2, Len(s))
  BY TailIsSubSeq
<1>. QED
  BY <1>2, <1>3, <1>4

\* One round of the loop of splitPath.
Round(f, p) ==
  IF p = << >> THEN << >>
  ELSE (IF Head(p) = "" THEN << >> ELSE <<Head(p)>>) \o f[Tail(p)]

LEMMA SplitEquation == \A p \in Seq(Segments) : Split[p] = Round(Split, p)
<1>. DEFINE P == Seq(Segments)
            G == [f \in [P -> P] |-> [p \in P |-> Round(f, p)]]
<1>1. ASSUME NEW f \in [P -> P], NEW p \in P
      PROVE  Round(f, p) \in P
  <2>1. CASE p = << >>
    BY <2>1 DEF Round
  <2>2. CASE p # << >>
    <3>1. Head(p) \in Segments /\ Tail(p) \in P
      BY <2>2, HeadTailProperties
    <3>2. (IF Head(p) = "" THEN << >> ELSE <<Head(p)>>) \in P /\ f[Tail(p)] \in P
      BY <3>1, Singleton
    <3>. QED
      BY <2>2, <3>2, ConcatProperties DEF Round
  <2>. QED
    BY <2>1, <2>2
<1>2. ASSUME NEW f \in [P -> P], NEW g \in [P -> P], NEW p \in P, AgreeOn(Shorter[p], f, g)
      PROVE  Round(f, p) = Round(g, p)
  BY <1>2 DEF AgreeOn, Shorter, Round
<1>3. Body(P, P, Shorter, G)
  BY <1>1, <1>2 DEF Body
<1>4. HasFixpoint(P, P, G)
  <2>. HIDE DEF G
  <2>1. << >> \in P
    OBVIOUS
  <2>. QED
    BY <1>3, <2>1, ShorterWellFounded, Recursion
<1>5. PICK f \in [P -> P] : \A p \in P : f[p] = G[f][p]
  BY <1>4 DEF HasFixpoint
<1>6. f = [p \in P |-> Round(f, p)]
  BY <1>5
<1>7. Split = [p \in P |-> Round(Split, p)]
  BY <1>6 DEF Split, Round
<1>. QED
  BY <1>7

LEMMA SplitType == \A p \in Seq(Segments) : Split[p] \in Seq(Segments)
<1>. DEFINE S == {p \in Seq(Segments) : Split[p] \in Seq(Segments)}
<1>1. ASSUME NEW p \in Seq(Segments), Shorter[p] \subseteq S
      PROVE  Split[p] \in Seq(Segments)
  <2>1. CASE p = << >>
    BY <2>1, SplitEquation DEF Round
  <2>2. CASE p # << >>
    <3>1. Head(p) \in Segments /\ Tail(p) \in S
      BY <1>1, <2>2, HeadTailProperties DEF Shorter
    <3>2. (IF Head(p) = "" THEN << >> ELSE <<Head(p)>>) \in Seq(Segments)
      BY <3>1, Singleton
    <3>. QED
      BY <2>2, <3>1, <3>2, ConcatProperties, SplitEquation DEF Round
  <2>. QED
    BY <2>1, <2>2
<1>. HIDE DEF S
<1>2. \A p \in Seq(Segments) : Shorter[p] \subseteq S => p \in S
  BY <1>1 DEF S
<1>3. Seq(Segments) \subseteq S
  BY <1>2, ShorterWellFounded, InductionBelow
<1>. QED
  BY <1>3 DEF S

\* A path without empty segments is split into its segments.
Full(p) == \A j \in 1..Len(p) : p[j] # ""

LEMMA SplitWhole ==
  ASSUME NEW p \in Seq(Segments), Full(p)
  PROVE  Split[p] = p
<1>. DEFINE S == {q \in Seq(Segments) : Full(q) => Split[q] = q}
<1>1. ASSUME NEW q \in Seq(Segments), Shorter[q] \subseteq S, Full(q)
      PROVE  Split[q] = q
  <2>1. CASE q = << >>
    BY <2>1, SplitEquation DEF Round
  <2>2. CASE q # << >>
    <3>1. Head(q) \in Segments /\ Tail(q) \in S
      BY <1>1, <2>2, HeadTailProperties DEF Shorter
    <3>2. Len(q) \in Nat \ {0} /\ Head(q) = q[1]
      BY <2>2, EmptySeq
    <3>3. q[1] # "" /\ Full(Tail(q))
      <4>1. \A j \in 1..Len(q) : q[j] # ""
        BY <1>1 DEF Full
      <4>2. PICK t, n : t = Tail(q) /\ n = Len(q)
        OBVIOUS
      <4>3. n \in Nat \ {0} /\ Len(t) = n - 1 /\ \A i \in 1..(n - 1) : t[i] = q[i + 1]
        BY <2>2, <3>2, <4>2, HeadTailProperties
      <4>4. ASSUME NEW i \in 1..(n - 1) PROVE t[i] # ""
        <5>1. i + 1 \in 1..Len(q) /\ t[i] = q[i + 1]
          BY <4>2, <4>3
        <5>. QED
          BY <4>1, <5>1
      <4>5. 1 \in 1..Len(q)
        BY <3>2
      <4>. QED
        BY <4>1, <4>2, <4>3, <4>4, <4>5 DEF Full
    <3>4. Split[q] = <<Head(q)>> \o Tail(q)
      BY <2>2, <3>1, <3>2, <3>3, SplitEquation DEF Round
    <3>. QED
      BY <2>2, <3>4, HeadAndTail
  <2>. QED
    BY <2>1, <2>2
<1>. HIDE DEF S
<1>2. \A q \in Seq(Segments) : Shorter[q] \subseteq S => q \in S
  BY <1>1 DEF S
<1>3. Seq(Segments) \subseteq S
  BY <1>2, ShorterWellFounded, InductionBelow
<1>. QED
  BY <1>3 DEF S

\* The directory of an operation is a path of labels.
LEMMA HomeType ==
  ASSUME grouping \in {"path", "tags", "flat"}, NEW o \in Operation
  PROVE  Home(o) \in Seq(Labels)
<1>1. o.path \in Seq(Segments) /\ o.tag \in Labels /\ o.id \in Labels
  BY OperationsAssumption DEF Labels
<1>2. Split[o.path] \in Seq(Labels)
  <2>1. Split[o.path] \in Seq(Segments) /\ Segments \subseteq Labels
    BY <1>1, SplitType DEF Labels
  <2>. QED
    BY <2>1, SeqMonotonic
<1>3. CASE grouping = "path"
  BY <1>2, <1>3 DEF Home
<1>4. CASE grouping = "tags"
  <2>1. PICK p \in Seq(Labels) : p = Split[o.path]
    BY <1>2
  <2>2. Home(o) = <<o.tag>> \o IF p # << >> /\ Head(p) = o.tag THEN Tail(p) ELSE p
    BY <1>4, <2>1 DEF Home
  <2>3. (IF p # << >> /\ Head(p) = o.tag THEN Tail(p) ELSE p) \in Seq(Labels)
    BY HeadTailProperties
  <2>4. <<o.tag>> \in Seq(Labels)
    BY <1>1
  <2>. QED
    BY <2>2, <2>3, <2>4, ConcatProperties
<1>5. CASE grouping = "flat"
  BY <1>1, <1>5 DEF Home
<1>. QED
  BY <1>3, <1>4, <1>5

\* The names of files are known, and none of an operation is that of the help.
LEMMA NamesKnown ==
  ASSUME NEW o
  PROVE  Names(o) \subseteq FileNames \ {".help"}
BY DEF Names, FileNames

\* A file and a directory never have one path, and the path of a file says
\* whose it is.
LEMMA FileOrDirectory ==
  ASSUME NEW d \in Seq(Labels), NEW n \in FileNames
  PROVE  /\ Append(d, n) \notin Seq(Labels)
         /\ Append(d, n) # << >>
         /\ \A e \in Seq(Labels), m \in FileNames : Append(d, n) = Append(e, m) => d = e /\ n = m
<1>. DEFINE All == Labels \cup FileNames
<1>1. \A e \in Seq(Labels) : e \in Seq(All)
  BY SeqMonotonic
<1>2. /\ Len(Append(d, n)) = Len(d) + 1 /\ Append(d, n)[Len(d) + 1] = n
      /\ Append(d, n) # << >> /\ Len(d) \in Nat
  BY <1>1, AppendProperties
<1>3. Append(d, n) \notin Seq(Labels)
  <2>. SUFFICES ASSUME Append(d, n) \in Seq(Labels) PROVE FALSE
    OBVIOUS
  <2>1. Len(d) + 1 \in 1..Len(Append(d, n))
    BY <1>2
  <2>2. n \in Labels
    BY <1>2, <2>1, ElementOfSeq
  <2>. QED
    BY <2>2, LabelsApart
<1>4. \A e \in Seq(Labels), m \in FileNames : Append(d, n) = Append(e, m) => d = e /\ n = m
  <2>. SUFFICES ASSUME NEW e \in Seq(Labels), NEW m \in FileNames, Append(d, n) = Append(e, m)
                PROVE  d = e /\ n = m
    OBVIOUS
  <2>1. d \in Seq(All) /\ e \in Seq(All) /\ n \in All /\ m \in All
    BY <1>1
  <2>. HIDE DEF All
  <2>. QED
    BY <2>1, AppendInjective
<1>. QED
  BY <1>2, <1>3, <1>4

\* The paths on the way to a directory, and to a file in it.
LEMMA Prefixes ==
  ASSUME NEW d \in Seq(Labels), NEW k \in 0..Len(d)
  PROVE  /\ SubSeq(d, 1, k) \in Seq(Labels) /\ Len(SubSeq(d, 1, k)) = k
         /\ \A j \in 0..k : SubSeq(SubSeq(d, 1, k), 1, j) = SubSeq(d, 1, j)
         /\ \A n \in FileNames : SubSeq(Append(d, n), 1, k) = SubSeq(d, 1, k)
<1>1. Len(d) \in Nat
  BY LenProperties
<1>2. \A i \in 1..k : d[i] \in Labels
  BY <1>1, ElementOfSeq
<1>3. SubSeq(d, 1, k) \in Seq(Labels) /\ Len(SubSeq(d, 1, k)) = k
  BY <1>1, <1>2, SubSeqProperties
<1>4. ASSUME NEW j \in 0..k
      PROVE  SubSeq(SubSeq(d, 1, k), 1, j) = SubSeq(d, 1, j)
  <2>1. CASE j = 0
    BY <1>1, <2>1, SubSeqEmpty
  <2>2. CASE j # 0
    <3>1. 1 \in 1..Len(d) /\ k \in 1..Len(d) /\ 1 \in 1..(k - 1 + 1) /\ j \in 1..(k - 1 + 1)
      BY <1>1, <2>2
    <3>2. SubSeq(SubSeq(d, 1, k), 1, j) = SubSeq(d, 1 + 1 - 1, 1 + j - 1)
      BY <3>1, SubSeqOfSubSeq
    <3>3. 1 + 1 - 1 = 1 /\ 1 + j - 1 = j
      OBVIOUS
    <3>. QED
      BY <3>2, <3>3
  <2>. QED
    BY <2>1, <2>2
<1>5. ASSUME NEW n \in FileNames
      PROVE  SubSeq(Append(d, n), 1, k) = SubSeq(d, 1, k)
  <2>1. CASE k = 0
    BY <2>1, SubSeqEmpty
  <2>2. CASE k # 0
    <3>. DEFINE All == Labels \cup FileNames
    <3>1. d \in Seq(All) /\ <<n>> \in Seq(All) /\ n \in All
      BY SeqMonotonic, Singleton
    <3>2. 1 \in 1..Len(d) /\ k \in 1..Len(d)
      BY <1>1, <2>2
    <3>. HIDE DEF All
    <3>3. Append(d, n) = d \o <<n>>
      BY <3>1, AppendIsConcat
    <3>. QED
      BY <3>1, <3>2, <3>3, SubSeqOfConcat1
  <2>. QED
    BY <2>1, <2>2
<1>. QED
  BY <1>3, <1>4, <1>5

-----------------------------------------------------------------------------
\* What a node is follows from its path: directories hang on directories, and a
\* file belongs to an operation that was added, or is a help file.
Rooted(p) == \A k \in 0..(Len(p) - 1) : IsDirectory(SubSeq(p, 1, k))
OfOperation(p) == tree[p] \in 1..added /\ p \in Files(document[tree[p]])
OfHelp(p) ==
  tree[p] = Help /\ stage = "serving" /\ \E d \in Seq(Labels) : p = Append(d, ".help")
Node(p) ==
  /\ Rooted(p)
  /\ (tree[p] = Directory /\ p \in Seq(Labels)) \/ OfOperation(p) \/ OfHelp(p)

\* Each file of an operation is there, and its own or an earlier one's.
Held(i) == \A p \in Files(document[i]) : p \in DOMAIN tree /\ tree[p] \in 1..i

TreeInv ==
  /\ document \in Documents /\ grouping \in {"path", "tags", "flat"}
  /\ stage \in {"building", "serving"} /\ added \in 0..Len(document)
  /\ stage = "serving" => added = Len(document)
  /\ IsDirectory(<< >>)
  /\ \A p \in DOMAIN tree : Node(p)
  /\ \A i \in 1..added : Held(i)

LEMMA TreeInit == MountInit => TreeInv
<1>. SUFFICES ASSUME MountInit PROVE TreeInv
  OBVIOUS
<1>1. /\ document \in Documents /\ grouping \in {"path", "tags", "flat"}
      /\ stage = "building" /\ added = 0
      /\ DOMAIN tree = {<< >>} /\ tree[<< >>] = Directory
  BY MountAssumption DEF MountInit
<1>2. Len(document) \in Nat
  BY <1>1, DocumentOperations
<1>3. Node(<< >>)
  <2>1. << >> \in Seq(Labels) /\ Len(<< >>) = 0
    OBVIOUS
  <2>. QED
    BY <1>1, <2>1 DEF Node, Rooted
<1>. QED
  BY <1>1, <1>2, <1>3 DEF TreeInv, IsDirectory

\* A directory stays one when nodes are put beside it.
LEMMA DirectoriesStay ==
  ASSUME NEW u, tree' = Merged(tree, u), NEW p, IsDirectory(p)
  PROVE  IsDirectory(p)'
BY DEF IsDirectory, Merged

\* Files of operations are where they were while the document is.
LEMMA PathsStay ==
  ASSUME UNCHANGED <<document, grouping>>, NEW i
  PROVE  /\ Files(document[i])' = Files(document[i])
         /\ Home(document[i])' = Home(document[i])
         /\ Directories(document[i])' = Directories(document[i])
BY DEF Files, Directories, Home

\* The operations of the document, their directories and their files.
LEMMA Filed ==
  ASSUME TreeInv, NEW i \in 1..Len(document)
  PROVE  /\ Home(document[i]) \in Seq(Labels)
         /\ \A p \in Directories(document[i]) : p \in Seq(Labels)
         /\ \A p \in Files(document[i]) :
              p \notin Seq(Labels) /\ \E n \in FileNames \ {".help"} : p = Append(Home(document[i]), n)
<1>1. document[i] \in Operation
  BY DocumentOperations DEF TreeInv
<1>2. Home(document[i]) \in Seq(Labels)
  BY <1>1, HomeType DEF TreeInv
<1>3. \A p \in Directories(document[i]) : p \in Seq(Labels)
  BY <1>2, Prefixes DEF Directories
<1>4. ASSUME NEW p \in Files(document[i])
      PROVE  p \notin Seq(Labels) /\ \E n \in FileNames \ {".help"} : p = Append(Home(document[i]), n)
  <2>1. PICK n \in Names(document[i]) : p = Append(Home(document[i]), n)
    BY DEF Files
  <2>2. n \in FileNames \ {".help"}
    BY NamesKnown
  <2>. QED
    BY <1>2, <2>1, <2>2, FileOrDirectory
<1>. QED
  BY <1>2, <1>3, <1>4

\* A round of BuildTree.
LEMMA AddTree ==
  ASSUME TreeInv, Add
  PROVE  TreeInv'
<1>. DEFINE i == added + 1
            o == document[i]
            D == Directories(o)
            F == Files(o)
<1>1. /\ stage = "building" /\ added < Len(document) /\ added' = i
      /\ UNCHANGED <<document, grouping, stage>>
      /\ tree' = Merged(tree, NewNodes(i))
  BY DEF Add
<1>2. Len(document) \in Nat /\ added \in Nat /\ i \in 1..Len(document)
  BY <1>1, DocumentOperations DEF TreeInv
<1>3. /\ Home(o) \in Seq(Labels)
      /\ \A p \in D : p \in Seq(Labels)
      /\ \A p \in F : p \notin Seq(Labels) /\ \E n \in FileNames \ {".help"} : p = Append(Home(o), n)
  BY <1>2, Filed
<1>4. /\ DOMAIN tree' = DOMAIN tree \cup D \cup F
      /\ \A p \in DOMAIN tree : tree'[p] = tree[p]
      /\ \A p \in D \ DOMAIN tree : tree'[p] = Directory
      /\ \A p \in F \ DOMAIN tree : tree'[p] = i
  BY <1>1, <1>3 DEF Merged, NewNodes
<1>. HIDE DEF i, o, D, F
<1>5. ASSUME NEW p, IsDirectory(p) PROVE IsDirectory(p)'
  BY <1>1, <1>5, DirectoriesStay
<1>6. ASSUME NEW p \in D PROVE IsDirectory(p)'
  <2>1. CASE p \in DOMAIN tree
    <3>1. Node(p) /\ p \in Seq(Labels)
      BY <1>3, <2>1 DEF TreeInv
    <3>2. ~OfHelp(p)
      <4>1. \A d \in Seq(Labels) : Append(d, ".help") \notin Seq(Labels)
        BY FileOrDirectory DEF FileNames
      <4>. QED
        BY <3>1, <4>1 DEF OfHelp
    <3>3. ~OfOperation(p)
      <4>1. tree[p] \in 1..added => tree[p] \in 1..Len(document)
        BY <1>1, <1>2
      <4>. QED
        BY <3>1, <4>1, Filed DEF OfOperation
    <3>4. IsDirectory(p)
      BY <2>1, <3>1, <3>2, <3>3 DEF Node, IsDirectory
    <3>. QED
      BY <1>5, <3>4
  <2>2. CASE p \notin DOMAIN tree
    BY <1>4, <2>2 DEF IsDirectory
  <2>. QED
    BY <2>1, <2>2
<1>7. \A j : Files(document[j])' = Files(document[j])
  BY <1>1, PathsStay
<1>8. ASSUME NEW p \in DOMAIN tree PROVE Node(p)'
  <2>1. Node(p)
    BY DEF TreeInv
  <2>2. Rooted(p)'
    BY <1>5, <2>1 DEF Node, Rooted
  <2>3. tree'[p] = tree[p] /\ stage' = stage
    BY <1>1, <1>4
  <2>4. OfOperation(p) => OfOperation(p)'
    <3>. SUFFICES ASSUME OfOperation(p) PROVE OfOperation(p)'
      OBVIOUS
    <3>1. tree'[p] \in 1..added'
      BY <1>1, <1>2, <2>3 DEF OfOperation, i
    <3>. QED
      BY <1>1, <2>3, <3>1 DEF OfOperation, Files, Home
  <2>. QED
    BY <2>1, <2>2, <2>3, <2>4 DEF Node, OfHelp
<1>9. ASSUME NEW p \in D \ DOMAIN tree PROVE Node(p)'
  <2>1. PICK k \in 0..Len(Home(o)) : p = SubSeq(Home(o), 1, k)
    BY DEF D, Directories
  <2>2. Len(p) = k /\ \A j \in 0..k : SubSeq(p, 1, j) = SubSeq(Home(o), 1, j)
    BY <1>3, <2>1, Prefixes
  <2>3. Len(Home(o)) \in Nat
    BY <1>3, LenProperties
  <2>4. \A j \in 0..(Len(p) - 1) : SubSeq(p, 1, j) \in D
    BY <2>2, <2>3 DEF D, Directories
  <2>5. Rooted(p)'
    BY <1>6, <2>4 DEF Rooted
  <2>. QED
    BY <1>3, <1>4, <2>5 DEF Node
<1>10. ASSUME NEW p \in F \ DOMAIN tree PROVE Node(p)'
  <2>1. PICK n \in FileNames : p = Append(Home(o), n)
    BY <1>3
  <2>2. Len(Home(o)) \in Nat /\ Len(p) = Len(Home(o)) + 1
    <3>1. Home(o) \in Seq(Labels \cup FileNames) /\ n \in Labels \cup FileNames
      BY <1>3, SeqMonotonic
    <3>. QED
      BY <2>1, <3>1, AppendProperties, LenProperties
  <2>3. \A j \in 0..(Len(p) - 1) : SubSeq(p, 1, j) \in D
    <3>. SUFFICES ASSUME NEW j \in 0..(Len(p) - 1) PROVE SubSeq(p, 1, j) \in D
      OBVIOUS
    <3>1. j \in 0..Len(Home(o))
      BY <2>2
    <3>2. SubSeq(p, 1, j) = SubSeq(Home(o), 1, j)
      BY <1>3, <2>1, <3>1, Prefixes
    <3>. QED
      BY <3>1, <3>2 DEF D, Directories
  <2>4. Rooted(p)'
    BY <1>6, <2>3 DEF Rooted
  <2>5. OfOperation(p)'
    <3>1. tree'[p] = i /\ i \in 1..added'
      BY <1>1, <1>2, <1>4
    <3>2. p \in Files(document[i])
      BY DEF F, o
    <3>. QED
      BY <1>1, <3>1, <3>2 DEF OfOperation, Files, Home
  <2>. QED
    BY <2>4, <2>5 DEF Node
<1>11. ASSUME NEW j \in 1..added' PROVE Held(j)'
  <2>1. CASE j \in 1..added
    <3>1. Held(j)
      BY <2>1 DEF TreeInv
    <3> QED
      BY <1>4, <1>7, <3>1 DEF Held
  <2>2. CASE j = i
    <3>1. ASSUME NEW p \in F, p \in DOMAIN tree
          PROVE  tree[p] \in 1..i
      <4>1. p \notin Seq(Labels) /\ Node(p)
        BY <1>3, <3>1 DEF TreeInv
      <4>2. tree[p] \in 1..added
        BY <1>1, <4>1 DEF Node, OfHelp, OfOperation
      <4> QED
        BY <1>2, <4>2 DEF i
    <3>2. i \in 1..i
      BY <1>2
    <3>3. \A p \in F : p \in DOMAIN tree' /\ tree'[p] \in 1..i
      BY <1>4, <3>1, <3>2
    <3>4. Files(document[j])' = F
      BY <1>7, <2>2 DEF F, o
    <3> QED
      BY <2>2, <3>3, <3>4 DEF Held
  <2>. QED
    BY <1>1, <1>2, <2>1, <2>2 DEF i
<1>12. \A p \in DOMAIN tree' : Node(p)'
  BY <1>4, <1>8, <1>9, <1>10
<1>13. added' \in 0..Len(document)
  BY <1>1, <1>2
<1>14. IsDirectory(<< >>)'
  BY <1>5 DEF TreeInv
<1>. QED
  BY <1>1, <1>11, <1>12, <1>13, <1>14 DEF TreeInv

\* addHelpFilesRecursive
LEMMA AddHelpTree ==
  ASSUME TreeInv, AddHelp
  PROVE  TreeInv'
<1>1. /\ added = Len(document) /\ stage' = "serving"
      /\ UNCHANGED <<document, grouping, added>>
      /\ tree' = Merged(HelpFiles, tree)
  BY DEF AddHelp
<1>2. PICK H : H = DOMAIN HelpFiles
  OBVIOUS
<1>3. /\ DOMAIN tree' = H \cup DOMAIN tree
      /\ \A p \in H : tree'[p] = Help
      /\ \A p \in DOMAIN tree \ H : tree'[p] = tree[p]
  BY <1>1, <1>2 DEF Merged, HelpFiles
<1>4. \A p \in H : \E d : IsDirectory(d) /\ p = Append(d, ".help")
  BY <1>2 DEF HelpFiles
<1>5. ".help" \in FileNames
  BY DEF FileNames
<1>6. ASSUME NEW p, IsDirectory(p) PROVE p \in Seq(Labels)
  <2>1. Node(p) /\ tree[p] = 0
    BY <1>6 DEF TreeInv, IsDirectory, Directory
  <2>2. ~OfHelp(p)
    BY <2>1 DEF OfHelp, Help
  <2>3. ~OfOperation(p)
    BY <2>1 DEF OfOperation
  <2>. QED
    BY <2>1, <2>2, <2>3 DEF Node
<1>7. \A p \in Seq(Labels) : p \notin H
  BY <1>4, <1>5, <1>6, FileOrDirectory
<1>8. ASSUME NEW p, IsDirectory(p) PROVE IsDirectory(p)'
  BY <1>3, <1>6, <1>7, <1>8 DEF IsDirectory
<1>9. \A j : Files(document[j])' = Files(document[j])
  BY <1>1, PathsStay
<1>10. ASSUME NEW p \in H PROVE Node(p)'
  <2>1. PICK d : IsDirectory(d) /\ p = Append(d, ".help")
    BY <1>4
  <2>2. d \in Seq(Labels) /\ Node(d)
    BY <1>6, <2>1 DEF TreeInv, IsDirectory
  <2>3. Len(d) \in Nat /\ Len(p) = Len(d) + 1
    <3>1. d \in Seq(Labels \cup FileNames) /\ ".help" \in Labels \cup FileNames
      BY <1>5, <2>2, SeqMonotonic
    <3>. QED
      BY <2>1, <3>1, AppendProperties, LenProperties
  <2>4. ASSUME NEW k \in 0..(Len(p) - 1) PROVE IsDirectory(SubSeq(p, 1, k))'
    <3>1. k \in 0..Len(d)
      BY <2>3
    <3>2. SubSeq(p, 1, k) = SubSeq(d, 1, k)
      BY <1>5, <2>1, <2>2, <3>1, Prefixes
    <3>3. CASE k = Len(d)
      BY <1>8, <2>1, <2>2, <3>2, <3>3, SubSeqFull
    <3>4. CASE k # Len(d)
      <4>1. k \in 0..(Len(d) - 1)
        BY <2>3, <3>1, <3>4
      <4>. QED
        BY <1>8, <2>2, <3>2, <4>1 DEF Node, Rooted
    <3>. QED
      BY <3>3, <3>4
  <2>5. OfHelp(p)'
    BY <1>1, <1>3, <2>1, <2>2 DEF OfHelp
  <2>. QED
    BY <2>4, <2>5 DEF Node, Rooted
<1>11. ASSUME NEW p \in DOMAIN tree \ H PROVE Node(p)'
  <2>1. Node(p) /\ tree'[p] = tree[p]
    BY <1>3 DEF TreeInv
  <2>2. Rooted(p)'
    BY <1>8, <2>1 DEF Node, Rooted
  <2>3. OfOperation(p) => OfOperation(p)'
    BY <1>1, <1>9, <2>1 DEF OfOperation
  <2>4. OfHelp(p) => OfHelp(p)'
    BY <1>1, <2>1 DEF OfHelp
  <2>. QED
    BY <2>1, <2>2, <2>3, <2>4 DEF Node
<1>12. ASSUME NEW j \in 1..added' PROVE Held(j)'
  <2>1. Held(j) /\ j \in 1..Len(document)
    BY <1>1 DEF TreeInv
  <2>2. ASSUME NEW p \in Files(document[j]), p \in H PROVE FALSE
    <3>1. PICK n \in FileNames \ {".help"} : p = Append(Home(document[j]), n)
      BY <2>1, Filed
    <3>2. PICK d : IsDirectory(d) /\ p = Append(d, ".help")
      BY <1>4, <2>2
    <3>3. d \in Seq(Labels) /\ Home(document[j]) \in Seq(Labels)
      BY <1>6, <2>1, <3>2, Filed
    <3> QED
      BY <1>5, <3>1, <3>2, <3>3, FileOrDirectory
  <2> QED
    BY <1>3, <1>9, <2>1, <2>2 DEF Held
<1>13. IsDirectory(<< >>)'
  BY <1>8 DEF TreeInv
<1>14. added' \in 0..Len(document)'
  BY <1>1 DEF TreeInv
<1>. QED
  BY <1>1, <1>3, <1>10, <1>11, <1>12, <1>13, <1>14 DEF TreeInv

LEMMA TreeStep == TreeInv /\ [Next]_vars => TreeInv'
<1>. SUFFICES ASSUME TreeInv, [Next]_vars PROVE TreeInv'
  OBVIOUS
<1>1. ASSUME UNCHANGED <<document, treeVars>> PROVE TreeInv'
  <2>1. UNCHANGED <<document, grouping, stage, added, tree>>
    BY <1>1 DEF treeVars
  <2>2. \A p : IsDirectory(p) <=> IsDirectory(p)'
    BY <2>1 DEF IsDirectory
  <2>3. \A p : OfOperation(p) <=> OfOperation(p)'
    BY <2>1 DEF OfOperation, Files, Home
  <2>4. \A p : Node(p) => Node(p)'
    BY <2>1, <2>2, <2>3 DEF Node, Rooted, OfHelp
  <2>5. \A i : Held(i) => Held(i)'
    BY <2>1 DEF Held, Files, Home
  <2>. QED
    BY <2>1, <2>2, <2>4, <2>5 DEF TreeInv
<1>2. ASSUME Mounted, ~Add, ~AddHelp PROVE UNCHANGED <<document, treeVars>>
  BY <1>2 DEF Mounted, MountNext, Change, Open, Read, Seek, Close, ReadAt
<1>3. ASSUME Tooled PROVE UNCHANGED <<document, treeVars>>
  BY <1>3 DEF Tooled, ToolsNext, Register, CallTool
<1>4. ASSUME Command PROVE UNCHANGED <<document, treeVars>>
  BY <1>4 DEF Command, LookupNext, Ask, Consider, Send, Finish
<1>5. ASSUME UNCHANGED vars PROVE UNCHANGED <<document, treeVars>>
  BY <1>5 DEF vars
<1>. QED
  BY <1>1, <1>2, <1>3, <1>4, <1>5, AddTree, AddHelpTree DEF Next

\* The path of a node is a sequence.
LEMMA NodePath ==
  ASSUME TreeInv, NEW p \in DOMAIN tree
  PROVE  p \in Seq(Labels \cup FileNames)
<1>1. \A d \in Seq(Labels), n \in FileNames : Append(d, n) \in Seq(Labels \cup FileNames)
  BY SeqMonotonic, AppendProperties
<1>2. CASE p \in Seq(Labels)
  BY <1>2, SeqMonotonic
<1>3. CASE OfHelp(p)
  BY <1>1, <1>3 DEF OfHelp, FileNames
<1>4. CASE OfOperation(p)
  <2>1. tree[p] \in 1..Len(document)
    BY <1>4, DocumentOperations DEF OfOperation, TreeInv
  <2>2. PICK i \in 1..Len(document) : p \in Files(document[i])
    BY <1>4, <2>1 DEF OfOperation
  <2>3. PICK n \in FileNames : p = Append(Home(document[i]), n)
    BY <2>2, Filed
  <2>4. Home(document[i]) \in Seq(Labels)
    BY Filed
  <2>. QED
    BY <1>1, <2>3, <2>4
<1>. QED
  BY <1>2, <1>3, <1>4 DEF TreeInv, Node

\* A path of the tree is found by a walk down from the root.
LEMMA Walk ==
  ASSUME TreeInv, NEW p \in DOMAIN tree
  PROVE  Resolves(p)
<1>1. Rooted(p) /\ Len(p) \in Nat /\ p = SubSeq(p, 1, Len(p))
      /\ p \in Seq(Labels \cup FileNames)
  BY NodePath, LenProperties, SubSeqFull DEF TreeInv, Node
<1>2. ASSUME NEW k \in 1..Len(p)
      PROVE  p[k] \in Children(SubSeq(p, 1, k - 1))
  <2>. DEFINE q == SubSeq(p, 1, k)
  <2>1. q \in DOMAIN tree
    <3>1. CASE k = Len(p)
      BY <1>1, <3>1
    <3>2. CASE k # Len(p)
      <4>1. k \in 0..(Len(p) - 1)
        <5>1. PICK n : n = Len(p)
          OBVIOUS
        <5>2. n \in Nat /\ k \in 1..n /\ k # n
          BY <1>1, <3>2, <5>1
        <5>3. k \in 0..(n - 1)
          BY <5>2
        <5>. QED
          BY <5>1, <5>3
      <4>. QED
        BY <1>1, <4>1 DEF Rooted, IsDirectory
    <3>. QED
      BY <3>1, <3>2
  <2>2. Len(q) = k /\ q[k] = p[k] /\ q # << >>
    <3>1. \A i \in 1..k : p[i] \in Labels \cup FileNames
      BY <1>1, ElementOfSeq
    <3>2. /\ Len(q) = IF 1 <= k THEN k - 1 + 1 ELSE 0
          /\ \A i \in 1..(k - 1 + 1) : q[i] = p[1 + i - 1]
      BY <1>1, <3>1, SubSeqProperties
    <3>3. k \in 1..(k - 1 + 1) /\ 1 + k - 1 = k /\ k - 1 + 1 = k /\ 1 <= k
      BY <1>1
    <3>4. Len(q) = k /\ q[k] = p[k]
      BY <3>2, <3>3
    <3>. QED
      BY <3>4
  <2>3. SubSeq(q, 1, k - 1) = SubSeq(p, 1, k - 1)
    <3>1. CASE k = 1
      BY <3>1, SubSeqEmpty
    <3>2. CASE k # 1
      <4>1. 1 \in 1..Len(p) /\ k \in 1..Len(p) /\ 1 \in 1..(k - 1 + 1) /\ k - 1 \in 1..(k - 1 + 1)
        BY <1>1, <3>2
      <4>2. SubSeq(q, 1, k - 1) = SubSeq(p, 1 + 1 - 1, 1 + (k - 1) - 1)
        BY <1>1, <4>1, SubSeqOfSubSeq
      <4>3. 1 + 1 - 1 = 1 /\ 1 + (k - 1) - 1 = k - 1
        BY <4>1
      <4>. QED
        BY <4>2, <4>3
    <3>. QED
      BY <3>1, <3>2
  <2>. HIDE DEF q
  <2>4. Base(q) = p[k] /\ Parent(q) = SubSeq(p, 1, k - 1)
    BY <2>2, <2>3 DEF Base, Parent
  <2>. QED
    BY <2>1, <2>2, <2>4 DEF Children
<1>. QED
  BY <1>2 DEF Resolves

\* Every file of every operation is found by a walk from the root and is that of
\* the first operation to have one there (builder.go:12-30, 105, 111), however
\* paths overlap, for any documents and groupings.
THEOREM EveryFile == Spec => []NothingLost
<1>1. TreeInv => NothingLost
  <2> SUFFICES ASSUME TreeInv, stage = "serving",
                      NEW i \in 1..Len(document), NEW p \in Files(document[i])
               PROVE  Resolves(p) /\ tree[p] \in 1..i /\ p \in Files(document[tree[p]])
    BY DEF NothingLost
  <2>1. p \in DOMAIN tree /\ tree[p] \in 1..i
    BY DEF TreeInv, Held
  <2>2. Node(p) /\ p \notin Seq(Labels)
    BY <2>1, Filed DEF TreeInv
  <2>3. OfOperation(p)
    BY <2>1, <2>2, DocumentOperations DEF TreeInv, Node, OfHelp, Help
  <2> QED
    BY <2>1, <2>3, Walk DEF OfOperation
<1>. QED
  BY <1>1, TreeInit, TreeStep, PTL DEF Spec, Init

\* Types of the files: where an offset may be, and that a file counts what it
\* asks.
LEMMA FileTypes ==
  ASSUME Opened, NEW c \in Clients
  PROVE  /\ frontend = "webdav" => file[c].offset \in 0..(Len(file[c].content) + 1)
         /\ frontend # "webdav" => file[c].offset \in 0..2 /\ ~file[c].loaded
         /\ file[c].asks \in Nat
<1>1. CASE frontend = "webdav"
  BY <1>1 DEF Opened, Steady, SteadyIn, Record
<1>2. CASE frontend # "webdav"
  BY <1>2 DEF Opened, Idle, Record
<1> QED
  BY <1>1, <1>2

\* What is open is a node of the tree, which only grows.
Reachable == \A c \in Clients : IsOpen(c) => file[c].path \in DOMAIN tree

\* Neither a load nor a read changes what a file is of.
LEMMA SamePath ==
  ASSUME NEW f, NEW p, NEW l, NEW k, NEW o, NEW s, NEW a, f = Record(p, l, k, o, s, a)
  PROVE  /\ \A g \in Loads(f) : g.path = p /\ Advance(g).path = p
         /\ \A g \in Loads(f) : \A n : [g EXCEPT !.offset = n].path = p
<1>1. \A x, y, z : /\ [f EXCEPT !.loaded = x].path = p
                   /\ [f EXCEPT !.loaded = x, !.content = y].path = p
                   /\ [f EXCEPT !.loaded = x, !.content = y, !.asks = z].path = p
  BY DEF Record
<1>2. \A g \in Loads(f) : \E l2, k2, a2 : g = Record(p, l2, k2, o, s, a2)
  <2> SUFFICES ASSUME NEW g \in Loads(f)
               PROVE  \E l2, k2, a2 : g = Record(p, l2, k2, o, s, a2)
    OBVIOUS
  <2>1. \/ g = [f EXCEPT !.loaded = TRUE]
        \/ g = [f EXCEPT !.loaded = TRUE, !.content = <<Static>>]
        \/ \E b \in Answers : g = [f EXCEPT !.loaded = TRUE, !.content = b, !.asks = @ + 1]
    BY DEF Loads
  <2>2. CASE g = [f EXCEPT !.loaded = TRUE]
    <3>1. g = Record(p, TRUE, k, o, s, a)
      BY <2>2 DEF Record
    <3> QED
      BY <3>1
  <2>3. CASE g = [f EXCEPT !.loaded = TRUE, !.content = <<Static>>]
    <3>1. g = Record(p, TRUE, <<Static>>, o, s, a)
      BY <2>3 DEF Record
    <3> QED
      BY <3>1
  <2>4. ASSUME NEW b \in Answers, g = [f EXCEPT !.loaded = TRUE, !.content = b, !.asks = @ + 1]
        PROVE  \E l2, k2, a2 : g = Record(p, l2, k2, o, s, a2)
    <3>1. g = Record(p, TRUE, b, o, s, a + 1)
      BY <2>4 DEF Record
    <3> QED
      BY <3>1
  <2> QED
    BY <2>1, <2>2, <2>3, <2>4
<1>3. ASSUME NEW g \in Loads(f)
      PROVE  g.path = p /\ Advance(g).path = p /\ \A n : [g EXCEPT !.offset = n].path = p
  <2>1. PICK l2, k2, a2 : g = Record(p, l2, k2, o, s, a2)
    BY <1>2
  <2>2. \A x, y : [g EXCEPT !.seen = x, !.offset = y].path = p
    BY <2>1 DEF Record
  <2>3. g.path = p /\ \A n : [g EXCEPT !.offset = n].path = p
    BY <2>1 DEF Record
  <2>4. Advance(g).path = p
    BY <2>1 DEF Advance, Record
  <2> QED
    BY <2>3, <2>4
<1> QED
  BY <1>3

LEMMA ReachableStep == Opened /\ Reachable /\ [Next]_vars => Reachable'
<1> SUFFICES ASSUME Opened, Reachable, [Next]_vars PROVE Reachable'
  OBVIOUS
<1>1. DOMAIN tree \subseteq DOMAIN tree'
  BY DEF Next, Mounted, MountNext, Add, AddHelp, Change, Open, Read, Seek, Close, ReadAt,
    Tooled, Command, vars, treeVars, Merged
<1>2. \A c \in Clients : \E p, l, k, o, s, a : file[c] = Record(p, l, k, o, s, a)
  BY DEF Opened, Steady, Idle
<1>3. ASSUME NEW c \in Clients, NEW f, file' = [file EXCEPT ![c] = f],
             f # Closed => f.path \in DOMAIN tree
      PROVE  Reachable'
  <2>1. \A d \in Clients : file'[d] = IF d = c THEN f ELSE file[d]
    BY <1>3 DEF Opened
  <2> QED
    BY <1>1, <1>3, <2>1 DEF Reachable, IsOpen
<1>4. ASSUME NEW c \in Clients, NEW p \in DOMAIN tree, Open(c, p) PROVE Reachable'
  <2>1. Fresh(p).path = p
    BY DEF Fresh, Closed
  <2> QED
    BY <1>3, <1>4, <2>1 DEF Open
<1>5. ASSUME NEW c \in Clients, Read(c) \/ Seek(c) PROVE Reachable'
  <2>1. file[c].path \in DOMAIN tree
    BY <1>5 DEF Read, Seek, Reachable
  <2>2. PICK p, l, k, o, s, a : file[c] = Record(p, l, k, o, s, a)
    BY <1>2
  <2>3. p \in DOMAIN tree
    BY <2>1, <2>2 DEF Record
  <2>4. PICK f \in Loads(file[c]) :
          \/ file' = [file EXCEPT ![c] = Advance(f)]
          \/ \E n : file' = [file EXCEPT ![c] = [f EXCEPT !.offset = n]]
    BY <1>5 DEF Read, Seek
  <2>5. Advance(f).path = p /\ \A n : [f EXCEPT !.offset = n].path = p
    BY <2>2, SamePath
  <2> QED
    BY <1>3, <2>3, <2>4, <2>5
<1>6. ASSUME NEW c \in Clients, NEW o \in 0..1, ReadAt(c, o) PROVE Reachable'
  <2>1. file[c].path \in DOMAIN tree
    BY <1>6 DEF ReadAt, Reachable
  <2>2. PICK q : q = file[c].path
    OBVIOUS
  <2>3. Fresh(q) = Record(q, FALSE, << >>, 0, {}, 0)
    BY FreshRecord
  <2>4. PICK f \in Loads(Fresh(q)) :
          \E n, s : file' = [file EXCEPT ![c] = [Closed EXCEPT !.path = f.path, !.offset = n, !.seen = s]]
    BY <1>6, <2>2 DEF ReadAt
  <2>5. f.path = q
    BY <2>3, SamePath
  <2>6. \A n, s : [Closed EXCEPT !.path = q, !.offset = n, !.seen = s].path = q
    BY DEF Closed
  <2> QED
    BY <1>3, <2>1, <2>2, <2>4, <2>5, <2>6
<1>7. ASSUME NEW c \in Clients, Close(c) PROVE Reachable'
  BY <1>3, <1>7 DEF Close
<1>8. ASSUME UNCHANGED file PROVE Reachable'
  BY <1>1, <1>8 DEF Reachable, IsOpen
<1> QED
  BY <1>4, <1>5, <1>6, <1>7, <1>8 DEF Next, Mounted, MountNext, Add, AddHelp, Change, Tooled,
    Command, vars

Settled == rev \in 1..MaxRev /\ grouping \in Groupings \cup {"path"}

LEMMA SettledStep == Settled /\ [Next]_vars => Settled'
<1> SUFFICES ASSUME Settled, [Next]_vars PROVE Settled'
  OBVIOUS
<1>1. MaxRev \in Nat
  BY MountAssumption
<1>2. rev' = rev \/ (rev < MaxRev /\ rev' = rev + 1)
  BY DEF Next, Mounted, MountNext, Add, AddHelp, Change, Open, Read, Seek, Close, ReadAt,
    Tooled, Command, vars
<1>3. grouping' = grouping
  BY DEF Next, Mounted, MountNext, Add, AddHelp, Change, Open, Read, Seek, Close, ReadAt,
    Tooled, Command, vars, treeVars
<1> QED
  BY <1>1, <1>2, <1>3 DEF Settled

\* The tree of MountTypeOK: a node's parent is the last directory above it.
LEMMA TreeTypes ==
  ASSUME TreeInv, NEW p \in DOMAIN tree
  PROVE  tree[p] \in -1..Len(document) /\ (p # << >> => IsDirectory(Parent(p)))
<1>1. Node(p) /\ Len(document) \in Nat /\ added \in 0..Len(document)
  BY DocumentOperations DEF TreeInv
<1>2. tree[p] \in {-1, 0} \/ tree[p] \in 1..added
  BY <1>1 DEF Node, OfOperation, OfHelp, Directory, Help
<1>3. ASSUME p # << >> PROVE IsDirectory(Parent(p))
  <2>1. p \in Seq(Labels \cup FileNames)
    BY NodePath
  <2>2. Len(p) \in Nat \ {0}
    BY <1>3, <2>1, EmptySeq
  <2>3. Len(p) - 1 \in 0..(Len(p) - 1)
    BY <2>2
  <2> QED
    BY <1>1, <2>3 DEF Node, Rooted, Parent
<1> QED
  BY <1>1, <1>2, <1>3


LEMMA ToolsTyped == LookupTypeOK /\ ToolsTypeOK /\ [Next]_vars => ToolsTypeOK'
<1> SUFFICES ASSUME LookupTypeOK, ToolsTypeOK, [Next]_vars PROVE ToolsTypeOK'
  OBVIOUS
<1>1. Len(document) \in Nat
  BY DocumentOperations DEF LookupTypeOK
<1>2. ASSUME UNCHANGED <<document, toolVars>> PROVE ToolsTypeOK'
  BY <1>2 DEF toolVars, ToolsTypeOK
<1>3. ASSUME Register PROVE ToolsTypeOK'
  <2>1. registered' = registered + 1 /\ registered' \in 0..Len(document)
        /\ UNCHANGED <<document, call>>
    BY <1>1, <1>3 DEF Register, ToolsTypeOK
  <2>2. \A n \in DOMAIN tools' : tools'[n] = registered' \/ (n \in DOMAIN tools /\ tools'[n] = tools[n])
    BY <1>3, <2>1 DEF Register
  <2>3. \A n \in DOMAIN tools' : tools'[n] \in 1..registered'
    BY <1>1, <2>1, <2>2 DEF ToolsTypeOK
  <2> QED
    BY <2>1, <2>3 DEF ToolsTypeOK
<1>4. ASSUME NEW n \in DOMAIN tools, NEW args, CallTool(n, args) PROVE ToolsTypeOK'
  <2>1. call'.op = tools[n] /\ UNCHANGED <<document, registered, tools>>
    BY <1>4 DEF CallTool
  <2>2. tools[n] \in 0..Len(document)
    BY <1>1 DEF ToolsTypeOK
  <2> QED
    BY <2>1, <2>2 DEF ToolsTypeOK
<1>5. ASSUME Mounted PROVE UNCHANGED <<document, toolVars>>
  BY <1>5, ServerAlone DEF Mounted, lookupVars
<1>6. ASSUME Command PROVE UNCHANGED <<document, toolVars>>
  BY <1>6 DEF Command, LookupNext, Ask, Consider, Send, Finish
<1>7. ASSUME UNCHANGED vars PROVE UNCHANGED <<document, toolVars>>
  BY <1>7 DEF vars
<1> QED
  BY <1>2, <1>3, <1>4, <1>5, <1>6, <1>7 DEF Next, Tooled, ToolsNext

\* Types of the three parts of a server and of the command beside it, for any
\* documents; every node of the tree hangs below a directory (builder.go:111),
\* a client has open only what is in the tree, and an offset of WebDAV is at
\* most one past the end of the body.
THEOREM SurfaceTyping == Spec => []TypeOK
<1>1. TreeInv /\ Opened /\ Reachable /\ Settled => MountTypeOK
  BY FileTypes, TreeTypes DEF MountTypeOK, TreeInv, Settled, Reachable
<1>2. Init => Settled /\ Reachable /\ ToolsTypeOK
  <2> SUFFICES ASSUME Init PROVE Settled /\ Reachable /\ ToolsTypeOK
    OBVIOUS
  <2>1. Len(document) \in Nat /\ MaxRev \in Nat \ {0}
    BY DocumentOperations, MountAssumption DEF Init, LookupInit
  <2>2. Settled
    BY <2>1 DEF Init, MountInit, Settled
  <2>3. NoCall.op = 0
    BY DEF NoCall
  <2>4. ToolsTypeOK
    BY <2>1, <2>3 DEF Init, ToolsInit, ToolsTypeOK
  <2>5. Reachable
    BY DEF Init, MountInit, Reachable, IsOpen
  <2> QED
    BY <2>2, <2>4, <2>5
<1> QED
  BY <1>1, <1>2, SettledStep, ToolsTyped, TreeInit, TreeStep, OpenedInit, OpenedStep,
     ReachableStep, CommandAlone, Typing, PTL DEF Spec, Init, TypeOK

-----------------------------------------------------------------------------
(* One tool, one URL *)

\* Operations have ids: the parser makes one up where the document has none.
Named == \A o \in Operation : o.id # ""

\* The last of the first k operations that has the name n is the i-th.
Latest(n, i, k) == document[i].id = n /\ \A j \in (i + 1)..k : document[j].id # n

\* A tool is that of the last operation of its name, and so is what a call sent.
Handlers ==
  /\ \A n \in DOMAIN tools :
       tools[n] \in 1..Len(document) /\ Latest(n, tools[n], registered)
  /\ call # NoCall =>
       /\ call.op \in 1..Len(document) /\ Latest(call.tool, call.op, Len(document))
       /\ call.url = Resolve(document[call.op], Declared(document[call.op], call.arguments))

\* The URL of the command is that of the best operation.
Sent ==
  search = "sent" => best # 0 /\ sent = Resolve(document[best], params)

LEMMA HandlersStep ==
  LookupTypeOK /\ registered \in Nat /\ Handlers /\ [Next]_vars
    => registered' \in Nat /\ Handlers'
<1> SUFFICES ASSUME LookupTypeOK, registered \in Nat, Handlers, [Next]_vars
             PROVE  registered' \in Nat /\ Handlers'
  OBVIOUS
<1>1. ASSUME UNCHANGED <<document, tools, call, registered>>
      PROVE  registered' \in Nat /\ Handlers'
  BY <1>1 DEF Handlers, Latest, Resolve, Declared
<1>2. ASSUME Register PROVE registered' \in Nat /\ Handlers'
  <2>1. PICK id, i : id = document[registered + 1].id /\ i = registered + 1
    OBVIOUS
  <2>2. /\ i \in 1..Len(document) /\ document[i].id = id /\ registered' = i
        /\ UNCHANGED <<document, call>>
    BY <1>2, <2>1, DocumentOperations DEF Register, LookupTypeOK
  <2>3. tools' = [n \in {id} \cup DOMAIN tools |-> IF n = id THEN i ELSE tools[n]]
    BY <1>2, <2>1 DEF Register
  <2>4. Latest(id, i, i)
    BY <2>2 DEF Latest
  <2>5. ASSUME NEW n \in DOMAIN tools, n # id
        PROVE  tools[n] \in 1..Len(document) /\ Latest(n, tools[n], i)
    <3>1. tools[n] \in 1..Len(document) /\ Latest(n, tools[n], registered)
      BY DEF Handlers
    <3>2. \A j \in (tools[n] + 1)..i : j \in (tools[n] + 1)..registered \/ j = i
      BY <2>1, <3>1
    <3> QED
      BY <2>2, <2>5, <3>1, <3>2 DEF Latest
  <2>6. \A n \in DOMAIN tools' :
           /\ tools'[n] \in 1..Len(document) /\ document[tools'[n]].id = n
           /\ \A j \in (tools'[n] + 1)..i : document[j].id # n
    BY <2>2, <2>3, <2>4, <2>5 DEF Latest
  <2>7. (\A n \in DOMAIN tools :
           tools[n] \in 1..Len(document) /\ Latest(n, tools[n], registered))'
    BY <2>2, <2>6 DEF Latest
  <2>8. (call # NoCall =>
           /\ call.op \in 1..Len(document) /\ Latest(call.tool, call.op, Len(document))
           /\ call.url = Resolve(document[call.op], Declared(document[call.op], call.arguments)))'
    BY <2>2 DEF Handlers, Latest, Resolve, Declared
  <2> QED
    BY <2>2, <2>7, <2>8, DocumentOperations DEF Handlers, LookupTypeOK
<1>3. ASSUME NEW n \in DOMAIN tools, NEW args, CallTool(n, args)
      PROVE  registered' \in Nat /\ Handlers'
  <2>1. PICK o, i : i = tools[n] /\ o = document[i]
    OBVIOUS
  <2>2. call' = [tool |-> n, arguments |-> args, op |-> i, url |-> Resolve(o, Declared(o, args))]
        /\ UNCHANGED <<document, tools, registered>> /\ registered = Len(document)
    BY <1>3, <2>1 DEF CallTool
  <2>3. i \in 1..Len(document) /\ Latest(n, i, Len(document))
    BY <2>1, <2>2 DEF Handlers
  <2>4. /\ call'.op \in 1..Len(document') /\ Latest(call'.tool, call'.op, Len(document'))
        /\ call'.url = Resolve(document'[call'.op],
                                Declared(document'[call'.op], call'.arguments))
    BY <2>1, <2>2, <2>3
  <2> QED
    BY <2>2, <2>4 DEF Handlers, Latest, Resolve, Declared
<1>4. ASSUME Mounted PROVE registered' \in Nat /\ Handlers'
  BY <1>1, <1>4, ServerAlone DEF Mounted, lookupVars, toolVars
<1>5. ASSUME Command PROVE registered' \in Nat /\ Handlers'
  BY <1>1, <1>5 DEF Command, LookupNext, Ask, Consider, Send, Finish, toolVars
<1>6. ASSUME UNCHANGED vars PROVE registered' \in Nat /\ Handlers'
  BY <1>1, <1>6 DEF vars, toolVars
<1> QED
  BY <1>2, <1>3, <1>4, <1>5, <1>6 DEF Next, Tooled, ToolsNext

LEMMA SentStep == Sent /\ [LookupNext]_lookupVars => Sent'
<1> SUFFICES ASSUME Sent, [LookupNext]_lookupVars PROVE Sent'
  OBVIOUS
<1>1. ASSUME Send PROVE Sent'
  BY <1>1 DEF Send, Sent, Resolve
<1>2. ASSUME UNCHANGED lookupVars PROVE Sent'
  BY <1>2 DEF lookupVars, searchVars, Sent, Resolve
<1> QED
  BY <1>1, <1>2 DEF LookupNext, Ask, Consider, Finish, Sent

\* With the same values for the templates that the operation declares, a tool
\* resolves as the command does, and leaves the other templates unbound.
LEMMA SameUrl ==
  ASSUME NEW o \in Operation, NEW bound, NEW args,
         DOMAIN bound = TemplatesOf(o),
         \A t \in DOMAIN bound \cap o.declares :
           t \in DOMAIN args /\ Printed[args[t]] = bound[t]
  PROVE  Resolve(o, Declared(o, args)) =
           [j \in 1..Len(o.path) |->
              IF o.path[j] \in Undeclared(o)
                THEN [segment |-> o.path[j], escaped |-> FALSE]
                ELSE Resolve(o, bound)[j]]
<1> DEFINE D == Declared(o, args)
<1>1. o.declares \subseteq Templates
  BY OperationsAssumption
<1>2. DOMAIN D = DOMAIN args \cap o.declares /\ \A t \in DOMAIN D : D[t] = Printed[args[t]]
  BY DEF Declared
<1>3. \A t : t \in DOMAIN bound => (t \in DOMAIN D <=> t \notin Undeclared(o))
  BY <1>2 DEF Undeclared
<1>4. \A t \in DOMAIN bound \cap DOMAIN D : D[t] = bound[t]
  BY <1>2
<1>5. ASSUME NEW j \in 1..Len(o.path)
      PROVE  IF o.path[j] \in DOMAIN D
               THEN o.path[j] \in DOMAIN bound /\ o.path[j] \notin Undeclared(o)
               ELSE o.path[j] \in Undeclared(o) \/ o.path[j] \notin DOMAIN bound
  <2>1. o.path[j] \in DOMAIN bound <=> o.path[j] \in Templates
    BY DEF TemplatesOf
  <2> QED
    BY <1>1, <1>2, <1>3, <2>1
<1> HIDE DEF D
<1>6. Resolve(o, D) =
        [j \in 1..Len(o.path) |->
           IF o.path[j] \in Undeclared(o)
             THEN [segment |-> o.path[j], escaped |-> FALSE]
             ELSE Resolve(o, bound)[j]]
  BY <1>4, <1>5 DEF Resolve
<1> QED
  BY <1>6 DEF D

\* A tool called with values that print as those the command read off a concrete
\* path sends the URL the command sends, the templates that only the whole path
\* declares apart, unless a later operation took its name (mcp.go:121, 129,
\* call.go:66): for any documents whose operations have ids, as the parser
\* leaves them.
THEOREM OneUrl == Named => (Spec => []ToolAgreesWithCall)
<1> SUFFICES ASSUME Named PROVE Spec => []ToolAgreesWithCall
  OBVIOUS
<1> DEFINE Inv == SearchInv /\ Bound /\ Sent /\ registered \in Nat /\ Handlers
<1>1. Init => Inv
  BY SearchInit DEF Init, LookupInit, ToolsInit, Bound, Sent, Handlers
<1>2. Inv /\ [LookupNext]_lookupVars /\ [Next]_vars => Inv'
  BY SearchStep, BoundStep, SentStep, HandlersStep DEF SearchInv
<1>3. Inv => ToolAgreesWithCall
  <2> SUFFICES ASSUME Inv, search = "sent", call.tool = document[best].id,
                      \A j \in (best + 1)..Len(document) : document[j].id # document[best].id,
                      \A t \in DOMAIN params \cap document[best].declares :
                        t \in DOMAIN call.arguments /\ Printed[call.arguments[t]] = params[t]
               PROVE  LET o == document[best]
                      IN  call.url =
                            [j \in 1..Len(o.path) |->
                               IF o.path[j] \in Undeclared(o)
                                 THEN [segment |-> o.path[j], escaped |-> FALSE] ELSE sent[j]]
    BY DEF ToolAgreesWithCall
  <2>1. best # 0 /\ best \in 1..Len(document) /\ sent = Resolve(document[best], params)
    BY DocumentOperations DEF SearchInv, LookupTypeOK, Sent
  <2>2. PICK o \in Operation : o = document[best] /\ DOMAIN params = TemplatesOf(o)
    BY <2>1 DEF Bound, Bind
  <2>3. call # NoCall
    <3>1. o.id # "" /\ call.tool = o.id
      BY <2>2 DEF Named
    <3>2. NoCall.tool = ""
      BY DEF NoCall
    <3>. QED
      BY <3>1, <3>2
  <2>4. call.op = best
    <3>1. /\ call.op \in 1..Len(document) /\ document[call.op].id = document[best].id
          /\ \A j \in (call.op + 1)..Len(document) : document[j].id # document[best].id
      BY <2>3 DEF Handlers, Latest
    <3>2. Len(document) \in Nat
      BY DocumentOperations DEF SearchInv, LookupTypeOK
    <3>3. ~(call.op < best) /\ ~(best < call.op)
      BY <2>1, <3>1, <3>2
    <3> QED
      BY <2>1, <3>1, <3>3
  <2>5. call.url = Resolve(o, Declared(o, call.arguments))
    BY <2>2, <2>3, <2>4 DEF Handlers
  <2>6. Resolve(o, Declared(o, call.arguments)) =
          [j \in 1..Len(o.path) |->
             IF o.path[j] \in Undeclared(o)
               THEN [segment |-> o.path[j], escaped |-> FALSE]
               ELSE Resolve(o, params)[j]]
    <3>1. PICK bound, args : bound = params /\ args = call.arguments
      OBVIOUS
    <3>2. /\ DOMAIN bound = TemplatesOf(o)
          /\ \A t \in DOMAIN bound \cap o.declares :
               t \in DOMAIN args /\ Printed[args[t]] = bound[t]
      BY <2>2, <3>1
    <3>3. Resolve(o, Declared(o, args)) =
            [j \in 1..Len(o.path) |->
               IF o.path[j] \in Undeclared(o)
                 THEN [segment |-> o.path[j], escaped |-> FALSE]
                 ELSE Resolve(o, bound)[j]]
      BY <3>2, SameUrl
    <3> QED
      BY <3>1, <3>3
  <2> QED
    BY <2>1, <2>2, <2>5, <2>6
<1>. HIDE DEF Inv
<1> QED
  BY <1>1, <1>2, <1>3, CommandAlone, PTL DEF Spec, LookupSpec

-----------------------------------------------------------------------------
(* The tree and the command *)

\* No path has an empty segment but the root, whose only segment it is.
Dense == \A o \in Operation : o.path = <<"">> \/ (o.path # << >> /\ Full(o.path))

\* Then paths with the same directory are the same.
LEMMA DensePaths ==
  ASSUME Dense, NEW o \in Operation, NEW e \in Operation, Split[o.path] = Split[e.path]
  PROVE  o.path = e.path
<1>1. o.path \in Seq(Segments) /\ e.path \in Seq(Segments)
  BY OperationsAssumption
<1>2. ASSUME <<"">> \in Seq(Segments) PROVE Split[<<"">>] = << >>
  <2>1. Head(<<"">>) = "" /\ Tail(<<"">>) = << >> /\ <<"">> # << >> /\ << >> \in Seq(Segments)
    OBVIOUS
  <2>2. Split[<< >>] = << >>
    BY <2>1, SplitEquation DEF Round
  <2>3. Split[<<"">>] = << >> \o Split[<< >>]
    BY <1>2, <2>1, SplitEquation DEF Round
  <2>4. << >> \o << >> = << >>
    BY <2>1, ConcatEmptySeq
  <2> QED
    BY <2>2, <2>3, <2>4
<1>3. \A a \in {o, e} : Full(a.path) => Split[a.path] = a.path
  BY <1>1, SplitWhole
<1> QED
  BY <1>1, <1>2, <1>3 DEF Dense

\* A request that an operation without templates fits has its path.
LEMMA LiteralPath ==
  ASSUME NEW o \in Operation, NEW q \in Requests, Fits(o, q), TemplatesOf(o) = {}
  PROVE  o.path = q.path /\ Literals(o) = Len(o.path)
<1>1. o.path \in Seq(Segments) /\ q.path \in Seq(Segments)
  BY OperationsAssumption, LookupAssumption
<1>2. Len(o.path) \in Nat /\ Len(o.path) = Len(q.path)
  BY <1>1, LenProperties DEF Fits
<1>3. \A j \in 1..Len(o.path) : o.path[j] \notin Templates
  BY DEF TemplatesOf
<1>4. \A j \in 1..Len(o.path) : o.path[j] = q.path[j]
  BY <1>2, <1>3 DEF Fits
<1>5. {j \in 1..Len(o.path) : o.path[j] \notin Templates} = 1..Len(o.path)
  BY <1>3
<1>6. Cardinality(1..Len(o.path)) = Len(o.path)
  BY <1>2, FS_Interval
<1> QED
  BY <1>1, <1>2, <1>4, <1>5, <1>6, SeqEqual DEF Literals

\* What is sent is chosen from all the operations.
Swept == search = "sent" => at > Len(document)

\* In a tree grouped by path, the file of a path and the command with that path,
\* when it finds an operation without templates, reach one operation at one URL
\* (builder.go:105, find.go:59), for any documents whose paths have no empty
\* segments.
THEOREM OneOperation == Dense => (Spec => []MountAgreesWithCall)
<1> SUFFICES ASSUME Dense PROVE Spec => []MountAgreesWithCall
  OBVIOUS
<1> DEFINE Inv == TreeInv /\ SearchInv /\ Bound /\ Sent /\ Swept
<1>1. Inv => MountAgreesWithCall
  <2> SUFFICES ASSUME Inv, stage = "serving", grouping = "path", search = "sent",
                      asked.method = "GET", params = << >>
               PROVE  LET p == Append(Split[asked.path], ".data")
                      IN  /\ Resolves(p)
                          /\ tree[p] = best
                          /\ Resolve(document[tree[p]], << >>) = sent
    BY DEF MountAgreesWithCall
  <2>1. /\ best \in 1..Len(document) /\ best # 0 /\ sent = Resolve(document[best], params)
        /\ asked \in Requests /\ Len(document) \in Nat
    BY DocumentOperations DEF SearchInv, LookupTypeOK, Sent
  <2>2. PICK o \in Operation : o = document[best]
    BY <2>1, DocumentOperations DEF TreeInv
  <2>3. Fits(o, asked) /\ TemplatesOf(o) = {}
    BY <2>1, <2>2 DEF Bound, Bind
  <2>4. o.path = asked.path /\ o.method = "GET"
    BY <2>1, <2>3, LiteralPath DEF Fits
  <2> DEFINE p == Append(Split[asked.path], ".data")
  <2>5. p = Append(Home(o), ".data") /\ ".data" \in Names(o) /\ p \in Files(o)
    BY <2>4 DEF Home, Names, Files
  <2>6. p \in DOMAIN tree /\ tree[p] \in 1..best
    BY <2>1, <2>2, <2>5, DocumentOperations DEF TreeInv, Held
  <2>7. ASSUME tree[p] < best PROVE FALSE
    <3>1. PICK j : j = tree[p] /\ j \in 1..Len(document) /\ j < best
      BY <2>1, <2>6, <2>7
    <3>2. PICK e \in Operation : e = document[j]
      BY <3>1, DocumentOperations DEF TreeInv
    <3>3. Home(e) \in Seq(Labels) /\ Home(o) \in Seq(Labels) /\ ".data" \in FileNames
      BY <2>1, <2>2, <3>1, <3>2, Filed DEF FileNames
    <3>4. p \in Files(e)
      <4>1. Node(p) /\ p \notin Seq(Labels)
        BY <2>1, <2>2, <2>5, <2>6, Filed DEF TreeInv
      <4> QED
        BY <3>1, <3>2, <4>1 DEF Node, OfHelp, Help, OfOperation
    <3>5. PICK n \in Names(e) : p = Append(Home(e), n)
      BY <3>4 DEF Files
    <3>6. Home(e) = Home(o) /\ n = ".data"
      BY <2>5, <3>3, <3>5, NamesKnown, FileOrDirectory
    <3>7. e.method = "GET" /\ e.path = o.path
      BY <3>5, <3>6, DensePaths DEF Home, Names
    <3>8. Fits(e, asked) /\ Literals(e) = Literals(o)
      BY <2>3, <2>4, <3>7 DEF Fits, Literals
    <3>9. j \in Seen
      <4>1. at \in Nat /\ at > Len(document)
        BY <2>1 DEF Swept, SearchInv, LookupTypeOK
      <4>2. j \in 1..(at - 1)
        BY <2>1, <3>1, <4>1
      <4> QED
        BY <3>2, <3>8, <4>2 DEF Seen
    <3>10. Literals(document[j]) < Literals(document[best]) /\ Literals(o) \in Nat
      BY <2>1, <3>1, <3>9, LiteralsNat DEF SearchInv, BestSoFar
    <3> QED
      BY <2>2, <3>2, <3>8, <3>10
  <2>8. Resolves(p) /\ tree[p] = best
    BY <2>1, <2>6, <2>7, Walk
  <2> QED
    BY <2>1, <2>8
<1>2. Init => Inv
  BY TreeInit, SearchInit DEF Init, LookupInit, Bound, Sent, Swept
<1>3. SearchInv /\ Swept /\ [LookupNext]_lookupVars => Swept'
  <2> SUFFICES ASSUME SearchInv, Swept, [LookupNext]_lookupVars PROVE Swept'
    OBVIOUS
  <2>1. ASSUME Send PROVE Swept'
    BY <2>1 DEF Send, Swept
  <2>2. ASSUME UNCHANGED lookupVars PROVE Swept'
    BY <2>2 DEF lookupVars, searchVars, Swept
  <2> QED
    BY <2>1, <2>2 DEF LookupNext, Ask, Consider, Finish, Swept
<1>4. Inv /\ [LookupNext]_lookupVars /\ [Next]_vars => Inv'
  BY <1>3, SearchStep, BoundStep, SentStep, TreeStep
<1>. HIDE DEF Inv
<1> QED
  BY <1>1, <1>2, <1>4, CommandAlone, PTL DEF Spec, LookupSpec
=============================================================================

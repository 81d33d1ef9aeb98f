--------------------------- MODULE ExecutorProofs ---------------------------
(***************************************************************************)
(* Theorems about Executor, for any URLs, any number of clients, any time  *)
(* to live and any timeout.                                                *)
(***************************************************************************)
EXTENDS Executor, Induction

\* What is in a sequence.
LEMMA Element ==
  ASSUME NEW S, NEW s \in Seq(S), NEW i \in 1..Len(s)
  PROVE  s[i] \in S
OBVIOUS

\* What TypeOK needs to be inductive: a call has its URL until it returns, a
\* response holds a change that has happened, and only a lookup has an entry.
Shape ==
  \A p \in Clients :
    /\ pc[p] # "idle" => url[p] \in Urls
    /\ pc[p] = "served" => reply[p] \in 0..Len(log)
    /\ reply[p] <= Len(log)
    /\ pc[p] \in {"idle", "asked", "looking", "hit", "writing"} => reply[p] = -1
    /\ pc[p] \notin Looking => saw[p] = None

TypeInv == TypeOK /\ Shape

LEMMA TypeInit == Init => TypeInv
BY ExecutorAssumption DEF Init, Cache!Init, TypeInv, TypeOK, Shape, Revs, Looking

\* The upstream's log grows by one change.
LEMMA ChangeType ==
  ASSUME TypeInv, NEW u \in Urls, Change(u)
  PROVE  /\ log' \in Seq([at : 0..MaxNow, urls : SUBSET Urls])
         /\ Len(log') = Len(log) + 1 /\ Len(log') <= MaxRev
         /\ version' \in [Urls -> 0..Len(log')]
<1>1. log \in Seq([at : 0..MaxNow, urls : SUBSET Urls]) /\ Len(log) \in Nat
  BY DEF TypeInv, TypeOK
<1>2. [at |-> now, urls |-> Affects[u]] \in [at : 0..MaxNow, urls : SUBSET Urls]
  BY ExecutorAssumption DEF TypeInv, TypeOK
<1>3. log' = Append(log, [at |-> now, urls |-> Affects[u]])
  BY DEF Change
<1>4. /\ log' \in Seq([at : 0..MaxNow, urls : SUBSET Urls])
      /\ Len(log') = Len(log) + 1
  BY <1>1, <1>2, <1>3
<1>5. Len(log') <= MaxRev
  BY <1>1, <1>4, ExecutorAssumption DEF Change
<1>6. version' \in [Urls -> 0..Len(log')]
  BY <1>1, <1>4 DEF Change, TypeInv, TypeOK
<1>. QED
  BY <1>4, <1>5, <1>6

\* Dropping entries leaves a cache of the same type.
LEMMA PurgeType ==
  ASSUME TypeInv, NEW K, Purge(K)
  PROVE  /\ latest' \in [Urls -> Cache!Entry \cup {None}]
         /\ UNCHANGED <<now, looking, saw>>
         /\ tainted' \in [Urls -> BOOLEAN]
         /\ raced' \in [Clients -> BOOLEAN]
<1>1. UNCHANGED <<now, looking, saw>>
  BY DEF Purge, Cache!Invalidate, cacheVars
<1>2. latest' \in [Urls -> Cache!Entry \cup {None}]
  BY DEF Purge, Cache!Invalidate, cacheVars, TypeInv, TypeOK
<1>3. tainted' \in [Urls -> BOOLEAN]
  BY DEF Purge
<1>4. raced' \in [Clients -> BOOLEAN]
  BY DEF Purge
<1>. QED
  BY <1>1, <1>2, <1>3, <1>4

LEMMA ReadLookType ==
  ASSUME TypeInv, NEW p \in Clients, NEW u \in Urls, ReadLook(p, u)
  PROVE  TypeInv'
<1>. USE DEF TypeInv, TypeOK, Shape, Looking, Reading, Writing, upstreamVars
<1>1. /\ now' = now /\ latest' = latest /\ looking' \in [Clients -> BOOLEAN]
      /\ saw' \in [Clients -> Cache!Entry \cup {None}]
      /\ \A q \in Clients \ {p} : saw'[q] = saw[q]
  <2>1. CASE CacheOn
    <3>1. PICK e \in {latest[u], None} :
            /\ saw' = [saw EXCEPT ![p] = e]
            /\ looking' = [looking EXCEPT ![p] = e # None]
            /\ UNCHANGED <<now, latest>>
      BY <2>1 DEF ReadLook, Cache!Look
    <3>2. e \in Cache!Entry \cup {None} /\ (e # None) \in BOOLEAN
      OBVIOUS
    <3>. QED
      BY <3>1, <3>2
  <2>2. CASE ~CacheOn
    BY <2>2 DEF ReadLook, cacheVars
  <2>. QED
    BY <2>1, <2>2
<1>2. CASE saw'[p] = None
  BY <1>1, <1>2 DEF ReadLook, Ask
<1>3. CASE saw'[p] # None
  BY <1>1, <1>3 DEF ReadLook
<1>. QED
  BY <1>2, <1>3

LEMMA ReadDecideType ==
  ASSUME TypeInv, NEW p \in Clients, ReadDecide(p)
  PROVE  TypeInv'
<1>. USE DEF TypeInv, TypeOK, Shape, Looking, Reading, Writing, upstreamVars, historyVars
<1>1. /\ now' = now /\ latest' = latest /\ looking' \in [Clients -> BOOLEAN]
      /\ saw' \in [Clients -> Cache!Entry \cup {None}]
      /\ \A q \in Clients \ {p} : saw'[q] = saw[q]
  BY DEF ReadDecide, Cache!Decide
<1>2. CASE saw'[p] = None
  BY <1>1, <1>2 DEF ReadDecide, Ask
<1>3. CASE saw'[p] # None
  BY <1>1, <1>3 DEF ReadDecide
<1>. QED
  BY <1>2, <1>3

LEMMA ReadReturnType ==
  ASSUME TypeInv, NEW p \in Clients, ReadReturn(p)
  PROVE  TypeInv'
<1>. USE DEF TypeInv, TypeOK, Shape, Looking, upstreamVars
<1>1. UNCHANGED <<now, looking, saw, log, version, acked>>
  BY DEF ReadReturn, Cache!Set, cacheVars
<1>2. /\ latest' \in [Urls -> Cache!Entry \cup {None}]
      /\ tainted' \in [Urls -> BOOLEAN]
  <2>1. CASE CacheOn
    <3>1. reply[p] \in Revs /\ now + TTL \in Nat
      BY ExecutorAssumption DEF ReadReturn, Revs
    <3>2. [body |-> reply[p], expiresAt |-> now + TTL] \in Cache!Entry
      BY <3>1 DEF Cache!Entry
    <3>. QED
      BY <2>1, <3>2 DEF ReadReturn, Cache!Set
  <2>2. CASE ~CacheOn
    BY <2>2 DEF ReadReturn, cacheVars
  <2>. QED
    BY <2>1, <2>2
<1>3. raced' \in [Clients -> BOOLEAN]
  BY DEF ReadReturn
<1>. QED
  BY <1>1, <1>2, <1>3, ExecutorAssumption DEF ReadReturn, Return

LEMMA TypeStep == TypeInv /\ [Next]_vars => TypeInv'
<1>. SUFFICES ASSUME TypeInv, [Next]_vars
              PROVE  TypeInv'
  OBVIOUS
<1>. USE DEF TypeInv, TypeOK, Shape, Looking, Reading, Writing,
     cacheVars, upstreamVars, callVars, historyVars
<1>1. ASSUME NEW p \in Clients, NEW u \in Urls, ReadLook(p, u)
      PROVE  TypeInv'
  BY <1>1, ReadLookType
<1>2. ASSUME NEW p \in Clients, NEW u \in Urls, WriteSend(p, u)
      PROVE  TypeInv'
  BY <1>2 DEF WriteSend
<1>3. ASSUME NEW p \in Clients, ReadDecide(p)
      PROVE  TypeInv'
  BY <1>3, ReadDecideType
<1>4. ASSUME NEW p \in Clients, ReadHit(p)
      PROVE  TypeInv'
  BY <1>4, ExecutorAssumption DEF ReadHit, Return, Cache!Leave
<1>5. ASSUME NEW p \in Clients, Serve(p)
      PROVE  TypeInv'
  <2>1. url[p] \in Urls /\ Len(log) \in Nat /\ Len(log) <= MaxRev
    BY <1>5 DEF Serve
  <2>2. version[url[p]] \in 0..Len(log) /\ version[url[p]] \in -1..MaxRev
    BY <2>1, ExecutorAssumption
  <2>. QED
    BY <1>5, <2>1, <2>2 DEF Serve
<1>6. ASSUME NEW p \in Clients, ReadReturn(p)
      PROVE  TypeInv'
  BY <1>6, ReadReturnType
<1>7. ASSUME NEW p \in Clients, ReadFail(p)
      PROVE  TypeInv'
  BY <1>7, ExecutorAssumption DEF ReadFail, Return
<1>8. ASSUME NEW p \in Clients, Answer(p)
      PROVE  TypeInv'
  <2>1. CASE Change(url[p]) /\ reply' = [reply EXCEPT ![p] = Len(log) + 1]
    <3>1. url[p] \in Urls /\ Len(log) \in Nat
      BY <1>8 DEF Answer
    <3>2. /\ log' \in Seq([at : 0..MaxNow, urls : SUBSET Urls])
          /\ Len(log') = Len(log) + 1 /\ Len(log') <= MaxRev
          /\ version' \in [Urls -> 0..Len(log')]
      BY <2>1, <3>1, ChangeType
    <3>3. Len(log) + 1 \in -1..MaxRev
      BY <3>1, <3>2, ExecutorAssumption
    <3>. QED
      BY <1>8, <2>1, <3>1, <3>2, <3>3 DEF Answer
  <2>2. CASE UNCHANGED <<upstreamVars, reply>>
    BY <1>8, <2>2 DEF Answer
  <2>. QED
    BY <1>8, <2>1, <2>2 DEF Answer
<1>9. ASSUME NEW p \in Clients, WritePurge(p)
      PROVE  TypeInv'
  BY <1>9, PurgeType DEF WritePurge
<1>10. ASSUME NEW p \in Clients, WriteReturn(p)
       PROVE  TypeInv'
  <2>1. acked' \in [Urls -> Revs]
    BY <1>10 DEF WriteReturn, Acknowledge, Revs
  <2>. QED
    <3>1. /\ latest' \in [Urls -> Cache!Entry \cup {None}]
          /\ UNCHANGED <<now, looking, saw>>
          /\ tainted' \in [Urls -> BOOLEAN] /\ raced' \in [Clients -> BOOLEAN]
      BY <1>10, PurgeType DEF WriteReturn
    <3>2. pc[p] = "purged" /\ Return(p) /\ UNCHANGED <<log, version>>
      BY <1>10 DEF WriteReturn
    <3>3. TypeOK'
      <4>1. MaxRev \in Nat /\ MaxNow \in Nat
        BY ExecutorAssumption
      <4>2. /\ reply' \in [Clients -> -1..MaxRev] /\ sentAt' \in [Clients -> 0..MaxNow]
            /\ url' \in [Clients -> Urls \cup {None}]
        BY <3>2, <4>1 DEF Return
      <4>. QED
        BY <2>1, <3>1, <3>2, <4>2 DEF Return
    <3>4. Shape'
      BY <3>1, <3>2 DEF Return
    <3>. QED
      BY <3>3, <3>4
<1>11. ASSUME NEW p \in Clients, WriteFail(p)
       PROVE  TypeInv'
  BY <1>11, ExecutorAssumption DEF WriteFail, Return
<1>12. ASSUME NEW u \in Urls, Elsewhere(u)
       PROVE  TypeInv'
  <2>1. Len(log) \in Nat /\ Change(u)
    BY <1>12 DEF Elsewhere
  <2>2. /\ log' \in Seq([at : 0..MaxNow, urls : SUBSET Urls])
        /\ Len(log') = Len(log) + 1 /\ Len(log') <= MaxRev
        /\ version' \in [Urls -> 0..Len(log')]
    BY <2>1, ChangeType
  <2>. QED
    BY <1>12, <2>1, <2>2 DEF Elsewhere
<1>13. ASSUME Tick
       PROVE  TypeInv'
  BY <1>13, ExecutorAssumption DEF Tick, Cache!Tick
<1>14. ASSUME UNCHANGED vars
       PROVE  TypeInv'
  BY <1>14 DEF vars
<1>. QED
  BY <1>1, <1>2, <1>3, <1>4, <1>5, <1>6, <1>7, <1>8, <1>9, <1>10, <1>11, <1>12,
    <1>13, <1>14 DEF Next, Urls

LEMMA TypeInvariant == Spec => []TypeInv
BY TypeInit, TypeStep, PTL DEF Spec

\* Every variable keeps its type.
THEOREM Typing == Spec => []TypeOK
<1>1. TypeInv => TypeOK
  BY DEF TypeInv
<1>. QED
  BY <1>1, TypeInvariant, PTL

-----------------------------------------------------------------------------
(* How stale a body may be.  A response in hand was sent for no longer than  *)
(* a timeout ago, and what it misses has happened since; an entry in use was *)
(* made of one.                                                              *)

Logged == \A r \in 1..Len(log) : log[r].at <= now

Recent ==
  \A u \in Urls : \A r \in (version[u] + 1)..Len(log) : u \notin log[r].urls

InTime ==
  \A p \in Clients : pc[p] \in Reading => sentAt[p] <= now /\ now <= sentAt[p] + Timeout

Late(p) ==
  \A r \in (reply[p] + 1)..Len(log) : url[p] \in log[r].urls => sentAt[p] <= log[r].at

Bounded(e, u) ==
  /\ e.expiresAt <= now + TTL
  /\ \A r \in (e.body + 1)..Len(log) :
       u \in log[r].urls => e.expiresAt <= log[r].at + TTL + Timeout

BoundInv ==
  /\ TypeInv
  /\ Logged /\ Recent /\ InTime
  /\ \A p \in Clients : pc[p] = "served" => Late(p)
  /\ \A u \in Urls : \A e \in InUse(u) : Bounded(e, u)

LEMMA BoundInit == Init => BoundInv
<1>. SUFFICES ASSUME Init
              PROVE  BoundInv
  OBVIOUS
<1>1. TypeInv
  BY TypeInit
<1>2. log = << >> /\ Len(log) = 0 /\ \A p \in Clients : pc[p] = "idle"
  BY DEF Init
<1>3. \A u \in Urls : InUse(u) = {}
  BY DEF Init, Cache!Init, InUse
<1>4. Logged /\ Recent /\ InTime
  BY <1>2 DEF Init, Logged, Recent, InTime, Reading
<1>. QED
  BY <1>1, <1>2, <1>3, <1>4 DEF BoundInv

\* The upstream stays as it is or changes once.
LEMMA LogSteps ==
  ASSUME TypeInv, [Next]_vars
  PROVE  \/ log' = log /\ version' = version
         \/ now' = now /\ \E u \in Urls : Change(u)
<1>. USE DEF upstreamVars, cacheVars
<1>1. ASSUME NEW p \in Clients, NEW u \in Urls, ReadLook(p, u) \/ WriteSend(p, u)
      PROVE  log' = log /\ version' = version
  BY <1>1 DEF ReadLook, WriteSend
<1>2. ASSUME NEW p \in Clients,
             \/ ReadDecide(p) \/ ReadHit(p) \/ Serve(p) \/ ReadReturn(p) \/ ReadFail(p)
             \/ WritePurge(p) \/ WriteReturn(p) \/ WriteFail(p)
      PROVE  log' = log /\ version' = version
  BY <1>2 DEF ReadDecide, ReadHit, Serve, ReadReturn, ReadFail, WritePurge, WriteReturn,
    WriteFail
<1>3. ASSUME NEW p \in Clients, Answer(p)
      PROVE  \/ log' = log /\ version' = version
             \/ now' = now /\ \E u \in Urls : Change(u)
  <2>1. url[p] \in Urls
    BY <1>3 DEF Answer, TypeInv, Shape
  <2>. QED
    BY <1>3, <2>1 DEF Answer
<1>4. ASSUME NEW u \in Urls, Elsewhere(u)
      PROVE  now' = now /\ Change(u)
  BY <1>4 DEF Elsewhere
<1>5. ASSUME Tick \/ UNCHANGED vars
      PROVE  log' = log /\ version' = version
  BY <1>5 DEF Tick, vars
<1>. QED
  BY <1>1, <1>2, <1>3, <1>4, <1>5 DEF Next, Urls

\* Time stands still or moves on, before the deadline of every request.
LEMMA TimeSteps ==
  ASSUME TypeInv, [Next]_vars
  PROVE  \/ now' = now
         \/ /\ now' = now + 1 /\ UNCHANGED <<upstreamVars, callVars, latest, saw>>
            /\ \A p \in Clients : pc[p] \in Reading => now < sentAt[p] + Timeout
<1>. USE DEF cacheVars
<1>1. ASSUME NEW p \in Clients, NEW u \in Urls, ReadLook(p, u) \/ WriteSend(p, u)
      PROVE  now' = now
  BY <1>1 DEF ReadLook, WriteSend, Cache!Look
<1>2. ASSUME NEW p \in Clients,
             \/ ReadDecide(p) \/ ReadHit(p) \/ Serve(p) \/ ReadReturn(p) \/ ReadFail(p)
             \/ Answer(p) \/ WritePurge(p) \/ WriteReturn(p) \/ WriteFail(p)
      PROVE  now' = now
  BY <1>2 DEF ReadDecide, ReadHit, Serve, ReadReturn, ReadFail, Answer, WritePurge,
    WriteReturn, WriteFail, Purge, Cache!Decide, Cache!Leave, Cache!Set, Cache!Invalidate
<1>3. ASSUME NEW u \in Urls, Elsewhere(u)
      PROVE  now' = now
  BY <1>3 DEF Elsewhere
<1>4. CASE Tick
  BY <1>4 DEF Tick, Cache!Tick, historyVars
<1>5. CASE UNCHANGED vars
  BY <1>5 DEF vars
<1>. QED
  BY <1>1, <1>2, <1>3, <1>4, <1>5 DEF Next, Urls

\* A client that reads has just asked, or goes on with its own call.
LEMMA ReaderSteps ==
  ASSUME TypeInv, [Next]_vars, NEW q \in Clients, pc'[q] \in Reading
  PROVE  \/ pc'[q] = "asked" /\ sentAt'[q] = now /\ now' = now
         \/ /\ pc[q] \in Reading /\ sentAt'[q] = sentAt[q] /\ url'[q] = url[q]
            /\ \/ pc'[q] = pc[q] /\ reply'[q] = reply[q]
               \/ /\ pc[q] = "asked" /\ pc'[q] = "served"
                  /\ reply'[q] = version[url[q]] /\ log' = log /\ version' = version
<1>. USE DEF TypeInv, TypeOK, Reading, Looking, Writing, callVars
<1>. DEFINE Asks == pc'[q] = "asked" /\ sentAt'[q] = now /\ now' = now
            Serves == /\ pc[q] = "asked" /\ pc'[q] = "served"
                      /\ reply'[q] = version[url[q]] /\ log' = log /\ version' = version
                      /\ sentAt'[q] = sentAt[q] /\ url'[q] = url[q]
            Stays == /\ pc[q] \in Reading /\ sentAt'[q] = sentAt[q] /\ url'[q] = url[q]
                     /\ pc'[q] = pc[q] /\ reply'[q] = reply[q]
<1>1. ASSUME NEW p \in Clients, NEW u \in Urls, ReadLook(p, u)
      PROVE  Asks \/ Stays
  <2>1. now' = now
    BY <1>1 DEF ReadLook, Cache!Look, cacheVars
  <2>2. CASE saw'[p] = None
    BY <1>1, <2>1, <2>2 DEF ReadLook, Ask
  <2>3. CASE saw'[p] # None
    BY <1>1, <2>3 DEF ReadLook
  <2>. QED
    BY <2>2, <2>3
<1>2. ASSUME NEW p \in Clients, NEW u \in Urls, WriteSend(p, u)
      PROVE  Stays
  BY <1>2 DEF WriteSend
<1>3. ASSUME NEW p \in Clients, ReadDecide(p)
      PROVE  Asks \/ Stays
  <2>1. now' = now
    BY <1>3 DEF ReadDecide, Cache!Decide
  <2>2. CASE saw'[p] = None
    BY <1>3, <2>1, <2>2 DEF ReadDecide, Ask
  <2>3. CASE saw'[p] # None
    BY <1>3, <2>3 DEF ReadDecide
  <2>. QED
    BY <2>2, <2>3
<1>4. ASSUME NEW p \in Clients, Serve(p)
      PROVE  Serves \/ Stays
  BY <1>4 DEF Serve, upstreamVars
<1>5. ASSUME NEW p \in Clients,
             \/ ReadHit(p) \/ ReadReturn(p) \/ ReadFail(p) \/ WriteReturn(p) \/ WriteFail(p)
      PROVE  Stays
  <2>1. Return(p)
    BY <1>5 DEF ReadHit, ReadReturn, ReadFail, WriteReturn, WriteFail
  <2>. QED
    BY <2>1 DEF Return
<1>6. ASSUME NEW p \in Clients, Answer(p) \/ WritePurge(p)
      PROVE  Stays
  BY <1>6 DEF Answer, WritePurge
<1>7. ASSUME \/ \E u \in Urls : Elsewhere(u)
             \/ Tick \/ UNCHANGED vars
      PROVE  Stays
  BY <1>7 DEF Elsewhere, Tick, vars
<1>. QED
  BY <1>1, <1>2, <1>3, <1>4, <1>5, <1>6, <1>7 DEF Next, Urls
\* A step other than the caching of a response puts no entry to use that was
\* not in use before.
LEMMA NarrowSteps ==
  ASSUME TypeInv, [Next]_vars, \A p \in Clients : ~ReadReturn(p), NEW u \in Urls
  PROVE  InUse(u)' \subseteq InUse(u)
<1>. USE DEF TypeInv, TypeOK, Looking, callVars, cacheVars
<1>. DEFINE Narrow == /\ latest'[u] \in {latest[u], None}
                      /\ \A q \in Clients : url'[q] = u =>
                           \/ saw'[q] \in {latest[u], None}
                           \/ url[q] = u /\ saw'[q] = saw[q]
<1>1. Narrow => InUse(u)' \subseteq InUse(u)
  BY DEF InUse
<1>2. ASSUME NEW p \in Clients, NEW v \in Urls, ReadLook(p, v)
      PROVE  Narrow
  <2>1. CASE CacheOn
    <3>1. PICK e \in {latest[v], None} : saw' = [saw EXCEPT ![p] = e] /\ latest' = latest
      BY <1>2, <2>1 DEF ReadLook, Cache!Look
    <3>. QED
      BY <1>2, <3>1 DEF ReadLook
  <2>2. CASE ~CacheOn
    <3>1. saw' = saw /\ latest' = latest /\ pc[p] = "idle" /\ saw[p] = None
      BY <1>2, <2>2 DEF ReadLook, Shape
    <3>. QED
      BY <1>2, <3>1 DEF ReadLook
  <2>. QED
    BY <2>1, <2>2
<1>3. ASSUME NEW p \in Clients, NEW v \in Urls, WriteSend(p, v)
      PROVE  Narrow
  <2>1. saw' = saw /\ latest' = latest /\ pc[p] = "idle" /\ saw[p] = None
    BY <1>3 DEF WriteSend, Shape
  <2>. QED
    BY <1>3, <2>1 DEF WriteSend
<1>4. ASSUME NEW p \in Clients, ReadDecide(p)
      PROVE  Narrow
  BY <1>4 DEF ReadDecide, Cache!Decide
<1>5. ASSUME NEW p \in Clients, ReadHit(p)
      PROVE  Narrow
  BY <1>5, ExecutorAssumption DEF ReadHit, Return, Cache!Leave
<1>6. ASSUME NEW p \in Clients, ReadFail(p) \/ WriteFail(p)
      PROVE  Narrow
  BY <1>6, ExecutorAssumption DEF ReadFail, WriteFail, Return
<1>7. ASSUME NEW p \in Clients, Serve(p) \/ Answer(p)
      PROVE  Narrow
  BY <1>7 DEF Serve, Answer
<1>8. ASSUME NEW K, Purge(K)
      PROVE  latest'[u] \in {latest[u], None} /\ saw' = saw
  BY <1>8 DEF Purge, Cache!Invalidate
<1>9. ASSUME NEW p \in Clients, WritePurge(p)
      PROVE  Narrow
  BY <1>8, <1>9 DEF WritePurge
<1>10. ASSUME NEW p \in Clients, WriteReturn(p)
       PROVE  Narrow
  <2>1. Return(p) /\ Purge(Around[url[p]])
    BY <1>10 DEF WriteReturn
  <2>2. \A q \in Clients : url'[q] = u => url[q] = u
    BY <2>1, ExecutorAssumption DEF Return
  <2>. QED
    BY <1>8, <2>1, <2>2
<1>11. ASSUME \/ \E v \in Urls : Elsewhere(v)
              \/ Tick \/ UNCHANGED vars
       PROVE  Narrow
  BY <1>11 DEF Elsewhere, Tick, Cache!Tick, vars
<1>. QED
  BY <1>1, <1>2, <1>3, <1>4, <1>5, <1>6, <1>7, <1>9, <1>10, <1>11 DEF Next, Urls

\* An entry in use stays within its bound.
LEMMA BoundedSteady ==
  ASSUME BoundInv, [Next]_vars, NEW u \in Urls, NEW e, e.expiresAt \in Nat, e.body \in Nat,
         Bounded(e, u)
  PROVE  Bounded(e, u)'
<1>1. now \in Nat /\ TTL \in Nat /\ Timeout \in Nat /\ log \in Seq([at : 0..MaxNow, urls : SUBSET Urls])
      /\ Len(log) \in Nat
  BY ExecutorAssumption DEF BoundInv, TypeInv, TypeOK
<1>2. now' \in Nat /\ now <= now'
  BY <1>1, TimeSteps DEF BoundInv
<1>3. CASE log' = log
  BY <1>1, <1>2, <1>3 DEF Bounded
<1>4. CASE now' = now /\ \E v \in Urls : Change(v)
  <2>1. PICK v \in Urls : Change(v)
    BY <1>4
  <2>2. /\ Len(log') = Len(log) + 1
        /\ \A r \in 1..Len(log) : log'[r] = log[r]
        /\ log'[Len(log) + 1].at = now
    BY <1>1, <2>1 DEF Change
  <2>3. ASSUME NEW r \in (e.body + 1)..Len(log'), u \in log'[r].urls
        PROVE  e.expiresAt <= log'[r].at + TTL + Timeout
    <3>1. CASE r = Len(log) + 1
      BY <1>1, <2>2, <3>1 DEF Bounded
    <3>2. CASE r # Len(log) + 1
      <4>1. r \in 1..Len(log) /\ r \in (e.body + 1)..Len(log)
        BY <1>1, <2>2, <3>2
      <4>. QED
        BY <2>2, <2>3, <4>1 DEF Bounded
    <3>. QED
      BY <3>1, <3>2
  <2>. QED
    BY <1>1, <1>4, <2>3 DEF Bounded
<1>. QED
  BY <1>3, <1>4, LogSteps DEF BoundInv

\* The log and the versions keep what they promise.
LEMMA LoggedStep ==
  ASSUME BoundInv, [Next]_vars
  PROVE  Logged' /\ Recent'
<1>1. now \in Nat /\ log \in Seq([at : 0..MaxNow, urls : SUBSET Urls])
      /\ Len(log) \in Nat /\ \A u \in Urls : version[u] \in 0..Len(log)
  BY ExecutorAssumption DEF BoundInv, TypeInv, TypeOK
<1>2. now' \in Nat /\ now <= now'
  BY <1>1, TimeSteps DEF BoundInv
<1>3. CASE log' = log /\ version' = version
  <2>1. \A r \in 1..Len(log) : log[r].at \in Nat
    <3>1. \A r \in 1..Len(log) : log[r] \in [at : 0..MaxNow, urls : SUBSET Urls]
      BY <1>1, Element
    <3>. QED
      BY <3>1, ExecutorAssumption
  <2>. QED
    BY <1>1, <1>2, <1>3, <2>1 DEF BoundInv, Logged, Recent
<1>4. CASE now' = now /\ \E v \in Urls : Change(v)
  <2>1. PICK v \in Urls : Change(v)
    BY <1>4
  <2>2. /\ Len(log') = Len(log) + 1
        /\ \A r \in 1..Len(log) : log'[r] = log[r]
        /\ log'[Len(log) + 1].at = now /\ log'[Len(log) + 1].urls = Affects[v]
        /\ version' = [u \in Urls |-> IF u \in Affects[v] THEN Len(log) + 1 ELSE version[u]]
    BY <1>1, <2>1 DEF Change
  <2>3. Logged'
    <3>1. ASSUME NEW r \in 1..Len(log')
          PROVE  log'[r].at <= now'
      <4>1. r \in 1..Len(log) \/ r = Len(log) + 1
        BY <1>1, <2>2
      <4>. QED
        BY <1>1, <1>4, <2>2, <4>1 DEF BoundInv, Logged
    <3>. QED
      BY <3>1 DEF Logged
  <2>4. ASSUME NEW u \in Urls, NEW r \in (version'[u] + 1)..Len(log')
        PROVE  u \notin log'[r].urls
    <3>1. CASE u \in Affects[v]
      BY <1>1, <2>2, <3>1
    <3>2. CASE u \notin Affects[v]
      <4>1. version'[u] = version[u] /\ version[u] \in 0..Len(log)
        BY <1>1, <2>2, <3>2
      <4>2. CASE r = Len(log) + 1
        BY <2>2, <3>2, <4>2
      <4>3. CASE r # Len(log) + 1
        <5>1. r \in 1..Len(log) /\ r \in (version[u] + 1)..Len(log)
          BY <1>1, <2>2, <4>1, <4>3
        <5>. QED
          BY <2>2, <5>1 DEF BoundInv, Recent
      <4>. QED
        BY <4>2, <4>3
    <3>. QED
      BY <3>1, <3>2
  <2>. QED
    BY <2>3, <2>4 DEF Recent
<1>. QED
  BY <1>3, <1>4, LogSteps DEF BoundInv

\* A request in hand is not older than its deadline, and what its response
\* misses is younger than the request.
LEMMA RequestStep ==
  ASSUME BoundInv, [Next]_vars
  PROVE  InTime' /\ \A p \in Clients : pc'[p] = "served" => Late(p)'
<1>1. /\ now \in Nat /\ Timeout \in Nat /\ Len(log) \in Nat
      /\ log \in Seq([at : 0..MaxNow, urls : SUBSET Urls])
      /\ \A p \in Clients : sentAt[p] \in Nat /\ reply[p] \in Int
  BY ExecutorAssumption DEF BoundInv, TypeInv, TypeOK
<1>2. ASSUME NEW p \in Clients, pc'[p] \in Reading
      PROVE  sentAt'[p] <= now' /\ now' <= sentAt'[p] + Timeout
  <2>1. CASE pc'[p] = "asked" /\ sentAt'[p] = now /\ now' = now
    BY <1>1, <2>1
  <2>2. CASE pc[p] \in Reading /\ sentAt'[p] = sentAt[p]
    <3>1. sentAt[p] <= now /\ now <= sentAt[p] + Timeout
      BY <2>2 DEF BoundInv, InTime
    <3>. QED
      BY <1>1, <2>2, <3>1, TimeSteps DEF BoundInv
  <2>. QED
    BY <1>2, <2>1, <2>2, ReaderSteps DEF BoundInv
<1>3. ASSUME NEW p \in Clients, pc'[p] = "served"
      PROVE  Late(p)'
  <2>1. /\ pc[p] \in Reading /\ sentAt'[p] = sentAt[p] /\ url'[p] = url[p]
        /\ \/ pc[p] = "served" /\ reply'[p] = reply[p]
           \/ pc[p] = "asked" /\ reply'[p] = version[url[p]] /\ log' = log
    BY <1>3, ReaderSteps DEF BoundInv, Reading
  <2>2. url[p] \in Urls /\ sentAt[p] <= now
    BY <2>1 DEF BoundInv, TypeInv, Shape, InTime, Reading
  <2>3. CASE pc[p] = "asked" /\ reply'[p] = version[url[p]] /\ log' = log
    BY <2>1, <2>2, <2>3 DEF BoundInv, Recent, Late
  <2>4. CASE pc[p] = "served" /\ reply'[p] = reply[p]
    <3>1. Late(p)
      BY <2>4 DEF BoundInv
    <3>2. CASE log' = log
      BY <2>1, <2>4, <3>1, <3>2 DEF Late
    <3>3. CASE now' = now /\ \E v \in Urls : Change(v)
      <4>1. /\ Len(log') = Len(log) + 1
            /\ \A r \in 1..Len(log) : log'[r] = log[r]
            /\ log'[Len(log) + 1].at = now
        BY <1>1, <3>3 DEF Change
      <4>2. reply[p] \in 0..Len(log)
        BY <2>4 DEF BoundInv, TypeInv, Shape
      <4>3. ASSUME NEW r \in (reply[p] + 1)..Len(log'), url[p] \in log'[r].urls
            PROVE  sentAt[p] <= log'[r].at
        <5>1. CASE r = Len(log) + 1
          BY <2>2, <4>1, <5>1
        <5>2. CASE r # Len(log) + 1
          <6>1. r \in 1..Len(log) /\ r \in (reply[p] + 1)..Len(log)
            BY <1>1, <4>1, <4>2, <5>2
          <6>. QED
            BY <3>1, <4>1, <4>3, <6>1 DEF Late
        <5>. QED
          BY <5>1, <5>2
      <4>. QED
        BY <2>1, <2>4, <4>3 DEF Late
    <3>. QED
      BY <3>2, <3>3, LogSteps DEF BoundInv
  <2>. QED
    BY <2>1, <2>3, <2>4
<1>. QED
  BY <1>2, <1>3 DEF InTime

\* An entry in use is an entry.
LEMMA EntryType ==
  ASSUME TypeInv, NEW u \in Urls, NEW e \in InUse(u)
  PROVE  e.expiresAt \in Nat /\ e.body \in Nat
<1>1. e \in Cache!Entry
  BY DEF InUse, TypeInv, TypeOK
<1>. QED
  BY <1>1, ExecutorAssumption DEF Cache!Entry, Revs

LEMMA BoundStep == BoundInv /\ [Next]_vars => BoundInv'
<1>. SUFFICES ASSUME BoundInv, [Next]_vars
              PROVE  BoundInv'
  OBVIOUS
<1>1. TypeInv /\ TypeInv'
  BY TypeStep DEF BoundInv
<1>2. ASSUME NEW u \in Urls, NEW e \in InUse(u)
      PROVE  Bounded(e, u)'
  <2>1. e.expiresAt \in Nat /\ e.body \in Nat
    BY <1>1, EntryType
  <2>. QED
    BY <2>1, BoundedSteady DEF BoundInv
<1>3. ASSUME NEW u \in Urls, NEW e \in InUse(u)'
      PROVE  Bounded(e, u)'
  <2>1. CASE \A p \in Clients : ~ReadReturn(p)
    BY <1>1, <1>2, <1>3, <2>1, NarrowSteps
  <2>2. CASE \E p \in Clients : ReadReturn(p)
    <3>1. PICK p \in Clients : ReadReturn(p)
      BY <2>2
    <3>2. CASE e \in InUse(u)
      BY <1>2, <3>2
    <3>3. CASE e \notin InUse(u)
      <4>1. /\ saw' = saw /\ now' = now /\ log' = log
            /\ \A q \in Clients : url'[q] = u => url[q] = u
        BY <3>1, <1>1, ExecutorAssumption
        DEF ReadReturn, Return, Cache!Set, cacheVars, upstreamVars, TypeInv, TypeOK
      <4>2. e = latest'[u] /\ e # latest[u]
        BY <1>3, <3>3, <4>1 DEF InUse
      <4>3. u = url[p] /\ e = [body |-> reply[p], expiresAt |-> now + TTL]
        BY <3>1, <4>2, <1>1 DEF ReadReturn, Cache!Set, cacheVars, TypeInv, TypeOK
      <4>4. /\ pc[p] = "served" /\ Late(p) /\ now <= sentAt[p] + Timeout
            /\ now \in Nat /\ TTL \in Nat /\ Timeout \in Nat /\ sentAt[p] \in Nat
            /\ log \in Seq([at : 0..MaxNow, urls : SUBSET Urls])
            /\ reply[p] \in Nat
        BY <3>1, <1>1, ExecutorAssumption
        DEF ReadReturn, BoundInv, InTime, Reading, TypeInv, TypeOK, Shape
      <4>5. ASSUME NEW r \in (e.body + 1)..Len(log), u \in log[r].urls
            PROVE  e.expiresAt <= log[r].at + TTL + Timeout
        <5>1. r \in (reply[p] + 1)..Len(log) /\ r \in 1..Len(log)
          BY <4>3, <4>4
        <5>2. sentAt[p] <= log[r].at
          BY <4>3, <4>4, <4>5, <5>1 DEF Late
        <5>3. log[r] \in [at : 0..MaxNow, urls : SUBSET Urls]
          BY <4>4, <5>1, Element
        <5>4. log[r].at \in Nat
          BY <5>3, ExecutorAssumption
        <5>. QED
          BY <4>3, <4>4, <5>2, <5>4
      <4>. QED
        BY <4>1, <4>3, <4>4, <4>5 DEF Bounded
    <3>. QED
      BY <3>2, <3>3
  <2>. QED
    BY <2>1, <2>2
<1>. QED
  BY <1>1, <1>3, LoggedStep, RequestStep DEF BoundInv

\* A body outlives the change that made it old by at most one time to live and
\* one request, whatever clients and other programs do (executor.go:75-96).
THEOREM Staleness == Spec => []BoundedStaleness
<1>1. BoundInv => BoundedStaleness
  BY DEF BoundInv, Bounded, BoundedStaleness
<1>. QED
  BY <1>1, BoundInit, BoundStep, PTL DEF Spec
-----------------------------------------------------------------------------
(* Stale only by a race.  Up to the change n a URL is explained: whatever    *)
(* is older than n, in the cache or in the hands of a client, is known to    *)
(* come from a GET that was out while a write dropped the cache.  A write    *)
(* explains what it covers when it drops it, and nothing undoes that.        *)

Explained(v, n) ==
  /\ latest[v] # None /\ latest[v].body < n => tainted[v]
  /\ \A p \in Clients :
       pc[p] = "served" /\ url[p] = v /\ reply[p] < n => raced[p]

RaceInv ==
  /\ TypeInv
  /\ ~CacheOn => \A u \in Urls : latest[u] = None
  /\ \A u \in Urls : acked[u] <= version[u] /\ Explained(u, acked[u])
  /\ \A p \in Clients : pc[p] \in {"written", "purged"} =>
       \A v \in Affects[url[p]] : reply[p] <= version[v]
  /\ \A p \in Clients : pc[p] = "purged" =>
       \A v \in Affects[url[p]] \cap Covers[url[p]] : Explained(v, reply[p])

LEMMA RaceInit == Init => RaceInv
<1>. SUFFICES ASSUME Init
              PROVE  RaceInv
  OBVIOUS
<1>1. TypeInv
  BY TypeInit
<1>2. /\ \A u \in Urls : latest[u] = None /\ acked[u] = 0 /\ version[u] = 0
      /\ \A p \in Clients : pc[p] = "idle"
  BY DEF Init, Cache!Init
<1>. QED
  BY <1>1, <1>2 DEF RaceInv, Explained

\* Only the encoded slash is respelled a slash.
LEMMA SlashRespelled ==
  ASSUME NEW r \in Respellings
  PROVE  /\ r[1] # Slash
         /\ r[1] # EncodedSlash => r[2] # Slash
<1>. USE DEF EncodedSlash, Slash
<1>1. CASE r = <<EncodedSlash, Slash>>
  BY <1>1
<1>2. CASE r = <<"%2C", ",">>
  BY <1>2
<1>3. CASE r = <<"%3B", ";">>
  BY <1>3
<1>4. CASE r = <<"{", "%7B">>
  BY <1>4
<1>5. CASE r = <<"}", "%7D">>
  BY <1>5
<1>. QED
  BY <1>1, <1>2, <1>3, <1>4, <1>5 DEF Respellings

\* A slash stays where it is, and no other piece becomes one but the encoded one.
LEMMA SlashesStay ==
  ASSUME NEW u \in Seq(STRING), EncodedSlash \notin ToSet(u), NEW i \in DOMAIN u
  PROVE  Respelled(u)[i] = Slash <=> u[i] = Slash
<1>. DEFINE mine == {r \in Respellings : r[1] = u[i]}
<1>1. u[i] # EncodedSlash
  BY DEF ToSet
<1>2. \A r \in mine : r[2] # Slash /\ u[i] # Slash
  BY <1>1, SlashRespelled
<1>3. CASE \E r \in Respellings : r[1] = u[i]
  <2>1. (CHOOSE r \in Respellings : r[1] = u[i]) \in mine
    BY <1>3
  <2>. QED
    BY <1>2, <1>3, <2>1 DEF Respelled
<1>4. CASE ~\E r \in Respellings : r[1] = u[i]
  BY <1>4 DEF Respelled
<1>. QED
  BY <1>3, <1>4

\* The cut is within the path.
LEMMA CutWithin ==
  ASSUME NEW u \in Seq(STRING)
  PROVE  LastSlash(u) = 1 \/ LastSlash(u) \in 1..Len(u)
<1>. DEFINE C == {i \in DOMAIN u : /\ u[i] = Slash
                                  /\ \E j \in {k \in DOMAIN u : u[k] # Slash} : i < j} \cup {1}
            D == {n \in Nat : Len(u) + 1 - n \in C}
<1>1. C \subseteq 1..(Len(u) + 1) /\ \A c \in C : c = 1 \/ c \in 1..Len(u)
  OBVIOUS
<1>2. D \in SUBSET Nat /\ D # {}
  <2>1. Len(u) \in D
    BY <1>1
  <2>. QED
    BY <2>1
<1>3. PICK n \in D : \A m \in D : n <= m
  BY <1>2, Least
<1>4. Len(u) + 1 - n \in C /\ \A c \in C : Len(u) + 1 - n >= c
  <2>1. ASSUME NEW c \in C
        PROVE  Len(u) + 1 - n >= c
    <3>1. Len(u) + 1 - c \in D
      BY <1>1
    <3>. QED
      BY <1>1, <1>3, <3>1
  <2>. QED
    BY <2>1
<1>5. Max(C) \in C
  BY <1>4 DEF Max
<1>. QED
  BY <1>1, <1>5 DEF LastSlash

\* A plainly spelled URL has the parent it is cut at.
LEMMA PlainParent ==
  ASSUME NEW u \in Seq(STRING), PlainlySpelled(u)
  PROVE  ParentPath(u) = Above(u)
<1>. DEFINE r == Respelled(u)
            cut == LastSlash(u)
<1>1. DOMAIN u = 1..Len(u) /\ DOMAIN r = DOMAIN u
  BY DEF Respelled
<1>2. \A i \in DOMAIN u : r[i] = Slash <=> u[i] = Slash
  BY SlashesStay DEF PlainlySpelled
<1>3. LastSlash(r) = cut
  <2>1. {i \in DOMAIN r : r[i] # Slash} = {i \in DOMAIN u : u[i] # Slash}
    BY <1>1, <1>2
  <2>2. {i \in DOMAIN r : r[i] = Slash /\ \E j \in {k \in DOMAIN r : r[k] # Slash} : i < j}
          = {i \in DOMAIN u : u[i] = Slash /\ \E j \in {k \in DOMAIN u : u[k] # Slash} : i < j}
    BY <1>1, <1>2, <2>1
  <2>. QED
    BY <2>2 DEF LastSlash
<1>4. CASE cut # 1
  <2>1. cut \in 1..Len(u)
    BY <1>4, CutWithin
  <2>2. SubSeq(r, 1, cut - 1) = SubSeq(u, 1, cut - 1)
    <3>1. \A i \in 1..(cut - 1) : r[i] = u[i]
      BY DEF PlainlySpelled
    <3>2. r \in Seq({r[i] : i \in 1..Len(u)}) /\ Len(r) = Len(u)
      <4>. DEFINE R == {r[i] : i \in 1..Len(u)}
      <4>1. r = [i \in 1..Len(u) |-> r[i]]
        BY <1>1 DEF Respelled
      <4>2. \A i \in 1..Len(u) : r[i] \in R
        OBVIOUS
      <4>3. Len(u) \in Nat
        OBVIOUS
      <4>. HIDE DEF R, r
      <4>4. r \in [1..Len(u) -> R]
        BY <4>1, <4>2
      <4>5. r \in Seq(R) /\ Len(r) = Len(u)
        BY <4>3, <4>4
      <4>. QED
        BY <4>5 DEF R
    <3>3. cut - 1 \in 0..Len(u)
      BY <2>1
    <3>. QED
      BY <3>1, <3>2, <3>3
  <2>. QED
    BY <1>3, <1>4, <2>2 DEF ParentPath, Above
<1>. QED
  BY <1>3, <1>4 DEF ParentPath, Above

\* What a write to a plainly spelled URL changes, it drops.
LEMMA PlainScope ==
  ASSUME NEW u \in Plain
  PROVE  Affects[u] \subseteq Covers[u] \cup Around[u]
<1>1. u \in Urls /\ u \in Seq(STRING) /\ PlainlySpelled(u)
  BY ExecutorAssumption DEF Plain, Urls
<1>2. Affects[u] \subseteq Containing(u) \cup Containing(ParentPath(u))
  BY <1>1, Scope, PlainParent
<1>. QED
  BY <1>1, <1>2 DEF Covers, Around

\* The version of a URL never goes back.
LEMMA VersionGrows ==
  ASSUME TypeInv, [Next]_vars, NEW u \in Urls
  PROVE  version[u] \in Nat /\ version'[u] \in Nat /\ version[u] <= version'[u]
<1>1. version[u] \in 0..Len(log) /\ Len(log) \in Nat
  BY DEF TypeInv, TypeOK
<1>2. CASE version' = version
  BY <1>1, <1>2
<1>3. CASE \E v \in Urls : Change(v)
  BY <1>1, <1>3 DEF Change
<1>. QED
  BY <1>2, <1>3, LogSteps

\* Dropping a URL explains it, whatever the change.
LEMMA PurgeExplains ==
  ASSUME RaceInv, NEW K, Purge(K), NEW v \in Urls, v \in K, NEW n,
         \A q \in Clients : pc'[q] = "served" =>
           pc[q] = "served" /\ url'[q] = url[q]
  PROVE  Explained(v, n)'
<1>1. latest'[v] = None
  <2>1. CASE CacheOn
    BY <2>1 DEF Purge, Cache!Invalidate
  <2>2. CASE ~CacheOn
    BY <2>2 DEF Purge, cacheVars, RaceInv
  <2>. QED
    BY <2>1, <2>2
<1>2. \A q \in Clients : pc'[q] = "served" /\ url'[q] = v => raced'[q]
  BY DEF Purge, Reading
<1>. QED
  BY <1>1, <1>2 DEF Explained

\* Dropping others leaves a URL explained.
LEMMA PurgeKeeps ==
  ASSUME RaceInv, NEW K, Purge(K), NEW v \in Urls, NEW n, Explained(v, n),
         \A q \in Clients : pc'[q] = "served" =>
           pc[q] = "served" /\ url'[q] = url[q] /\ reply'[q] = reply[q]
  PROVE  Explained(v, n)'
<1>1. CASE v \in K
  BY <1>1, PurgeExplains
<1>2. CASE v \notin K
  <2>1. latest'[v] = latest[v]
    BY <1>2 DEF Purge, Cache!Invalidate, cacheVars
  <2>2. tainted'[v] = tainted[v]
    BY <1>2 DEF Purge, RaceInv, TypeInv, TypeOK
  <2>3. \A q \in Clients : raced[q] => raced'[q]
    BY DEF Purge
  <2>. QED
    BY <2>1, <2>2, <2>3 DEF Explained
<1>. QED
  BY <1>1, <1>2

\* What is explained stays so, as long as the change is no newer than the URL.
LEMMA ExplainedSteady ==
  ASSUME RaceInv, [Next]_vars, NEW v \in Urls, NEW n \in Int, n <= version[v],
         Explained(v, n)
  PROVE  Explained(v, n)'
<1>. USE DEF TypeInv, TypeOK, callVars, historyVars
<1>0. TypeInv
  BY DEF RaceInv
<1>1. ASSUME NEW p \in Clients, NEW u \in Urls, ReadLook(p, u) \/ WriteSend(p, u)
      PROVE  Explained(v, n)'
  <2>1. /\ latest' = latest /\ tainted' = tainted /\ raced' = raced /\ reply' = reply
        /\ \A q \in Clients \ {p} : url'[q] = url[q]
    BY <1>0, <1>1 DEF ReadLook, WriteSend, Cache!Look, cacheVars
  <2>2. pc'[p] # "served" /\ \A q \in Clients \ {p} : pc'[q] = pc[q]
    BY <1>0, <1>1 DEF ReadLook, WriteSend, Ask
  <2>. QED
    BY <2>1, <2>2 DEF Explained
<1>2. ASSUME NEW p \in Clients, ReadDecide(p)
      PROVE  Explained(v, n)'
  <2>1. /\ latest' = latest /\ tainted' = tainted /\ raced' = raced /\ reply' = reply
        /\ url' = url
    BY <1>2 DEF ReadDecide, Cache!Decide
  <2>2. pc'[p] # "served" /\ \A q \in Clients \ {p} : pc'[q] = pc[q]
    BY <1>0, <1>2 DEF ReadDecide, Ask
  <2>. QED
    BY <2>1, <2>2 DEF Explained
<1>3. ASSUME NEW p \in Clients, ReadHit(p) \/ ReadFail(p) \/ WriteFail(p)
      PROVE  Explained(v, n)'
  <2>1. /\ latest' = latest /\ tainted' = tainted /\ Return(p)
        /\ \A q \in Clients \ {p} : raced'[q] = raced[q]
    BY <1>0, <1>3 DEF ReadHit, ReadFail, WriteFail, Cache!Leave, cacheVars
  <2>. QED
    BY <1>0, <2>1 DEF Return, Explained
<1>4. ASSUME NEW p \in Clients, Serve(p)
      PROVE  Explained(v, n)'
  <2>1. /\ latest' = latest /\ tainted' = tainted /\ raced' = raced /\ url' = url
        /\ \A q \in Clients \ {p} : pc'[q] = pc[q] /\ reply'[q] = reply[q]
        /\ reply'[p] = version[url[p]]
    BY <1>0, <1>4 DEF Serve, cacheVars
  <2>2. url[p] = v => ~(reply'[p] < n)
    BY <1>0, <2>1
  <2>. QED
    BY <2>1, <2>2 DEF Explained
<1>5. ASSUME NEW p \in Clients, ReadReturn(p)
      PROVE  Explained(v, n)'
  <2>1. /\ pc'[p] = "idle" /\ pc[p] = "served"
        /\ \A q \in Clients \ {p} :
             /\ pc'[q] = pc[q] /\ url'[q] = url[q]
             /\ reply'[q] = reply[q] /\ raced'[q] = raced[q]
    BY <1>0, <1>5 DEF ReadReturn, Return
  <2>2. CASE CacheOn /\ url[p] = v
    <3>1. latest'[v].body = reply[p] /\ tainted'[v] = raced[p]
      BY <1>0, <1>5, <2>2 DEF ReadReturn, Cache!Set
    <3>. QED
      BY <2>1, <2>2, <3>1 DEF Explained
  <2>3. CASE ~(CacheOn /\ url[p] = v)
    <3>1. latest'[v] = latest[v] /\ tainted'[v] = tainted[v]
      BY <1>0, <1>5, <2>3 DEF ReadReturn, Cache!Set, cacheVars
    <3>. QED
      BY <2>1, <3>1 DEF Explained
  <2>. QED
    BY <2>2, <2>3
<1>6. ASSUME NEW p \in Clients, Answer(p)
      PROVE  Explained(v, n)'
  <2>1. /\ latest' = latest /\ tainted' = tainted /\ raced' = raced /\ url' = url
        /\ pc'[p] = "written" /\ \A q \in Clients \ {p} : pc'[q] = pc[q] /\ reply'[q] = reply[q]
    BY <1>0, <1>6 DEF Answer, cacheVars
  <2>. QED
    BY <2>1 DEF Explained
<1>7. ASSUME NEW p \in Clients, WritePurge(p)
      PROVE  Explained(v, n)'
  <2>1. /\ Purge(Covers[url[p]]) /\ url' = url /\ reply' = reply
        /\ pc'[p] = "purged" /\ \A q \in Clients \ {p} : pc'[q] = pc[q]
    BY <1>0, <1>7 DEF WritePurge
  <2>2. \A q \in Clients : pc'[q] = "served" =>
          pc[q] = "served" /\ url'[q] = url[q] /\ reply'[q] = reply[q]
    BY <2>1
  <2>. QED
    BY <2>1, <2>2, PurgeKeeps
<1>8. ASSUME NEW p \in Clients, WriteReturn(p)
      PROVE  Explained(v, n)'
  <2>1. Purge(Around[url[p]]) /\ Return(p)
    BY <1>8 DEF WriteReturn
  <2>2. \A q \in Clients : pc'[q] = "served" =>
          pc[q] = "served" /\ url'[q] = url[q] /\ reply'[q] = reply[q]
    BY <1>0, <2>1 DEF Return
  <2>. QED
    BY <2>1, <2>2, PurgeKeeps
<1>9. ASSUME \/ \E u \in Urls : Elsewhere(u)
             \/ Tick \/ UNCHANGED vars
      PROVE  Explained(v, n)'
  <2>1. UNCHANGED <<latest, tainted, raced, url, pc, reply>>
    BY <1>9 DEF Elsewhere, Tick, Cache!Tick, vars, cacheVars
  <2>. QED
    BY <2>1 DEF Explained
<1>. QED
  BY <1>1, <1>2, <1>3, <1>4, <1>5, <1>6, <1>7, <1>8, <1>9 DEF Next, Urls

\* A write that has its answer has just got it, has just dropped what it
\* covers, or goes on as it was.
LEMMA WriterSteps ==
  ASSUME TypeInv, [Next]_vars, NEW q \in Clients, pc'[q] \in {"written", "purged"}
  PROVE  \/ pc'[q] = pc[q] /\ url'[q] = url[q] /\ reply'[q] = reply[q]
         \/ Answer(q)
         \/ WritePurge(q)
<1>. USE DEF TypeInv, TypeOK, callVars
<1>. DEFINE Stays == pc'[q] = pc[q] /\ url'[q] = url[q] /\ reply'[q] = reply[q]
<1>1. ASSUME NEW p \in Clients, NEW u \in Urls, ReadLook(p, u) \/ WriteSend(p, u)
      PROVE  Stays
  BY <1>1 DEF ReadLook, WriteSend, Ask
<1>2. ASSUME NEW p \in Clients, ReadDecide(p)
      PROVE  Stays
  BY <1>2 DEF ReadDecide, Ask
<1>3. ASSUME NEW p \in Clients,
             \/ ReadHit(p) \/ ReadReturn(p) \/ ReadFail(p) \/ WriteReturn(p) \/ WriteFail(p)
      PROVE  Stays
  <2>1. Return(p)
    BY <1>3 DEF ReadHit, ReadReturn, ReadFail, WriteReturn, WriteFail
  <2>. QED
    BY <2>1 DEF Return
<1>4. ASSUME NEW p \in Clients, Serve(p)
      PROVE  Stays
  BY <1>4 DEF Serve
<1>5. ASSUME NEW p \in Clients, Answer(p), p # q
      PROVE  Stays
  BY <1>5 DEF Answer
<1>6. ASSUME NEW p \in Clients, WritePurge(p), p # q
      PROVE  Stays
  BY <1>6 DEF WritePurge
<1>7. ASSUME \/ \E u \in Urls : Elsewhere(u)
             \/ Tick \/ UNCHANGED vars
      PROVE  Stays
  BY <1>7 DEF Elsewhere, Tick, vars
<1>. QED
  BY <1>1, <1>2, <1>3, <1>4, <1>5, <1>6, <1>7 DEF Next, Urls

\* Only the return of a write tells a caller of a change.
LEMMA AckedSteps ==
  ASSUME [Next]_vars, \A p \in Clients : ~WriteReturn(p)
  PROVE  acked' = acked
BY DEF Next, Urls, ReadLook, WriteSend, ReadDecide, ReadHit, Serve, ReadReturn, ReadFail,
  Answer, WritePurge, WriteFail, Elsewhere, Tick, historyVars, vars

\* A disabled cache stays empty.
LEMMA DisabledSteps ==
  ASSUME RaceInv, [Next]_vars, ~CacheOn
  PROVE  \A u \in Urls : latest'[u] = None
<1>1. latest' = latest
  <2>. USE DEF cacheVars
  <2>1. ASSUME NEW p \in Clients, NEW u \in Urls, ReadLook(p, u) \/ WriteSend(p, u)
        PROVE  latest' = latest
    BY <2>1 DEF ReadLook, WriteSend, Cache!Look
  <2>2. ASSUME NEW p \in Clients,
               \/ ReadDecide(p) \/ ReadHit(p) \/ Serve(p) \/ ReadReturn(p) \/ ReadFail(p)
               \/ Answer(p) \/ WritePurge(p) \/ WriteReturn(p) \/ WriteFail(p)
        PROVE  latest' = latest
    BY <2>2 DEF ReadDecide, ReadHit, Serve, ReadReturn, ReadFail, Answer, WritePurge,
      WriteReturn, WriteFail, Purge, Cache!Decide, Cache!Leave
  <2>3. ASSUME \/ \E u \in Urls : Elsewhere(u)
               \/ Tick \/ UNCHANGED vars
        PROVE  latest' = latest
    BY <2>3 DEF Elsewhere, Tick, Cache!Tick, vars
  <2>. QED
    BY <2>1, <2>2, <2>3 DEF Next, Urls
<1>. QED
  BY <1>1 DEF RaceInv

LEMMA RaceStep == RaceInv /\ [Next]_vars => RaceInv'
<1>. SUFFICES ASSUME RaceInv, [Next]_vars
              PROVE  RaceInv'
  OBVIOUS
<1>1. TypeInv /\ TypeInv'
  BY TypeStep DEF RaceInv
<1>2. \A u \in Urls : acked[u] \in Int /\ acked[u] <= version[u] /\ Explained(u, acked[u])
  BY <1>1 DEF RaceInv, TypeInv, TypeOK, Revs
<1>3. \A p \in Clients : reply[p] \in Int
  BY <1>1 DEF TypeInv, TypeOK
<1>4. ASSUME NEW u \in Urls
      PROVE  acked'[u] <= version'[u]
  <2>1. CASE acked'[u] = acked[u]
    BY <1>1, <1>2, <2>1, VersionGrows
  <2>2. CASE acked'[u] # acked[u]
    <3>1. PICK p \in Clients : WriteReturn(p)
      BY <2>2, AckedSteps
    <3>2. url[p] \in Plain /\ u \in Affects[url[p]] /\ acked'[u] = reply[p] /\ pc[p] = "purged"
      BY <2>2, <3>1 DEF WriteReturn, Acknowledge
    <3>3. reply[p] <= version[u]
      BY <3>2 DEF RaceInv
    <3>. QED
      BY <1>1, <1>3, <3>2, <3>3, VersionGrows
  <2>. QED
    BY <2>1, <2>2
<1>5. ASSUME NEW u \in Urls, NEW n \in Int, n = acked'[u]
      PROVE  Explained(u, n)'
  <2>1. CASE acked'[u] = acked[u]
    BY <1>2, <1>5, <2>1, ExplainedSteady
  <2>2. CASE acked'[u] # acked[u]
    <3>1. PICK p \in Clients : WriteReturn(p)
      BY <2>2, AckedSteps
    <3>2. url[p] \in Plain /\ u \in Affects[url[p]] /\ n = reply[p] /\ pc[p] = "purged"
      BY <1>5, <2>2, <3>1 DEF WriteReturn, Acknowledge
    <3>3. n <= version[u] /\ url[p] \in Urls
      BY <1>1, <3>2 DEF RaceInv, TypeInv, Shape
    <3>4. u \in Covers[url[p]] \cup Around[url[p]]
      BY <3>2, PlainScope
    <3>5. CASE u \in Around[url[p]]
      <4>1. Purge(Around[url[p]]) /\ Return(p)
        BY <3>1 DEF WriteReturn
      <4>2. \A q \in Clients : pc'[q] = "served" => pc[q] = "served" /\ url'[q] = url[q]
        BY <1>1, <4>1 DEF Return, TypeInv, TypeOK
      <4>. QED
        BY <3>5, <4>1, <4>2, PurgeExplains
    <3>6. CASE u \in Covers[url[p]]
      <4>1. Explained(u, n)
        BY <3>2, <3>6 DEF RaceInv
      <4>. QED
        BY <3>3, <4>1, ExplainedSteady
    <3>. QED
      BY <3>4, <3>5, <3>6
  <2>. QED
    BY <2>1, <2>2
<1>6. ASSUME NEW p \in Clients, pc'[p] \in {"written", "purged"},
             NEW v \in Affects[url'[p]]
      PROVE  reply'[p] <= version'[v]
  <2>1. url'[p] \in Urls /\ v \in Urls
    BY <1>1, <1>6, ExecutorAssumption DEF TypeInv, Shape
  <2>2. CASE Answer(p)
    <3>1. pc[p] = "writing" /\ url'[p] = url[p] /\ reply[p] = -1
      BY <1>1, <2>2 DEF Answer, TypeInv, Shape
    <3>2. CASE Change(url[p]) /\ reply' = [reply EXCEPT ![p] = Len(log) + 1]
      <4>1. reply'[p] = Len(log) + 1 /\ version'[v] = Len(log) + 1 /\ Len(log) \in Nat
        BY <1>1, <1>6, <2>1, <3>1, <3>2 DEF Change, TypeInv, TypeOK
      <4>. QED
        BY <4>1
    <3>3. CASE UNCHANGED <<upstreamVars, reply>>
      BY <1>1, <2>1, <3>1, <3>3, VersionGrows
    <3>. QED
      BY <2>2, <3>2, <3>3 DEF Answer
  <2>3. CASE pc[p] \in {"written", "purged"} /\ url'[p] = url[p] /\ reply'[p] = reply[p]
    <3>1. reply[p] <= version[v]
      BY <1>6, <2>3 DEF RaceInv
    <3>. QED
      BY <1>1, <1>3, <2>1, <2>3, <3>1, VersionGrows
  <2>4. CASE WritePurge(p)
    BY <2>3, <2>4 DEF WritePurge, callVars
  <2>. QED
    BY <1>1, <1>6, <2>2, <2>3, <2>4, WriterSteps
<1>7. ASSUME NEW p \in Clients, pc'[p] = "purged",
             NEW v \in Affects[url'[p]] \cap Covers[url'[p]],
             NEW n \in Int, n = reply'[p]
      PROVE  Explained(v, n)'
  <2>1. url'[p] \in Urls /\ v \in Urls
    BY <1>1, <1>7, ExecutorAssumption DEF TypeInv, Shape
  <2>2. CASE WritePurge(p)
    <3>1. /\ Purge(Covers[url[p]]) /\ url' = url
          /\ pc'[p] = "purged" /\ \A q \in Clients \ {p} : pc'[q] = pc[q]
      BY <1>1, <2>2 DEF WritePurge, TypeInv, TypeOK
    <3>2. \A q \in Clients : pc'[q] = "served" => pc[q] = "served" /\ url'[q] = url[q]
      BY <3>1
    <3>. QED
      BY <1>7, <2>1, <3>1, <3>2, PurgeExplains
  <2>3. CASE pc[p] = "purged" /\ url'[p] = url[p] /\ reply'[p] = reply[p]
    <3>1. Explained(v, n) /\ n <= version[v]
      BY <1>7, <2>3 DEF RaceInv
    <3>. QED
      BY <2>1, <3>1, ExplainedSteady
  <2>4. CASE Answer(p)
    BY <1>1, <1>7, <2>4 DEF Answer, TypeInv, TypeOK
  <2>. QED
    BY <1>1, <1>7, <2>2, <2>3, <2>4, WriterSteps
<1>8. ~CacheOn => \A u \in Urls : latest'[u] = None
  BY DisabledSteps
<1>9. \A u \in Urls : acked'[u] <= version'[u] /\ Explained(u, acked[u])'
  <2>1. \A u \in Urls : acked'[u] \in Int
    BY <1>1 DEF TypeInv, TypeOK, Revs
  <2>. QED
    BY <1>4, <1>5, <2>1 DEF Explained
<1>10. \A p \in Clients : pc'[p] = "purged" =>
         \A v \in Affects[url'[p]] \cap Covers[url'[p]] : Explained(v, reply[p])'
  <2>1. \A p \in Clients : reply'[p] \in Int
    BY <1>1 DEF TypeInv, TypeOK
  <2>. QED
    BY <1>7, <2>1 DEF Explained
<1>. QED
  BY <1>1, <1>6, <1>8, <1>9, <1>10 DEF RaceInv, CacheOn

\* The one way to a cached body older than a write that returned is a GET that
\* was out while that write dropped the cache (executor.go:80-95, 122-125), or a
\* write whose parent URL is spelled otherwise in the keys (163-165, 192-205).
THEOREM RaceOnly == Spec => []StaleOnlyByRace
<1>1. RaceInv => StaleOnlyByRace
  BY DEF RaceInv, Explained, StaleOnlyByRace
<1>. QED
  BY <1>1, RaceStep, RaceInit, PTL DEF Spec
=============================================================================

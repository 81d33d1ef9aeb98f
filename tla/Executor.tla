------------------------------ MODULE Executor ------------------------------
(***************************************************************************)
(* ExecuteGET and ExecuteWrite of internal/core/exec/executor.go, over the *)
(* response cache and the upstream API.                                    *)
(*                                                                         *)
(* The cache is the one LossyCache describes; TTLCache is shown to         *)
(* implement that elsewhere.  The upstream, which is outside the           *)
(* repository, is a log of changes: change r happens at some time and      *)
(* touches some URLs, and a GET of u is answered with the number of the    *)
(* last change that touched u.  The body of a response is that number, so  *)
(* "older" is "<".  Other programs write to the upstream too.              *)
(*                                                                         *)
(* The HTTP client gives up on a call Timeout ticks after it was sent.  A  *)
(* tick is long against the code that runs once the response is in, so a   *)
(* call that has its response also finishes before that deadline.          *)
(*                                                                         *)
(* A URL is the sequence of its parts after the host: slashes, the texts   *)
(* between them, and by itself each piece that is not spelled alike by     *)
(* url.PathEscape, which resolveURL uses for a value, and by String, which *)
(* parentPath uses for a path.  Texts are cut so finely that the string of *)
(* a URL begins with that of another one only if its parts do.             *)
(***************************************************************************)
EXTENDS Integers, SequencesExt

CONSTANTS
  Gets,     \* resolved URLs of the GET operations, which are also their cache keys
  Writes,   \* resolved URLs of the write operations
  Clients,  \* goroutines of the frontends, one call at a time each
  Affects,  \* Affects[u]: the URLs whose contents a write to u changes
  TTL,      \* time to live of a cached body, 0 for a disabled cache
  Timeout,  \* http.Client.Timeout
  MaxNow,   \* bound on the clock
  MaxRev,   \* bound on the number of changes of the upstream
  None      \* "no entry", "no URL"

Urls == Gets \cup Writes
Revs == 0..MaxRev

ASSUME ExecutorAssumption ==
  /\ TTL \in Nat /\ Timeout \in Nat \ {0} /\ MaxNow \in Nat /\ MaxRev \in Nat
  /\ Gets \subseteq Seq(STRING) /\ Writes \subseteq Seq(STRING)
  /\ Affects \in [Urls -> SUBSET Urls]
  /\ \A u \in Urls : u \in Affects[u]
  /\ None \notin Urls

-----------------------------------------------------------------------------
(* parentPath and Invalidate *)

Slash == "/"
EncodedSlash == "%2F"

\* How url.Parse and String spell a piece of a path that is written otherwise in
\* a resolved URL: slash, comma and semicolon are escaped in a value and not in
\* a path, a template that no parameter fills has its braces escaped.
Respellings ==
  {<<EncodedSlash, Slash>>, <<"%2C", ",">>, <<"%3B", ";">>, <<"{", "%7B">>, <<"}", "%7D">>}
Respelled(u) ==
  [i \in DOMAIN u |-> IF \E r \in Respellings : r[1] = u[i]
                        THEN (CHOOSE r \in Respellings : r[1] = u[i])[2]
                        ELSE u[i]]

\* Where LastIndex finds a slash that is not at the end; 1 if it finds none.
LastSlash(path) ==
  LET text == {i \in DOMAIN path : path[i] # Slash}
      cuts == {i \in DOMAIN path : path[i] = Slash /\ \E j \in text : i < j}
  IN  Max(cuts \cup {1})

\* A path up to its last slash, and no URL when that leaves nothing.
Above(path) ==
  LET cut == LastSlash(path)
  IN  IF cut = 1 THEN None ELSE SubSeq(path, 1, cut - 1)

\* The slash is looked for in the decoded path, and what is left is encoded.
ParentPath(u) == Above(Respelled(u))

\* The keys that contain the URL u: all are of one host, and so they begin so.
Containing(u) == IF u = None THEN {} ELSE {k \in Urls : IsPrefix(u, k)}

Covers == [u \in Urls |-> Containing(u)]
Around == [u \in Urls |-> Containing(ParentPath(u))]

\* What a write to u changes is at u or at the URL above it, or below them.
ASSUME Scope == \A u \in Urls : Affects[u] \subseteq Containing(u) \cup Containing(Above(u))

\* A URL whose parent keeps its spelling: no value in it has a slash, and
\* nothing before the last segment is spelled in two ways.
PlainlySpelled(u) ==
  /\ EncodedSlash \notin ToSet(u)
  /\ \A i \in 1..(LastSlash(u) - 1) : Respelled(u)[i] = u[i]
Plain == {u \in Urls : PlainlySpelled(u)}

VARIABLES
  now,      \* the clock
  latest, looking, saw,  \* the cache, as in LossyCache
  log,      \* the upstream: its changes, each [at |-> time, urls |-> touched]
  version,  \* version[u]: number of the last change that touched u
  pc,       \* where each client is in its call
  url,      \* the resolved URL of its call, None between calls
  sentAt,   \* when its HTTP request was sent
  reply,    \* the change the upstream answered with, -1 for none or an error
  acked,    \* history: acked[u] = newest change of u by a plainly spelled write that returned
  raced,    \* history: a write covering the URL ended while p's GET was out
  tainted   \* history: the cached body of u came from such a GET

cacheVars == <<now, latest, looking, saw>>
upstreamVars == <<log, version>>
callVars == <<pc, url, sentAt, reply>>
historyVars == <<acked, raced, tainted>>
vars == <<cacheVars, upstreamVars, callVars, historyVars>>

Cache == INSTANCE LossyCache WITH
  Keys <- Urls, Bodies <- Revs, Readers <- Clients, NoEntry <- None,
  Targets <- {Covers[u] : u \in Urls} \cup {Around[u] : u \in Urls}

CacheOn == TTL > 0  \* Get and Set return at once when ttl is 0

Reading == {"asked", "served"}
Looking == {"looking", "hit"}
Writing == {"writing", "written", "purged"}

TypeOK ==
  /\ now \in 0..MaxNow
  /\ latest \in [Urls -> Cache!Entry \cup {None}]
  /\ looking \in [Clients -> BOOLEAN]
  /\ saw \in [Clients -> Cache!Entry \cup {None}]
  /\ log \in Seq([at : 0..MaxNow, urls : SUBSET Urls]) /\ Len(log) <= MaxRev
  /\ version \in [Urls -> 0..Len(log)]
  /\ pc \in [Clients -> {"idle"} \cup Looking \cup Reading \cup Writing]
  /\ url \in [Clients -> Urls \cup {None}]
  /\ sentAt \in [Clients -> 0..MaxNow]
  /\ reply \in [Clients -> -1..MaxRev]
  /\ acked \in [Urls -> Revs]
  /\ raced \in [Clients -> BOOLEAN]
  /\ tainted \in [Urls -> BOOLEAN]

Init ==
  /\ Cache!Init
  /\ log = << >>
  /\ version = [u \in Urls |-> 0]
  /\ pc = [p \in Clients |-> "idle"]
  /\ url = [p \in Clients |-> None]
  /\ sentAt = [p \in Clients |-> 0]
  /\ reply = [p \in Clients |-> -1]
  /\ acked = [u \in Urls |-> 0]
  /\ raced = [p \in Clients |-> FALSE]
  /\ tainted = [u \in Urls |-> FALSE]

\* The call of p returns: its locals are gone.
Return(p) ==
  /\ pc' = [pc EXCEPT ![p] = "idle"]
  /\ url' = [url EXCEPT ![p] = None]
  /\ sentAt' = [sentAt EXCEPT ![p] = 0]
  /\ reply' = [reply EXCEPT ![p] = -1]

-----------------------------------------------------------------------------
(* ExecuteGET *)

\* A miss sends the request at once.
Ask(p) ==
  /\ pc' = [pc EXCEPT ![p] = "asked"]
  /\ sentAt' = [sentAt EXCEPT ![p] = now]

ReadLook(p, u) ==
  /\ pc[p] = "idle"
  /\ url' = [url EXCEPT ![p] = u]
  /\ IF CacheOn THEN Cache!Look(p, u) ELSE UNCHANGED cacheVars
  /\ IF saw'[p] = None
       THEN Ask(p)
       ELSE pc' = [pc EXCEPT ![p] = "looking"] /\ UNCHANGED sentAt
  /\ UNCHANGED <<upstreamVars, reply, acked, raced, tainted>>

ReadDecide(p) ==
  /\ pc[p] = "looking"
  /\ Cache!Decide(p)
  /\ IF saw'[p] = None
       THEN Ask(p)
       ELSE pc' = [pc EXCEPT ![p] = "hit"] /\ UNCHANGED sentAt
  /\ UNCHANGED <<upstreamVars, url, reply, historyVars>>

\* A hit is the answer.
ReadHit(p) ==
  /\ pc[p] = "hit"
  /\ Return(p)
  /\ Cache!Leave(p)
  /\ UNCHANGED <<upstreamVars, acked, raced, tainted>>

\* External: the upstream answers a GET with what it has now.
Serve(p) ==
  /\ pc[p] = "asked"
  /\ reply' = [reply EXCEPT ![p] = version[url[p]]]
  /\ pc' = [pc EXCEPT ![p] = "served"]
  /\ UNCHANGED <<cacheVars, upstreamVars, url, sentAt, historyVars>>

\* A 2xx response is stored in the cache and returned.
ReadReturn(p) ==
  /\ pc[p] = "served"
  /\ IF CacheOn
       THEN /\ Cache!Set(url[p], reply[p])
            /\ tainted' = [tainted EXCEPT ![url[p]] = raced[p]]
       ELSE UNCHANGED <<cacheVars, tainted>>
  /\ Return(p)
  /\ raced' = [raced EXCEPT ![p] = FALSE]
  /\ UNCHANGED <<upstreamVars, acked>>

\* Mutant of ReadFail: what came back is cached before the error is returned.
ReadFailCaches(p) ==
  /\ pc[p] \in Reading
  /\ IF CacheOn THEN Cache!Set(url[p], reply[p]) ELSE UNCHANGED cacheVars
  /\ Return(p)
  /\ raced' = [raced EXCEPT ![p] = FALSE]
  /\ UNCHANGED <<upstreamVars, acked, tainted>>

\* A transport error, a timeout or a response outside 2xx: nothing is cached.
ReadFail(p) ==
  /\ pc[p] \in Reading
  /\ Return(p)
  /\ raced' = [raced EXCEPT ![p] = FALSE]
  /\ UNCHANGED <<cacheVars, upstreamVars, acked, tainted>>

-----------------------------------------------------------------------------
(* ExecuteWrite *)

WriteSend(p, u) ==
  /\ pc[p] = "idle"
  /\ pc' = [pc EXCEPT ![p] = "writing"]
  /\ url' = [url EXCEPT ![p] = u]
  /\ sentAt' = [sentAt EXCEPT ![p] = now]
  /\ UNCHANGED <<cacheVars, upstreamVars, reply, historyVars>>

\* External: a change of everything that a write to u affects.
Change(u) ==
  /\ Len(log) < MaxRev
  /\ log' = Append(log, [at |-> now, urls |-> Affects[u]])
  /\ version' = [v \in Urls |-> IF v \in Affects[u] THEN Len(log) + 1 ELSE version[v]]

\* External: the upstream carries the write out, or refuses it.
Answer(p) ==
  /\ pc[p] = "writing"
  /\ pc' = [pc EXCEPT ![p] = "written"]
  /\ \/ Change(url[p]) /\ reply' = [reply EXCEPT ![p] = Len(log) + 1]
     \/ UNCHANGED <<upstreamVars, reply>>
  /\ UNCHANGED <<cacheVars, url, sentAt, historyVars>>

\* Any response, an error status too, drops the cached bodies of K.
Purge(K) ==
  /\ IF CacheOn THEN Cache!Invalidate(K) ELSE UNCHANGED cacheVars
  /\ tainted' = [u \in Urls |-> u \notin K /\ tainted[u]]
  /\ raced' = [q \in Clients |-> raced[q] \/ (pc[q] \in Reading /\ url[q] \in K)]

WritePurge(p) ==
  /\ pc[p] = "written"
  /\ Purge(Covers[url[p]])
  /\ pc' = [pc EXCEPT ![p] = "purged"]
  /\ UNCHANGED <<upstreamVars, url, sentAt, reply, acked>>

\* History: the caller of a write to a plainly spelled URL knows of the change.
Acknowledge(p) ==
  acked' = [u \in Urls |->
    IF url[p] \in Plain /\ u \in Affects[url[p]] /\ acked[u] < reply[p]
      THEN reply[p] ELSE acked[u]]

\* Mutant of WriteReturn: the parent path stays in the cache.
WriteReturnKeepsParent(p) ==
  /\ pc[p] = "purged"
  /\ Acknowledge(p)
  /\ Return(p)
  /\ UNCHANGED <<cacheVars, upstreamVars, raced, tainted>>

\* Then those of the parent path, and the call returns.
WriteReturn(p) ==
  /\ pc[p] = "purged"
  /\ Purge(Around[url[p]])
  /\ Acknowledge(p)
  /\ Return(p)
  /\ UNCHANGED upstreamVars

\* No response, whether or not the upstream carried the write out: the call
\* returns the error and leaves the cache alone.
WriteFail(p) ==
  /\ pc[p] \in {"writing", "written"}
  /\ Return(p)
  /\ UNCHANGED <<cacheVars, upstreamVars, acked, raced, tainted>>

-----------------------------------------------------------------------------
\* External: another program writes, or a write that timed out here lands late.
Elsewhere(u) ==
  /\ Change(u)
  /\ UNCHANGED <<cacheVars, callVars, historyVars>>

\* Mutant of Tick: the HTTP client has no timeout.
TickWithoutTimeout == Cache!Tick /\ UNCHANGED <<upstreamVars, callVars, historyVars>>

\* Time passes, but not beyond the deadline of a request that is out.
Tick ==
  /\ \A p \in Clients : pc[p] \in Reading \cup Writing => now < sentAt[p] + Timeout
  /\ Cache!Tick
  /\ UNCHANGED <<upstreamVars, callVars, historyVars>>

Next ==
  \/ \E p \in Clients :
       \/ \E u \in Gets : ReadLook(p, u)
       \/ \E u \in Writes : WriteSend(p, u)
       \/ ReadDecide(p) \/ ReadHit(p) \/ Serve(p) \/ ReadReturn(p) \/ ReadFail(p)
       \/ Answer(p) \/ WritePurge(p) \/ WriteReturn(p) \/ WriteFail(p)
  \/ \E u \in Writes : Elsewhere(u)
  \/ Tick

Spec == Init /\ [][Next]_vars

-----------------------------------------------------------------------------
(* Properties *)

\* The entries of u that a client may still be answered with.
InUse(u) == ({latest[u]} \cup {saw[p] : p \in {q \in Clients : url[q] = u}}) \ {None}

\* A body outlives the change that made it old by at most one time to live and
\* one request: this bounds how stale ExecuteGET can be (executor.go:75-96)
\* whatever the writes, the failures and the other programs do.
BoundedStaleness ==
  \A u \in Urls : \A e \in InUse(u) : \A r \in (e.body + 1)..Len(log) :
    u \in log[r].urls => e.expiresAt <= log[r].at + TTL + Timeout

\* The one way to a cached body older than a write that returned is a GET that
\* was out while that write dropped the cache (executor.go:80-95, 122-125), or
\* a write whose parent URL is spelled otherwise in the keys (163-165, 192-205).
StaleOnlyByRace ==
  \A u \in Urls : latest[u] # None /\ latest[u].body < acked[u] => tainted[u]
=============================================================================

------------------------------- MODULE Client -------------------------------
(***************************************************************************)
(* The API client, internal/core/exec/client.go, for goroutines that send  *)
(* requests side by side: the static credentials of                        *)
(* internal/core/auth/auth.go, then the providers of provider.go, of which *)
(* the client-credentials one, oauth2cc.go, is shared, behind a mutex that *)
(* it holds while it asks the issuer for a token.                          *)
(*                                                                         *)
(* The issuer and golang.org/x/oauth2 are outside the repository: a token  *)
(* is good until Margin ticks before its expiry, and for ever when the     *)
(* issuer names none (expiry 0).  The device provider is DeviceAuth.       *)
(***************************************************************************)
EXTENDS Settings, Integers, SequencesExt

CONSTANTS
  Procs,        \* goroutines that send requests
  NoOne,        \* the holder of a mutex that is free
  Declared,     \* the document's securitySchemes, in its order
  Lifetimes,    \* ticks for which the issuer's tokens may be good, 0 for ever
  Margin,       \* the ticks before its expiry from which a token is not used
  MaxRequests,  \* bound on the requests
  MaxNow        \* bound on the clock

\* The schemes come from a map, so no two have one name.
ASSUME ClientAssumption ==
  /\ Declared \in Seq([name : STRING, type : STRING, scheme : STRING, in : STRING, param : STRING])
  /\ \A i, j \in DOMAIN Declared : Declared[i].name = Declared[j].name => i = j
  /\ NoOne \notin Procs
  /\ Lifetimes \subseteq Nat /\ Margin \in Nat
  /\ MaxRequests \in Nat /\ MaxNow \in Nat

VARIABLES
  world,     \* what the user has set up
  now,       \* the clock
  lock,      \* OAuth2CCProvider.mu: who holds it
  token,     \* the expiry of the token kept by the token source, NoToken for none
  pc,        \* where each goroutine is in Execute
  security,  \* op.Security of its request
  headers,   \* req.Headers
  grants,    \* history: when each token was handed out, and its expiry
  requests   \* requests begun so far

clientVars == <<world, now, lock, token, pc, security, headers, grants, requests>>

NoToken == -1

ClientTypeOK ==
  /\ world \in Worlds
  /\ now \in Nat
  /\ lock \in Procs \cup {NoOne}
  /\ token \in Nat \cup {NoToken}
  /\ pc \in [Procs -> {"idle", "locking", "fetching", "ready", "sent"}]
  /\ grants \in Seq([at : Nat, expiry : Nat])
  /\ requests \in Nat

ClientInit ==
  /\ world \in Worlds
  /\ now = 0
  /\ lock = NoOne
  /\ token = NoToken
  /\ pc = [p \in Procs |-> "idle"]
  /\ security = [p \in Procs |-> << >>]
  /\ headers = [p \in Procs |-> << >>]
  /\ grants = << >>
  /\ requests = 0

-----------------------------------------------------------------------------
(* Static credentials; what is put into the query after the URL is built    *)
(* goes nowhere, and so only the headers are kept.                          *)

Put(h, name, value) == [n \in DOMAIN h \cup {name} |-> IF n = name THEN value ELSE h[n]]
PutUnless(empty, h, name, value) == IF empty = "" THEN h ELSE Put(h, name, value)

Bearer(h) == PutUnless(Config(world).bearer, h, "Authorization", <<"Bearer", Config(world).bearer>>)
Basic(h) == PutUnless(Config(world).basic, h, "Authorization", <<"Basic", Config(world).basic>>)

\* The header or parameter a key goes under: the user's name for it or the scheme's.
KeyName(scheme) == IF Config(world).param # "" THEN Config(world).param ELSE scheme.param

\* The first of the schemes at the places given.
Foremost(places) == Declared[CHOOSE i \in places : \A j \in places : i <= j]

\* applyDirectCredentials: an API key under the user's name for it or that of
\* the document's first scheme for keys, or else X-API-Key.
Direct(h) ==
  LET key == Config(world).apikey
      keyed == {i \in DOMAIN Declared : Declared[i].type = "apiKey"}
      first == Foremost(keyed)
      named == IF Config(world).bearer # "" THEN Bearer(h) ELSE Basic(h)
  IN  IF key = "" THEN named
      ELSE IF Config(world).param # "" THEN Put(named, Config(world).param, <<"Key", key>>)
      ELSE IF keyed # {} /\ first.in = "query" THEN named
      ELSE IF keyed # {} /\ first.param # "" THEN Put(named, first.param, <<"Key", key>>)
      ELSE Put(named, "X-API-Key", <<"Key", key>>)

Places(name) == {i \in DOMAIN Declared : Declared[i].name = name}

\* findScheme
Scheme(name) == Foremost(Places(name))

TakesBearer(s) == s.type = "http" /\ s.scheme = "bearer"
TakesBasic(s) == s.type = "http" /\ s.scheme = "basic"
TakesKey(s) == s.type = "apiKey" /\ s.in = "header" /\ KeyName(s) # ""

\* applyScheme: a name the document does not declare stands for everything
\* there is; a scheme of another kind, and a key in a cookie, for nothing.
ApplyScheme(h, name) ==
  IF Places(name) = {} THEN Direct(h)
  ELSE LET s == Scheme(name)
       IN  IF TakesBearer(s) THEN Bearer(h)
           ELSE IF TakesBasic(s) THEN Basic(h)
           ELSE IF TakesKey(s)
             THEN PutUnless(Config(world).apikey, h, KeyName(s), <<"Key", Config(world).apikey>>)
           ELSE h

\* What the security of an operation names, each name with its alternative.
Asked(sec) == UNION {{j} \X sec[j] : j \in DOMAIN sec}

\* resolveSchemes: the names in the order of the alternatives, those within one
\* in any order; without any security, every scheme of the document.
SchemeNames(sec) ==
  IF sec = << >> THEN {[i \in DOMAIN Declared |-> Declared[i].name]}
  ELSE {[k \in DOMAIN order |-> order[k][2]] :
          order \in {o \in SetToSeqs(Asked(sec)) :
                       \A k, l \in DOMAIN o : k < l => o[k][1] <= o[l][1]}}

\* Mutant of Injected: the first scheme has to do.
InjectedFirst(names) == IF names = << >> THEN Direct(<< >>) ELSE ApplyScheme(<< >>, names[1])

\* Injector.Apply: the headers after one name, two names and so on.
Injected(names) ==
  LET after[k \in 0..Len(names)] ==
        IF k = 0 THEN << >> ELSE ApplyScheme(after[k - 1], names[k])
  IN  IF names = << >> THEN Direct(<< >>) ELSE after[Len(names)]

-----------------------------------------------------------------------------
(* Execute *)

Enter(p, label, h) ==
  /\ pc' = [pc EXCEPT ![p] = label]
  /\ headers' = [headers EXCEPT ![p] = h]

\* Execute returns, with a response or with an error.
Leave(p) == Enter(p, "idle", << >>) /\ security' = [security EXCEPT ![p] = << >>]

\* Token.Valid
Valid(expiry) == expiry # NoToken /\ (expiry = 0 \/ now + Margin <= expiry)

HasProvider(name) == \E i \in DOMAIN Providers(world) : Providers(world)[i] = name

\* SigV4Provider.Apply is the last of the chain, and adds a date, and the session
\* token if there is one, but no signature.
Dated(h) ==
  LET session == Text(world, "sessionToken")
      dated == Put(h, "X-Amz-Date", <<"Date", "now">>)
  IN  IF HasProvider("sigv4")
        THEN PutUnless(session, dated, "X-Amz-Security-Token", <<"Session", session>>)
        ELSE h

WithToken(h, expiry) == Dated(Put(h, "Authorization", <<"Token", expiry>>))

\* The request is put together, the static credentials are injected and the
\* chain is begun; a device provider adds its token or gives up.
Begin(p) ==
  /\ pc[p] = "idle" /\ requests < MaxRequests
  /\ requests' = requests + 1
  /\ \E sec \in world.operations : \E names \in SchemeNames(sec) :
       \/ /\ IF HasProvider("oauth2cc") THEN Enter(p, "locking", Injected(names))
             ELSE IF HasProvider("device") THEN Enter(p, "ready", WithToken(Injected(names), 0))
             ELSE Enter(p, "ready", Dated(Injected(names)))
          /\ security' = [security EXCEPT ![p] = sec]
       \/ HasProvider("device") /\ UNCHANGED <<pc, headers, security>>
  /\ UNCHANGED <<world, now, lock, token, grants>>

\* Mutant of Lock: the mutex is released while the issuer is asked.
LockReleased(p) ==
  /\ pc[p] = "locking" /\ lock = NoOne
  /\ IF Valid(token)
       THEN Enter(p, "ready", WithToken(headers[p], token))
       ELSE Enter(p, "fetching", headers[p])
  /\ UNCHANGED <<world, now, lock, token, security, grants, requests>>

\* OAuth2CCProvider.Apply takes the mutex; with a good token at hand it is
\* through with it at once, otherwise it keeps it and asks the issuer.
Lock(p) ==
  /\ pc[p] = "locking" /\ lock = NoOne
  /\ IF Valid(token)
       THEN Enter(p, "ready", WithToken(headers[p], token)) /\ UNCHANGED lock
       ELSE Enter(p, "fetching", headers[p]) /\ lock' = p
  /\ UNCHANGED <<world, now, token, security, grants, requests>>

\* The issuer hands out a token, which is kept, and used unless it is within
\* Margin of its end already: then the request fails, and the next one asks
\* for a token again.
Granted(p) ==
  /\ pc[p] = "fetching"
  /\ \E life \in Lifetimes :
       LET expiry == IF life = 0 THEN 0 ELSE now + life
       IN  /\ token' = expiry
           /\ grants' = Append(grants, [at |-> now, expiry |-> expiry])
           /\ IF Valid(expiry)
                THEN Enter(p, "ready", WithToken(headers[p], expiry)) /\ UNCHANGED security
                ELSE Leave(p)
  /\ lock' = NoOne
  /\ UNCHANGED <<world, now, requests>>

\* Mutant of NotGranted: the mutex stays locked.
NotGrantedLocked(p) ==
  /\ pc[p] = "fetching"
  /\ Leave(p)
  /\ UNCHANGED <<world, now, lock, token, grants, requests>>

\* The issuer refuses or cannot be reached.
NotGranted(p) ==
  /\ pc[p] = "fetching"
  /\ lock' = NoOne
  /\ Leave(p)
  /\ UNCHANGED <<world, now, token, grants, requests>>

Send(p) ==
  /\ pc[p] = "ready"
  /\ Enter(p, "sent", headers[p])
  /\ UNCHANGED <<world, now, lock, token, security, grants, requests>>

\* The response, an error of the transport or the client's timeout.
Return(p) ==
  /\ pc[p] = "sent"
  /\ Leave(p)
  /\ UNCHANGED <<world, now, lock, token, grants, requests>>

Tick ==
  /\ now < MaxNow
  /\ now' = now + 1
  /\ UNCHANGED <<world, lock, token, pc, security, headers, grants, requests>>

-----------------------------------------------------------------------------
(* Properties *)

HeaderOf(s) == IF s.type = "http" THEN "Authorization" ELSE KeyName(s)

\* What meets a scheme, where a header can.
Wanted(s) ==
  IF TakesBearer(s) THEN <<"Bearer", Config(world).bearer>>
  ELSE IF TakesBasic(s) THEN <<"Basic", Config(world).basic>>
  ELSE IF TakesKey(s) THEN <<"Key", Config(world).apikey>>
  ELSE <<"none", "">>

CanMeet(s) == Wanted(s)[2] # ""
Meets(h, s) == HeaderOf(s) \in DOMAIN h /\ h[HeaderOf(s)] = Wanted(s)

\* The declared schemes that an alternative names, and all of them together.
Alternative(sec, j) == {i \in DOMAIN Declared : Declared[i].name \in sec[j]}
Listed(sec) == UNION {Alternative(sec, j) : j \in DOMAIN sec}

CanBeMet(sec, j) == sec[j] # {} /\ \A i \in Alternative(sec, j) : CanMeet(Declared[i])
IsMet(h, sec, j) == \A i \in Alternative(sec, j) : Meets(h, Declared[i])

AllDeclared(sec) == \A j \in DOMAIN sec : \A name \in sec[j] : Places(name) # {}
Single(sec) == \A j \in DOMAIN sec : \E name \in sec[j] : sec[j] = {name}
Apart(sec) ==
  \A i, j \in Listed(sec) : HeaderOf(Declared[i]) = HeaderOf(Declared[j]) => i = j

Authorized(h, sec) ==
  AllDeclared(sec) =>
    /\ Single(sec) /\ (\E j \in DOMAIN sec : CanBeMet(sec, j))
         => \E j \in DOMAIN sec : IsMet(h, sec, j)
    /\ Apart(sec) => \A j \in DOMAIN sec : CanBeMet(sec, j) => IsMet(h, sec, j)

CarriesToken(h) == "Authorization" \in DOMAIN h /\ h["Authorization"][1] = "Token"

Secrets == {"bearer", "apikey", "clientSecret", "accessKey", "secretKey"}

\* No request is sent while a secret the user refers to cannot be read.  With a
\* token provider every request carries a token.  Without one, where an
\* operation's alternatives are single, declared schemes and the user gave what
\* meets one of them, the request meets one of them; and where no two of the
\* schemes listed share a header, it meets every alternative that can be met,
\* in whatever order the map of schemes is walked (auth.go:35-124,
\* helpers.go:122-171).
Credentialed ==
  \A p \in Procs : pc[p] = "sent" =>
    /\ \A key \in Secrets : Resolve(world, key) # Unresolved
    /\ IF HasProvider("oauth2cc") \/ HasProvider("device") THEN CarriesToken(headers[p])
       ELSE Authorized(headers[p], security[p])

\* However many requests want a token at once, the issuer is not asked for the
\* next before the last one is used up: the mutex is held across the request
\* for it, and who gets it next looks again (oauth2cc.go:69-76).
FetchesSpaced ==
  \A i \in 2..Len(grants) :
    grants[i-1].expiry # 0 /\ grants[i].at + Margin > grants[i-1].expiry
=============================================================================

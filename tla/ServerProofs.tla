---------------------------- MODULE ServerProofs ----------------------------
(***************************************************************************)
(* Theorems about Server and the API client it goes through, for any kind  *)
(* of process, any number of goroutines, any setup and any lifetimes of    *)
(* tokens.                                                                 *)
(***************************************************************************)
EXTENDS Server, Induction

\* What a step of the process does to the API client.
ClientStep ==
  \/ \E p \in Procs : \/ Begin(p) \/ Lock(p) \/ Granted(p) \/ NotGranted(p)
                      \/ Send(p) \/ Return(p)
  \/ Tick
  \/ UNCHANGED clientVars

LEMMA ClientSteps ==
  ASSUME [Next]_vars
  PROVE  ClientStep
<1>1. ASSUME Setup \/ Listen \/ Signal \/ TakeSignal \/ Close \/ Stop
      PROVE  UNCHANGED clientVars
  BY <1>1 DEF Setup, Listen, Signal, TakeSignal, Close, Stop
<1>2. ASSUME Exited \/ UNCHANGED vars
      PROVE  UNCHANGED clientVars
  BY <1>2 DEF Exited, vars
<1>3. ASSUME NEW p \in Procs, Request(p) \/ Proceed(p) \/ Answered(p)
      PROVE  ClientStep
  BY <1>3 DEF Request, Proceed, Answered, ClientStep
<1>4. ASSUME Time
      PROVE  Tick
  BY <1>4 DEF Time
<1>. QED
  BY <1>1, <1>2, <1>3, <1>4 DEF Next, ClientStep

-----------------------------------------------------------------------------
(* Types *)

LEMMA ClientTypeInit == Init => ClientTypeOK
<1>. SUFFICES ASSUME Init
              PROVE  ClientTypeOK
  OBVIOUS
<1>1. world \in Worlds
  BY ServerAssumption DEF Init, ClientInit
<1>. QED
  BY <1>1 DEF Init, ClientInit, ClientTypeOK, NoToken

\* A grant is a record of two naturals.
LEMMA GrantType ==
  ASSUME ClientTypeOK, NEW p \in Procs, NEW life \in Lifetimes
  PROVE  LET expiry == IF life = 0 THEN 0 ELSE now + life
         IN  /\ expiry \in Nat
             /\ Append(grants, [at |-> now, expiry |-> expiry])
                  \in Seq([at : Nat, expiry : Nat])
<1>. DEFINE expiry == IF life = 0 THEN 0 ELSE now + life
<1>1. expiry \in Nat
  BY ClientAssumption DEF ClientTypeOK
<1>2. [at |-> now, expiry |-> expiry] \in [at : Nat, expiry : Nat]
  BY <1>1 DEF ClientTypeOK
<1>3. grants \in Seq([at : Nat, expiry : Nat])
  BY DEF ClientTypeOK
<1>4. Append(grants, [at |-> now, expiry |-> expiry]) \in Seq([at : Nat, expiry : Nat])
  BY <1>2, <1>3
<1>. QED
  BY <1>1, <1>4

LEMMA ClientTypeStep == ClientTypeOK /\ [Next]_vars => ClientTypeOK'
<1>. SUFFICES ASSUME ClientTypeOK, ClientStep
              PROVE  ClientTypeOK'
  BY ClientSteps
<1>1. ASSUME NEW p \in Procs, Begin(p)
      PROVE  ClientTypeOK'
  BY <1>1 DEF Begin, Enter, ClientTypeOK
<1>2. ASSUME NEW p \in Procs, Lock(p)
      PROVE  ClientTypeOK'
  BY <1>2 DEF Lock, Enter, ClientTypeOK
<1>3. ASSUME NEW p \in Procs, Granted(p)
      PROVE  ClientTypeOK'
  <2>1. PICK life \in Lifetimes :
          LET expiry == IF life = 0 THEN 0 ELSE now + life
          IN  /\ token' = expiry
              /\ grants' = Append(grants, [at |-> now, expiry |-> expiry])
              /\ IF Valid(expiry)
                   THEN Enter(p, "ready", WithToken(headers[p], expiry)) /\ UNCHANGED security
                   ELSE Leave(p)
    BY <1>3 DEF Granted
  <2>2. token' \in Nat /\ grants' \in Seq([at : Nat, expiry : Nat])
    BY <2>1, GrantType
  <2>3. \E label \in {"ready", "idle"} : pc' = [pc EXCEPT ![p] = label]
    BY <2>1 DEF Enter, Leave
  <2>4. UNCHANGED <<world, now, requests>> /\ lock' = NoOne
    BY <1>3 DEF Granted
  <2>. QED
    BY <2>2, <2>3, <2>4 DEF ClientTypeOK
<1>4. ASSUME NEW p \in Procs, NotGranted(p)
      PROVE  ClientTypeOK'
  BY <1>4 DEF NotGranted, Leave, Enter, ClientTypeOK
<1>5. ASSUME NEW p \in Procs, Send(p) \/ Return(p)
      PROVE  ClientTypeOK'
  BY <1>5 DEF Send, Return, Leave, Enter, ClientTypeOK
<1>6. ASSUME Tick
      PROVE  ClientTypeOK'
  BY <1>6 DEF Tick, ClientTypeOK
<1>7. ASSUME UNCHANGED clientVars
      PROVE  ClientTypeOK'
  BY <1>7 DEF clientVars, ClientTypeOK
<1>. QED
  BY <1>1, <1>2, <1>3, <1>4, <1>5, <1>6, <1>7 DEF ClientStep

\* The part of ServerTypeOK about the process itself.
LifeTypeOK ==
  /\ phase \in {"starting", "watching", "serving", "exited"}
  /\ signal \in {"none", "queued", "taken"}
  /\ canceled \in BOOLEAN /\ closed \in BOOLEAN
  /\ status \in -1..2
  /\ status = -1 => phase # "exited"
  /\ phase # "exited" => status = -1

LEMMA LifeTypes ==
  /\ ServerTypeOK <=> ClientTypeOK /\ LifeTypeOK
  /\ ServerTypeOK' <=> ClientTypeOK' /\ LifeTypeOK'
BY DEF ServerTypeOK, LifeTypeOK

\* Every variable keeps its type, and a process has an exit status when, and
\* only when, it has ended.
THEOREM Typing == Spec => []ServerTypeOK
<1>1. Init => ServerTypeOK
  <2>. SUFFICES ASSUME Init
                PROVE  ServerTypeOK
    OBVIOUS
  <2>1. ClientTypeOK
    BY ClientTypeInit
  <2>2. LifeTypeOK
    <3>1. canceled \in BOOLEAN /\ closed \in BOOLEAN
      BY Zenon DEF Init
    <3>2. phase = "starting" /\ signal = "none" /\ status = -1
      BY DEF Init
    <3>. QED
      BY <3>1, <3>2 DEF LifeTypeOK
  <2>. QED
    BY <2>1, <2>2, LifeTypes
<1>2. ServerTypeOK /\ [Next]_vars => ServerTypeOK'
  <2>. SUFFICES ASSUME ServerTypeOK, [Next]_vars
                PROVE  ServerTypeOK'
    OBVIOUS
  <2>1. ClientTypeOK' /\ LifeTypeOK
    BY ClientTypeStep, LifeTypes DEF ServerTypeOK
  <2>2. LifeTypeOK'
    <3>1. ASSUME NEW code \in 0..2, Exit(code), UNCHANGED <<signal, canceled, closed>>
          PROVE  LifeTypeOK'
      BY <2>1, <3>1 DEF Exit, LifeTypeOK
    <3>2. CASE Setup
      BY <2>1, <3>1, <3>2 DEF Setup, LifeTypeOK
    <3>3. CASE Listen
      BY <2>1, <3>1, <3>3 DEF Listen, LifeTypeOK
    <3>4. CASE Signal
      <4>1. CASE Watched
        BY <2>1, <3>4, <4>1 DEF Signal, LifeTypeOK
      <4>2. CASE ~Watched
        BY <2>1, <3>1, <3>4, <4>2 DEF Signal
      <4>. QED
        BY <4>1, <4>2
    <3>5. CASE TakeSignal \/ Close
      BY <2>1, <3>5 DEF TakeSignal, Close, Running, LifeTypeOK
    <3>6. CASE Stop
      <4>1. PICK code \in {0, 1} : Exit(code)
        BY <3>6 DEF Stop
      <4>. QED
        BY <3>1, <3>6, <4>1 DEF Stop
    <3>7. CASE UNCHANGED lifeVars
      BY <2>1, <3>7 DEF lifeVars, LifeTypeOK
    <3>8. Next => \/ Setup \/ Listen \/ Signal \/ TakeSignal \/ Close \/ Stop
                  \/ UNCHANGED lifeVars
      BY DEF Next, Request, Proceed, Answered, Time, Exited, vars
    <3>. QED
      BY <3>2, <3>3, <3>4, <3>5, <3>6, <3>7, <3>8 DEF vars
  <2>. QED
    BY <2>1, <2>2, LifeTypes
<1>. QED
  BY <1>1, <1>2, PTL DEF Spec

-----------------------------------------------------------------------------
(* The token.  Who asks for one holds the mutex, and no good one is kept     *)
(* while the issuer is asked; what is kept is the last one granted.          *)

TokenInv ==
  /\ ClientTypeOK
  /\ \A p \in Procs : pc[p] = "fetching" <=> lock = p
  /\ lock # NoOne => ~Valid(token)
  /\ IF grants = << >> THEN token = NoToken ELSE token = grants[Len(grants)].expiry
  /\ FetchesSpaced

LEMMA TokenInit == Init => TokenInv
BY ClientTypeInit, ClientAssumption DEF Init, ClientInit, TokenInv, FetchesSpaced

\* What is in a sequence.
LEMMA Element ==
  ASSUME NEW S, NEW s \in Seq(S), NEW i \in 1..Len(s)
  PROVE  s[i] \in S
OBVIOUS

\* A grant follows one that is used up.
LEMMA GrantSpaced ==
  ASSUME TokenInv, NEW p \in Procs, Granted(p)
  PROVE  /\ FetchesSpaced'
         /\ grants' # << >> /\ token' = grants'[Len(grants')].expiry
<1>1. PICK life \in Lifetimes :
        LET expiry == IF life = 0 THEN 0 ELSE now + life
        IN  /\ token' = expiry
            /\ grants' = Append(grants, [at |-> now, expiry |-> expiry])
  BY DEF Granted
<1>. DEFINE expiry == IF life = 0 THEN 0 ELSE now + life
            g == [at |-> now, expiry |-> expiry]
<1>2. grants \in Seq([at : Nat, expiry : Nat]) /\ g \in [at : Nat, expiry : Nat]
  BY ClientAssumption DEF TokenInv, ClientTypeOK
<1>3. /\ grants' = Append(grants, g) /\ Len(grants') = Len(grants) + 1
      /\ grants'[Len(grants')] = g /\ grants' # << >>
      /\ \A i \in 1..Len(grants) : grants'[i] = grants[i]
      /\ Len(grants) \in Nat
  BY <1>1, <1>2
<1>4. ~Valid(token)
  <2>1. lock = p
    BY DEF Granted, TokenInv
  <2>. QED
    BY <2>1, ClientAssumption DEF TokenInv
<1>5. ASSUME NEW i \in 2..Len(grants')
      PROVE  grants'[i-1].expiry # 0 /\ grants'[i].at + Margin > grants'[i-1].expiry
  <2>1. CASE i \in 2..Len(grants)
    <3>1. grants'[i] = grants[i] /\ grants'[i-1] = grants[i-1]
      BY <2>1, <1>3
    <3>. QED
      BY <2>1, <3>1 DEF TokenInv, FetchesSpaced
  <2>2. CASE i = Len(grants')
    <3>1. i - 1 = Len(grants) /\ i - 1 \in 1..Len(grants) /\ grants # << >>
      BY <2>2, <1>2, <1>3
    <3>2. grants'[i-1] = grants[Len(grants)] /\ grants'[i] = g
      BY <2>2, <1>3, <3>1
    <3>3. token = grants[Len(grants)].expiry /\ token \in Nat /\ now \in Nat
      <4>1. grants[Len(grants)] \in [at : Nat, expiry : Nat]
        <5>1. Len(grants) \in 1..Len(grants)
          BY <3>1
        <5>. QED
          BY <1>2, <5>1, Element
      <4>2. token = grants[Len(grants)].expiry
        BY <3>1 DEF TokenInv
      <4>. QED
        BY <4>1, <4>2 DEF TokenInv, ClientTypeOK
    <3>4. token # 0 /\ now + Margin > token
      BY <3>3, <1>4, ClientAssumption DEF Valid, NoToken
    <3>. QED
      BY <3>2, <3>3, <3>4
  <2>. QED
    BY <2>1, <2>2, <1>3
<1>6. token' = grants'[Len(grants')].expiry
  BY <1>1, <1>3
<1>. QED
  BY <1>3, <1>5, <1>6 DEF FetchesSpaced

LEMMA TokenStep == TokenInv /\ [Next]_vars => TokenInv'
<1>. SUFFICES ASSUME TokenInv, [Next]_vars
              PROVE  TokenInv'
  OBVIOUS
<1>0. ClientTypeOK' /\ ClientTypeOK
  BY ClientTypeStep DEF TokenInv
<1>. DEFINE Mutex == \A p \in Procs : pc[p] = "fetching" <=> lock = p
            Spent == lock # NoOne => ~Valid(token)
            Kept == IF grants = << >> THEN token = NoToken
                    ELSE token = grants[Len(grants)].expiry
<1>1. ASSUME NEW p \in Procs, Begin(p)
      PROVE  TokenInv'
  <2>1. pc[p] = "idle" /\ UNCHANGED <<now, lock, token, grants>>
    BY <1>1 DEF Begin
  <2>2. \E label \in {"idle", "locking", "ready"} : pc' = [pc EXCEPT ![p] = label]
    BY <1>1 DEF Begin, Enter, ClientTypeOK, TokenInv
  <2>3. Mutex'
    BY <2>1, <2>2, <1>0 DEF TokenInv, ClientTypeOK
  <2>. QED
    BY <1>0, <2>1, <2>3 DEF TokenInv, Valid, FetchesSpaced
<1>2. ASSUME NEW p \in Procs, Lock(p)
      PROVE  TokenInv'
  <2>1. pc[p] = "locking" /\ lock = NoOne /\ UNCHANGED <<now, token, grants>>
    BY <1>2 DEF Lock
  <2>2. IF Valid(token) THEN pc' = [pc EXCEPT ![p] = "ready"] /\ lock' = lock
        ELSE pc' = [pc EXCEPT ![p] = "fetching"] /\ lock' = p
    BY <1>2 DEF Lock, Enter
  <2>3. Mutex' /\ Spent'
    BY <2>1, <2>2, <1>0, ClientAssumption DEF TokenInv, ClientTypeOK, Valid
  <2>. QED
    BY <1>0, <2>1, <2>3 DEF TokenInv, FetchesSpaced
<1>3. ASSUME NEW p \in Procs, Granted(p)
      PROVE  TokenInv'
  <2>1. pc[p] = "fetching" /\ lock = p /\ lock' = NoOne
    BY <1>3 DEF Granted, TokenInv
  <2>2. \E label \in {"idle", "ready"} : pc' = [pc EXCEPT ![p] = label]
    BY <1>3 DEF Granted, Enter, Leave
  <2>3. Mutex' /\ Spent'
    BY <2>1, <2>2, <1>0, ClientAssumption DEF TokenInv, ClientTypeOK
  <2>. QED
    BY <1>0, <1>3, <2>3, GrantSpaced DEF TokenInv
<1>4. ASSUME NEW p \in Procs, NotGranted(p)
      PROVE  TokenInv'
  <2>1. /\ pc[p] = "fetching" /\ lock = p /\ lock' = NoOne
        /\ pc' = [pc EXCEPT ![p] = "idle"] /\ UNCHANGED <<now, token, grants>>
    BY <1>4 DEF NotGranted, Leave, Enter, TokenInv
  <2>2. Mutex' /\ Spent'
    BY <2>1, <1>0, ClientAssumption DEF TokenInv, ClientTypeOK
  <2>. QED
    BY <1>0, <2>1, <2>2 DEF TokenInv, FetchesSpaced
<1>5. ASSUME NEW p \in Procs, Send(p) \/ Return(p)
      PROVE  TokenInv'
  <2>1. pc[p] \in {"ready", "sent"} /\ UNCHANGED <<now, lock, token, grants>>
    BY <1>5 DEF Send, Return
  <2>2. \E label \in {"idle", "sent"} : pc' = [pc EXCEPT ![p] = label]
    BY <1>5 DEF Send, Return, Leave, Enter
  <2>3. Mutex'
    BY <2>1, <2>2, <1>0 DEF TokenInv, ClientTypeOK
  <2>. QED
    BY <1>0, <2>1, <2>3 DEF TokenInv, Valid, FetchesSpaced
<1>6. ASSUME Tick
      PROVE  TokenInv'
  <2>1. UNCHANGED <<lock, token, pc, grants>> /\ now' = now + 1 /\ now \in Nat
    BY <1>6, <1>0 DEF Tick, ClientTypeOK
  <2>2. Spent'
    BY <2>1, <1>0, ClientAssumption DEF TokenInv, Valid, ClientTypeOK, NoToken
  <2>. QED
    BY <1>0, <2>1, <2>2 DEF TokenInv, FetchesSpaced
<1>7. ASSUME UNCHANGED clientVars
      PROVE  TokenInv'
  BY <1>0, <1>7 DEF clientVars, TokenInv, Valid, FetchesSpaced
<1>. QED
  BY <1>1, <1>2, <1>3, <1>4, <1>5, <1>6, <1>7, ClientSteps DEF ClientStep

\* However many requests want a token, the issuer is asked for one at a time
\* and not before the last one is used up (oauth2cc.go:69-76).
THEOREM Spacing == Spec => []FetchesSpaced
<1>1. TokenInv => FetchesSpaced
  BY DEF TokenInv
<1>. QED
  BY <1>1, TokenInit, TokenStep, PTL DEF Spec

-----------------------------------------------------------------------------
(* The static credentials.                                                   *)

\* What headers may be called, and hold, before the providers are asked.
HeaderNames ==
  {"Authorization", "X-API-Key", Config(world).param}
  \cup {Declared[i].param : i \in DOMAIN Declared}
HeaderValues ==
  {<<"Bearer", Config(world).bearer>>, <<"Basic", Config(world).basic>>,
   <<"Key", Config(world).apikey>>}
Headers == UNION {[D -> HeaderValues] : D \in SUBSET HeaderNames}

LEMMA NoHeaders == << >> \in Headers
<1>1. << >> \in [{} -> HeaderValues]
  OBVIOUS
<1>. QED
  BY <1>1 DEF Headers

LEMMA PutTyped ==
  ASSUME NEW h \in Headers, NEW name \in HeaderNames, NEW value \in HeaderValues
  PROVE  Put(h, name, value) \in Headers
<1>1. PICK D \in SUBSET HeaderNames : h \in [D -> HeaderValues]
  BY DEF Headers
<1>2. Put(h, name, value) \in [D \cup {name} -> HeaderValues]
  BY <1>1 DEF Put
<1>. QED
  BY <1>2 DEF Headers

LEMMA ForemostDeclared ==
  ASSUME NEW places \in SUBSET DOMAIN Declared, places # {}
  PROVE  \E i \in places : Foremost(places) = Declared[i]
<1>1. places \subseteq Nat
  BY ClientAssumption
<1>2. \E i \in places : \A j \in places : i <= j
  BY <1>1, Least
<1>. QED
  BY <1>2 DEF Foremost

\* A declared name is that of one scheme.
LEMMA OneScheme ==
  ASSUME NEW i \in DOMAIN Declared
  PROVE  Places(Declared[i].name) = {i} /\ Scheme(Declared[i].name) = Declared[i]
<1>1. Places(Declared[i].name) = {i}
  BY ClientAssumption DEF Places
<1>2. \E k \in {i} : Foremost({i}) = Declared[k]
  BY ForemostDeclared
<1>. QED
  BY <1>1, <1>2 DEF Scheme

LEMMA AuthorizationTyped ==
  ASSUME NEW h \in Headers
  PROVE  Bearer(h) \in Headers /\ Basic(h) \in Headers
<1>1. /\ "Authorization" \in HeaderNames
      /\ <<"Bearer", Config(world).bearer>> \in HeaderValues
      /\ <<"Basic", Config(world).basic>> \in HeaderValues
  BY DEF HeaderNames, HeaderValues
<1>. QED
  BY <1>1, PutTyped DEF Bearer, Basic, PutUnless

LEMMA DirectTyped ==
  ASSUME NEW h \in Headers
  PROVE  Direct(h) \in Headers
<1>. DEFINE keyed == {i \in DOMAIN Declared : Declared[i].type = "apiKey"}
            first == Foremost(keyed)
            named == IF Config(world).bearer # "" THEN Bearer(h) ELSE Basic(h)
            key == <<"Key", Config(world).apikey>>
<1>1. named \in Headers
  BY AuthorizationTyped
<1>2. keyed # {} => first.param \in HeaderNames
  <2>1. keyed # {} => \E i \in keyed : first = Declared[i]
    BY ForemostDeclared
  <2>. QED
    BY <2>1 DEF HeaderNames
<1>3. "X-API-Key" \in HeaderNames /\ Config(world).param \in HeaderNames
  BY DEF HeaderNames
<1>4. key \in HeaderValues
  BY DEF HeaderValues
<1>5. Direct(h) \in {named, Put(named, Config(world).param, key),
                     Put(named, "X-API-Key", key)}
         \cup (IF keyed = {} THEN {} ELSE {Put(named, first.param, key)})
  BY DEF Direct
<1>. HIDE DEF keyed, first, named, key
<1>. QED
  BY <1>1, <1>2, <1>3, <1>4, <1>5, PutTyped

\* A declared scheme puts what meets it under its header, where it can be met.
LEMMA SchemeApplied ==
  ASSUME NEW h, NEW i \in DOMAIN Declared
  PROVE  ApplyScheme(h, Declared[i].name) =
           IF CanMeet(Declared[i]) THEN Put(h, HeaderOf(Declared[i]), Wanted(Declared[i])) ELSE h
<1>. DEFINE s == Declared[i]
<1>1. Places(s.name) # {} /\ Scheme(s.name) = s
  BY OneScheme
<1>. HIDE DEF s
<1>2. TakesBearer(s) => s.type = "http"
  BY DEF TakesBearer
<1>3. TakesBasic(s) => s.type = "http"
  BY DEF TakesBasic
<1>4. TakesKey(s) => s.type # "http"
  BY DEF TakesKey
<1>5. ApplyScheme(h, s.name) = IF CanMeet(s) THEN Put(h, HeaderOf(s), Wanted(s)) ELSE h
  BY <1>1, <1>2, <1>3, <1>4 DEF ApplyScheme, CanMeet, HeaderOf, Wanted, Bearer, Basic, PutUnless
<1>. QED
  BY <1>5 DEF s

LEMMA ApplyTyped ==
  ASSUME NEW h \in Headers, NEW name
  PROVE  ApplyScheme(h, name) \in Headers
<1>1. CASE Places(name) = {}
  BY <1>1, DirectTyped DEF ApplyScheme
<1>2. CASE Places(name) # {}
  <2>1. PICK i \in DOMAIN Declared : Declared[i].name = name
    BY <1>2 DEF Places
  <2>. DEFINE s == Declared[i]
  <2>2. ASSUME CanMeet(s)
        PROVE  HeaderOf(s) \in HeaderNames /\ Wanted(s) \in HeaderValues
    BY <2>2 DEF CanMeet, Wanted, HeaderOf, KeyName, HeaderNames, HeaderValues, TakesBearer, TakesBasic, TakesKey
  <2>. HIDE DEF s
  <2>3. CanMeet(s) => Put(h, HeaderOf(s), Wanted(s)) \in Headers
    BY <2>2, PutTyped
  <2>. QED
    BY <2>1, <2>3, SchemeApplied DEF s
<1>. QED
  BY <1>1, <1>2

\* What is before a place in a sequence.
Earlier(n) == [k \in 0..n |-> 0..(k - 1)]

LEMMA EarlierWellFounded ==
  ASSUME NEW n \in Nat
  PROVE  WellFounded(0..n, Earlier(n))
<1>1. Earlier(n) \in [0..n -> SUBSET (0..n)]
  BY DEF Earlier
<1>2. ASSUME NEW S \in SUBSET (0..n), S # {}
      PROVE  \E k \in S : Earlier(n)[k] \cap S = {}
  <2>1. PICK k \in S : \A m \in S : k <= m
    BY <1>2, Least
  <2>. QED
    BY <2>1 DEF Earlier
<1>. QED
  BY <1>1, <1>2 DEF WellFounded

\* The headers that names leave behind, one after the other.
Passes(names, after) ==
  /\ after \in [0..Len(names) -> Headers]
  /\ after[0] = << >>
  /\ \A k \in 1..Len(names) : after[k] = ApplyScheme(after[k - 1], names[k])
  /\ names # << >> => Injected(names) = after[Len(names)]

LEMMA InjectionPasses ==
  ASSUME NEW names, Len(names) \in Nat
  PROVE  \E after : Passes(names, after)
<1>. DEFINE X == 0..Len(names)
            Pass(f, k) == IF k = 0 THEN << >> ELSE ApplyScheme(f[k - 1], names[k])
            G == [f \in [X -> Headers] |-> [k \in X |-> Pass(f, k)]]
            after[k \in 0..Len(names)] ==
              IF k = 0 THEN << >> ELSE ApplyScheme(after[k - 1], names[k])
<1>1. ASSUME NEW f \in [X -> Headers], NEW k \in X
      PROVE  Pass(f, k) \in Headers
  BY NoHeaders, ApplyTyped
<1>2. ASSUME NEW f \in [X -> Headers], NEW g \in [X -> Headers], NEW k \in X,
             AgreeOn(Earlier(Len(names))[k], f, g)
      PROVE  Pass(f, k) = Pass(g, k)
  <2>1. k # 0 => f[k - 1] = g[k - 1]
    BY <1>2 DEF AgreeOn, Earlier
  <2>. QED
    BY <2>1
<1>. HIDE DEF Pass
<1>3. Body(X, Headers, Earlier(Len(names)), G)
  BY <1>1, <1>2 DEF Body
<1>4. HasFixpoint(X, Headers, G)
  <2>. HIDE DEF G, X
  <2>1. WellFounded(X, Earlier(Len(names)))
    BY EarlierWellFounded DEF X
  <2>. QED
    BY <1>3, <2>1, NoHeaders, Recursion
<1>5. PICK f \in [X -> Headers] : \A k \in X : f[k] = G[f][k]
  BY <1>4 DEF HasFixpoint
<1>6. f = [k \in X |-> Pass(f, k)]
  BY <1>5
<1>7. after = [k \in X |-> Pass(after, k)]
  BY <1>6 DEF Pass
<1>8. after \in [X -> Headers]
  <2>. DEFINE S == {k \in Nat : k \in X => after[k] \in Headers}
  <2>. HIDE DEF after
  <2>1. ASSUME NEW k \in X
        PROVE  after[k] = Pass(after, k)
    BY <1>7
  <2>2. 0 \in S
    BY <2>1, NoHeaders DEF Pass
  <2>3. \A k \in Nat : k \in S => k + 1 \in S
    BY <2>1, ApplyTyped DEF Pass
  <2>. HIDE DEF S
  <2>4. Nat \subseteq S
    BY <2>2, <2>3, InductionOverNat
  <2>5. \A k \in X : after[k] \in Headers
    BY <2>4 DEF S
  <2>. QED
    BY <1>7, <2>5
<1>9. names # << >> => Injected(names) = after[Len(names)]
  BY DEF Injected
<1>. HIDE DEF after
<1>10. after[0] = << >> /\ \A k \in 1..Len(names) : after[k] = ApplyScheme(after[k - 1], names[k])
  <2>1. \A k \in X : after[k] = Pass(after, k)
    BY <1>7
  <2>2. 0 \in X /\ 1..Len(names) \subseteq X \ {0}
    OBVIOUS
  <2>3. after[0] = << >>
    BY <2>1, <2>2 DEF Pass
  <2>4. ASSUME NEW k \in 1..Len(names)
        PROVE  after[k] = ApplyScheme(after[k - 1], names[k])
    BY <2>1, <2>2 DEF Pass
  <2>. QED
    BY <2>3, <2>4
<1>. QED
  BY <1>8, <1>9, <1>10 DEF Passes

\* Every element of a set is in each of its listings.
LEMMA Listing ==
  ASSUME NEW S, IsFiniteSet(S), NEW order \in SetToSeqs(S)
  PROVE  /\ Cardinality(S) \in Nat
         /\ order \in [1..Cardinality(S) -> S]
         /\ \A x \in S : \E k \in DOMAIN order : order[k] = x
<1>. DEFINE n == Cardinality(S)
<1>1. n \in Nat
  BY FS_CardinalityType
<1>2. order \in [1..n -> S] /\ \A i, j \in 1..n : i # j => order[i] # order[j]
  BY DEF SetToSeqs
<1>3. order \in Injection(1..n, S)
  BY <1>2 DEF Injection, IsInjective
<1>4. Cardinality(1..n) = n
  BY <1>1, FS_Interval
<1>5. order \in Surjection(1..n, S)
  BY <1>3, <1>4, FS_Injection
<1>. QED
  BY <1>1, <1>2, <1>5 DEF Surjection

\* The names that are gone through are those that the security lists.
LEMMA NamesListed ==
  ASSUME world \in Worlds, NEW sec \in world.operations, sec # << >>,
         NEW names \in SchemeNames(sec)
  PROVE  /\ Len(names) \in Nat
         /\ \A k \in 1..Len(names) : \E j \in DOMAIN sec : names[k] \in sec[j]
         /\ \A j \in DOMAIN sec : \A name \in sec[j] : \E k \in 1..Len(names) : names[k] = name
<1>1. sec \in Seq(SUBSET STRING) /\ \A j \in DOMAIN sec : IsFiniteSet(sec[j])
  BY SettingsAssumption DEF WorldOK
<1>2. IsFiniteSet(Asked(sec))
  <2>. DEFINE Pairs(j) == {j} \X sec[j]
  <2>1. IsFiniteSet(DOMAIN sec)
    BY <1>1, FS_Interval
  <2>2. IsFiniteSet({Pairs(j) : j \in DOMAIN sec})
    <3>. DEFINE P == [j \in DOMAIN sec |-> Pairs(j)]
    <3>1. P \in Surjection(DOMAIN sec, {Pairs(j) : j \in DOMAIN sec})
      BY DEF Surjection
    <3>. QED
      BY <2>1, <3>1, FS_Surjection
  <2>3. \A j \in DOMAIN sec : IsFiniteSet(Pairs(j))
    BY <1>1, FS_Singleton, FS_Product
  <2>. QED
    BY <2>2, <2>3, FS_UNION DEF Asked
<1>3. PICK order \in SetToSeqs(Asked(sec)) : names = [k \in DOMAIN order |-> order[k][2]]
  BY DEF SchemeNames
<1>. DEFINE n == Cardinality(Asked(sec))
<1>4. /\ n \in Nat /\ order \in [1..n -> Asked(sec)]
      /\ \A x \in Asked(sec) : \E k \in DOMAIN order : order[k] = x
  BY <1>2, Listing
<1>5. \A k \in 1..n : \E j \in DOMAIN sec : names[k] \in sec[j]
  BY <1>3, <1>4 DEF Asked
<1>6. names \in [1..n -> STRING] /\ Len(names) = n
  <2>1. \A k \in 1..n : names[k] \in STRING
    BY <1>1, <1>5
  <2>2. names \in [1..n -> STRING]
    BY <1>3, <1>4, <2>1
  <2>3. names \in Seq(STRING)
    BY <2>2, <1>4
  <2>. QED
    BY <2>2, <2>3, <1>4
<1>7. ASSUME NEW j \in DOMAIN sec, NEW name \in sec[j]
      PROVE  \E k \in 1..n : names[k] = name
  <2>1. <<j, name>> \in Asked(sec)
    BY DEF Asked
  <2>2. PICK k \in 1..n : order[k] = <<j, name>>
    BY <1>4, <2>1
  <2>. QED
    BY <1>3, <1>4, <2>2
<1>. QED
  BY <1>4, <1>5, <1>6, <1>7

DeclaredNames(names) == \A k \in 1..Len(names) : Places(names[k]) # {}

\* What one more name does.
LEMMA OnePass ==
  ASSUME NEW names, NEW after, Passes(names, after), Len(names) \in Nat, DeclaredNames(names),
         NEW m \in Nat, m + 1 \in 1..Len(names)
  PROVE  LET s == Scheme(names[m + 1])
         IN  IF CanMeet(s)
               THEN /\ after[m + 1] = Put(after[m], HeaderOf(s), Wanted(s))
                    /\ Meets(after[m + 1], s)
               ELSE after[m + 1] = after[m]
<1>. DEFINE k == m + 1
            s == Scheme(names[k])
<1>1. after[k] = ApplyScheme(after[m], names[k])
  BY DEF Passes
<1>2. PICK i \in DOMAIN Declared : Declared[i].name = names[k]
  BY DEF DeclaredNames, Places
<1>3. s = Declared[i]
  BY <1>2, OneScheme
<1>4. after[k] = IF CanMeet(s) THEN Put(after[m], HeaderOf(s), Wanted(s)) ELSE after[m]
  BY <1>1, <1>2, <1>3, SchemeApplied
<1>. HIDE DEF k, s
<1>5. CanMeet(s) => Meets(after[k], s)
  BY <1>4 DEF Meets, Put
<1>. QED
  BY <1>4, <1>5 DEF k, s

\* Of the schemes that can be met the last one is.
LEMMA LastIsMet ==
  ASSUME NEW names, NEW after, Passes(names, after), Len(names) \in Nat, DeclaredNames(names),
         \E k \in 1..Len(names) : CanMeet(Scheme(names[k]))
  PROVE  \E k \in 1..Len(names) : /\ CanMeet(Scheme(names[k]))
                                  /\ Meets(after[Len(names)], Scheme(names[k]))
<1>. DEFINE n == Len(names)
            Some(m) == \E k \in 1..m : CanMeet(Scheme(names[k]))
            OneMet(m) == \E k \in 1..m : /\ CanMeet(Scheme(names[k]))
                                         /\ Meets(after[m], Scheme(names[k]))
            S == {m \in Nat : m <= n /\ Some(m) => OneMet(m)}
<1>1. 0 \in S
  OBVIOUS
<1>2. ASSUME NEW m \in Nat, m \in S
      PROVE  m + 1 \in S
  <2>. SUFFICES ASSUME m + 1 \in 1..n, Some(m + 1)
                PROVE  OneMet(m + 1)
    OBVIOUS
  <2>1. CASE CanMeet(Scheme(names[m + 1]))
    <3>1. Meets(after[m + 1], Scheme(names[m + 1]))
      BY <2>1, OnePass
    <3>. QED
      BY <2>1, <3>1
  <2>2. CASE ~CanMeet(Scheme(names[m + 1]))
    <3>1. after[m + 1] = after[m]
      BY <2>2, OnePass
    <3>2. Some(m)
      BY <2>2
    <3>3. OneMet(m)
      BY <1>2, <3>2
    <3>. QED
      BY <3>1, <3>3
  <2>. QED
    BY <2>1, <2>2
<1>. HIDE DEF S
<1>3. Nat \subseteq S
  BY <1>1, <1>2, InductionOverNat
<1>. QED
  BY <1>3 DEF S

\* Where no two of the schemes share a header, all that can be met are.
LEMMA AllAreMet ==
  ASSUME NEW names, NEW after, Passes(names, after), Len(names) \in Nat, DeclaredNames(names),
         \A k, l \in 1..Len(names) :
           HeaderOf(Scheme(names[k])) = HeaderOf(Scheme(names[l]))
             => Scheme(names[k]) = Scheme(names[l])
  PROVE  \A k \in 1..Len(names) :
           CanMeet(Scheme(names[k])) => Meets(after[Len(names)], Scheme(names[k]))
<1>. DEFINE n == Len(names)
            AllMet(m) == \A k \in 1..m :
                           CanMeet(Scheme(names[k])) => Meets(after[m], Scheme(names[k]))
            S == {m \in Nat : m <= n => AllMet(m)}
<1>1. 0 \in S
  OBVIOUS
<1>2. ASSUME NEW m \in Nat, m \in S
      PROVE  m + 1 \in S
  <2>. SUFFICES ASSUME m + 1 \in 1..n, NEW k \in 1..(m + 1), CanMeet(Scheme(names[k]))
                PROVE  Meets(after[m + 1], Scheme(names[k]))
    OBVIOUS
  <2>. DEFINE s == Scheme(names[m + 1])
              t == Scheme(names[k])
  <2>1. IF CanMeet(s) THEN after[m + 1] = Put(after[m], HeaderOf(s), Wanted(s))
                           /\ Meets(after[m + 1], s)
        ELSE after[m + 1] = after[m]
    BY OnePass
  <2>2. CASE k = m + 1
    BY <2>1, <2>2
  <2>3. CASE k # m + 1
    <3>1. Meets(after[m], t)
      BY <1>2, <2>3
    <3>2. HeaderOf(t) = HeaderOf(s) => t = s
      OBVIOUS
    <3>. HIDE DEF s, t
    <3>3. CASE ~CanMeet(s)
      BY <2>1, <3>1, <3>3 DEF t
    <3>4. CASE CanMeet(s) /\ t = s
      BY <2>1, <3>4 DEF t
    <3>5. CASE CanMeet(s) /\ HeaderOf(t) # HeaderOf(s)
      <4>1. after[m + 1] = Put(after[m], HeaderOf(s), Wanted(s))
        BY <2>1, <3>5
      <4>2. Meets(after[m + 1], t)
        BY <3>1, <3>5, <4>1 DEF Meets, Put
      <4>. QED
        BY <4>2 DEF t
    <3>. QED
      BY <3>2, <3>3, <3>4, <3>5
  <2>. QED
    BY <2>2, <2>3
<1>. HIDE DEF S
<1>3. Nat \subseteq S
  BY <1>1, <1>2, InductionOverNat
<1>. QED
  BY <1>3 DEF S

\* Nobody keeps a key under a header that the AWS provider sets.
NoAWSKeys ==
  /\ \A w \in Worlds : Config(w).param \notin {"X-Amz-Date", "X-Amz-Security-Token"}
  /\ \A i \in DOMAIN Declared :
       Declared[i].param \notin {"X-Amz-Date", "X-Amz-Security-Token"}

LEMMA DatedMeets ==
  ASSUME world \in Worlds, NoAWSKeys, NEW h, NEW i \in DOMAIN Declared, Meets(h, Declared[i])
  PROVE  Meets(Dated(h), Declared[i])
<1>1. HeaderOf(Declared[i]) \notin {"X-Amz-Date", "X-Amz-Security-Token"}
  BY DEF HeaderOf, KeyName, NoAWSKeys
<1>. QED
  BY <1>1 DEF Meets, Dated, Put, PutUnless

\* The injected credentials do what the security of the operation asks.
LEMMA InjectedAuthorizes ==
  ASSUME world \in Worlds, NoAWSKeys, NEW sec \in world.operations,
         NEW names \in SchemeNames(sec)
  PROVE  Authorized(Dated(Injected(names)), sec)
<1>. DEFINE n == Len(names)
            h == Dated(Injected(names))
<1>1. CASE sec = << >>
  BY <1>1 DEF Authorized
<1>2. CASE sec # << >>
  <2>. SUFFICES ASSUME AllDeclared(sec)
                PROVE  /\ Single(sec) /\ (\E j \in DOMAIN sec : CanBeMet(sec, j))
                            => \E j \in DOMAIN sec : IsMet(h, sec, j)
                       /\ Apart(sec) =>
                            \A j \in DOMAIN sec : CanBeMet(sec, j) => IsMet(h, sec, j)
    BY DEF Authorized
  <2>1. /\ n \in Nat
        /\ \A k \in 1..n : \E j \in DOMAIN sec : names[k] \in sec[j]
        /\ \A j \in DOMAIN sec : \A name \in sec[j] : \E k \in 1..n : names[k] = name
    BY <1>2, NamesListed
  <2>2. DeclaredNames(names)
    BY <2>1 DEF DeclaredNames, AllDeclared
  <2>3. PICK after : Passes(names, after)
    BY <2>1, InjectionPasses
  <2>4. n \in Nat \ {0} => Injected(names) = after[n]
    BY <2>3 DEF Passes
  <2>5. \A k \in 1..n : \E i \in DOMAIN Declared :
          Declared[i].name = names[k] /\ Scheme(names[k]) = Declared[i]
    BY <2>2, OneScheme DEF DeclaredNames, Places
  <2>6. ASSUME NEW j \in DOMAIN sec, NEW i \in Alternative(sec, j)
        PROVE  \E k \in 1..n : names[k] = Declared[i].name /\ Scheme(names[k]) = Declared[i]
    BY <2>1, OneScheme DEF Alternative
  <2>7. ASSUME Single(sec), NEW l \in DOMAIN sec, CanBeMet(sec, l)
        PROVE  \E j \in DOMAIN sec : IsMet(h, sec, j)
    <3>1. PICK i \in Alternative(sec, l) : CanMeet(Declared[i])
      BY <2>7 DEF Single, AllDeclared, CanBeMet, Alternative, Places
    <3>2. PICK k \in 1..n : Scheme(names[k]) = Declared[i]
      BY <2>6
    <3>3. PICK m \in 1..n : Meets(after[n], Scheme(names[m]))
      BY <2>1, <2>2, <2>3, <3>1, <3>2, LastIsMet
    <3>4. PICK j \in DOMAIN sec : sec[j] = {names[m]}
      BY <2>1, <2>7 DEF Single
    <3>5. ASSUME NEW q \in Alternative(sec, j)
          PROVE  Meets(h, Declared[q])
      <4>1. q \in DOMAIN Declared /\ Declared[q].name = names[m]
        BY <3>4, <3>5 DEF Alternative
      <4>2. Scheme(names[m]) = Declared[q]
        BY <4>1, OneScheme
      <4>3. Meets(Injected(names), Declared[q])
        BY <2>1, <2>4, <3>3, <4>2
      <4>. QED
        BY <4>1, <4>3, DatedMeets
    <3>. QED
      BY <3>5 DEF IsMet
  <2>8. ASSUME Apart(sec), NEW j \in DOMAIN sec, CanBeMet(sec, j), NEW i \in Alternative(sec, j)
        PROVE  Meets(h, Declared[i])
    <3>1. \A k, l \in 1..n : HeaderOf(Scheme(names[k])) = HeaderOf(Scheme(names[l]))
                               => Scheme(names[k]) = Scheme(names[l])
      <4>1. ASSUME NEW k \in 1..n
            PROVE  \E q \in Listed(sec) : Scheme(names[k]) = Declared[q]
        BY <2>1, <2>5 DEF Listed, Alternative
      <4>. QED
        BY <4>1, <2>8 DEF Apart
    <3>2. PICK k \in 1..n : Scheme(names[k]) = Declared[i]
      BY <2>6
    <3>3. CanMeet(Declared[i])
      BY <2>8 DEF CanBeMet
    <3>4. Meets(after[n], Declared[i])
      BY <2>1, <2>2, <2>3, <3>1, <3>2, <3>3, AllAreMet
    <3>5. Meets(Injected(names), Declared[i])
      BY <2>1, <2>4, <3>2, <3>4
    <3>. QED
      BY <3>5, DatedMeets DEF Alternative
  <2>. HIDE DEF h
  <2>. QED
    BY <2>7, <2>8 DEF IsMet
<1>. QED
  BY <1>1, <1>2

\* Requests are only begun by a process that could be set up.
SetUp == phase \in {"watching", "serving"} \/ (\E p \in Procs : pc[p] # "idle") => ~SetupFails(world)

SetUpInv ==
  /\ pc \in [Procs -> {"idle", "locking", "fetching", "ready", "sent"}]
  /\ SetUp

LEMMA SetUpInit == Init => SetUpInv
BY DEF Init, ClientInit, SetUpInv, SetUp

LEMMA SetUpStep == ClientTypeOK /\ SetUpInv /\ [Next]_vars => SetUpInv'
<1>. SUFFICES ASSUME ClientTypeOK, SetUpInv, [Next]_vars
              PROVE  SetUpInv'
  OBVIOUS
<1>0. pc' \in [Procs -> {"idle", "locking", "fetching", "ready", "sent"}]
  BY ClientTypeStep DEF ClientTypeOK
<1>1. CASE Setup
  <2>1. UNCHANGED <<pc, world>>
    BY <1>1 DEF Setup, clientVars
  <2>2. phase' \in {"watching", "serving"} => ~SetupFails(world)
    BY <1>1 DEF Setup, Exit
  <2>. QED
    BY <1>0, <2>1, <2>2 DEF SetUpInv, SetUp
<1>2. CASE Listen \/ Signal \/ TakeSignal \/ Close \/ Stop \/ Exited \/ UNCHANGED vars
  <2>1. UNCHANGED <<pc, world>>
    BY <1>2 DEF Listen, Signal, TakeSignal, Close, Stop, Exited, vars, clientVars
  <2>2. phase' = "exited" \/ phase' = phase \/ (phase = "watching" /\ phase' = "serving")
    BY <1>2 DEF Listen, Signal, TakeSignal, Close, Stop, Exited, vars, lifeVars, Exit
  <2>. QED
    BY <1>0, <2>1, <2>2 DEF SetUpInv, SetUp
<1>3. ASSUME NEW p \in Procs, Request(p)
      PROVE  SetUpInv'
  <2>1. phase = "serving" /\ UNCHANGED <<phase, world>>
    BY <1>3 DEF Request, MayBegin, Begin, lifeVars
  <2>. QED
    BY <1>0, <2>1 DEF SetUpInv, SetUp
<1>4. ASSUME NEW p \in Procs, Proceed(p) \/ Answered(p)
      PROVE  SetUpInv'
  <2>1. pc[p] # "idle" /\ UNCHANGED <<phase, world>>
    BY <1>4 DEF Proceed, Answered, Lock, Send, Granted, NotGranted, Return, lifeVars
  <2>. QED
    BY <1>0, <2>1 DEF SetUpInv, SetUp
<1>5. CASE Time
  BY <1>0, <1>5 DEF Time, Tick, lifeVars, SetUpInv, SetUp
<1>. QED
  BY <1>1, <1>2, <1>3, <1>4, <1>5 DEF Next

\* Where the setup does not fail every secret can be read.
LEMMA SecretsRead ==
  ASSUME NEW w \in Worlds, ~SetupFails(w), NEW key \in Secrets
  PROVE  Resolve(w, key) # Unresolved
<1>1. /\ DOMAIN Unset = {"text", "scheme", "body"} /\ Unset.scheme = ""
      /\ \A k \in DOMAIN w.given : w.given[k].text = "" => w.given[k].scheme = ""
      /\ \A k \in DOMAIN w.profile : w.profile[k].text = "" => w.profile[k].scheme = ""
  BY SettingsAssumption DEF WorldOK, Unset
<1>2. \A k : Text(w, k) = "" => Resolve(w, k) = ""
  BY <1>1 DEF Text, Setting, Resolve, SecretSchemes
<1>3. CASE key \in {"bearer", "apikey"}
  BY <1>3 DEF SetupFails
<1>4. CASE key = "clientSecret"
  <2>. SUFFICES ASSUME Resolve(w, "clientSecret") = Unresolved
                PROVE  FALSE
    BY <1>4
  <2>1. OAuth2Provider(w) = Failed
    BY DEF OAuth2Provider
  <2>2. SigV4Provider(w) \in {<< >>, <<"error">>, <<"sigv4">>}
    BY DEF SigV4Provider, Failed
  <2>3. 1 \in DOMAIN Providers(w) /\ Providers(w)[1] = "error"
    BY <2>1, <2>2 DEF Providers, Failed
  <2>. QED
    BY <2>3 DEF SetupFails, Failed
<1>5. CASE key \in {"accessKey", "secretKey"}
  <2>. SUFFICES ASSUME Resolve(w, key) = Unresolved
                PROVE  FALSE
    OBVIOUS
  <2>1. Text(w, key) # ""
    BY <1>2 DEF Unresolved
  <2>2. SigV4Provider(w) = Failed
    BY <1>5, <2>1 DEF SigV4Provider
  <2>3. OAuth2Provider(w) \in {<< >>, <<"error">>, <<"device">>, <<"oauth2cc">>}
    BY DEF OAuth2Provider, DeviceProvider, Failed
  <2>4. \E i \in DOMAIN Providers(w) : Providers(w)[i] = "error"
    <3>. DEFINE m == Len(OAuth2Provider(w))
    <3>1. m \in Nat /\ m + 1 \in DOMAIN Providers(w) /\ Providers(w)[m + 1] = "error"
      BY <2>2, <2>3 DEF Providers, Failed
    <3>. QED
      BY <3>1
  <2>. QED
    BY <2>4 DEF SetupFails, Failed
<1>. QED
  BY <1>3, <1>4, <1>5 DEF Secrets

\* What a request that is ready carries.
Proper(h, sec) ==
  IF HasProvider("oauth2cc") \/ HasProvider("device") THEN CarriesToken(h)
  ELSE Authorized(h, sec)

CarryInv ==
  /\ pc \in [Procs -> {"idle", "locking", "fetching", "ready", "sent"}]
  /\ DOMAIN headers = Procs /\ security = [p \in Procs |-> security[p]]
  /\ \A p \in Procs : pc[p] \in {"locking", "fetching"} => HasProvider("oauth2cc")
  /\ \A p \in Procs : \A h, sec :
       pc[p] \in {"ready", "sent"} /\ h = headers[p] /\ sec = security[p] => Proper(h, sec)

LEMMA CarryInit == Init => CarryInv
BY DEF Init, ClientInit, CarryInv

\* What a request has to carry depends on the setup alone.
LEMMA SameSetup ==
  ASSUME UNCHANGED world
  PROVE  /\ \A h, sec : Proper(h, sec)' <=> Proper(h, sec)
         /\ \A name : HasProvider(name)' <=> HasProvider(name)
<1>1. \A s : KeyName(s)' = KeyName(s)
  BY DEF KeyName
<1>2. \A s : TakesKey(s)' <=> TakesKey(s)
  BY <1>1 DEF TakesKey
<1>3. \A s : HeaderOf(s)' = HeaderOf(s) /\ Wanted(s)' = Wanted(s)
  BY <1>1, <1>2 DEF HeaderOf, Wanted
<1>4. /\ \A s : CanMeet(s)' <=> CanMeet(s)
      /\ \A h, s : Meets(h, s)' <=> Meets(h, s)
  BY <1>3 DEF CanMeet, Meets
<1>5. /\ \A sec, j : CanBeMet(sec, j)' <=> CanBeMet(sec, j)
      /\ \A h, sec, j : IsMet(h, sec, j)' <=> IsMet(h, sec, j)
      /\ \A sec : Apart(sec)' <=> Apart(sec)
  BY <1>3, <1>4 DEF CanBeMet, IsMet, Apart
<1>6. \A h, sec : Authorized(h, sec)' <=> Authorized(h, sec)
  BY <1>5 DEF Authorized
<1>7. \A name : HasProvider(name)' <=> HasProvider(name)
  BY DEF HasProvider
<1>. QED
  BY <1>6, <1>7 DEF Proper

\* A step of one goroutine leaves what the others carry alone.
LEMMA OthersCarry ==
  ASSUME CarryInv, NEW p \in Procs, NEW label, NEW h, NEW sec, Enter(p, label, h),
         security' = [security EXCEPT ![p] = sec], UNCHANGED world,
         label \in {"idle", "locking", "fetching", "ready", "sent"},
         label \in {"locking", "fetching"} => HasProvider("oauth2cc"),
         label \in {"ready", "sent"} => Proper(h, sec)
  PROVE  CarryInv'
<1>1. /\ pc' \in [Procs -> {"idle", "locking", "fetching", "ready", "sent"}]
      /\ DOMAIN headers' = Procs /\ security' = [q \in Procs |-> security'[q]]
      /\ pc'[p] = label /\ headers'[p] = h /\ security'[p] = sec
      /\ \A q \in Procs \ {p} : /\ pc'[q] = pc[q] /\ headers'[q] = headers[q]
                                /\ security'[q] = security[q]
  BY DEF Enter, CarryInv
<1>2. ASSUME NEW q \in Procs, pc'[q] \in {"locking", "fetching"}
      PROVE  HasProvider("oauth2cc")'
  BY <1>1, <1>2, SameSetup DEF CarryInv
<1>3. ASSUME NEW q \in Procs, NEW g, NEW s,
             pc'[q] \in {"ready", "sent"}, g = headers'[q], s = security'[q]
      PROVE  Proper(g, s)'
  <2>1. Proper(g, s)
    BY <1>1, <1>3 DEF CarryInv
  <2>. QED
    BY <2>1, SameSetup
<1>. QED
  BY <1>1, <1>2, <1>3 DEF CarryInv

LEMMA TokenCarried == \A h, expiry : CarriesToken(WithToken(h, expiry))
<1>. TAKE h, expiry
<1>. DEFINE t == Put(h, "Authorization", <<"Token", expiry>>)
<1>1. CarriesToken(t)
  BY DEF Put, CarriesToken
<1>. HIDE DEF t
<1>2. \A d : CarriesToken(Put(t, "X-Amz-Date", d))
  BY <1>1 DEF Put, CarriesToken
<1>3. \A d, s : CarriesToken(Put(Put(t, "X-Amz-Date", d), "X-Amz-Security-Token", s))
  BY <1>2 DEF Put, CarriesToken
<1>. QED
  BY <1>1, <1>2, <1>3 DEF WithToken, Dated, PutUnless, t

LEMMA CarryStep == NoAWSKeys /\ ClientTypeOK /\ CarryInv /\ [Next]_vars => CarryInv'
<1>. SUFFICES ASSUME NoAWSKeys, ClientTypeOK, CarryInv, ClientStep
              PROVE  CarryInv'
  BY ClientSteps
<1>0. world \in Worlds /\ security = [p \in Procs |-> security[p]]
  BY DEF ClientTypeOK, CarryInv
<1>1. ASSUME NEW p \in Procs, Begin(p)
      PROVE  CarryInv'
  <2>1. UNCHANGED world
    BY <1>1 DEF Begin
  <2>2. CASE UNCHANGED <<pc, headers, security>>
    BY <2>1, <2>2, SameSetup DEF CarryInv
  <2>3. CASE ~UNCHANGED <<pc, headers, security>>
    <3>0. PICK sec \in world.operations : \E names \in SchemeNames(sec) :
            /\ IF HasProvider("oauth2cc") THEN Enter(p, "locking", Injected(names))
               ELSE IF HasProvider("device") THEN Enter(p, "ready", WithToken(Injected(names), 0))
               ELSE Enter(p, "ready", Dated(Injected(names)))
            /\ security' = [security EXCEPT ![p] = sec]
      BY <1>1, <2>3 DEF Begin
    <3>1. PICK names \in SchemeNames(sec) :
            /\ IF HasProvider("oauth2cc") THEN Enter(p, "locking", Injected(names))
               ELSE IF HasProvider("device") THEN Enter(p, "ready", WithToken(Injected(names), 0))
               ELSE Enter(p, "ready", Dated(Injected(names)))
            /\ security' = [security EXCEPT ![p] = sec]
      BY <3>0
    <3>2. CASE HasProvider("oauth2cc")
      BY <2>1, <3>1, <3>2, OthersCarry
    <3>3. CASE ~HasProvider("oauth2cc") /\ HasProvider("device")
      <4>1. Proper(WithToken(Injected(names), 0), sec)
        BY <3>3, TokenCarried DEF Proper
      <4>. QED
        BY <2>1, <3>1, <3>3, <4>1, OthersCarry
    <3>4. CASE ~HasProvider("oauth2cc") /\ ~HasProvider("device")
      <4>1. Proper(Dated(Injected(names)), sec)
        BY <1>0, <3>4, InjectedAuthorizes DEF Proper
      <4>. QED
        BY <2>1, <3>1, <3>4, <4>1, OthersCarry
    <3>. QED
      BY <3>2, <3>3, <3>4
  <2>. QED
    BY <2>2, <2>3
<1>2. ASSUME NEW p \in Procs, Lock(p)
      PROVE  CarryInv'
  <2>1. UNCHANGED <<world, security>> /\ HasProvider("oauth2cc")
    BY <1>2 DEF Lock, CarryInv
  <2>2. security' = [security EXCEPT ![p] = security[p]]
    BY <1>0, <2>1
  <2>3. Proper(WithToken(headers[p], token), security[p])
    BY <2>1, TokenCarried DEF Proper
  <2>4. Enter(p, "ready", WithToken(headers[p], token)) \/ Enter(p, "fetching", headers[p])
    BY <1>2 DEF Lock
  <2>. QED
    BY <2>1, <2>2, <2>3, <2>4, OthersCarry
<1>3. ASSUME NEW p \in Procs, Granted(p)
      PROVE  CarryInv'
  <2>1. UNCHANGED world /\ HasProvider("oauth2cc")
    BY <1>3 DEF Granted, CarryInv
  <2>2. PICK expiry :
          \/ Enter(p, "ready", WithToken(headers[p], expiry)) /\ UNCHANGED security
          \/ Leave(p)
    BY <1>3 DEF Granted
  <2>3. CASE Enter(p, "ready", WithToken(headers[p], expiry)) /\ UNCHANGED security
    <3>1. Proper(WithToken(headers[p], expiry), security[p])
      BY <2>1, TokenCarried DEF Proper
    <3>2. security' = [security EXCEPT ![p] = security[p]]
      BY <1>0, <2>3
    <3>. QED
      BY <2>1, <2>3, <3>1, <3>2, OthersCarry
  <2>4. CASE Leave(p)
    BY <2>1, <2>4, OthersCarry DEF Leave
  <2>. QED
    BY <2>2, <2>3, <2>4
<1>4. ASSUME NEW p \in Procs, NotGranted(p) \/ Return(p)
      PROVE  CarryInv'
  <2>1. UNCHANGED world /\ Leave(p)
    BY <1>4 DEF NotGranted, Return
  <2>. QED
    BY <2>1, OthersCarry DEF Leave
<1>5. ASSUME NEW p \in Procs, Send(p)
      PROVE  CarryInv'
  <2>1. /\ UNCHANGED <<world, security>> /\ Enter(p, "sent", headers[p])
        /\ Proper(headers[p], security[p])
    BY <1>5 DEF Send, CarryInv
  <2>2. security' = [security EXCEPT ![p] = security[p]]
    BY <1>0, <2>1
  <2>. QED
    BY <2>1, <2>2, OthersCarry
<1>6. ASSUME Tick \/ UNCHANGED clientVars
      PROVE  CarryInv'
  <2>1. UNCHANGED <<world, pc, headers, security>>
    BY <1>6 DEF Tick, clientVars
  <2>. QED
    BY <2>1, SameSetup DEF CarryInv
<1>. QED
  BY <1>1, <1>2, <1>3, <1>4, <1>5, <1>6 DEF ClientStep

\* For any document, any setup and any order in which the maps of schemes are
\* walked, and with any number of requests side by side: nothing is sent
\* before every secret is read; where there is a provider of tokens everything
\* sent carries one; and where there is none, what is sent meets what the
\* operation's security asks as far as the user's credentials go
\* (auth.go:35-124, provider.go:52-63, helpers.go:122-171).
THEOREM Authorization == NoAWSKeys => (Spec => []Credentialed)
<1>. SUFFICES ASSUME NoAWSKeys
              PROVE  Spec => []Credentialed
  OBVIOUS
<1>. DEFINE IInv == ClientTypeOK /\ SetUpInv /\ CarryInv
<1>1. Init => IInv
  BY ClientTypeInit, SetUpInit, CarryInit
<1>2. IInv /\ [Next]_vars => IInv'
  BY ClientTypeStep, SetUpStep, CarryStep
<1>3. IInv => Credentialed
  <2>. SUFFICES ASSUME IInv, NEW p \in Procs, pc[p] = "sent"
                PROVE  /\ \A key \in Secrets : Resolve(world, key) # Unresolved
                       /\ Proper(headers[p], security[p])
    BY DEF Credentialed, Proper
  <2>1. world \in Worlds /\ ~SetupFails(world)
    BY DEF ClientTypeOK, SetUpInv, SetUp
  <2>2. Proper(headers[p], security[p])
    BY DEF CarryInv
  <2>. QED
    BY <2>1, <2>2, SecretsRead
<1>. QED
  BY <1>1, <1>2, <1>3, PTL DEF Spec
=============================================================================

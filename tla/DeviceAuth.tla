----------------------------- MODULE DeviceAuth -----------------------------
(***************************************************************************)
(* The OAuth2 device-code provider, internal/core/auth/oauth2device.go,    *)
(* its token file, tokencache.go, and the processes that share that file:  *)
(* servers and one-shot calls that apply the token, "auth login" and "auth *)
(* logout".                                                                *)
(*                                                                         *)
(* A token is the number the issuer gave it; those up to stale are past    *)
(* their expiry.  The issuer is outside the repository and one of three    *)
(* kinds: it hands out tokens without a refresh token ("never"), with one  *)
(* that stays good ("reuse"), or with one that is good for a single        *)
(* refresh ("rotate").                                                     *)
(*                                                                         *)
(* os.WriteFile is two steps, the truncation and the write; a file in      *)
(* between, or one that two processes wrote into, does not parse.          *)
(***************************************************************************)
EXTENDS Integers, FiniteSets

CONSTANTS
  Procs,      \* processes with a provider
  Threads,    \* their goroutines
  Homes,      \* how the goroutines may belong to the processes
  Issuers,    \* the kinds of issuer: "never", "reuse", "rotate"
  Faults,     \* what may go wrong: "stop", "lost", "disk", "mixed"
  MaxTokens,  \* bound on the tokens issued
  MaxFaults   \* bound on the faults

ASSUME DeviceAssumption ==
  /\ Homes \subseteq [Threads -> Procs]
  /\ Issuers \subseteq {"never", "reuse", "rotate"}
  /\ Faults \subseteq {"stop", "lost", "disk", "mixed"}
  /\ MaxTokens \in Nat /\ MaxFaults \in Nat

VARIABLES
  issuer,    \* the kind of this issuer
  home,      \* home[t]: the process of t
  issued,    \* tokens handed out so far
  stale,     \* tokens 1..stale are expired
  accepted,  \* tokens whose refresh token the issuer takes
  file,      \* the token in <key>.json
  state,     \* state[p]: "down", "loading", "bare" (no provider) or "up"
  tok,       \* tok[p]: OAuth2DeviceProvider.tok
  pc,        \* where each goroutine is
  call,      \* what it is in: "none", "apply", "login", "logout"
  local,     \* the token it has in hand
  linked,    \* the file it has open is still the one in the directory
  faults,    \* faults so far
  loggedIn,  \* history: a login was stored, and no logout since
  overtaken, \* history: the last Put stored a token its provider had replaced
  crowded    \* history: a token was renewed while someone else had it in hand

worldVars == <<issuer, home, issued, stale, accepted>>
historyVars == <<loggedIn, overtaken, crowded>>
procVars == <<state, tok>>
threadVars == <<pc, call, local, linked>>
vars == <<worldVars, file, procVars, threadVars, faults, historyVars>>

Missing == 0
Torn == -1
Refreshable == issuer # "never"
Stale(i) == i <= stale

TypeOK ==
  /\ issuer \in Issuers /\ home \in Homes
  /\ issued \in 0..MaxTokens /\ stale \in 0..issued
  /\ accepted \subseteq 1..issued
  /\ file \in Torn..issued
  /\ state \in [Procs -> {"down", "loading", "bare", "up"}]
  /\ tok \in [Procs -> 0..issued]
  /\ pc \in [Threads -> {"idle", "judging", "asking", "renewed", "opening",
                         "writing", "stored", "deleting", "granted", "failed", "refused"}]
  /\ call \in [Threads -> {"none", "apply", "login", "logout"}]
  /\ local \in [Threads -> 0..issued]
  /\ linked \in [Threads -> BOOLEAN]
  /\ faults \in 0..MaxFaults
  /\ loggedIn \in BOOLEAN /\ overtaken \in BOOLEAN /\ crowded \in BOOLEAN

Init ==
  /\ issuer \in Issuers /\ home \in Homes
  /\ issued = 0 /\ stale = 0 /\ accepted = {}
  /\ file = Missing
  /\ state = [p \in Procs |-> "down"]
  /\ tok = [p \in Procs |-> Missing]
  /\ pc = [t \in Threads |-> "idle"]
  /\ call = [t \in Threads |-> "none"]
  /\ local = [t \in Threads |-> Missing]
  /\ linked = [t \in Threads |-> FALSE]
  /\ faults = 0
  /\ loggedIn = FALSE /\ overtaken = FALSE /\ crowded = FALSE

Goto(t, label) == pc' = [pc EXCEPT ![t] = label]
Running(t) == state[home[t]] = "up"

\* History: a token is taken from a provider or from the file before the one
\* that has replaced it is there, or replaced while someone else has it.
Crowd(b) == crowded' = (crowded \/ b) /\ UNCHANGED <<loggedIn, overtaken>>
OnTheWay(t) == pc[t] \in {"renewed", "opening", "writing"}
Shared(t) ==
  \/ \E u \in Threads \ {t} : local[u] = local[t]
  \/ \E p \in Procs \ {home[t]} : tok[p] = local[t]

\* Mutant of CacheLocked: the mutex is taken before Put, which waits for itself.
CacheLockedTwice(p) == \E t \in Threads : home[t] = p /\ pc[t] \in {"opening", "writing"}

\* TokenCache.mu: a Put of the same process is under way.
CacheLocked(p) == \E t \in Threads : home[t] = p /\ pc[t] = "writing"

-----------------------------------------------------------------------------
(* Processes *)

\* Mutant of Get: a file that does not parse passes for a token.
GetUnparsed == IF file = Missing THEN Missing ELSE IF file = Torn THEN 0 - 1 ELSE file

\* TokenCache.Get: nil for a file that is missing, does not parse, or holds an
\* expired token that cannot be refreshed.
Get == IF file <= 0 \/ (Stale(file) /\ ~Refreshable) THEN Missing ELSE file

\* A server or a call looks whether there is a token, and without one runs
\* with no provider; "auth login" does not ask.
Probe(p) ==
  /\ state[p] = "down"
  /\ \/ state' = [state EXCEPT ![p] = "loading"]
     \/ Get = Missing /\ state' = [state EXCEPT ![p] = "bare"]
  /\ UNCHANGED <<worldVars, file, tok, threadVars, faults, historyVars>>

\* NewOAuth2DeviceProvider reads the file again.
Load(p) ==
  /\ state[p] = "loading"
  /\ tok' = [tok EXCEPT ![p] = Get]
  /\ state' = [state EXCEPT ![p] = "up"]
  /\ Crowd(\E t \in Threads : OnTheWay(t))
  /\ UNCHANGED <<worldVars, file, threadVars, faults>>

Fault(f) == f \in Faults /\ faults < MaxFaults /\ faults' = faults + 1

\* The process ends: between calls, or by a crash in the middle of one.
Stop(p) ==
  /\ state[p] # "down"
  /\ \/ (\A t \in Threads : home[t] = p => pc[t] = "idle") /\ UNCHANGED faults
     \/ Fault("stop")
  /\ state' = [state EXCEPT ![p] = "down"]
  /\ tok' = [tok EXCEPT ![p] = Missing]
  /\ pc' = [t \in Threads |-> IF home[t] = p THEN "idle" ELSE pc[t]]
  /\ call' = [t \in Threads |-> IF home[t] = p THEN "none" ELSE call[t]]
  /\ local' = [t \in Threads |-> IF home[t] = p THEN Missing ELSE local[t]]
  /\ linked' = [t \in Threads |-> linked[t] /\ home[t] # p]
  /\ UNCHANGED <<worldVars, file, historyVars>>

-----------------------------------------------------------------------------
(* Apply *)

\* The token is copied under the mutex and judged outside it.
Apply(t) ==
  /\ Running(t) /\ pc[t] = "idle"
  /\ call' = [call EXCEPT ![t] = "apply"]
  /\ local' = [local EXCEPT ![t] = tok[home[t]]]
  /\ Goto(t, IF tok[home[t]] = Missing THEN "failed" ELSE "judging")
  /\ Crowd(\E u \in Threads : OnTheWay(u))
  /\ UNCHANGED <<worldVars, file, procVars, linked, faults>>

Judge(t) ==
  /\ pc[t] = "judging"
  /\ \/ ~Stale(local[t]) /\ Goto(t, "granted")
     \/ Stale(local[t]) /\ Refreshable /\ Goto(t, "asking")
     \/ Stale(local[t]) /\ ~Refreshable /\ Goto(t, "failed")
  /\ UNCHANGED <<worldVars, file, procVars, call, local, linked, faults, historyVars>>

\* External: the issuer hands out a new token.
Issue(taken) ==
  /\ issued < MaxTokens
  /\ issued' = issued + 1
  /\ accepted' = IF ~Refreshable THEN {} ELSE (accepted \ taken) \cup {issued + 1}
  /\ UNCHANGED <<issuer, home, stale>>

\* src.Token: a refresh the issuer grants, or grants with an answer that never
\* arrives, or refuses.  The call has no deadline.
Exchange(t) ==
  /\ pc[t] = "asking"
  /\ \/ /\ local[t] \in accepted
        /\ Issue(IF issuer = "rotate" THEN {local[t]} ELSE {})
        /\ Crowd(Shared(t))
        /\ \/ /\ local' = [local EXCEPT ![t] = issued + 1]
              /\ Goto(t, "renewed")
              /\ UNCHANGED faults
           \/ Fault("lost") /\ Goto(t, "failed") /\ UNCHANGED local
     \/ /\ local[t] \notin accepted
        /\ Goto(t, "refused")
        /\ UNCHANGED <<worldVars, local, faults, historyVars>>
  /\ UNCHANGED <<file, procVars, call, linked>>

\* Mutant of Remember: a refreshed token is kept in memory only.
RememberUnsaved(t) ==
  /\ pc[t] = "renewed"
  /\ tok' = [tok EXCEPT ![home[t]] = local[t]]
  /\ Goto(t, IF call[t] = "apply" THEN "stored" ELSE "opening")
  /\ UNCHANGED <<worldVars, file, state, call, local, linked, faults, historyVars>>

\* Mutant of Remember: a refreshed token goes only into the file.
RememberElsewhere(t) ==
  /\ pc[t] = "renewed"
  /\ Goto(t, "opening")
  /\ UNCHANGED <<worldVars, file, procVars, call, local, linked, faults, historyVars>>

\* The new token goes into the provider, then into the file.
Remember(t) ==
  /\ pc[t] = "renewed"
  /\ tok' = [tok EXCEPT ![home[t]] = local[t]]
  /\ Goto(t, "opening")
  /\ UNCHANGED <<worldVars, file, state, call, local, linked, faults, historyVars>>

\* TokenCache.Put, os.WriteFile: the file is created or truncated ...
Open(t) ==
  /\ pc[t] = "opening" /\ ~CacheLocked(home[t])
  /\ file' = Torn
  /\ linked' = [linked EXCEPT ![t] = TRUE]
  /\ Goto(t, "writing")
  /\ UNCHANGED <<worldVars, procVars, call, local, faults, historyVars>>

\* ... and written, in place of what another process wrote since, of which a
\* tail may be left; a file removed since is not the one written.
Save(t) ==
  /\ pc[t] = "writing"
  /\ \/ ~linked[t] /\ UNCHANGED <<file, faults>>
     \/ linked[t] /\ file' = local[t] /\ UNCHANGED faults
     \/ linked[t] /\ file # Torn /\ file' = Torn /\ Fault("mixed")
  /\ loggedIn' = (loggedIn \/ (call[t] = "login" /\ linked[t]))
  /\ overtaken' = IF linked[t] THEN tok[home[t]] # local[t] ELSE overtaken
  /\ linked' = [linked EXCEPT ![t] = FALSE]
  /\ Goto(t, "stored")
  /\ UNCHANGED <<worldVars, procVars, call, local, crowded>>

\* The write fails.  Apply ignores that, Login returns it.
SaveFail(t) ==
  /\ pc[t] = "writing" /\ Fault("disk")
  /\ linked' = [linked EXCEPT ![t] = FALSE]
  /\ Goto(t, "stored")
  /\ UNCHANGED <<worldVars, file, procVars, call, local, historyVars>>

\* Apply sets the header if the token is still valid; Login just returns.
Conclude(t) ==
  /\ pc[t] = "stored"
  /\ Goto(t, IF call[t] = "apply" /\ Stale(local[t]) THEN "failed" ELSE "granted")
  /\ UNCHANGED <<worldVars, file, procVars, call, local, linked, faults, historyVars>>

Return(t) ==
  /\ pc[t] \in {"granted", "failed", "refused"}
  /\ Goto(t, "idle")
  /\ call' = [call EXCEPT ![t] = "none"]
  /\ local' = [local EXCEPT ![t] = Missing]
  /\ UNCHANGED <<worldVars, file, procVars, linked, faults, historyVars>>

-----------------------------------------------------------------------------
(* Login and Logout *)

\* The user authorises the device and polling gets the token.
Login(t) ==
  /\ Running(t) /\ pc[t] = "idle"
  /\ Issue({})
  /\ call' = [call EXCEPT ![t] = "login"]
  /\ local' = [local EXCEPT ![t] = issued + 1]
  /\ Goto(t, "renewed")
  /\ UNCHANGED <<file, procVars, linked, faults, historyVars>>

\* Mutant of Delete: the file stays.
DeleteNothing == loggedIn' = FALSE /\ UNCHANGED <<file, linked, overtaken, crowded>>

\* TokenCache.Delete
Delete ==
  /\ file' = Missing
  /\ linked' = [t \in Threads |-> FALSE]
  /\ loggedIn' = FALSE
  /\ UNCHANGED <<overtaken, crowded>>

\* The provider forgets the token, then the file is removed.
Logout(t) ==
  /\ Running(t) /\ pc[t] = "idle"
  /\ tok' = [tok EXCEPT ![home[t]] = Missing]
  /\ call' = [call EXCEPT ![t] = "logout"]
  /\ Goto(t, "deleting")
  /\ UNCHANGED <<worldVars, file, state, local, linked, faults, historyVars>>

LogoutDelete(t) ==
  /\ pc[t] = "deleting" /\ ~CacheLocked(home[t])
  /\ Delete
  /\ Goto(t, "granted")
  /\ UNCHANGED <<worldVars, procVars, call, local, faults>>

\* "apimount auth logout", a process of its own, removes the file.
RunAuthLogout ==
  /\ Delete
  /\ UNCHANGED <<worldVars, procVars, pc, call, local, faults>>

-----------------------------------------------------------------------------
\* The oldest token that was good expires.
Expire ==
  /\ stale < issued
  /\ stale' = stale + 1
  /\ UNCHANGED <<issuer, home, issued, accepted, file, procVars, threadVars, faults, historyVars>>

Progress(t) ==
  \/ Judge(t) \/ Exchange(t) \/ Remember(t) \/ Open(t) \/ Save(t)
  \/ SaveFail(t) \/ Conclude(t) \/ Return(t) \/ LogoutDelete(t)

\* Processes that make a call sooner or later; the others change nothing.
Used == {home[t] : t \in Threads}

Next ==
  \/ \E p \in Used : Probe(p) \/ Load(p) \/ Stop(p)
  \/ \E t \in Threads : Apply(t) \/ Login(t) \/ Logout(t) \/ Progress(t)
  \/ RunAuthLogout
  \/ Expire

Spec == Init /\ [][Next]_vars

\* Goroutines run, mutexes are fair, and the issuer answers in the end.
FairSpec == Spec /\ \A t \in Threads : SF_vars(Progress(t))

-----------------------------------------------------------------------------
(* Properties *)

\* "Tokens survive process restarts" (tokencache.go:13): while somebody is
\* logged in and no goroutine is on its way to the file with a newer token,
\* a process that starts finds one that is valid or that it can refresh.  The
\* two ways out are a fault and two Puts of one process in the wrong order.
Usable(i) == i > 0 /\ (~Stale(i) \/ i \in accepted)
Survives ==
  loggedIn /\ Refreshable /\ faults = 0 /\ ~overtaken /\ (\A t \in Threads : ~OnTheWay(t))
    => Usable(file)

\* "Refresh token stored - token will auto-renew" (cmd/apimount/auth.go:127),
\* also where a refresh token is good for one refresh only: over calls, logins,
\* logouts, expiries and restarts, a refresh is refused only after a fault, or
\* after two goroutines or processes had one token in hand while one of them
\* renewed it (oauth2device.go:153-163).
AutoRenews == ~crowded /\ faults = 0 => \A t \in Threads : pc[t] # "refused"

\* "Logout clears any cached token" (oauth2device.go:120): until the next
\* login there is no token in the file.
LogoutClears == ~loggedIn => file <= 0

\* It holds while there is nothing to refresh: then only a Login, in this
\* process or in another one, is ever on its way to the file.
LogoutFinal == issuer = "never" => LogoutClears

\* Apply and Login return (oauth2device.go:142-180, 92-118), whatever crashes,
\* lost answers and failed writes other goroutines meet.
CallsEnd == \A t \in Threads : pc[t] # "idle" ~> (pc[t] = "idle" \/ issued = MaxTokens)
=============================================================================

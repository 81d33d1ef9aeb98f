-------------------------- MODULE DeviceAuthProofs --------------------------
(***************************************************************************)
(* Proofs about DeviceAuth for any number of processes and goroutines, any *)
(* faults and any number of tokens.                                        *)
(***************************************************************************)
EXTENDS DeviceAuth, TLAPS

\* Every action of goroutine t, for the proofs to split on.
LEMMA Split ==
  ASSUME TypeOK, [Next]_vars
  PROVE \/ \E p \in Procs : Probe(p) \/ Load(p) \/ Stop(p)
        \/ \E t \in Threads :
             \/ Apply(t) \/ Judge(t) \/ Exchange(t) \/ Remember(t) \/ Open(t)
             \/ Save(t) \/ SaveFail(t) \/ Conclude(t) \/ Return(t)
             \/ Login(t) \/ Logout(t) \/ LogoutDelete(t)
        \/ RunAuthLogout \/ Expire \/ UNCHANGED vars
<1>1. \A p \in Used : p \in Procs
  BY DeviceAssumption DEF Used, TypeOK
<1> QED
  BY <1>1 DEF Next, Progress

\* Issuers are of one kind, and goroutines of one process, for good.
LEMMA World == [Next]_vars => UNCHANGED <<issuer, home>>
<1> SUFFICES ASSUME [Next]_vars PROVE UNCHANGED <<issuer, home>>
  OBVIOUS
<1> USE DEF worldVars
<1>1. ASSUME NEW p, Probe(p) \/ Load(p) \/ Stop(p) PROVE UNCHANGED <<issuer, home>>
  BY <1>1 DEF Probe, Load, Stop
<1>2. ASSUME NEW t, Progress(t) \/ Apply(t) \/ Login(t) \/ Logout(t)
      PROVE  UNCHANGED <<issuer, home>>
  BY <1>2 DEF Apply, Login, Logout, Progress, Judge, Exchange, Issue, Remember, Open,
     Save, SaveFail, Conclude, Return, LogoutDelete
<1>3. ASSUME RunAuthLogout \/ Expire \/ UNCHANGED vars PROVE UNCHANGED <<issuer, home>>
  BY <1>3 DEF RunAuthLogout, Expire, vars
<1> QED
  BY <1>1, <1>2, <1>3 DEF Next

LEMMA TypeInit == Init => TypeOK
<1>1. Init => issued = 0 /\ stale = 0 /\ accepted = {} /\ file = 0 /\ faults = 0
  BY DEF Init, Missing
<1>2. Init => /\ linked \in [Threads -> BOOLEAN]
              /\ loggedIn \in BOOLEAN /\ overtaken \in BOOLEAN /\ crowded \in BOOLEAN
              /\ issuer \in Issuers /\ home \in Homes
  BY DEF Init
<1>3. Init => /\ state \in [Procs -> {"down", "loading", "bare", "up"}]
              /\ tok \in [Procs -> {0}] /\ local \in [Threads -> {0}]
              /\ pc \in [Threads -> {"idle"}] /\ call \in [Threads -> {"none"}]
  BY DEF Init, Missing
<1> QED
  BY <1>1, <1>2, <1>3, DeviceAssumption DEF TypeOK, Torn

\* A removal of the file.
LEMMA DeleteType ==
  ASSUME Delete
  PROVE  /\ file' = 0 /\ linked' \in [Threads -> BOOLEAN]
         /\ loggedIn' \in BOOLEAN /\ overtaken' = overtaken /\ crowded' = crowded
<1>1. linked' \in [Threads -> BOOLEAN] /\ loggedIn' \in BOOLEAN
  BY DEF Delete
<1>2. file' = 0
  BY DEF Delete, Missing
<1> QED
  BY <1>1, <1>2 DEF Delete

\* One token more: everything that was one still is.
LEMMA IssueType ==
  ASSUME TypeOK, NEW taken, Issue(taken)
  PROVE  /\ issuer' = issuer /\ home' = home
         /\ issued' = issued + 1 /\ issued' \in 0..MaxTokens
         /\ stale' \in 0..issued' /\ accepted' \subseteq 1..issued'
         /\ file \in Torn..issued'
         /\ tok \in [Procs -> 0..issued'] /\ local \in [Threads -> 0..issued']
<1>1. issued' = issued + 1 /\ issued' \in 0..MaxTokens /\ stale' \in 0..issued'
  BY DeviceAssumption DEF Issue, TypeOK
<1>2. accepted' \subseteq 1..issued'
  <2>1. \A i \in 1..issued : i \in 1..(issued + 1)
    BY DEF TypeOK
  <2>2. issued + 1 \in 1..(issued + 1)
    BY DEF TypeOK
  <2> QED
    BY <1>1, <2>1, <2>2 DEF Issue, TypeOK
<1>3. 0..issued \subseteq 0..issued' /\ file \in Torn..issued'
  BY <1>1 DEF TypeOK, Torn
<1>4. tok \in [Procs -> 0..issued'] /\ local \in [Threads -> 0..issued']
  BY <1>3 DEF TypeOK
<1> QED
  BY <1>1, <1>2, <1>3, <1>4 DEF Issue

\* A history of doubt is a truth value.
LEMMA CrowdType ==
  ASSUME NEW b, Crowd(b)
  PROVE  crowded' \in BOOLEAN /\ UNCHANGED <<loggedIn, overtaken>>
BY Zenon DEF Crowd

LEMMA TypeStep == TypeOK /\ [Next]_vars => TypeOK'
<1> SUFFICES ASSUME TypeOK, [Next]_vars PROVE TypeOK'
  OBVIOUS
<1> USE DeviceAssumption DEF TypeOK, Missing, Torn, Goto,
      worldVars, procVars, threadVars, historyVars
<1>1. ASSUME NEW p \in Procs, Probe(p) PROVE TypeOK'
  BY <1>1 DEF Probe
<1>2. ASSUME NEW p \in Procs, Load(p) PROVE TypeOK'
  <2>1. crowded' \in BOOLEAN /\ UNCHANGED <<loggedIn, overtaken>>
    BY <1>2, Zenon DEF Load, Crowd
  <2>2. /\ tok' = [tok EXCEPT ![p] = Get] /\ state' = [state EXCEPT ![p] = "up"]
        /\ UNCHANGED <<worldVars, file, threadVars, faults>>
    BY <1>2, Zenon DEF Load
  <2> QED
    BY <2>1, <2>2 DEF Get
<1>3. ASSUME NEW p \in Procs, Stop(p) PROVE TypeOK'
  BY <1>3 DEF Stop, Fault
<1>4. ASSUME NEW t \in Threads, Apply(t) PROVE TypeOK'
  BY <1>4, CrowdType DEF Apply
<1>5. ASSUME NEW t \in Threads, Judge(t) PROVE TypeOK'
  BY <1>5 DEF Judge
<1>6. ASSUME NEW t \in Threads, Exchange(t) PROVE TypeOK'
  <2>1. CASE Issue(IF issuer = "rotate" THEN {local[t]} ELSE {})
    BY <1>6, <2>1, IssueType, CrowdType DEF Exchange, Fault
  <2>2. CASE UNCHANGED <<worldVars, local, faults, historyVars>>
    BY <1>6, <2>2 DEF Exchange
  <2> QED
    BY <1>6, <2>1, <2>2 DEF Exchange
<1>7. ASSUME NEW t \in Threads, Remember(t) PROVE TypeOK'
  BY <1>7 DEF Remember
<1>8. ASSUME NEW t \in Threads, Open(t) PROVE TypeOK'
  BY <1>8 DEF Open
<1>9. ASSUME NEW t \in Threads, Save(t) PROVE TypeOK'
  <2>1. loggedIn' \in BOOLEAN /\ overtaken' \in BOOLEAN
    BY <1>9, Zenon DEF Save
  <2>2. linked' \in [Threads -> BOOLEAN]
    BY <1>9 DEF Save
  <2>3. /\ UNCHANGED <<worldVars, procVars, call, local, crowded>>
        /\ pc' = [pc EXCEPT ![t] = "stored"]
    BY <1>9 DEF Save
  <2>4. file' \in Torn..issued /\ faults' \in 0..MaxFaults
    BY <1>9 DEF Save, Fault
  <2> QED
    BY <2>1, <2>2, <2>3, <2>4
<1>10. ASSUME NEW t \in Threads, SaveFail(t) PROVE TypeOK'
  BY <1>10 DEF SaveFail, Fault
<1>11. ASSUME NEW t \in Threads, Conclude(t) PROVE TypeOK'
  BY <1>11 DEF Conclude
<1>12. ASSUME NEW t \in Threads, Return(t) PROVE TypeOK'
  BY <1>12 DEF Return
<1>13. ASSUME NEW t \in Threads, Login(t) PROVE TypeOK'
  <2>1. local' \in [Threads -> 0..issued'] /\ UNCHANGED stale
    BY <1>13, IssueType DEF Login, Issue
  <2> QED
    BY <1>13, <2>1, IssueType DEF Login
<1>14. ASSUME NEW t \in Threads, Logout(t) PROVE TypeOK'
  BY <1>14 DEF Logout
<1>15. ASSUME NEW t \in Threads, LogoutDelete(t) PROVE TypeOK'
  <2>1. pc' = [pc EXCEPT ![t] = "granted"] /\ UNCHANGED <<worldVars, procVars, call, local, faults>>
    BY <1>15 DEF LogoutDelete, worldVars, procVars
  <2>2. file' = 0 /\ linked' \in [Threads -> BOOLEAN] /\ loggedIn' \in BOOLEAN
    BY <1>15, DeleteType DEF LogoutDelete
  <2>4. overtaken' = overtaken /\ crowded' = crowded
    BY <1>15, DeleteType DEF LogoutDelete
  <2>3. pc' \in [Threads -> {"idle", "judging", "asking", "renewed", "opening",
                         "writing", "stored", "deleting", "granted", "failed", "refused"}]
    BY <2>1
  <2> QED
    BY <2>1, <2>2, <2>3, <2>4
<1>16. CASE RunAuthLogout
  BY <1>16, DeleteType DEF RunAuthLogout
<1>17. CASE Expire
  BY <1>17 DEF Expire
<1>18. CASE UNCHANGED vars
  BY <1>18 DEF vars
<1> QED
  BY ONLY Split, TypeOK, [Next]_vars, <1>1, <1>2, <1>3, <1>4, <1>5, <1>6, <1>7, <1>8, <1>9,
     <1>10, <1>11, <1>12, <1>13, <1>14, <1>15, <1>16, <1>17, <1>18

\* The types of the state (oauth2device.go:34-40, tokencache.go:16-26).
THEOREM Typing == Spec => []TypeOK
<1> QED
  BY TypeInit, TypeStep, PTL DEF Spec

\* Faults are only ever counted up.
LEMMA FaultsStay ==
  ASSUME TypeOK, [Next]_vars, faults' = 0
  PROVE  faults = 0 /\ \A f : ~Fault(f)
<1>1. \A f : Fault(f) => faults' # 0
  BY DEF Fault, TypeOK
<1>2. faults' = faults \/ \E f : Fault(f)
  <2>1. ASSUME NEW p, Probe(p) \/ Load(p) \/ Stop(p)
        PROVE  faults' = faults \/ \E f : Fault(f)
    BY <2>1 DEF Probe, Load, Stop
  <2>2. ASSUME NEW t, Progress(t) \/ Apply(t) \/ Login(t) \/ Logout(t)
        PROVE  faults' = faults \/ \E f : Fault(f)
    BY <2>2 DEF Apply, Login, Logout, Progress, Judge, Exchange, Remember, Open,
      Save, SaveFail, Conclude, Return, LogoutDelete
  <2>3. ASSUME RunAuthLogout \/ Expire \/ UNCHANGED vars PROVE faults' = faults
    BY <2>3 DEF RunAuthLogout, Expire, vars
  <2> QED
    BY <2>1, <2>2, <2>3 DEF Next
<1> QED
  BY <1>1, <1>2

-----------------------------------------------------------------------------
(* With an issuer whose refresh tokens are good once, no fault so far, and   *)
(* no token in two hands when it was renewed.  Then the issuer takes back    *)
(* only the token of the goroutine that renews it, and wherever the old one  *)
(* still is, that goroutine is on its way with the new one.                  *)

InHand == {"judging", "asking", "renewed", "opening", "writing"}

Good ==
  /\ \A t \in Threads : pc[t] \in InHand => local[t] \in accepted
  /\ \A p \in Procs : tok[p] # Missing /\ tok[p] \notin accepted
       => \E t \in Threads : home[t] = p /\ pc[t] = "renewed"
  /\ file > 0 /\ file \notin accepted
       => \E t \in Threads : pc[t] \in {"renewed", "opening"}

NoneRefused == \A t \in Threads : pc[t] # "refused"
NoneAsks == \A t \in Threads : pc[t] # "asking"

RenewInv ==
  /\ TypeOK
  /\ ~Refreshable => NoneAsks /\ NoneRefused
  /\ Refreshable /\ ~crowded /\ faults = 0 => Good /\ NoneRefused

LEMMA RenewInitially == Init => RenewInv
<1>1. Init => /\ \A t \in Threads : pc[t] = "idle"
              /\ \A p \in Procs : tok[p] = Missing
              /\ file = 0
  BY DEF Init, Missing
<1> QED
  BY <1>1, TypeInit DEF RenewInv, Good, InHand, NoneRefused, NoneAsks

\* With nothing to refresh no goroutine asks the issuer.
LEMMA NoneAsksStep ==
  ASSUME TypeOK, ~Refreshable, NoneAsks, NoneRefused, [Next]_vars
  PROVE  NoneAsks' /\ NoneRefused'
<1> USE DEF TypeOK, NoneAsks, NoneRefused, Goto, threadVars
<1>1. ASSUME NEW p \in Procs, Probe(p) \/ Load(p) \/ Stop(p) PROVE NoneAsks' /\ NoneRefused'
  BY <1>1 DEF Probe, Load, Stop, Crowd
<1>2. ASSUME NEW t \in Threads, Apply(t) \/ Judge(t) \/ Exchange(t) \/ Login(t) \/ Logout(t)
      PROVE  NoneAsks' /\ NoneRefused'
  BY <1>2 DEF Apply, Judge, Exchange, Login, Logout
<1>3. ASSUME NEW t \in Threads,
             \/ Remember(t) \/ Open(t) \/ Save(t) \/ SaveFail(t)
             \/ Conclude(t) \/ Return(t) \/ LogoutDelete(t)
      PROVE  NoneAsks' /\ NoneRefused'
  BY <1>3 DEF Remember, Open, Save, SaveFail, Conclude, Return, LogoutDelete
<1>4. ASSUME RunAuthLogout \/ Expire \/ UNCHANGED vars PROVE NoneAsks' /\ NoneRefused'
  BY <1>4 DEF RunAuthLogout, Expire, vars
<1> QED
  BY Split, <1>1, <1>2, <1>3, <1>4

\* Doubt does not go away.
LEMMA CrowdStays ==
  ASSUME TypeOK, [Next]_vars, ~crowded'
  PROVE  ~crowded
<1>1. \A b : Crowd(b) => (~crowded' => ~crowded /\ ~b)
  BY DEF Crowd
<1>2. ASSUME NEW p, Probe(p) \/ Load(p) \/ Stop(p) PROVE ~crowded
  BY <1>1, <1>2 DEF Probe, Load, Stop, historyVars, Crowd
<1>3. ASSUME NEW t, Apply(t) \/ Exchange(t) PROVE ~crowded
  BY <1>1, <1>3 DEF Apply, Exchange, historyVars, Crowd
<1>4. ASSUME NEW t,
             \/ Judge(t) \/ Remember(t) \/ Open(t) \/ Save(t) \/ SaveFail(t)
             \/ Conclude(t) \/ Return(t) \/ Login(t) \/ Logout(t) \/ LogoutDelete(t)
      PROVE  ~crowded
  BY <1>4 DEF Judge, Remember, Open, Save, SaveFail, Conclude, Return, Login, Logout,
    LogoutDelete, Delete, historyVars
<1>5. ASSUME RunAuthLogout \/ Expire \/ UNCHANGED vars PROVE ~crowded
  BY <1>5 DEF RunAuthLogout, Expire, Delete, historyVars, vars
<1> QED
  BY Split, <1>2, <1>3, <1>4, <1>5

\* One token more, and one less at most, that of the goroutine that gets it.
LEMMA RenewedStep ==
  ASSUME TypeOK, Good, NoneRefused, Refreshable, NEW t \in Threads,
         NEW taken, taken \subseteq {local[t]}, Issue(taken),
         taken # {} => ~Shared(t),
         local' = [local EXCEPT ![t] = issued + 1],
         pc' = [pc EXCEPT ![t] = "renewed"],
         UNCHANGED <<file, tok>>
  PROVE  Good' /\ NoneRefused'
<1>1. /\ home' = home /\ \A i : i \in accepted /\ i \notin taken => i \in accepted'
      /\ issued + 1 \in accepted'
  BY DEF Issue
<1>2. /\ \A u \in Threads : u # t => pc'[u] = pc[u] /\ local'[u] = local[u]
      /\ pc'[t] = "renewed" /\ local'[t] = issued + 1
  BY DEF TypeOK
<1>3. ASSUME NEW u \in Threads, pc'[u] \in InHand PROVE local'[u] \in accepted'
  BY <1>1, <1>2, <1>3 DEF Good, Shared
<1>4. ASSUME NEW p \in Procs, tok'[p] # Missing, tok'[p] \notin accepted'
      PROVE  \E u \in Threads : home'[u] = p /\ pc'[u] = "renewed"
  <2>1. CASE tok[p] \in taken
    <3>1. p = home[t]
      BY <2>1 DEF Shared
    <3> QED
      BY <1>1, <1>2, <3>1
  <2>2. CASE tok[p] \notin taken
    <3>1. PICK u \in Threads : home[u] = p /\ pc[u] = "renewed"
      BY <1>1, <1>4, <2>2 DEF Good
    <3>2. pc'[u] = "renewed"
      BY <1>2, <3>1
    <3> QED
      BY <1>1, <3>1, <3>2
  <2> QED
    BY <2>1, <2>2
<1>5. NoneRefused'
  BY <1>2 DEF NoneRefused
<1> QED
  BY <1>2, <1>3, <1>4, <1>5 DEF Good

\* A step that changes no token, or empties the file.
LEMMA RestStep ==
  ASSUME TypeOK, Good, NoneRefused,
         UNCHANGED <<home, accepted, local, tok>>, file' \in {file, Missing, Torn},
         \A t \in Threads : pc'[t] \in InHand => pc[t] \in InHand,
         \A t \in Threads : pc[t] \in {"renewed", "opening"} => pc'[t] = pc[t],
         \A t \in Threads : pc'[t] = "refused" => pc[t] = "refused"
  PROVE  Good' /\ NoneRefused'
<1>1. NoneRefused'
  BY DEF NoneRefused
<1>2. ASSUME NEW t \in Threads, pc'[t] \in InHand PROVE local'[t] \in accepted'
  BY <1>2 DEF Good
<1>3. ASSUME NEW p \in Procs, tok'[p] # Missing, tok'[p] \notin accepted'
      PROVE  \E u \in Threads : home'[u] = p /\ pc'[u] = "renewed"
  BY <1>3 DEF Good
<1>4. file' > 0 /\ file' \notin accepted'
        => \E t \in Threads : pc'[t] \in {"renewed", "opening"}
  BY DEF Good, Missing, Torn
<1> QED
  BY <1>1, <1>2, <1>3, <1>4 DEF Good

LEMMA RenewStep == RenewInv /\ [Next]_vars => RenewInv'
<1> SUFFICES ASSUME RenewInv, [Next]_vars, Refreshable', ~crowded', faults' = 0
             PROVE  Good' /\ NoneRefused'
  <2>1. RenewInv /\ [Next]_vars => TypeOK /\ TypeOK'
    BY TypeStep DEF RenewInv
  <2>2. RenewInv /\ [Next]_vars /\ ~Refreshable' => NoneAsks' /\ NoneRefused'
    BY <2>1, World, NoneAsksStep DEF RenewInv, Refreshable
  <2> QED
    BY <2>1, <2>2 DEF RenewInv
<1>0. /\ TypeOK /\ TypeOK' /\ Refreshable /\ UNCHANGED <<issuer, home>>
      /\ ~crowded /\ faults = 0 /\ \A f : ~Fault(f)
  BY TypeStep, World, CrowdStays, FaultsStay DEF RenewInv, Refreshable
<1>01. Good /\ NoneRefused /\ \A b : Crowd(b) => ~b
  BY <1>0 DEF RenewInv, Crowd
<1> USE <1>0, <1>01
<1>02. \A t \in Threads : home[t] \in Procs
  BY DeviceAssumption DEF TypeOK
<1>1. ASSUME NEW p \in Procs, Probe(p) PROVE Good' /\ NoneRefused'
  BY <1>1, RestStep DEF Probe, worldVars, threadVars
<1>2. ASSUME NEW p \in Procs, Load(p) PROVE Good' /\ NoneRefused'
  <2>1. UNCHANGED <<home, pc, local, accepted, file>> /\ ~\E t \in Threads : OnTheWay(t)
    BY <1>2 DEF Load, worldVars, threadVars
  <2>2. \A q \in Procs : tok'[q] = tok[q] \/ tok'[q] = Missing \/ (file > 0 /\ tok'[q] = file)
    BY <1>2 DEF Load, Get, TypeOK, Missing, Torn
  <2>3. file > 0 => file \in accepted
    BY <2>1 DEF Good, OnTheWay
  <2> QED
    BY <2>1, <2>2, <2>3 DEF Good, NoneRefused
<1>3. ASSUME NEW p \in Procs, Stop(p) PROVE Good' /\ NoneRefused'
  <2>1. /\ \A t \in Threads : home[t] = p => pc[t] = "idle"
        /\ UNCHANGED <<home, accepted, file>>
    BY <1>3 DEF Stop, worldVars
  <2>2. \A t \in Threads : /\ pc'[t] = pc[t]
                           /\ home[t] # p => local'[t] = local[t]
    BY <1>3, <2>1 DEF Stop, TypeOK
  <2>3. \A q \in Procs : tok'[q] = tok[q] \/ tok'[q] = Missing
    BY <1>3 DEF Stop, TypeOK
  <2>4. \A t \in Threads : pc'[t] \in InHand => local'[t] \in accepted'
    BY <2>1, <2>2 DEF Good, InHand
  <2> QED
    BY <2>1, <2>2, <2>3, <2>4 DEF Good, NoneRefused
<1>4. ASSUME NEW t \in Threads, Apply(t) PROVE Good' /\ NoneRefused'
  <2>1. UNCHANGED <<home, accepted, file, tok>> /\ ~\E u \in Threads : OnTheWay(u)
    BY <1>4 DEF Apply, worldVars, procVars
  <2>2. /\ \A u \in Threads : u # t => pc'[u] = pc[u] /\ local'[u] = local[u]
        /\ local'[t] = tok[home[t]] /\ pc[t] = "idle"
        /\ pc'[t] \in {"judging", "failed"} /\ (pc'[t] = "judging" => tok[home[t]] # Missing)
    BY <1>4 DEF Apply, Goto, TypeOK
  <2>3. tok[home[t]] # Missing => tok[home[t]] \in accepted
    BY <1>02, <2>1 DEF Good, OnTheWay
  <2>4. \A u \in Threads : pc'[u] \in InHand => local'[u] \in accepted'
    BY <2>1, <2>2, <2>3 DEF Good, InHand
  <2>5. \A u \in Threads : pc[u] \in {"renewed", "opening"} => pc'[u] = pc[u]
    BY <2>2
  <2>6. NoneRefused'
    BY <2>2 DEF NoneRefused
  <2> QED
    BY <2>1, <2>4, <2>5, <2>6 DEF Good
<1>5. ASSUME NEW t \in Threads, Judge(t) PROVE Good' /\ NoneRefused'
  <2>1. UNCHANGED <<home, accepted, local, tok, file>>
    BY <1>5 DEF Judge, worldVars, procVars
  <2>2. /\ \A u \in Threads : u # t => pc'[u] = pc[u]
        /\ pc[t] = "judging" /\ pc'[t] \in {"granted", "asking", "failed"}
    BY <1>5 DEF Judge, Goto, TypeOK
  <2> QED
    BY <2>1, <2>2, RestStep DEF InHand
<1>6. ASSUME NEW t \in Threads, Exchange(t) PROVE Good' /\ NoneRefused'
  <2>1. local[t] \in accepted
    BY <1>6 DEF Exchange, Good, InHand
  <2>. DEFINE taken == IF issuer = "rotate" THEN {local[t]} ELSE {}
  <2>2. /\ Issue(taken) /\ ~Shared(t) /\ local' = [local EXCEPT ![t] = issued + 1]
        /\ pc' = [pc EXCEPT ![t] = "renewed"] /\ UNCHANGED <<file, tok>>
    BY <1>6, <2>1 DEF Exchange, Goto, procVars
  <2>3. taken \subseteq {local[t]}
    OBVIOUS
  <2> HIDE DEF taken
  <2> QED
    BY <2>2, <2>3, RenewedStep
<1>7. ASSUME NEW t \in Threads, Remember(t) PROVE Good' /\ NoneRefused'
  <2>1. UNCHANGED <<home, accepted, local, file>>
    BY <1>7 DEF Remember, worldVars
  <2>2. /\ \A u \in Threads : u # t => pc'[u] = pc[u]
        /\ pc[t] = "renewed" /\ pc'[t] = "opening"
        /\ \A q \in Procs : q # home[t] => tok'[q] = tok[q]
        /\ tok'[home[t]] = local[t]
    BY <1>7, <1>02 DEF Remember, Goto, TypeOK
  <2>3. local[t] \in accepted
    BY <2>2 DEF Good, InHand
  <2>4. ASSUME NEW q \in Procs, tok'[q] # Missing, tok'[q] \notin accepted'
        PROVE  \E u \in Threads : home'[u] = q /\ pc'[u] = "renewed"
    <3>1. q # home[t] /\ tok'[q] = tok[q]
      BY <2>1, <2>2, <2>3, <2>4
    <3>2. PICK u \in Threads : home[u] = q /\ pc[u] = "renewed"
      BY <2>1, <2>4, <3>1 DEF Good
    <3> QED
      BY <2>2, <3>1, <3>2
  <2>5. \A u \in Threads : pc'[u] \in InHand => local'[u] \in accepted'
    BY <2>1, <2>2, <2>3 DEF Good
  <2>6. NoneRefused'
    BY <2>2 DEF NoneRefused
  <2> QED
    BY <2>1, <2>2, <2>4, <2>5, <2>6 DEF Good
<1>8. ASSUME NEW t \in Threads, Open(t) PROVE Good' /\ NoneRefused'
  <2>1. UNCHANGED <<home, accepted, local, tok>> /\ file' = Torn
    BY <1>8 DEF Open, worldVars, procVars
  <2>2. /\ \A u \in Threads : u # t => pc'[u] = pc[u]
        /\ pc[t] = "opening" /\ pc'[t] = "writing"
    BY <1>8 DEF Open, Goto, TypeOK
  <2>3. \A u \in Threads : pc'[u] \in InHand => local'[u] \in accepted'
    BY <2>1, <2>2 DEF Good, InHand
  <2>4. \A u \in Threads : pc[u] = "renewed" => pc'[u] = "renewed"
    BY <2>2
  <2>5. NoneRefused'
    BY <2>2 DEF NoneRefused
  <2> QED
    BY <2>1, <2>3, <2>4, <2>5 DEF Good, Torn
<1>9. ASSUME NEW t \in Threads, Save(t) \/ SaveFail(t) PROVE Good' /\ NoneRefused'
  <2>1. UNCHANGED <<home, accepted, local, tok>> /\ file' \in {file, local[t]}
    BY <1>9 DEF Save, SaveFail, worldVars, procVars
  <2>2. /\ \A u \in Threads : u # t => pc'[u] = pc[u]
        /\ pc[t] = "writing" /\ pc'[t] = "stored"
    BY <1>9 DEF Save, SaveFail, Goto, TypeOK
  <2>3. local[t] \in accepted
    BY <2>2 DEF Good, InHand
  <2>4. \A u \in Threads : pc'[u] \in InHand => local'[u] \in accepted'
    BY <2>1, <2>2 DEF Good, InHand
  <2>5. \A u \in Threads : pc[u] \in {"renewed", "opening"} => pc'[u] = pc[u]
    BY <2>2
  <2>6. NoneRefused'
    BY <2>2 DEF NoneRefused
  <2> QED
    BY <2>1, <2>3, <2>4, <2>5, <2>6 DEF Good
<1>10. ASSUME NEW t \in Threads, Conclude(t) \/ Return(t) \/ Logout(t)
       PROVE  Good' /\ NoneRefused'
  <2>1. UNCHANGED <<home, accepted, file>>
    BY <1>10 DEF Conclude, Return, Logout, worldVars
  <2>2. /\ \A u \in Threads : u # t => pc'[u] = pc[u] /\ local'[u] = local[u]
        /\ pc[t] \notin InHand /\ pc'[t] \in {"granted", "failed", "idle", "deleting"}
    BY <1>10 DEF Conclude, Return, Logout, Goto, TypeOK, InHand
  <2>3. \A q \in Procs : tok'[q] = tok[q] \/ tok'[q] = Missing
    BY <1>10 DEF Conclude, Return, Logout, procVars, TypeOK
  <2>4. \A u \in Threads : pc'[u] \in InHand => local'[u] \in accepted'
    BY <2>1, <2>2 DEF Good, InHand
  <2>5. \A u \in Threads : pc[u] \in {"renewed", "opening"} => pc'[u] = pc[u]
    BY <2>2 DEF InHand
  <2>6. NoneRefused'
    BY <2>2 DEF NoneRefused
  <2> QED
    BY <2>1, <2>3, <2>4, <2>5, <2>6 DEF Good
<1>11. ASSUME NEW t \in Threads, Login(t) PROVE Good' /\ NoneRefused'
  <2>1. /\ Issue({}) /\ local' = [local EXCEPT ![t] = issued + 1]
        /\ pc' = [pc EXCEPT ![t] = "renewed"] /\ UNCHANGED <<file, tok>>
    BY <1>11 DEF Login, Goto, procVars
  <2> QED
    BY <2>1, RenewedStep
<1>12. ASSUME NEW t \in Threads, LogoutDelete(t) PROVE Good' /\ NoneRefused'
  <2>1. UNCHANGED <<home, accepted, local, tok>> /\ file' = Missing
    BY <1>12 DEF LogoutDelete, Delete, worldVars, procVars
  <2>2. /\ \A u \in Threads : u # t => pc'[u] = pc[u]
        /\ pc[t] = "deleting" /\ pc'[t] = "granted"
    BY <1>12 DEF LogoutDelete, Goto, TypeOK
  <2> QED
    BY <2>1, <2>2, RestStep DEF InHand
<1>13. CASE RunAuthLogout \/ Expire \/ UNCHANGED vars
  <2>1. UNCHANGED <<home, accepted, local, tok, pc>> /\ file' \in {file, Missing}
    BY <1>13 DEF RunAuthLogout, Expire, Delete, vars, worldVars, procVars, threadVars
  <2> QED
    BY <2>1, RestStep
<1> QED
  BY ONLY Split, <1>0, [Next]_vars, <1>1, <1>2, <1>3, <1>4, <1>5, <1>6, <1>7, <1>8,
     <1>9, <1>10, <1>11, <1>12, <1>13

\* "auto-renew" (cmd/apimount/auth.go:127) also where a refresh token is good for
\* one refresh: over any calls, logins, logouts, expiries and restarts none is
\* refused, unless there was a fault or two goroutines or processes had one
\* token in hand while one of them renewed it (oauth2device.go:142-180).
THEOREM Renewal == Spec => []AutoRenews
<1>1. RenewInv => AutoRenews
  BY DEF RenewInv, AutoRenews, NoneRefused
<1> QED
  BY <1>1, RenewInitially, RenewStep, PTL DEF Spec

-----------------------------------------------------------------------------
(* With an issuer that hands out no refresh tokens *)

\* Only a login is ever on its way to the file.
LogoutInv ==
  /\ TypeOK
  /\ \A t \in Threads : pc[t] \in {"renewed", "opening", "writing"} => call[t] = "login"
  /\ \A t \in Threads : pc[t] # "asking"
  /\ LogoutClears

LEMMA LogoutInitially == Init => LogoutInv
<1>1. Init => file = 0
  BY DEF Init, Missing
<1>2. Init => \A t \in Threads : pc[t] = "idle"
  BY DEF Init
<1> QED
  BY <1>1, <1>2, TypeInit DEF LogoutInv, LogoutClears

LEMMA LogoutStep == issuer = "never" /\ LogoutInv /\ [Next]_vars => LogoutInv'
<1> SUFFICES ASSUME issuer = "never", LogoutInv, [Next]_vars PROVE LogoutInv'
  OBVIOUS
<1>0. TypeOK /\ TypeOK'
  BY TypeStep DEF LogoutInv
<1> USE <1>0 DEF LogoutInv, LogoutClears, TypeOK, Goto, worldVars, procVars, threadVars,
      historyVars
<1>1. ASSUME NEW p \in Procs, Probe(p) \/ Load(p) PROVE LogoutInv'
  BY <1>1 DEF Probe, Load, Crowd
<1>2. ASSUME NEW p \in Procs, Stop(p) PROVE LogoutInv'
  BY <1>2 DEF Stop
<1>3. ASSUME NEW t \in Threads, Apply(t) \/ Judge(t) PROVE LogoutInv'
  BY <1>3 DEF Apply, Judge, Refreshable, Crowd
<1>4. ASSUME NEW t \in Threads, Exchange(t) PROVE LogoutInv'
  BY <1>4 DEF Exchange
<1>5. ASSUME NEW t \in Threads, Remember(t) \/ SaveFail(t) PROVE LogoutInv'
  BY <1>5 DEF Remember, SaveFail
<1>6. ASSUME NEW t \in Threads, Open(t) PROVE LogoutInv'
  BY <1>6 DEF Open, Torn
<1>7. ASSUME NEW t \in Threads, Save(t) PROVE LogoutInv'
  <2>1. call[t] = "login"
    BY <1>7 DEF Save
  <2>2. \A u \in Threads : (u # t => pc'[u] = pc[u]) /\ call'[u] = call[u]
    BY <1>7 DEF Save
  <2>3. pc'[t] = "stored"
    BY <1>7 DEF Save
  <2>4. CASE linked[t]
    <3>1. loggedIn'
      BY <1>7, <2>1, <2>4, Zenon DEF Save
    <3> QED
      BY <2>2, <2>3, <3>1
  <2>5. CASE ~linked[t]
    <3>1. file' = file
      BY <1>7, <2>5, Zenon DEF Save
    <3>2. ~loggedIn' => ~loggedIn
      BY <1>7, Zenon DEF Save
    <3> QED
      BY <2>2, <2>3, <3>1, <3>2
  <2> QED
    BY <2>4, <2>5
<1>8. ASSUME NEW t \in Threads, Conclude(t) \/ Return(t) \/ Logout(t) \/ Login(t) PROVE LogoutInv'
  BY <1>8 DEF Conclude, Return, Logout, Login
<1>9. ASSUME NEW t \in Threads, LogoutDelete(t) PROVE LogoutInv'
  <2>1. file' = 0
    BY <1>9, DeleteType DEF LogoutDelete
  <2>2. pc' = [pc EXCEPT ![t] = "granted"] /\ UNCHANGED call
    BY <1>9 DEF LogoutDelete
  <2> QED
    BY <2>1, <2>2
<1>10. CASE RunAuthLogout
  BY <1>10, DeleteType DEF RunAuthLogout
<1>11. CASE Expire \/ UNCHANGED vars
  BY <1>11 DEF Expire, vars
<1> QED
  BY ONLY Split, <1>0, [Next]_vars, <1>1, <1>2, <1>3, <1>4, <1>5, <1>6, <1>7, <1>8, <1>9,
     <1>10, <1>11

\* After a logout no token is in the file until a login puts it there
\* (oauth2device.go:120-130, cmd/apimount/auth.go:132-144).
THEOREM Clearing == Spec => []LogoutFinal
<1>1. Init => (issuer = "never" => LogoutInv)
  BY LogoutInitially
<1>2. (issuer = "never" => LogoutInv) /\ [Next]_vars => (issuer = "never" => LogoutInv)'
  BY LogoutStep, World
<1>3. (issuer = "never" => LogoutInv) => LogoutFinal
  BY DEF LogoutInv, LogoutFinal
<1> QED
  BY <1>1, <1>2, <1>3, PTL DEF Spec
-----------------------------------------------------------------------------
(* With an issuer that hands out refresh tokens, and no fault so far *)

\* A token on its way to the file is nobody else's, but that a provider which
\* has it in memory may have given it to its own goroutines.
Alone(t) ==
  /\ local[t] # Missing /\ file # local[t]
  /\ \A p \in Procs : tok[p] = local[t] => p = home[t] /\ pc[t] # "renewed"
  /\ \A u \in Threads : local[u] = local[t] /\ u # t =>
       home[u] = home[t] /\ ~OnTheWay(u) /\ pc[t] # "renewed"
  /\ pc[t] = "renewed" => local[t] \in accepted

\* When such a goroutine has used it up, that goroutine has yet to put the next
\* token into the provider.
Followed(t) ==
  pc[t] \in {"opening", "writing"} /\ tok[home[t]] = local[t] /\ local[t] \notin accepted
    => \E u \in Threads : home[u] = home[t] /\ pc[u] = "renewed"

\* A file that is gone, torn or used up is about to be written.
Kept ==
  /\ loggedIn => file # Missing
  /\ file = Torn => \E t \in Threads : pc[t] = "writing" /\ linked[t]
  /\ file > 0 /\ ~overtaken /\ file \notin accepted
       => \E u \in Threads : pc[u] \in {"renewed", "opening"}

Handed == \A t \in Threads : OnTheWay(t) => Alone(t) /\ Followed(t)

SaveInv == TypeOK /\ (Refreshable /\ faults = 0 => Handed /\ Kept)

LEMMA SaveInitially == Init => SaveInv
<1>1. Init => \A t \in Threads : pc[t] = "idle"
  BY DEF Init
<1>2. Init => file = 0 /\ loggedIn = FALSE
  BY DEF Init, Missing
<1> QED
  BY <1>1, <1>2, TypeInit DEF SaveInv, Handed, Kept, OnTheWay, Torn, Missing

\* Steps of a goroutine that has nothing to store.
LEMMA QuietStep ==
  ASSUME TypeOK, Handed, Kept, NEW t \in Threads,
         pc[t] \notin {"renewed", "opening", "writing"},
         pc'[t] \notin {"renewed", "opening", "writing"},
         \A u \in Threads : u # t => pc'[u] = pc[u] /\ local'[u] = local[u],
         local'[t] \in {local[t], Missing, tok[home[t]]},
         UNCHANGED <<home, accepted, file, tok, linked, loggedIn, overtaken>>
  PROVE  Handed' /\ Kept'
<1> USE DEF OnTheWay
<1>1. home[t] \in Procs
  BY DeviceAssumption DEF TypeOK
<1>2. ASSUME NEW u \in Threads, OnTheWay(u)' PROVE Alone(u)' /\ Followed(u)'
  <2>1. u # t /\ OnTheWay(u) /\ pc'[u] = pc[u] /\ local'[u] = local[u]
    BY <1>2
  <2>2. Alone(u) /\ Followed(u)
    BY <2>1 DEF Handed
  <2>3. Alone(u)'
    BY <2>1, <2>2, <1>1 DEF Alone
  <2>4. Followed(u)'
    BY <2>1, <2>2 DEF Followed
  <2> QED
    BY <2>3, <2>4
<1>3. Kept'
  BY DEF Kept
<1> QED
  BY <1>2, <1>3 DEF Handed

\* The issuer hands out one token more, and takes one back at most.
LEMMA FreshStep ==
  ASSUME TypeOK, Handed, Kept, Refreshable, NEW t \in Threads,
         pc[t] \notin {"renewed", "opening", "writing"},
         NEW taken, taken \subseteq {local[t]}, Issue(taken),
         local' = [local EXCEPT ![t] = issued + 1],
         pc' = [pc EXCEPT ![t] = "renewed"],
         UNCHANGED <<file, tok, linked, loggedIn, overtaken>>
  PROVE  Handed' /\ Kept'
<1> USE DEF OnTheWay
<1>1. /\ home' = home /\ issued \in Nat
      /\ \A i : i \in accepted /\ i # local[t] => i \in accepted'
      /\ issued + 1 \in accepted'
  <2>1. home' = home /\ accepted' = (accepted \ taken) \cup {issued + 1}
    BY DEF Issue
  <2>2. issued \in Nat
    BY DeviceAssumption DEF TypeOK
  <2> QED
    BY <2>1, <2>2
<1>2. /\ \A u \in Threads : u # t => pc'[u] = pc[u] /\ local'[u] = local[u]
      /\ pc'[t] = "renewed" /\ local'[t] = issued + 1
  BY DEF TypeOK
<1>3. /\ file # issued + 1 /\ issued + 1 # 0
      /\ \A p \in Procs : tok[p] # issued + 1
      /\ \A u \in Threads : local[u] # issued + 1
  BY <1>1 DEF TypeOK, Torn
<1>4. Alone(t)' /\ Followed(t)'
  BY <1>1, <1>2, <1>3 DEF Alone, Followed, Missing
<1>5. ASSUME NEW u \in Threads, u # t, OnTheWay(u)' PROVE Alone(u)' /\ Followed(u)'
  <2>1. Alone(u)
    BY <1>5, <1>2 DEF Handed
  <2>2. Alone(u)'
    BY <1>1, <1>2, <1>3, <1>5, <2>1 DEF Alone
  <2>3. Followed(u)'
    <3>1. OnTheWay(u) /\ Followed(u) /\ pc'[u] = pc[u] /\ local'[u] = local[u]
      BY <1>2, <1>5 DEF Handed
    <3>2. CASE local[u] = local[t]
      <4>1. home[t] = home[u]
        BY <1>5, <2>1, <3>2 DEF Alone
      <4> QED
        BY <1>1, <1>2, <4>1 DEF Followed
    <3>3. CASE local[u] # local[t]
      <4>1. local'[u] \notin accepted' => local[u] \notin accepted
        BY <1>1, <3>1, <3>3
      <4>2. \A w \in Threads : pc[w] = "renewed" => pc'[w] = "renewed"
        BY <1>2
      <4> QED
        BY <1>1, <3>1, <4>1, <4>2 DEF Followed
    <3> QED
      BY <3>2, <3>3
  <2> QED
    BY <2>2, <2>3
<1>6. Kept'
  BY <1>2 DEF Kept
<1> QED
  BY <1>4, <1>5, <1>6 DEF Handed

\* The file is removed.
LEMMA DeleteStep ==
  ASSUME TypeOK, Handed, Kept, Delete,
         \A u \in Threads : OnTheWay(u)' <=> OnTheWay(u),
         \A u \in Threads : OnTheWay(u) => pc'[u] = pc[u],
         \A u \in Threads : pc[u] = "renewed" => pc'[u] = "renewed",
         UNCHANGED <<home, accepted, tok, local>>
  PROVE  Handed' /\ Kept'
<1>1. file' = 0 /\ loggedIn' = FALSE
  BY DEF Delete, Missing
<1>2. Kept'
  BY <1>1 DEF Kept, Torn, Missing
<1>3. ASSUME NEW u \in Threads, OnTheWay(u)' PROVE Alone(u)' /\ Followed(u)'
  <2>1. OnTheWay(u) /\ Alone(u) /\ Followed(u) /\ pc'[u] = pc[u]
    BY <1>3 DEF Handed
  <2>2. Alone(u)'
    BY <2>1, <1>1 DEF Alone, Missing
  <2>3. Followed(u)'
    BY <2>1 DEF Followed
  <2> QED
    BY <2>2, <2>3
<1> QED
  BY <1>2, <1>3 DEF Handed
\* Every step.
LEMMA SaveStep == SaveInv /\ [Next]_vars => SaveInv'
<1> SUFFICES ASSUME SaveInv, [Next]_vars, Refreshable', faults' = 0
             PROVE  Handed' /\ Kept'
  BY TypeStep DEF SaveInv
<1>0. /\ TypeOK /\ TypeOK' /\ Refreshable /\ UNCHANGED <<issuer, home>>
  BY TypeStep, World DEF SaveInv, Refreshable
<1>00. faults = 0
  BY <1>0, FaultsStay
<1>01. Handed /\ Kept /\ \A f : ~Fault(f)
  BY <1>0, <1>00 DEF SaveInv, Fault, TypeOK
<1> USE <1>0, <1>01
<1>02. ASSUME UNCHANGED <<home, pc, local, accepted, file, tok, linked, loggedIn, overtaken>>
       PROVE  Handed' /\ Kept'
  BY <1>02 DEF Handed, Kept, Alone, Followed, OnTheWay
<1>1. ASSUME NEW p \in Procs, Probe(p) PROVE Handed' /\ Kept'
  BY <1>1, <1>02 DEF Probe, worldVars, threadVars, historyVars
<1>2. ASSUME NEW p \in Procs, Load(p) PROVE Handed' /\ Kept'
  <2>1. UNCHANGED <<home, pc, local, accepted, file, linked, loggedIn, overtaken>>
    BY <1>2 DEF Load, worldVars, threadVars, Crowd
  <2>2. \A q \in Procs : tok'[q] \in {tok[q], file, Missing}
    BY <1>2 DEF Load, Get, TypeOK
  <2>3. ASSUME NEW u \in Threads, OnTheWay(u)' PROVE Alone(u)' /\ Followed(u)'
    <3>1. OnTheWay(u) /\ Alone(u) /\ Followed(u) /\ home[u] \in Procs
      BY <2>1, <2>3, DeviceAssumption DEF OnTheWay, Handed, TypeOK
    <3>2. Alone(u)'
      BY <2>1, <2>2, <3>1 DEF Alone, OnTheWay
    <3>3. tok'[home[u]] = local[u] => tok[home[u]] = local[u]
      BY <2>2, <3>1 DEF Alone
    <3>4. Followed(u)'
      BY <2>1, <3>1, <3>3 DEF Followed
    <3> QED
      BY <3>2, <3>4
  <2>4. Kept'
    BY <2>1 DEF Kept
  <2> QED
    BY <2>3, <2>4 DEF Handed
<1>3. ASSUME NEW p \in Procs, Stop(p) PROVE Handed' /\ Kept'
  <2>1. /\ \A t \in Threads : home[t] = p => pc[t] = "idle"
        /\ UNCHANGED <<home, accepted, file, loggedIn, overtaken>>
    BY <1>3 DEF Stop, worldVars, historyVars
  <2>2. /\ \A q \in Procs : tok'[q] \in {tok[q], Missing}
        /\ \A t \in Threads : pc'[t] = pc[t] /\ local'[t] \in {local[t], Missing}
        /\ \A t \in Threads : home[t] # p => local'[t] = local[t]
        /\ \A t \in Threads : home[t] # p => (linked'[t] <=> linked[t])
    BY <1>3, <2>1 DEF Stop, TypeOK
  <2>3. ASSUME NEW u \in Threads, OnTheWay(u)' PROVE Alone(u)' /\ Followed(u)'
    <3>1. OnTheWay(u) /\ home[u] # p /\ local'[u] = local[u] /\ pc'[u] = pc[u]
      BY <2>1, <2>2, <2>3 DEF OnTheWay
    <3>2. Alone(u) /\ Followed(u) /\ home[u] \in Procs
      BY <3>1, DeviceAssumption DEF Handed, TypeOK
    <3>3. Alone(u)'
      BY <2>1, <2>2, <3>1, <3>2 DEF Alone, OnTheWay
    <3>4. tok'[home[u]] = local[u] => tok[home[u]] = local[u]
      BY <2>2, <3>2 DEF Alone
    <3>5. Followed(u)'
      BY <2>1, <2>2, <3>1, <3>2, <3>4 DEF Followed
    <3> QED
      BY <3>3, <3>5
  <2>4. Kept'
    BY <2>1, <2>2 DEF Kept
  <2> QED
    BY <2>3, <2>4 DEF Handed
<1>4. ASSUME NEW t \in Threads, Apply(t) \/ Judge(t) \/ Conclude(t) \/ Return(t)
      PROVE  Handed' /\ Kept'
  <2>1. UNCHANGED <<home, accepted, file, tok, linked, loggedIn, overtaken>>
    BY <1>4 DEF Apply, Judge, Conclude, Return, worldVars, procVars, historyVars, Crowd
  <2>2. /\ pc[t] \notin {"renewed", "opening", "writing"}
        /\ pc'[t] \notin {"renewed", "opening", "writing"}
    BY <1>4 DEF Apply, Judge, Conclude, Return, Goto, TypeOK
  <2>3. \A u \in Threads : u # t => pc'[u] = pc[u] /\ local'[u] = local[u]
    BY <1>4 DEF Apply, Judge, Conclude, Return, Goto, TypeOK
  <2>4. local'[t] \in {local[t], Missing, tok[home[t]]}
    BY <1>4 DEF Apply, Judge, Conclude, Return, TypeOK
  <2> QED
    BY <2>1, <2>2, <2>3, <2>4, QuietStep
<1>5. ASSUME NEW t \in Threads, Exchange(t) PROVE Handed' /\ Kept'
  <2>1. UNCHANGED <<file, tok, linked, loggedIn, overtaken>> /\ pc[t] = "asking"
    BY <1>5 DEF Exchange, procVars, historyVars, Crowd
  <2>2. CASE local[t] \in accepted
    <3> DEFINE taken == IF issuer = "rotate" THEN {local[t]} ELSE {}
    <3>1. /\ Issue(taken) /\ local' = [local EXCEPT ![t] = issued + 1]
          /\ pc' = [pc EXCEPT ![t] = "renewed"]
      BY <1>5, <2>2 DEF Exchange, Goto
    <3>2. taken \subseteq {local[t]}
      OBVIOUS
    <3> HIDE DEF taken
    <3> QED
      BY <2>1, <3>1, <3>2, FreshStep
  <2>3. CASE local[t] \notin accepted
    <3>1. UNCHANGED <<accepted, local>> /\ pc' = [pc EXCEPT ![t] = "refused"]
      BY <1>5, <2>3 DEF Exchange, Goto, worldVars
    <3> QED
      BY <2>1, <3>1, QuietStep DEF TypeOK
  <2> QED
    BY <2>2, <2>3
<1>6. ASSUME NEW t \in Threads, Remember(t) PROVE Handed' /\ Kept'
  <2>1. UNCHANGED <<home, accepted, file, local, linked, loggedIn, overtaken>>
    BY <1>6 DEF Remember, worldVars, historyVars
  <2>2. /\ pc[t] = "renewed" /\ pc'[t] = "opening" /\ home[t] \in Procs
        /\ \A u \in Threads : u # t => pc'[u] = pc[u]
        /\ tok'[home[t]] = local[t]
        /\ \A p \in Procs : p # home[t] => tok'[p] = tok[p]
    BY <1>6, DeviceAssumption DEF Remember, Goto, TypeOK
  <2>3. Alone(t) /\ OnTheWay(t)
    BY <2>2 DEF Handed, OnTheWay
  <2>4. Alone(t)' /\ Followed(t)'
    BY <2>1, <2>2, <2>3 DEF Alone, Followed, OnTheWay
  <2>5. ASSUME NEW u \in Threads, u # t, OnTheWay(u)' PROVE Alone(u)' /\ Followed(u)'
    <3>1. OnTheWay(u) /\ Alone(u) /\ pc'[u] = pc[u] /\ local[u] # local[t]
      BY <2>2, <2>3, <2>5 DEF OnTheWay, Handed, Alone
    <3>2. home[u] \in Procs
      BY DeviceAssumption DEF TypeOK
    <3>3. Alone(u)'
      BY <2>1, <2>2, <3>1 DEF Alone, OnTheWay
    <3>4. Followed(u)'
      <4>1. CASE home[u] = home[t]
        BY <2>1, <2>2, <3>1, <4>1 DEF Followed
      <4>2. CASE home[u] # home[t]
        <5>1. Followed(u) /\ tok'[home[u]] = tok[home[u]]
          BY <2>2, <3>1, <3>2, <4>2 DEF Handed
        <5>2. \A w \in Threads : home[w] = home[u] => pc'[w] = pc[w]
          BY <2>2, <4>2
        <5> QED
          BY <2>1, <3>1, <5>1, <5>2 DEF Followed
      <4> QED
        BY <4>1, <4>2
    <3> QED
      BY <3>3, <3>4
  <2>6. Kept'
    BY <2>1, <2>2 DEF Kept
  <2> QED
    BY <2>4, <2>5, <2>6 DEF Handed
<1>7. ASSUME NEW t \in Threads, Open(t) PROVE Handed' /\ Kept'
  <2>1. UNCHANGED <<home, accepted, tok, local, loggedIn, overtaken>> /\ file' = Torn
    BY <1>7 DEF Open, worldVars, procVars, historyVars
  <2>2. /\ pc[t] = "opening" /\ pc'[t] = "writing" /\ linked'[t]
        /\ \A u \in Threads : u # t => pc'[u] = pc[u]
    BY <1>7 DEF Open, Goto, TypeOK
  <2>3. ASSUME NEW u \in Threads, OnTheWay(u)' PROVE Alone(u)' /\ Followed(u)'
    <3>1. /\ OnTheWay(u) /\ Alone(u) /\ Followed(u)
          /\ (pc'[u] = "renewed" <=> pc[u] = "renewed") /\ local[u] # Torn
      BY <2>2, <2>3 DEF OnTheWay, Handed, TypeOK, Torn
    <3>2. Alone(u)'
      BY <2>1, <2>2, <3>1 DEF Alone, OnTheWay
    <3>3. Followed(u)'
      BY <2>1, <2>2, <3>1 DEF Followed
    <3> QED
      BY <3>2, <3>3
  <2>4. Kept'
    BY <2>1, <2>2 DEF Kept, Torn, Missing
  <2> QED
    BY <2>3, <2>4 DEF Handed
<1>8. ASSUME NEW t \in Threads, Save(t) PROVE Handed' /\ Kept'
  <2>1. UNCHANGED <<home, accepted, tok, local>>
    BY <1>8 DEF Save, worldVars, procVars
  <2>2. /\ pc[t] = "writing" /\ pc'[t] = "stored"
        /\ \A u \in Threads : u # t => pc'[u] = pc[u]
        /\ \A u \in Threads : u # t => (linked'[u] <=> linked[u])
    <3>1. pc' = [pc EXCEPT ![t] = "stored"] /\ linked' = [linked EXCEPT ![t] = FALSE]
      BY <1>8 DEF Save, Goto
    <3>2. pc[t] = "writing"
      BY <1>8 DEF Save
    <3> QED
      BY <3>1, <3>2 DEF TypeOK
  <2>3. Alone(t) /\ Followed(t)
    BY <2>2 DEF Handed, OnTheWay
  <2>4. \/ ~linked[t] /\ file' = file /\ overtaken' = overtaken /\ loggedIn' = loggedIn
        \/ linked[t] /\ file' = local[t] /\ (overtaken' <=> tok[home[t]] # local[t])
    <3>1. CASE linked[t]
      <4>1. overtaken' = (tok[home[t]] # local[t])
        BY <1>8, <3>1, Zenon DEF Save
      <4>2. file' = local[t]
        BY <1>8, <1>01, <3>1 DEF Save
      <4> QED
        BY <3>1, <4>1, <4>2
    <3>2. CASE ~linked[t]
      <4>1. overtaken' = overtaken /\ loggedIn' = loggedIn
        <5>1. overtaken' = IF linked[t] THEN tok[home[t]] # local[t] ELSE overtaken
          BY <1>8, Zenon DEF Save
        <5>2. loggedIn' = (loggedIn \/ (call[t] = "login" /\ linked[t]))
          BY <1>8, Zenon DEF Save
        <5> QED
          BY <3>2, <5>1, <5>2 DEF TypeOK
      <4>2. file' = file
        BY <1>8, <3>2 DEF Save
      <4> QED
        BY <3>2, <4>1, <4>2
    <3> QED
      BY <3>1, <3>2
  <2>5. ASSUME NEW u \in Threads, OnTheWay(u)' PROVE Alone(u)' /\ Followed(u)'
    <3>1. u # t /\ OnTheWay(u) /\ Alone(u) /\ Followed(u) /\ pc'[u] = pc[u]
      BY <2>2, <2>5 DEF OnTheWay, Handed
    <3>2. local[u] # local[t] /\ file' # local[u]
      BY <2>2, <2>3, <2>4, <3>1 DEF Alone
    <3>3. Alone(u)'
      BY <2>1, <2>2, <3>1, <3>2 DEF Alone, OnTheWay
    <3>4. Followed(u)'
      BY <2>1, <2>2, <3>1 DEF Followed
    <3> QED
      BY <3>3, <3>4
  <2>6. CASE ~linked[t]
    <3>1. file' = file /\ overtaken' = overtaken /\ loggedIn' = loggedIn
      BY <2>4, <2>6
    <3>2. file = Torn => \E u \in Threads : u # t /\ pc[u] = "writing" /\ linked[u]
      BY <2>6 DEF Kept
    <3>3. Kept'
      BY <2>1, <2>2, <3>1, <3>2 DEF Kept
    <3> QED
      BY <2>5, <3>3 DEF Handed
  <2>7. CASE linked[t]
    <3>1. file' = local[t] /\ local[t] # Missing /\ local[t] # Torn
      BY <2>3, <2>4, <2>7 DEF Alone, TypeOK, Torn
    <3>2. ~overtaken' /\ local[t] \notin accepted => \E u \in Threads : pc[u] = "renewed"
      BY <2>2, <2>3, <2>4, <2>7 DEF Followed
    <3>3. Kept'
      BY <2>1, <2>2, <3>1, <3>2 DEF Kept
    <3> QED
      BY <2>5, <3>3 DEF Handed
  <2> QED
    BY <2>6, <2>7
<1>9. ASSUME NEW t \in Threads, SaveFail(t) PROVE FALSE
  BY <1>9 DEF SaveFail
<1>10. ASSUME NEW t \in Threads, Login(t) PROVE Handed' /\ Kept'
  <2>1. /\ pc[t] = "idle" /\ Issue({})
        /\ local' = [local EXCEPT ![t] = issued + 1]
        /\ pc' = [pc EXCEPT ![t] = "renewed"]
        /\ UNCHANGED <<file, tok, linked, loggedIn, overtaken>>
    BY <1>10 DEF Login, Goto, procVars, historyVars
  <2>2. {} \subseteq {local[t]}
    OBVIOUS
  <2> QED
    BY <2>1, <2>2, FreshStep
<1>11. ASSUME NEW t \in Threads, Logout(t) PROVE Handed' /\ Kept'
  <2>1. UNCHANGED <<home, accepted, file, local, linked, loggedIn, overtaken>>
    BY <1>11 DEF Logout, worldVars, historyVars
  <2>2. /\ pc[t] = "idle" /\ pc'[t] = "deleting"
        /\ \A u \in Threads : u # t => pc'[u] = pc[u]
        /\ \A q \in Procs : tok'[q] \in {tok[q], Missing}
    BY <1>11 DEF Logout, Goto, TypeOK
  <2>3. ASSUME NEW u \in Threads, OnTheWay(u)' PROVE Alone(u)' /\ Followed(u)'
    <3>1. OnTheWay(u) /\ Alone(u) /\ Followed(u) /\ pc'[u] = pc[u] /\ home[u] \in Procs
      BY <2>2, <2>3, DeviceAssumption DEF OnTheWay, Handed, TypeOK
    <3>2. Alone(u)'
      BY <2>1, <2>2, <3>1 DEF Alone, OnTheWay
    <3>3. tok'[home[u]] = local[u] => tok[home[u]] = local[u]
      BY <2>2, <3>1 DEF Alone
    <3>4. Followed(u)'
      BY <2>1, <2>2, <3>1, <3>3 DEF Followed
    <3> QED
      BY <3>2, <3>4
  <2>4. Kept'
    BY <2>1, <2>2 DEF Kept
  <2> QED
    BY <2>3, <2>4 DEF Handed
<1>12. ASSUME NEW t \in Threads, LogoutDelete(t) PROVE Handed' /\ Kept'
  <2>1. Delete /\ UNCHANGED <<home, accepted, tok, local>>
    BY <1>12 DEF LogoutDelete, worldVars, procVars
  <2>2. /\ pc[t] = "deleting" /\ pc'[t] = "granted"
        /\ \A u \in Threads : u # t => pc'[u] = pc[u]
    BY <1>12 DEF LogoutDelete, Goto, TypeOK
  <2>3. /\ \A u \in Threads : OnTheWay(u)' <=> OnTheWay(u)
        /\ \A u \in Threads : OnTheWay(u) => pc'[u] = pc[u]
        /\ \A u \in Threads : pc[u] = "renewed" => pc'[u] = "renewed"
    BY <2>2 DEF OnTheWay
  <2> QED
    BY <2>1, <2>3, DeleteStep
<1>13. CASE RunAuthLogout
  <2>1. Delete /\ UNCHANGED <<home, accepted, tok, local, pc>>
    BY <1>13 DEF RunAuthLogout, worldVars, procVars
  <2> QED
    BY <2>1, DeleteStep DEF OnTheWay
<1>14. CASE Expire
  BY <1>14, <1>02 DEF Expire, procVars, threadVars, historyVars
<1>15. CASE UNCHANGED vars
  BY <1>15, <1>02 DEF vars, worldVars, procVars, threadVars, historyVars
<1> QED
  BY ONLY Split, <1>0, [Next]_vars, <1>1, <1>2, <1>3, <1>4, <1>5, <1>6, <1>7, <1>8, <1>9,
     <1>10, <1>11, <1>12, <1>13, <1>14, <1>15

\* Without a fault a login outlives the processes, however many of them and of
\* their goroutines refresh and store at once (tokencache.go:13).
THEOREM Survival == Spec => []Survives
<1>1. SaveInv => Survives
  BY DEF SaveInv, Kept, Survives, Usable, OnTheWay, TypeOK, Missing, Torn
<1> QED
  BY <1>1, SaveInitially, SaveStep, PTL DEF Spec
=============================================================================

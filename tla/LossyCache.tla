----------------------------- MODULE LossyCache -----------------------------
(***************************************************************************)
(* What the response cache of apimount promises to its callers             *)
(* (internal/core/cache), without the map, the lock and the byte counter:  *)
(* a lookup answers with the body of the last Set of that key that no      *)
(* Invalidate has covered since, or with a miss, and never with a body     *)
(* whose time to live had run out when the answer was decided.  A miss is  *)
(* always allowed: the cache may forget anything at any time.              *)
(*                                                                         *)
(* A lookup takes two steps because the code reads the map and the clock   *)
(* at different moments (cache.go:52-66).                                  *)
(***************************************************************************)
EXTENDS Naturals

CONSTANTS
  Keys,     \* cache keys
  Bodies,   \* response bodies
  Readers,  \* the goroutines that call the cache
  Targets,  \* the sets of keys that one Invalidate argument matches
  TTL,      \* time to live of an entry, in ticks
  MaxNow,   \* bound on the clock
  NoEntry   \* "not in the map"

Entry == [body : Bodies, expiresAt : Nat]

VARIABLES
  now,      \* the clock
  latest,   \* latest[k]: the last entry set for k and not invalidated since
  looking,  \* looking[p]: p has read the map and not yet decided
  saw       \* saw[p]: the entry p read, and after the decision its answer

lossyVars == <<now, latest, looking, saw>>

Init ==
  /\ now = 0
  /\ latest = [k \in Keys |-> NoEntry]
  /\ looking = [p \in Readers |-> FALSE]
  /\ saw = [p \in Readers |-> NoEntry]

\* The map is read: the caller sees the latest entry or nothing at all.
Look(p, k) ==
  /\ ~looking[p]
  /\ \E e \in {latest[k], NoEntry} :
       /\ saw' = [saw EXCEPT ![p] = e]
       /\ looking' = [looking EXCEPT ![p] = e # NoEntry]
  /\ UNCHANGED <<now, latest>>

\* The clock is read: a hit needs a live entry, a miss is always possible.
Decide(p) ==
  /\ looking[p]
  /\ looking' = [looking EXCEPT ![p] = FALSE]
  /\ \/ now <= saw[p].expiresAt /\ saw' = saw
     \/ saw' = [saw EXCEPT ![p] = NoEntry]
  /\ UNCHANGED <<now, latest>>

\* The caller starts something else and its last answer is history.
Leave(p) ==
  /\ ~looking[p]
  /\ saw' = [saw EXCEPT ![p] = NoEntry]
  /\ UNCHANGED <<now, latest, looking>>

Set(k, b) ==
  /\ latest' = [latest EXCEPT ![k] = [body |-> b, expiresAt |-> now + TTL]]
  /\ UNCHANGED <<now, looking, saw>>

Invalidate(K) ==
  /\ latest' = [k \in Keys |-> IF k \in K THEN NoEntry ELSE latest[k]]
  /\ UNCHANGED <<now, looking, saw>>

Tick ==
  /\ now < MaxNow
  /\ now' = now + 1
  /\ UNCHANGED <<latest, looking, saw>>

Next ==
  \/ \E p \in Readers : Decide(p) \/ Leave(p) \/ \E k \in Keys : Look(p, k)
  \/ \E k \in Keys, b \in Bodies : Set(k, b)
  \/ \E K \in Targets : Invalidate(K)
  \/ Tick

Spec == Init /\ [][Next]_lossyVars
=============================================================================

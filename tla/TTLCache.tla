------------------------------ MODULE TTLCache ------------------------------
(***************************************************************************)
(* The response cache, internal/core/cache/cache.go: a map under a         *)
(* reader/writer mutex, a byte counter curSize and a time to live.         *)
(*                                                                         *)
(* Any number of goroutines call Get, Set and Invalidate.  The steps are   *)
(* the code's critical sections: Get reads the map in one, reads the clock *)
(* outside any, and deletes what it found expired in another, so anything  *)
(* may happen in between.  Set holds the mutex for all its steps: the      *)
(* subtraction of the entry it replaces, each turn of the eviction loop,   *)
(* the store.  The read-locked section of Get is one step, which the free  *)
(* mutex guards.                                                           *)
(***************************************************************************)
EXTENDS Integers, FiniteSets

CONSTANTS
  Keys,      \* cache keys
  Bodies,    \* response bodies
  Length,    \* Length[b]: the bytes of body b
  Serves,    \* Serves[k]: the bodies the callers store under key k
  Procs,     \* goroutines that call the cache
  Targets,   \* the sets of keys that one Invalidate argument matches
  MaxSize,   \* capacity in bytes, 0 for none
  TTL,       \* time to live of an entry in ticks, 0 for a disabled cache
  Sweeping,  \* whether StartEviction was called
  MaxNow,    \* bound on the clock
  NoEntry,   \* "not in the map"
  NoProc     \* "mutex not write-locked"

Entry == [body : Bodies, expiresAt : Nat]

ASSUME CacheAssumption ==
  /\ IsFiniteSet(Keys) /\ Keys # {}
  /\ Bodies # {}
  /\ Length \in [Bodies -> Nat]
  /\ Serves \in [Keys -> SUBSET Bodies]
  /\ Targets \subseteq SUBSET Keys
  /\ MaxSize \in Nat /\ TTL \in Nat /\ MaxNow \in Nat
  /\ Sweeping \in BOOLEAN
  /\ NoEntry \notin Entry
  /\ NoProc \notin Procs

VARIABLES
  now,      \* the clock, in ticks
  entries,  \* Cache.entries
  curSize,  \* Cache.curSize
  mu,       \* the goroutine that holds the mutex for writing
  value,    \* the body the holder of mu is storing
  pc,       \* where each goroutine is
  key,      \* the key its call is about
  held,     \* the entry its Get read; when idle, the entry it answered with
  latest    \* history: the last entry set and not invalidated since

vars == <<now, entries, curSize, mu, value, pc, key, held, latest>>

TypeOK ==
  /\ now \in 0..MaxNow
  /\ entries \in [Keys -> Entry \cup {NoEntry}]
  /\ curSize \in Int
  /\ mu \in Procs \cup {NoProc}
  /\ value \in Bodies
  /\ pc \in [Procs -> {"idle", "got", "expired", "evicting"}]
  /\ key \in [Procs -> Keys]
  /\ held \in [Procs -> Entry \cup {NoEntry}]
  /\ latest \in [Keys -> Entry \cup {NoEntry}]

-----------------------------------------------------------------------------
Cached == {k \in Keys : entries[k] # NoEntry}
Size(e) == IF e = NoEntry THEN 0 ELSE Length[e.body]
Expired(e, t) == t > e.expiresAt
Delete(k) == [entries EXCEPT ![k] = NoEntry]

\* The bytes in the map, each named by its key and its place in the body.
BytesOf(k, e) == {k} \X (1..Size(e))
StoredBytes(m) == UNION {BytesOf(k, m[k]) : k \in Keys}
TotalSize == Cardinality(StoredBytes(entries))

Init ==
  /\ now = 0
  /\ entries = [k \in Keys |-> NoEntry]
  /\ curSize = 0
  /\ mu = NoProc
  /\ value \in Bodies
  /\ pc = [p \in Procs |-> "idle"]
  /\ key \in [Procs -> Keys]
  /\ held = [p \in Procs |-> NoEntry]
  /\ latest = [k \in Keys |-> NoEntry]

-----------------------------------------------------------------------------
(* Get *)

\* cache.go:52-57, the read-locked section and the return on an absent key.
GetRead(p, k) ==
  /\ TTL > 0
  /\ pc[p] = "idle" /\ mu = NoProc
  /\ key' = [key EXCEPT ![p] = k]
  /\ held' = [held EXCEPT ![p] = entries[k]]
  /\ pc' = [pc EXCEPT ![p] = IF entries[k] = NoEntry THEN "idle" ELSE "got"]
  /\ UNCHANGED <<now, entries, curSize, mu, value, latest>>

\* The clock is read with no lock held: hit, or on to the deletion.
GetCheck(p) ==
  /\ pc[p] = "got"
  /\ pc' = [pc EXCEPT ![p] = IF Expired(held[p], now) THEN "expired" ELSE "idle"]
  /\ UNCHANGED <<now, entries, curSize, mu, value, key, held, latest>>

\* Mutant of GetDelete: the bytes of the deleted entry are not given back.
GetDeleteKeepsSize(p) ==
  /\ pc[p] = "expired" /\ mu = NoProc
  /\ entries' = Delete(key[p])
  /\ held' = [held EXCEPT ![p] = NoEntry]
  /\ pc' = [pc EXCEPT ![p] = "idle"]
  /\ UNCHANGED <<now, curSize, mu, value, key, latest>>

\* The key is deleted whatever it maps to by now, and the size of the entry
\* that was read is subtracted whether or not that entry was still there.
GetDelete(p) ==
  /\ pc[p] = "expired" /\ mu = NoProc
  /\ entries' = Delete(key[p])
  /\ curSize' = curSize - Size(held[p])
  /\ held' = [held EXCEPT ![p] = NoEntry]
  /\ pc' = [pc EXCEPT ![p] = "idle"]
  /\ UNCHANGED <<now, mu, value, key, latest>>

-----------------------------------------------------------------------------
(* Set *)

TooLarge(b) == MaxSize > 0 /\ Length[b] > MaxSize
Full == MaxSize > 0 /\ curSize + Length[value] > MaxSize

\* Lock; the entry about to be replaced is subtracted but stays in the map.
SetBegin(p, k, b) ==
  /\ TTL > 0 /\ ~TooLarge(b)
  /\ pc[p] = "idle" /\ mu = NoProc
  /\ mu' = p
  /\ key' = [key EXCEPT ![p] = k]
  /\ value' = b
  /\ curSize' = curSize - Size(entries[k])
  /\ held' = [held EXCEPT ![p] = NoEntry]
  /\ pc' = [pc EXCEPT ![p] = "evicting"]
  /\ UNCHANGED <<now, entries, latest>>

\* Mutant of Victims: any entry will do, expired or not.
VictimsAny == Cached

\* evictOne takes the first expired entry its iteration meets, else any.
Victims ==
  LET dead == {k \in Cached : Expired(entries[k], now)}
  IN  IF dead # {} THEN dead ELSE Cached

\* On an empty map evictOne removes nothing and the loop only turns.
EvictOne(p) ==
  /\ pc[p] = "evicting" /\ Full
  /\ IF Victims = {} THEN UNCHANGED <<entries, curSize>>
     ELSE \E k \in Victims :
            /\ entries' = Delete(k)
            /\ curSize' = curSize - Size(entries[k])
  /\ UNCHANGED <<now, mu, value, pc, key, held, latest>>

\* Mutant of SetStore: the time to live is subtracted.
SetStoreInThePast(p) ==
  /\ pc[p] = "evicting" /\ ~Full
  /\ LET e == [body |-> value, expiresAt |-> now - TTL]
     IN  /\ entries' = [entries EXCEPT ![key[p]] = e]
         /\ latest' = [latest EXCEPT ![key[p]] = e]
  /\ curSize' = curSize + Length[value]
  /\ mu' = NoProc
  /\ pc' = [pc EXCEPT ![p] = "idle"]
  /\ UNCHANGED <<now, value, key, held>>

SetStore(p) ==
  /\ pc[p] = "evicting" /\ ~Full
  /\ LET e == [body |-> value, expiresAt |-> now + TTL]
     IN  /\ entries' = [entries EXCEPT ![key[p]] = e]
         /\ latest' = [latest EXCEPT ![key[p]] = e]
  /\ curSize' = curSize + Length[value]
  /\ mu' = NoProc
  /\ pc' = [pc EXCEPT ![p] = "idle"]
  /\ UNCHANGED <<now, value, key, held>>

-----------------------------------------------------------------------------
(* Removal of many entries in one critical section *)

\* Mutant of RemoveAll: curSize is forgotten.
RemoveAllKeepsSize(K) ==
  /\ mu = NoProc
  /\ entries' = [k \in Keys |-> IF k \in K THEN NoEntry ELSE entries[k]]
  /\ UNCHANGED curSize

\* Mutant of RemoveAll: the loop over the map ends at the first match.
RemoveAllFirst(K) ==
  /\ mu = NoProc
  /\ IF K = {} THEN UNCHANGED <<entries, curSize>>
     ELSE \E k \in K : entries' = Delete(k) /\ curSize' = curSize - Size(entries[k])

\* Invalidate, evictExpired: the keys of K leave the map, each subtracted.
RemoveAll(K) ==
  /\ mu = NoProc
  /\ entries' = [k \in Keys |-> IF k \in K THEN NoEntry ELSE entries[k]]
  /\ curSize' = curSize
       - Cardinality(UNION {BytesOf(k, entries[k]) : k \in K})

Invalidate(p, K) ==
  /\ pc[p] = "idle"
  /\ RemoveAll(K)
  /\ latest' = [k \in Keys |-> IF k \in K THEN NoEntry ELSE latest[k]]
  /\ UNCHANGED <<now, mu, value, pc, key, held>>

\* One tick of the background sweeper.  It reads the clock before it waits
\* for the mutex, so the time it compares with may be an old one.
Sweep ==
  /\ Sweeping /\ TTL > 0
  /\ \E t \in 0..now : RemoveAll({k \in Cached : Expired(entries[k], t)})
  /\ UNCHANGED <<now, mu, value, pc, key, held, latest>>

Tick ==
  /\ now < MaxNow
  /\ now' = now + 1
  /\ UNCHANGED <<entries, curSize, mu, value, pc, key, held, latest>>

-----------------------------------------------------------------------------
GetStep(p) == GetCheck(p) \/ GetDelete(p)
SetStep(p) == EvictOne(p) \/ SetStore(p)

Next ==
  \/ \E p \in Procs :
       \/ \E k \in Keys : GetRead(p, k)
       \/ \E k \in Keys : \E b \in Serves[k] : SetBegin(p, k, b)
       \/ \E K \in Targets : Invalidate(p, K)
       \/ GetStep(p)
       \/ SetStep(p)
  \/ Sweep
  \/ Tick

Spec == Init /\ [][Next]_vars

\* The scheduler runs a goroutine that is inside a call; nobody need call.
FairSpec == Spec /\ \A p \in Procs : WF_vars(GetStep(p)) /\ WF_vars(SetStep(p))

-----------------------------------------------------------------------------
(* Properties *)

\* The mutex is free exactly when no Set is in progress, and Get and Set
\* only ever handle entries of the key they were called with.
MutexDiscipline ==
  /\ \A p \in Procs : pc[p] = "evicting" <=> mu = p
  /\ \A p \in Procs : pc[p] \in {"got", "expired"} =>
       held[p] # NoEntry /\ held[p].body \in Serves[key[p]]
  /\ \A k \in Keys : entries[k] # NoEntry => entries[k].body \in Serves[k]
  /\ \A p \in Procs : mu = p =>
       value \in Serves[key[p]] /\ ~TooLarge(value) /\ held[p] = NoEntry

\* The bytes the counter should stand for: those in the map, less the entry a
\* Set in progress has already subtracted and not yet overwritten.
Replaced == IF mu = NoProc THEN NoEntry ELSE entries[key[mu]]
Accounted == TotalSize - Size(Replaced)

\* Two setups in which the counter behaves.
FixedLength ==
  \A k \in Keys : \A b, c \in Serves[k] : Length[b] = Length[c]
Alone == ~Sweeping /\ \A p, q \in Procs : p = q

\* The counter never claims more bytes than the map holds.  Everything that
\* removes an entry subtracts a size of its own (cache.go:58-62, 81-83,
\* 99-107, 109-126, 141-151), so two of them that meet on one entry may drive
\* the counter down, but nothing may leave it high.
NeverOvercounts == curSize <= Accounted

\* The eviction loop of Set (cache.go:85-87) has something to evict whenever
\* it turns: it holds the mutex, so nobody else could ever lower curSize.
EvictionFindsVictim == \A p \in Procs : pc[p] = "evicting" /\ Full => Victims # {}

\* Set returns (cache.go:68-95).  A Set that does not return keeps the mutex
\* and with it every later Get, Set and Invalidate.
SetReturns == \A p \in Procs : pc[p] = "evicting" ~> pc[p] = "idle"

\* Whenever the mutex is free the counter is the size of the map.
ExactAccounting == mu = NoProc => curSize = TotalSize

\* The map never holds more than the maximum size in bytes New was given
\* (cache.go:26-33).
CapacityRespected == MaxSize > 0 /\ mu = NoProc => TotalSize <= MaxSize

\* A live entry leaves the map, or is replaced, only for a cause the caller
\* can know of: an Invalidate that covers its key, a Set of its key, a Set
\* that needs the room when no expired entry is left to evict, or a Get that
\* had found an older, expired entry of the same key (cache.go:58-62).
LiveLossHasCause ==
  [][\A k \in Cached : ~Expired(entries[k], now) /\ entries'[k] # entries[k] =>
       \/ latest'[k] # latest[k]
       \/ \E p \in Procs : /\ pc[p] = "evicting" /\ Full
                           /\ \A j \in Cached : ~Expired(entries[j], now)
       \/ \E p \in Procs : /\ pc[p] = "expired" /\ pc'[p] = "idle"
                           /\ key[p] = k /\ held[p] # entries[k]]_vars

\* What an answer may be: the lookups of LossyCache are the Gets, its latest
\* entries those the last Set stored (the whole of cache.go:47-158).
Promise == INSTANCE LossyCache WITH
  Readers <- Procs,
  looking <- [p \in Procs |-> pc[p] = "got"],
  saw <- [p \in Procs |-> IF pc[p] \in {"idle", "got"} THEN held[p] ELSE NoEntry]

\* Every behaviour of the cache is one that LossyCache allows: no hit is older
\* than the last Set of its key, or invalidated, or past its time to live.
PromiseKept == Promise!Spec

\* The map holds nothing but latest entries: this is what a Get relies on.
Coherent == \A k \in Keys : entries[k] # NoEntry => entries[k] = latest[k]
=============================================================================

--------------------------- MODULE TTLCacheProofs ---------------------------
(***************************************************************************)
(* Theorems about TTLCache, for every set of keys, bodies and goroutines   *)
(* and every capacity and time to live.                                    *)
(***************************************************************************)
EXTENDS TTLCache, FiniteSetTheorems, TLAPS

Maps == [Keys -> Entry \cup {NoEntry}]

-----------------------------------------------------------------------------
(* Counting bytes *)

\* The size of an entry is a natural number.
LEMMA SizeType ==
  ASSUME NEW e \in Entry \cup {NoEntry}
  PROVE  Size(e) \in Nat
BY CacheAssumption DEF Size, Entry

\* A row of bytes has as many members as the entry has bytes.
LEMMA RowSize ==
  ASSUME NEW k, NEW e \in Entry \cup {NoEntry}
  PROVE  /\ IsFiniteSet(BytesOf(k, e))
         /\ Cardinality(BytesOf(k, e)) = Size(e)
<1>1. Size(e) \in Nat
  BY SizeType
<1>2. IsFiniteSet({k}) /\ Cardinality({k}) = 1
  BY FS_Singleton
<1>3. IsFiniteSet(1..Size(e)) /\ Cardinality(1..Size(e)) = Size(e)
  BY <1>1, FS_Interval
<1>4. Cardinality(BytesOf(k, e)) = 1 * Size(e) /\ IsFiniteSet(BytesOf(k, e))
  BY <1>2, <1>3, FS_Product DEF BytesOf
<1>. QED
  BY <1>1, <1>4

\* A map stores finitely many bytes, and so do any of its rows.
LEMMA StoredFinite ==
  ASSUME NEW m \in Maps, NEW K \in SUBSET Keys
  PROVE  IsFiniteSet(UNION {BytesOf(k, m[k]) : k \in K})
<1>1. \A k \in Keys : m[k] \in Entry \cup {NoEntry}
  BY DEF Maps
<1>2. \A k \in K : IsFiniteSet(BytesOf(k, m[k]))
  BY <1>1, RowSize
<1>3. IsFiniteSet(K)
  BY FS_Subset, CacheAssumption
<1>. DEFINE rows == {BytesOf(k, m[k]) : k \in K}
            row == [k \in K |-> BytesOf(k, m[k])]
<1>4. row \in Surjection(K, rows)
  BY DEF Surjection
<1>5. IsFiniteSet(rows)
  BY <1>3, <1>4, FS_Surjection
<1>. QED
  BY <1>2, <1>5, FS_UNION

\* Overwriting one key changes the total by the difference of two sizes.
LEMMA TotalUpdate ==
  ASSUME NEW m \in Maps, NEW k \in Keys, NEW e \in Entry \cup {NoEntry}
  PROVE  Cardinality(StoredBytes([m EXCEPT ![k] = e]))
           = Cardinality(StoredBytes(m)) - Size(m[k]) + Size(e)
<1>. DEFINE n == [m EXCEPT ![k] = e]
            rest == UNION {BytesOf(j, m[j]) : j \in Keys \ {k}}
<1>1. m[k] \in Entry \cup {NoEntry} /\ n \in Maps
  BY DEF Maps
<1>2. IsFiniteSet(rest)
  BY StoredFinite
<1>3. ASSUME NEW f \in Maps, \A j \in Keys \ {k} : f[j] = m[j]
      PROVE  Cardinality(StoredBytes(f)) = Cardinality(rest) + Size(f[k])
  <2>1. StoredBytes(f) = rest \cup BytesOf(k, f[k])
    BY <1>3 DEF StoredBytes
  <2>2. rest \cap BytesOf(k, f[k]) = {}
    BY DEF BytesOf
  <2>3. f[k] \in Entry \cup {NoEntry}
    BY <1>3 DEF Maps
  <2>4. /\ IsFiniteSet(BytesOf(k, f[k]))
        /\ Cardinality(BytesOf(k, f[k])) = Size(f[k])
    BY <2>3, RowSize
  <2>5. Cardinality(StoredBytes(f))
          = Cardinality(rest) + Size(f[k]) - Cardinality({})
    BY <1>2, <2>1, <2>2, <2>4, FS_Union
  <2>. QED
    BY <1>2, <2>3, <2>5, FS_EmptySet, FS_CardinalityType, SizeType
<1>4. Cardinality(StoredBytes(m)) = Cardinality(rest) + Size(m[k])
  BY <1>3
<1>5. Cardinality(StoredBytes(n)) = Cardinality(rest) + Size(e)
  <2>1. n[k] = e /\ \A j \in Keys \ {k} : n[j] = m[j]
    BY DEF Maps
  <2>. QED
    BY <1>1, <1>3, <2>1
<1>6. Cardinality(rest) \in Nat /\ Size(m[k]) \in Nat /\ Size(e) \in Nat
  BY <1>1, <1>2, FS_CardinalityType, SizeType
<1>. QED
  BY <1>4, <1>5, <1>6

\* Deleting one key takes its size from the total.
LEMMA TotalDelete ==
  ASSUME NEW m \in Maps, NEW k \in Keys
  PROVE  Cardinality(StoredBytes([m EXCEPT ![k] = NoEntry]))
           = Cardinality(StoredBytes(m)) - Size(m[k])
<1>. DEFINE n == [m EXCEPT ![k] = NoEntry]
<1>1. ASSUME NEW e \in Entry \cup {NoEntry}, e = NoEntry
      PROVE  Cardinality(StoredBytes(n))
               = Cardinality(StoredBytes(m)) - Size(m[k]) + Size(e)
  BY <1>1, TotalUpdate
<1>2. Cardinality(StoredBytes(n))
        = Cardinality(StoredBytes(m)) - Size(m[k]) + Size(NoEntry)
  BY <1>1
<1>3. Size(NoEntry) = 0 /\ Size(m[k]) \in Nat /\ Cardinality(StoredBytes(m)) \in Nat
  BY SizeType, StoredFinite, FS_CardinalityType DEF Maps, Size, StoredBytes
<1>. QED
  BY <1>2, <1>3

\* Clearing a set of keys takes away exactly the bytes of their rows.
LEMMA TotalRemove ==
  ASSUME NEW m \in Maps, NEW K \in SUBSET Keys
  PROVE  LET n == [k \in Keys |-> IF k \in K THEN NoEntry ELSE m[k]]
         IN  Cardinality(StoredBytes(n)) = Cardinality(StoredBytes(m))
               - Cardinality(UNION {BytesOf(k, m[k]) : k \in K})
<1>. DEFINE n == [k \in Keys |-> IF k \in K THEN NoEntry ELSE m[k]]
            gone == UNION {BytesOf(k, m[k]) : k \in K}
<1>1. n \in Maps
  BY DEF Maps
<1>2. IsFiniteSet(gone) /\ IsFiniteSet(StoredBytes(n))
  BY <1>1, StoredFinite DEF StoredBytes
<1>3. \A k \in K : BytesOf(k, n[k]) = {}
  BY DEF BytesOf, Size
<1>4. StoredBytes(m) = gone \cup StoredBytes(n)
  BY <1>3 DEF StoredBytes
<1>5. gone \cap StoredBytes(n) = {}
  <2>. SUFFICES ASSUME NEW x \in gone, x \in StoredBytes(n)
                PROVE  FALSE
    OBVIOUS
  <2>1. PICK k \in K : x \in BytesOf(k, m[k])
    OBVIOUS
  <2>2. PICK j \in Keys : x \in BytesOf(j, n[j])
    BY DEF StoredBytes
  <2>3. j = k
    BY <2>1, <2>2 DEF BytesOf
  <2>. QED
    BY <1>3, <2>2, <2>3
<1>6. Cardinality(StoredBytes(m))
        = Cardinality(gone) + Cardinality(StoredBytes(n)) - Cardinality({})
  BY <1>2, <1>4, <1>5, FS_Union
<1>. QED
  BY <1>2, <1>6, FS_EmptySet, FS_CardinalityType

\* The total is a natural number, and zero when the map is empty.
LEMMA TotalType ==
  ASSUME entries \in Maps
  PROVE  /\ TotalSize \in Nat
         /\ Cached = {} => TotalSize = 0
<1>1. IsFiniteSet(StoredBytes(entries))
  BY StoredFinite DEF StoredBytes
<1>2. ASSUME Cached = {}
      PROVE  StoredBytes(entries) = {}
  BY <1>2 DEF Cached, StoredBytes, BytesOf, Size
<1>. QED
  BY <1>1, <1>2, FS_CardinalityType, FS_EmptySet DEF TotalSize

\* Storing an entry: the total grows by the new body and loses the old entry.
LEMMA TotalStore ==
  ASSUME TypeOK, NEW p \in Procs, SetStore(p)
  PROVE  TotalSize' = TotalSize - Size(entries[key[p]]) + Length[value]
<1>. DEFINE e == [body |-> value, expiresAt |-> now + TTL]
<1>1. e \in Entry /\ Size(e) = Length[value]
  BY CacheAssumption DEF TypeOK, Entry, Size
<1>2. entries' = [entries EXCEPT ![key[p]] = e]
  BY DEF SetStore
<1>3. entries \in Maps /\ key[p] \in Keys
  BY DEF TypeOK, Maps
<1>. HIDE DEF e
<1>4. Cardinality(StoredBytes([entries EXCEPT ![key[p]] = e]))
        = Cardinality(StoredBytes(entries)) - Size(entries[key[p]]) + Size(e)
  BY <1>1, <1>3, TotalUpdate
<1>. QED
  BY <1>1, <1>2, <1>4 DEF TotalSize

-----------------------------------------------------------------------------
(* Types and the mutex *)

\* Every variable keeps its type, in any interleaving of the calls.
THEOREM Typing == Spec => []TypeOK
<1>1. Init => TypeOK
  BY CacheAssumption DEF Init, TypeOK
<1>2. TypeOK /\ [Next]_vars => TypeOK'
  <2>. SUFFICES ASSUME TypeOK, [Next]_vars
                PROVE  TypeOK'
    OBVIOUS
  <2>. USE CacheAssumption DEF TypeOK
  <2>0. \A e \in Entry \cup {NoEntry} : Size(e) \in Nat
    BY SizeType
  <2>1. ASSUME NEW p \in Procs, NEW k \in Keys, GetRead(p, k)
        PROVE  TypeOK'
    BY <2>1 DEF GetRead
  <2>2. ASSUME NEW p \in Procs, GetCheck(p)
        PROVE  TypeOK'
    BY <2>2 DEF GetCheck
  <2>3. ASSUME NEW p \in Procs, GetDelete(p)
        PROVE  TypeOK'
    <3>1. curSize' \in Int
      BY <2>0, <2>3 DEF GetDelete
    <3>. QED
      BY <2>3, <3>1 DEF GetDelete, Delete
  <2>4. ASSUME NEW p \in Procs, NEW k \in Keys, NEW b \in Serves[k], SetBegin(p, k, b)
        PROVE  TypeOK'
    <3>1. curSize' \in Int /\ b \in Bodies
      BY <2>0, <2>4 DEF SetBegin
    <3>. QED
      BY <2>4, <3>1 DEF SetBegin
  <2>5. ASSUME NEW p \in Procs, EvictOne(p)
        PROVE  TypeOK'
    <3>0. CASE Victims = {}
      BY <2>5, <3>0 DEF EvictOne
    <3>a. CASE Victims # {}
      <4>1. PICK k \in Victims : /\ entries' = Delete(k)
                                 /\ curSize' = curSize - Size(entries[k])
        BY <2>5, <3>a DEF EvictOne
      <4>2. k \in Keys
        BY DEF Victims, Cached
      <4>3. curSize' \in Int
        BY <2>0, <4>1, <4>2
      <4>. QED
        BY <2>5, <4>1, <4>2, <4>3 DEF EvictOne, Delete
    <3>. QED
      BY <3>0, <3>a
  <2>7. ASSUME NEW p \in Procs, SetStore(p)
        PROVE  TypeOK'
    <3>1. [body |-> value, expiresAt |-> now + TTL] \in Entry
      BY DEF Entry
    <3>2. curSize' \in Int
      BY <2>7 DEF SetStore
    <3>. QED
      BY <2>7, <3>1, <3>2 DEF SetStore
  <2>8. ASSUME NEW K \in SUBSET Keys, RemoveAll(K)
        PROVE  entries' \in Maps /\ curSize' \in Int
    <3>1. Cardinality(UNION {BytesOf(k, entries[k]) : k \in K}) \in Nat
      BY StoredFinite, FS_CardinalityType DEF Maps
    <3>. QED
      BY <2>8, <3>1 DEF RemoveAll, Maps
  <2>9. ASSUME NEW p \in Procs, NEW K \in Targets, Invalidate(p, K)
        PROVE  TypeOK'
    BY <2>8, <2>9 DEF Invalidate, Maps
  <2>10. ASSUME Sweep
         PROVE  TypeOK'
    BY <2>8, <2>10 DEF Sweep, Cached, Maps
  <2>11. ASSUME Tick
         PROVE  TypeOK'
    BY <2>11 DEF Tick
  <2>. QED
    BY <2>1, <2>2, <2>3, <2>4, <2>5, <2>7, <2>9, <2>10, <2>11
    DEF Next, GetStep, SetStep, vars
<1>. QED
  BY <1>1, <1>2, PTL DEF Spec

\* The mutex is held exactly by the goroutine inside Set, and every entry in
\* the map or in the hands of a Get is one that was stored under its key.
THEOREM Discipline == Spec => []MutexDiscipline
<1>1. Init => MutexDiscipline
  BY CacheAssumption DEF Init, MutexDiscipline
<1>2. TypeOK /\ MutexDiscipline /\ [Next]_vars => MutexDiscipline'
  <2>. SUFFICES ASSUME TypeOK, MutexDiscipline, [Next]_vars
                PROVE  MutexDiscipline'
    OBVIOUS
  <2>. USE CacheAssumption DEF TypeOK, MutexDiscipline
  <2>1. ASSUME NEW p \in Procs, NEW k \in Keys, GetRead(p, k)
        PROVE  MutexDiscipline'
    BY <2>1 DEF GetRead, TooLarge
  <2>2. ASSUME NEW p \in Procs, GetCheck(p)
        PROVE  MutexDiscipline'
    BY <2>2 DEF GetCheck, TooLarge
  <2>3. ASSUME NEW p \in Procs, GetDelete(p)
        PROVE  MutexDiscipline'
    BY <2>3 DEF GetDelete, Delete, TooLarge
  <2>4. ASSUME NEW p \in Procs, NEW k \in Keys, NEW b \in Serves[k], SetBegin(p, k, b)
        PROVE  MutexDiscipline'
    BY <2>4 DEF SetBegin, TooLarge
  <2>5. ASSUME NEW p \in Procs, EvictOne(p)
        PROVE  MutexDiscipline'
    BY <2>5 DEF EvictOne, Delete, Victims, Cached, TooLarge
  <2>7. ASSUME NEW p \in Procs, SetStore(p)
        PROVE  MutexDiscipline'
    <3>1. value \in Serves[key[p]] /\ mu = p
      BY <2>7 DEF SetStore
    <3>2. NoEntry # [body |-> value, expiresAt |-> now + TTL]
      BY DEF Entry
    <3>. QED
      BY <2>7, <3>1, <3>2 DEF SetStore, TooLarge
  <2>8. ASSUME NEW p \in Procs, NEW K \in Targets, Invalidate(p, K)
        PROVE  MutexDiscipline'
    BY <2>8 DEF Invalidate, RemoveAll, TooLarge
  <2>9. ASSUME Sweep
        PROVE  MutexDiscipline'
    BY <2>9 DEF Sweep, RemoveAll, TooLarge
  <2>10. ASSUME Tick
         PROVE  MutexDiscipline'
    BY <2>10 DEF Tick, TooLarge
  <2>11. CASE UNCHANGED vars
    BY <2>11 DEF vars, TooLarge
  <2>. QED
    BY <2>1, <2>2, <2>3, <2>4, <2>5, <2>7, <2>8, <2>9, <2>10, <2>11
    DEF Next, GetStep, SetStep
<1>. QED
  BY <1>1, <1>2, Typing, PTL DEF Spec

-----------------------------------------------------------------------------
(* The byte counter *)

\* When every key keeps the length of its body, the counter never claims more
\* than the map holds, however Gets, Sets, Invalidates and sweeps interleave.
THEOREM NoOvercount == FixedLength => (Spec => []NeverOvercounts)
<1>. SUFFICES ASSUME FixedLength
              PROVE  Spec => []NeverOvercounts
  OBVIOUS
<1>. USE CacheAssumption DEF TypeOK, MutexDiscipline
<1>1. Init => NeverOvercounts
  <2>. SUFFICES ASSUME Init
                PROVE  NeverOvercounts
    OBVIOUS
  <2>1. Cached = {} /\ entries \in Maps
    BY DEF Init, Cached, Maps
  <2>2. TotalSize = 0
    BY <2>1, TotalType
  <2>. QED
    BY <2>2 DEF Init, NeverOvercounts, Accounted, Replaced, Size
<1>2. TypeOK /\ MutexDiscipline /\ NeverOvercounts /\ [Next]_vars
        => NeverOvercounts'
  <2>. SUFFICES ASSUME TypeOK, MutexDiscipline, NeverOvercounts, [Next]_vars
                PROVE  NeverOvercounts'
    OBVIOUS
  <2>0. /\ entries \in Maps
        /\ TotalSize \in Nat
        /\ \A e \in Entry \cup {NoEntry} : Size(e) \in Nat
        /\ Size(NoEntry) = 0
    BY TotalType, SizeType DEF Maps, Size
  <2>a. ASSUME UNCHANGED <<entries, curSize, mu, key>>
        PROVE  NeverOvercounts'
    BY <2>a DEF NeverOvercounts, Accounted, Replaced, TotalSize
  <2>b. ASSUME NEW K \in SUBSET Keys, RemoveAll(K), UNCHANGED <<mu, key>>
        PROVE  NeverOvercounts'
    <3>1. TotalSize' = TotalSize
            - Cardinality(UNION {BytesOf(k, entries[k]) : k \in K})
      BY <2>0, <2>b, TotalRemove DEF RemoveAll, TotalSize
    <3>2. Cardinality(UNION {BytesOf(k, entries[k]) : k \in K}) \in Nat
      BY <2>0, StoredFinite, FS_CardinalityType
    <3>. QED
      BY <2>0, <2>b, <3>1, <3>2 DEF RemoveAll, NeverOvercounts, Accounted, Replaced
  <2>1. ASSUME NEW p \in Procs, NEW k \in Keys, GetRead(p, k)
        PROVE  NeverOvercounts'
    BY <2>1 DEF GetRead, NeverOvercounts, Accounted, Replaced, TotalSize
  <2>2. ASSUME NEW p \in Procs, GetCheck(p)
        PROVE  NeverOvercounts'
    BY <2>2, <2>a DEF GetCheck
  <2>3. ASSUME NEW p \in Procs, GetDelete(p)
        PROVE  NeverOvercounts'
    <3>1. TotalSize' = TotalSize - Size(entries[key[p]])
      <4>1. key[p] \in Keys /\ entries' = [entries EXCEPT ![key[p]] = NoEntry]
        BY <2>3 DEF GetDelete, Delete
      <4>. QED
        BY <2>0, <4>1, TotalDelete DEF TotalSize
    <3>2. Size(entries[key[p]]) <= Size(held[p])
      BY <2>0, <2>3 DEF GetDelete, FixedLength, Size, Entry
    <3>3. mu = NoProc /\ mu' = NoProc
      BY <2>3 DEF GetDelete
    <3>4. Size(held[p]) \in Nat /\ Size(entries[key[p]]) \in Nat
      BY <2>0
    <3>. QED
      BY <2>0, <2>3, <3>1, <3>2, <3>3, <3>4
      DEF GetDelete, NeverOvercounts, Accounted, Replaced
  <2>4. ASSUME NEW p \in Procs, NEW k \in Keys, NEW b \in Serves[k], SetBegin(p, k, b)
        PROVE  NeverOvercounts'
    <3>1. Replaced = NoEntry /\ Replaced' = entries[k] /\ TotalSize' = TotalSize
      BY <2>4 DEF SetBegin, Replaced, TotalSize
    <3>. QED
      BY <2>0, <2>4, <3>1 DEF SetBegin, NeverOvercounts, Accounted
  <2>5. ASSUME NEW p \in Procs, EvictOne(p), Victims # {}
        PROVE  NeverOvercounts'
    <3>1. PICK k \in Victims : /\ entries' = Delete(k)
                               /\ curSize' = curSize - Size(entries[k])
      BY <2>5 DEF EvictOne
    <3>2. k \in Keys
      BY DEF Victims, Cached
    <3>3. TotalSize' = TotalSize - Size(entries[k])
      <4>1. entries' = [entries EXCEPT ![k] = NoEntry]
        BY <3>1 DEF Delete
      <4>. QED
        BY <2>0, <3>2, <4>1, TotalDelete DEF TotalSize
    <3>4. mu = p /\ mu' = p /\ key' = key /\ p # NoProc
      BY <2>5 DEF EvictOne
    <3>5. Size(Replaced') <= Size(Replaced)
      BY <2>0, <3>1, <3>2, <3>4 DEF Replaced, Delete
    <3>6. Size(Replaced) \in Nat /\ Size(Replaced') \in Nat /\ Size(entries[k]) \in Nat
      BY <2>0, <3>1, <3>2, <3>4 DEF Replaced, Delete
    <3>. QED
      BY <2>0, <3>1, <3>3, <3>5, <3>6 DEF NeverOvercounts, Accounted, Size
  <2>6. ASSUME NEW p \in Procs, EvictOne(p), Victims = {}
        PROVE  NeverOvercounts'
    BY <2>6, <2>a DEF EvictOne
  <2>7. ASSUME NEW p \in Procs, SetStore(p)
        PROVE  NeverOvercounts'
    <3>1. mu = p /\ mu' = NoProc /\ p # NoProc
      BY <2>7 DEF SetStore
    <3>2. Length[value] \in Nat
      OBVIOUS
    <3>4. TotalSize' = TotalSize - Size(entries[key[p]]) + Length[value]
      BY <2>7, TotalStore
    <3>5. Size(entries[key[p]]) \in Nat
      BY <2>0
    <3>. QED
      BY <2>0, <2>7, <3>1, <3>2, <3>4, <3>5
      DEF SetStore, NeverOvercounts, Accounted, Replaced
  <2>8. ASSUME NEW p \in Procs, NEW K \in Targets, Invalidate(p, K)
        PROVE  NeverOvercounts'
    BY <2>8, <2>b DEF Invalidate
  <2>9. ASSUME Sweep
        PROVE  NeverOvercounts'
    BY <2>9, <2>b DEF Sweep, Cached
  <2>10. ASSUME Tick
         PROVE  NeverOvercounts'
    BY <2>10, <2>a DEF Tick
  <2>. QED
    BY <2>1, <2>2, <2>3, <2>4, <2>5, <2>6, <2>7, <2>8, <2>9, <2>10, <2>a
    DEF Next, GetStep, SetStep, vars
<1>. QED
  BY <1>1, <1>2, Typing, Discipline, PTL DEF Spec

\* Under the same assumption the eviction loop of Set never turns on an empty
\* map, which is what would keep it turning for ever.
THEOREM EvictionProgress == FixedLength => (Spec => []EvictionFindsVictim)
<1>. SUFFICES ASSUME FixedLength
              PROVE  Spec => []EvictionFindsVictim
  OBVIOUS
<1>1. TypeOK /\ MutexDiscipline /\ NeverOvercounts => EvictionFindsVictim
  <2>. SUFFICES ASSUME TypeOK, MutexDiscipline, NeverOvercounts,
                       NEW p \in Procs, pc[p] = "evicting", Full, Victims = {}
                PROVE  FALSE
    BY DEF EvictionFindsVictim
  <2>. USE CacheAssumption DEF TypeOK
  <2>1. Cached = {}
    BY DEF Victims
  <2>2. entries \in Maps /\ TotalSize = 0
    BY <2>1, TotalType DEF Maps
  <2>3. Size(Replaced) = 0
    BY <2>1 DEF Replaced, Cached, Size
  <2>4. Length[value] <= MaxSize
    BY DEF MutexDiscipline, TooLarge, Full
  <2>. QED
    BY <2>2, <2>3, <2>4 DEF NeverOvercounts, Accounted, Full
<1>. QED
  BY <1>1, Typing, Discipline, NoOvercount, PTL

\* For one goroutine, no sweeper and bodies of fixed length the counter is
\* exact between calls.  The two extra facts of the inductive invariant: an
\* entry a Get found expired is still in the map, and a Set that replaces an
\* entry has room for it without evicting anything.
ExactInv ==
  /\ curSize = Accounted
  /\ mu = NoProc /\ MaxSize > 0 => curSize <= MaxSize
  /\ \A p \in Procs : pc[p] \in {"got", "expired"} => entries[key[p]] = held[p]
  /\ \A p \in Procs : pc[p] = "evicting" /\ entries[key[p]] # NoEntry => ~Full

LEMMA ExactInvariant == FixedLength /\ Alone => (Spec => []ExactInv)
<1>. SUFFICES ASSUME FixedLength, Alone
              PROVE  Spec => []ExactInv
  OBVIOUS
<1>. USE CacheAssumption DEF TypeOK, MutexDiscipline
<1>1. Init => ExactInv
  <2>. SUFFICES ASSUME Init
                PROVE  ExactInv
    OBVIOUS
  <2>1. Cached = {} /\ entries \in Maps
    BY DEF Init, Cached, Maps
  <2>2. TotalSize = 0
    BY <2>1, TotalType
  <2>. QED
    BY <2>2 DEF Init, ExactInv, Accounted, Replaced, Size
<1>2. TypeOK /\ MutexDiscipline /\ ExactInv /\ [Next]_vars => ExactInv'
  <2>. SUFFICES ASSUME TypeOK, MutexDiscipline, ExactInv, [Next]_vars
                PROVE  ExactInv'
    OBVIOUS
  <2>0. /\ entries \in Maps
        /\ TotalSize \in Nat
        /\ \A e \in Entry \cup {NoEntry} : Size(e) \in Nat
        /\ Size(NoEntry) = 0
    BY TotalType, SizeType DEF Maps, Size
  <2>a. ASSUME UNCHANGED <<entries, curSize, mu, key, value>>,
               \A p \in Procs : /\ held'[p] = held[p]
                                /\ pc'[p] \in {"got", "expired"} => pc[p] \in {"got", "expired"}
                                /\ pc'[p] = "evicting" => pc[p] = "evicting"
        PROVE  ExactInv'
    BY <2>a DEF ExactInv, Accounted, Replaced, TotalSize, Full
  <2>1. ASSUME NEW p \in Procs, NEW k \in Keys, GetRead(p, k)
        PROVE  ExactInv'
    BY <2>1 DEF GetRead, ExactInv, Accounted, Replaced, TotalSize, Full, Alone
  <2>2. ASSUME NEW p \in Procs, GetCheck(p)
        PROVE  ExactInv'
    BY <2>2, <2>a DEF GetCheck
  <2>3. ASSUME NEW p \in Procs, GetDelete(p)
        PROVE  ExactInv'
    <3>1. TotalSize' = TotalSize - Size(entries[key[p]])
      <4>1. key[p] \in Keys /\ entries' = [entries EXCEPT ![key[p]] = NoEntry]
        BY <2>3 DEF GetDelete, Delete
      <4>. QED
        BY <2>0, <4>1, TotalDelete DEF TotalSize
    <3>2. held[p] = entries[key[p]]
      BY <2>3 DEF GetDelete, ExactInv
    <3>3. mu = NoProc /\ mu' = NoProc
      BY <2>3 DEF GetDelete
    <3>4. Size(held[p]) \in Nat
      BY <2>0
    <3>5. curSize' = Accounted'
      BY <2>0, <2>3, <3>1, <3>2, <3>3, <3>4
      DEF GetDelete, ExactInv, Accounted, Replaced
    <3>6. \A q \in Procs : q = p /\ pc'[q] = "idle"
      BY <2>3 DEF GetDelete, Alone
    <3>7. MaxSize > 0 => curSize' <= MaxSize
      BY <2>0, <2>3, <3>3, <3>4 DEF ExactInv, GetDelete
    <3>. QED
      BY <3>5, <3>6, <3>7 DEF ExactInv
  <2>4. ASSUME NEW p \in Procs, NEW k \in Keys, NEW b \in Serves[k], SetBegin(p, k, b)
        PROVE  ExactInv'
    <3>1. Replaced = NoEntry /\ Replaced' = entries[k] /\ TotalSize' = TotalSize
      BY <2>4 DEF SetBegin, Replaced, TotalSize
    <3>2. curSize' = Accounted'
      BY <2>0, <2>4, <3>1 DEF SetBegin, ExactInv, Accounted
    <3>3. \A q \in Procs : q = p /\ pc'[q] = "evicting" /\ mu' = p /\ p # NoProc /\ key'[q] = k
      BY <2>4 DEF SetBegin, Alone
    <3>4. ASSUME entries[k] # NoEntry
          PROVE  ~Full'
      <4>1. Size(entries[k]) = Length[b]
        BY <3>4 DEF FixedLength, Size
      <4>2. Length[b] \in Nat /\ MaxSize > 0 => curSize <= MaxSize
        BY <2>4 DEF SetBegin, ExactInv
      <4>. QED
        BY <2>4, <4>1, <4>2 DEF SetBegin, Full
    <3>5. \A q \in Procs : entries'[key'[q]] # NoEntry => ~Full'
      BY <2>4, <3>3, <3>4 DEF SetBegin
    <3>6. mu' # NoProc /\ \A q \in Procs : pc'[q] \notin {"got", "expired"}
      BY <2>4, <3>3 DEF SetBegin
    <3>. QED
      BY <3>2, <3>5, <3>6 DEF ExactInv
  <2>5. ASSUME NEW p \in Procs, EvictOne(p), Victims # {}
        PROVE  ExactInv'
    <3>1. PICK k \in Victims : /\ entries' = Delete(k)
                               /\ curSize' = curSize - Size(entries[k])
      BY <2>5 DEF EvictOne
    <3>2. k \in Keys
      BY DEF Victims, Cached
    <3>3. TotalSize' = TotalSize - Size(entries[k])
      <4>1. entries' = [entries EXCEPT ![k] = NoEntry]
        BY <3>1 DEF Delete
      <4>. QED
        BY <2>0, <3>2, <4>1, TotalDelete DEF TotalSize
    <3>4. mu = p /\ mu' = p /\ key' = key /\ pc' = pc /\ p # NoProc
      BY <2>5 DEF EvictOne
    <3>5. Replaced = NoEntry /\ Replaced' = NoEntry /\ entries'[key[p]] = NoEntry
      BY <2>5, <3>1, <3>2, <3>4 DEF Replaced, Delete, ExactInv, EvictOne
    <3>6. curSize' = Accounted'
      BY <2>0, <3>1, <3>2, <3>3, <3>5 DEF ExactInv, Accounted
    <3>7. \A q \in Procs : q = p
      BY DEF Alone
    <3>. QED
      BY <2>5, <3>4, <3>5, <3>6, <3>7 DEF ExactInv, EvictOne
  <2>6. ASSUME NEW p \in Procs, EvictOne(p), Victims = {}
        PROVE  ExactInv'
    BY <2>6, <2>a DEF EvictOne
  <2>7. ASSUME NEW p \in Procs, SetStore(p)
        PROVE  ExactInv'
    <3>1. mu = p /\ mu' = NoProc /\ p # NoProc
      BY <2>7 DEF SetStore
    <3>2. Length[value] \in Nat
      OBVIOUS
    <3>4. TotalSize' = TotalSize - Size(entries[key[p]]) + Length[value]
      BY <2>7, TotalStore
    <3>5. Size(entries[key[p]]) \in Nat
      BY <2>0
    <3>6. curSize' = Accounted'
      BY <2>0, <2>7, <3>1, <3>2, <3>4, <3>5
      DEF SetStore, ExactInv, Accounted, Replaced
    <3>7. MaxSize > 0 => curSize' <= MaxSize
      BY <2>7, <3>2 DEF SetStore, Full
    <3>8. \A q \in Procs : q = p /\ pc'[q] = "idle"
      BY <2>7 DEF SetStore, Alone
    <3>. QED
      BY <3>6, <3>7, <3>8 DEF ExactInv
  <2>8. ASSUME NEW p \in Procs, NEW K \in Targets, Invalidate(p, K)
        PROVE  ExactInv'
    <3>1. TotalSize' = TotalSize
            - Cardinality(UNION {BytesOf(k, entries[k]) : k \in K})
      BY <2>0, <2>8, TotalRemove DEF Invalidate, RemoveAll, TotalSize
    <3>2. Cardinality(UNION {BytesOf(k, entries[k]) : k \in K}) \in Nat
      BY <2>0, StoredFinite, FS_CardinalityType
    <3>3. mu = NoProc /\ mu' = NoProc
      BY <2>8 DEF Invalidate, RemoveAll
    <3>4. curSize' = Accounted'
      BY <2>0, <2>8, <3>1, <3>2, <3>3
      DEF Invalidate, RemoveAll, ExactInv, Accounted, Replaced
    <3>5. \A q \in Procs : q = p /\ pc'[q] = "idle"
      BY <2>8 DEF Invalidate, Alone
    <3>6. MaxSize > 0 => curSize' <= MaxSize
      BY <2>8, <3>2, <3>3 DEF ExactInv, Invalidate, RemoveAll
    <3>. QED
      BY <3>4, <3>5, <3>6 DEF ExactInv
  <2>9. ~Sweep
    BY DEF Alone, Sweep
  <2>10. ASSUME Tick
         PROVE  ExactInv'
    BY <2>10, <2>a DEF Tick
  <2>. QED
    BY <2>1, <2>2, <2>3, <2>4, <2>5, <2>6, <2>7, <2>8, <2>9, <2>10, <2>a
    DEF Next, GetStep, SetStep, vars
<1>. QED
  BY <1>1, <1>2, Typing, Discipline, PTL DEF Spec

\* So whenever the mutex is free the counter is the size of the map.
THEOREM ExactCounter == FixedLength /\ Alone => (Spec => []ExactAccounting)
<1>. SUFFICES ASSUME FixedLength, Alone
              PROVE  Spec => []ExactAccounting
  OBVIOUS
<1>1. TypeOK /\ ExactInv => ExactAccounting
  <2>. SUFFICES ASSUME TypeOK, ExactInv, mu = NoProc
                PROVE  curSize = TotalSize
    BY DEF ExactAccounting
  <2>1. TotalSize \in Nat /\ Size(Replaced) = 0
    BY TotalType DEF TypeOK, Maps, Replaced, Size
  <2>. QED
    BY <2>1 DEF ExactInv, Accounted
<1>. QED
  BY <1>1, Typing, ExactInvariant, PTL

\* And the map never outgrows its maximum size.
THEOREM Capacity == FixedLength /\ Alone => (Spec => []CapacityRespected)
<1>. SUFFICES ASSUME FixedLength, Alone
              PROVE  Spec => []CapacityRespected
  OBVIOUS
<1>1. ExactInv /\ ExactAccounting => CapacityRespected
  BY DEF ExactInv, ExactAccounting, CapacityRespected
<1>. QED
  BY <1>1, ExactCounter, ExactInvariant, PTL

-----------------------------------------------------------------------------
(* What an answer may be *)

\* The map only ever holds, for each key, the entry set last and not
\* invalidated since.
THEOREM Coherence == Spec => []Coherent
<1>. USE CacheAssumption DEF TypeOK, Coherent
<1>1. Init => Coherent
  BY DEF Init
<1>2. TypeOK /\ Coherent /\ [Next]_vars => Coherent'
  <2>. SUFFICES ASSUME TypeOK, Coherent, [Next]_vars
                PROVE  Coherent'
    OBVIOUS
  <2>1. ASSUME NEW p \in Procs, NEW k \in Keys, GetRead(p, k)
        PROVE  Coherent'
    BY <2>1 DEF GetRead
  <2>2. ASSUME NEW p \in Procs, GetCheck(p)
        PROVE  Coherent'
    BY <2>2 DEF GetCheck
  <2>3. ASSUME NEW p \in Procs, GetDelete(p)
        PROVE  Coherent'
    BY <2>3 DEF GetDelete, Delete
  <2>4. ASSUME NEW p \in Procs, NEW k \in Keys, NEW b \in Serves[k], SetBegin(p, k, b)
        PROVE  Coherent'
    BY <2>4 DEF SetBegin
  <2>5. ASSUME NEW p \in Procs, EvictOne(p)
        PROVE  Coherent'
    BY <2>5 DEF EvictOne, Delete, Victims, Cached
  <2>6. ASSUME NEW p \in Procs, SetStore(p)
        PROVE  Coherent'
    BY <2>6 DEF SetStore
  <2>7. ASSUME NEW p \in Procs, NEW K \in Targets, Invalidate(p, K)
        PROVE  Coherent'
    BY <2>7 DEF Invalidate, RemoveAll
  <2>8. ASSUME Sweep
        PROVE  Coherent'
    BY <2>8 DEF Sweep, RemoveAll
  <2>9. ASSUME Tick
        PROVE  Coherent'
    BY <2>9 DEF Tick
  <2>. QED
    BY <2>1, <2>2, <2>3, <2>4, <2>5, <2>6, <2>7, <2>8, <2>9
    DEF Next, GetStep, SetStep, vars
<1>. QED
  BY <1>1, <1>2, Typing, PTL DEF Spec

\* What a Get is about to delete has expired.
FoundExpired == \A p \in Procs : pc[p] = "expired" => Expired(held[p], now)

LEMMA ExpiredInvariant == Spec => []FoundExpired
<1>. USE CacheAssumption DEF TypeOK, FoundExpired
<1>1. Init => FoundExpired
  BY DEF Init
<1>2. TypeOK /\ MutexDiscipline /\ FoundExpired /\ [Next]_vars => FoundExpired'
  <2>. SUFFICES ASSUME TypeOK, MutexDiscipline, FoundExpired, [Next]_vars
                PROVE  FoundExpired'
    OBVIOUS
  <2>1. ASSUME NEW p \in Procs, NEW k \in Keys, GetRead(p, k)
        PROVE  FoundExpired'
    BY <2>1 DEF GetRead, Expired
  <2>2. ASSUME NEW p \in Procs, GetCheck(p)
        PROVE  FoundExpired'
    BY <2>2 DEF GetCheck, Expired
  <2>3. ASSUME NEW p \in Procs, GetDelete(p)
        PROVE  FoundExpired'
    BY <2>3 DEF GetDelete, Expired
  <2>4. ASSUME NEW p \in Procs, NEW k \in Keys, NEW b \in Serves[k], SetBegin(p, k, b)
        PROVE  FoundExpired'
    BY <2>4 DEF SetBegin, Expired
  <2>5. ASSUME NEW p \in Procs, SetStore(p)
        PROVE  FoundExpired'
    BY <2>5 DEF SetStore, Expired
  <2>6. ASSUME UNCHANGED <<now, pc, held>>
        PROVE  FoundExpired'
    BY <2>6 DEF Expired
  <2>7. ASSUME Tick
        PROVE  FoundExpired'
    <3>1. ASSUME NEW p \in Procs, pc'[p] = "expired"
          PROVE  Expired(held[p], now)'
      <4>1. Expired(held[p], now) /\ now' = now + 1 /\ held' = held
        BY <2>7, <3>1 DEF Tick
      <4>2. held[p] # NoEntry => held[p].expiresAt \in Nat
        BY DEF Entry
      <4>3. held[p] # NoEntry
        BY <2>7, <3>1 DEF Tick, MutexDiscipline
      <4>. QED
        BY <4>1, <4>2, <4>3 DEF Expired
    <3>. QED
      BY <3>1
  <2>. QED
    BY <2>1, <2>2, <2>3, <2>4, <2>5, <2>6, <2>7
    DEF Next, GetStep, SetStep, EvictOne, Invalidate, Sweep, vars
<1>. QED
  BY <1>1, <1>2, Typing, Discipline, PTL DEF Spec

\* A live entry leaves the map, or is replaced, only for a cause its callers can
\* know of (cache.go:47-158).
THEOREM LossExplained == Spec => LiveLossHasCause
<1>. DEFINE Cause(k) ==
       \/ latest'[k] # latest[k]
       \/ \E p \in Procs : /\ pc[p] = "evicting" /\ Full
                           /\ \A j \in Cached : ~Expired(entries[j], now)
       \/ \E p \in Procs : /\ pc[p] = "expired" /\ pc'[p] = "idle"
                           /\ key[p] = k /\ held[p] # entries[k]
     Explained == \A k \in Cached :
                    ~Expired(entries[k], now) /\ entries'[k] # entries[k] => Cause(k)
<1>1. TypeOK /\ Coherent /\ FoundExpired /\ [Next]_vars => [Explained]_vars
  <2>. SUFFICES ASSUME TypeOK, Coherent, FoundExpired, [Next]_vars,
                       NEW k \in Cached, ~Expired(entries[k], now),
                       entries'[k] # entries[k]
                PROVE  Cause(k)
    OBVIOUS
  <2>1. /\ k \in Keys /\ entries[k] # NoEntry /\ entries[k] \in Entry
        /\ entries[k].expiresAt \in Nat /\ now \in Nat
        /\ entries[k] = latest[k]
    BY DEF Cached, TypeOK, Coherent, Entry
  <2>2. ASSUME NEW p \in Procs, GetDelete(p) PROVE Cause(k)
    <3>1. /\ pc[p] = "expired" /\ pc'[p] = "idle" /\ key[p] = k
          /\ Expired(held[p], now)
      BY <2>1, <2>2 DEF GetDelete, Delete, TypeOK, FoundExpired
    <3>2. held[p] # entries[k]
      BY <3>1
    <3>. QED
      BY <3>1, <3>2
  <2>3. ASSUME NEW p \in Procs, EvictOne(p) PROVE Cause(k)
    <3>1. pc[p] = "evicting" /\ Full /\ k \in Victims
      BY <2>1, <2>3 DEF EvictOne, Delete, TypeOK
    <3>2. \A j \in Cached : ~Expired(entries[j], now)
      BY <3>1 DEF Victims
    <3>. QED
      BY <3>1, <3>2
  <2>4. ASSUME NEW p \in Procs, SetStore(p) PROVE Cause(k)
    <3>1. key[p] = k /\ latest'[k] = entries'[k]
      BY <2>1, <2>4 DEF SetStore, TypeOK
    <3>. QED
      BY <2>1, <3>1
  <2>5. ASSUME NEW p \in Procs, NEW K \in Targets, Invalidate(p, K) PROVE Cause(k)
    <3>1. latest'[k] = NoEntry
      BY <2>1, <2>5 DEF Invalidate, RemoveAll
    <3>. QED
      BY <2>1, <3>1
  <2>6. ~Sweep
    <3>1. ASSUME NEW t \in 0..now, RemoveAll({j \in Cached : Expired(entries[j], t)})
          PROVE  FALSE
      <4>1. Expired(entries[k], t)
        BY <2>1, <3>1 DEF RemoveAll
      <4>. QED
        BY <2>1, <3>1, <4>1 DEF Expired
    <3>. QED
      BY <3>1 DEF Sweep
  <2>7. entries' # entries
    OBVIOUS
  <2>. QED
    BY <2>2, <2>3, <2>4, <2>5, <2>6, <2>7
    DEF Next, GetStep, SetStep, GetRead, GetCheck, SetBegin, Tick, vars
<1>2. [Explained]_vars =>
        [\A k \in Cached : ~Expired(entries[k], now) /\ entries'[k] # entries[k] =>
           \/ latest'[k] # latest[k]
           \/ \E p \in Procs : /\ pc[p] = "evicting" /\ Full
                               /\ \A j \in Cached : ~Expired(entries[j], now)
           \/ \E p \in Procs : /\ pc[p] = "expired" /\ pc'[p] = "idle"
                               /\ key[p] = k /\ held[p] # entries[k]]_vars
  OBVIOUS
<1>. QED
  BY <1>1, <1>2, Typing, Coherence, ExpiredInvariant, PTL DEF Spec, LiveLossHasCause

\* The cache implements LossyCache: every step of it is a step of the abstract
\* specification or leaves the mapped state alone.
THEOREM Refinement == Spec => PromiseKept
<1>. USE CacheAssumption
<1>. DEFINE looks(p) == pc[p] = "got"
            shown(p) == IF pc[p] \in {"idle", "got"} THEN held[p] ELSE NoEntry
<1>1. Init => Promise!Init
  BY DEF Init, Promise!Init
<1>2. TypeOK /\ MutexDiscipline /\ Coherent /\ [Next]_vars
        => [Promise!Next]_Promise!lossyVars
  <2>. SUFFICES ASSUME TypeOK, MutexDiscipline, Coherent, [Next]_vars
                PROVE  [Promise!Next]_Promise!lossyVars
    OBVIOUS
  <2>. USE DEF TypeOK
  <2>a. ASSUME UNCHANGED <<now, latest>>,
               \A p \in Procs : looks(p)' = looks(p) /\ shown(p)' = shown(p)
        PROVE  UNCHANGED Promise!lossyVars
    BY <2>a DEF Promise!lossyVars
  <2>1. ASSUME NEW p \in Procs, NEW k \in Keys, GetRead(p, k)
        PROVE  Promise!Look(p, k)
    <3>1. entries[k] \in {latest[k], NoEntry}
      BY DEF Coherent
    <3>. QED
      BY <2>1, <3>1 DEF GetRead, Promise!Look
  <2>2. ASSUME NEW p \in Procs, GetCheck(p)
        PROVE  Promise!Decide(p)
    <3>1. held[p] \in Entry /\ held[p].expiresAt \in Nat
      BY <2>2 DEF GetCheck, MutexDiscipline, Entry
    <3>2. CASE Expired(held[p], now)
      BY <2>2, <3>2 DEF GetCheck, Promise!Decide
    <3>3. CASE ~Expired(held[p], now)
      <4>1. now <= held[p].expiresAt
        BY <3>1, <3>3 DEF Expired
      <4>2. /\ pc[p] = "got" /\ pc' = [pc EXCEPT ![p] = "idle"]
            /\ UNCHANGED <<now, held, latest>>
        BY <2>2, <3>3 DEF GetCheck
      <4>. QED
        BY <4>1, <4>2 DEF Promise!Decide
    <3>. QED
      BY <3>2, <3>3
  <2>3. ASSUME NEW p \in Procs, GetDelete(p)
        PROVE  UNCHANGED Promise!lossyVars
    BY <2>3, <2>a DEF GetDelete
  <2>4. ASSUME NEW p \in Procs, NEW k \in Keys, NEW b \in Serves[k], SetBegin(p, k, b)
        PROVE  Promise!Leave(p)
    BY <2>4 DEF SetBegin, Promise!Leave
  <2>5. ASSUME NEW p \in Procs, EvictOne(p)
        PROVE  UNCHANGED Promise!lossyVars
    BY <2>5, <2>a DEF EvictOne
  <2>6. ASSUME NEW p \in Procs, SetStore(p)
        PROVE  Promise!Set(key[p], value)
    <3>1. held[p] = NoEntry
      BY <2>6 DEF SetStore, MutexDiscipline
    <3>. QED
      BY <2>6, <3>1 DEF SetStore, Promise!Set
  <2>7. ASSUME NEW p \in Procs, NEW K \in Targets, Invalidate(p, K)
        PROVE  Promise!Invalidate(K)
    BY <2>7 DEF Invalidate, Promise!Invalidate
  <2>8. ASSUME Sweep
        PROVE  UNCHANGED Promise!lossyVars
    BY <2>8, <2>a DEF Sweep
  <2>9. ASSUME Tick
        PROVE  Promise!Tick
    BY <2>9 DEF Tick, Promise!Tick
  <2>10. ASSUME UNCHANGED vars
         PROVE  UNCHANGED Promise!lossyVars
    BY <2>10, <2>a DEF vars
  <2>. QED
    BY <2>1, <2>2, <2>3, <2>4, <2>5, <2>6, <2>7, <2>8, <2>9, <2>10
    DEF Next, GetStep, SetStep, Promise!Next
<1>. QED
  BY <1>1, <1>2, Typing, Discipline, Coherence, PTL DEF Spec, PromiseKept, Promise!Spec
=============================================================================

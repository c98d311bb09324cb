------------------------- MODULE BucketCacheProofs -------------------------
(***************************************************************************)
(* Proofs about BucketCache, for every set of buckets and handlers and any *)
(* size of the cache: it never serves a stale configuration, and lookups   *)
(* and writes are those of an atomic register.                             *)
(***************************************************************************)
EXTENDS BucketCache, TLAPS

\* A writer keeps the bucket's lock until it has dealt with the cache.
WriterHolds ==
    \A p \in Procs : pc[p] \in {"caching", "invalidating"} =>
        loc[p].name \in Names /\ writer[loc[p].name] = p

\* A lookup that missed knows its bucket, and no generation is from the future.
LookupKnows ==
    \A p \in Procs :
        /\ pc[p] \in {"missed", "reading", "filling"} => loc[p].name \in Names
        /\ loc[p].gen <= gen

\* What a fill is about to store is in force if no write came since its
\* generation was read: every change of Effective moves the generation on.
FillsFresh ==
    \A p \in Procs :
        pc[p] = "filling" /\ loc[p].gen = gen /\ loc[p].value # Failed =>
            loc[p].value = Effective(loc[p].name)

CacheInv == TypeOK /\ WriterHolds /\ LookupKnows /\ FillsFresh /\ CacheNeverStale

LEMMA CacheInit == Init => CacheInv
  BY CacheAssumption DEF Init, CacheInv, TypeOK, WriterHolds, LookupKnows, FillsFresh,
     CacheNeverStale, Cached, Blank, Locals, PCs, Values

LEMMA FilledEntries ==
    ASSUME TypeOK, CacheNeverStale, NEW n \in Names, NEW v \in Values \cup {Failed},
           v # Failed => v = Effective(n)
    PROVE  /\ Filled(n, v) \in [Names -> Values \cup {Uncached}]
           /\ \A m \in Names : Filled(n, v)[m] \in {Uncached, Effective(m)}
<1> DEFINE kept == IF Cardinality(Cached) >= MaxEntries THEN [m \in Names |-> Uncached]
                   ELSE cache
<1>1. /\ kept \in [Names -> Values \cup {Uncached}]
      /\ \A m \in Names : kept[m] \in {Uncached, Effective(m)}
  BY DEF TypeOK, CacheNeverStale, Cached
<1>2. Filled(n, v) = IF v = Failed THEN kept ELSE [kept EXCEPT ![n] = v]
  BY DEF Filled
<1> HIDE DEF kept
<1>3. QED
  BY <1>1, <1>2

LEMMA CacheNext == CacheInv /\ [Next]_vars => CacheInv'
<1> SUFFICES ASSUME CacheInv, [Next]_vars PROVE CacheInv'
  OBVIOUS
<1> USE DEF CacheInv
<1> USE CacheAssumption
<1>1. ASSUME NEW p \in Procs, NEW n \in Names, LookupHit(p, n) PROVE CacheInv'
  BY <1>1 DEF LookupHit, store, TypeOK, WriterHolds, LookupKnows, FillsFresh,
     CacheNeverStale, Cached, Effective
<1>2. ASSUME NEW p \in Procs, NEW n \in Names, LookupMiss(p, n) PROVE CacheInv'
  <2>1. UNCHANGED store
    BY <1>2 DEF LookupMiss
  <2>2. \A m \in Names : Effective(m)' = Effective(m)
    BY <2>1 DEF store, Effective
  <2>3. CacheNeverStale'
    BY <2>1, <2>2 DEF store, CacheNeverStale, Cached
  <2>4. pc' \in [Procs -> PCs] /\ loc' \in [Procs -> Locals]
    BY <1>2, ZenonT(60) DEF LookupMiss, Go, TypeOK, PCs, Locals
  <2>5. answer' \in [Procs -> {<<>>} \cup (Names \X Values)]
    BY <1>2 DEF LookupMiss, TypeOK, LookupKnows
  <2>6. TypeOK'
    BY <2>1, <2>4, <2>5 DEF TypeOK, store
  <2>7. WriterHolds'
    BY <1>2, <2>1 DEF LookupMiss, Go, TypeOK, WriterHolds, store
  <2>8. LookupKnows'
    BY <1>2, <2>1 DEF LookupMiss, Go, TypeOK, LookupKnows, Locals, store
  <2>9. FillsFresh'
    BY <1>2, <2>1, <2>2 DEF LookupMiss, Go, TypeOK, FillsFresh, LookupKnows, Locals, store
  <2>10. QED
    BY <2>3, <2>6, <2>7, <2>8, <2>9
<1>3. ASSUME NEW p \in Procs, bucketCacheGeneration(p) PROVE CacheInv'
  <2>1. UNCHANGED store
    BY <1>3 DEF bucketCacheGeneration
  <2>2. \A m \in Names : Effective(m)' = Effective(m)
    BY <2>1 DEF store, Effective
  <2>3. CacheNeverStale'
    BY <2>1, <2>2 DEF store, CacheNeverStale, Cached
  <2>4. pc' \in [Procs -> PCs] /\ loc' \in [Procs -> Locals]
    BY <1>3, ZenonT(60) DEF bucketCacheGeneration, Go, TypeOK, PCs, Locals
  <2>5. answer' \in [Procs -> {<<>>} \cup (Names \X Values)]
    BY <1>3 DEF bucketCacheGeneration, TypeOK, LookupKnows
  <2>6. TypeOK'
    BY <2>1, <2>4, <2>5 DEF TypeOK, store
  <2>7. WriterHolds'
    BY <1>3, <2>1 DEF bucketCacheGeneration, Go, TypeOK, WriterHolds, store
  <2>8. LookupKnows'
    BY <1>3, <2>1 DEF bucketCacheGeneration, Go, TypeOK, LookupKnows, Locals, store
  <2>9. FillsFresh'
    BY <1>3, <2>1, <2>2 DEF bucketCacheGeneration, Go, TypeOK, FillsFresh, LookupKnows, Locals, store
  <2>10. QED
    BY <2>3, <2>6, <2>7, <2>8, <2>9
<1>4. ASSUME NEW p \in Procs, GetBucket(p) PROVE CacheInv'
  <2>1. PICK n \in Names : n = loc[p].name /\ writer[n] = NoProc
    BY <1>4 DEF GetBucket, LookupKnows
  <2>2. PICK v \in Values \cup {Failed} :
           /\ loc' = [loc EXCEPT ![p].value = v]
           /\ v # Failed => v = db[n]
    BY <1>4, <2>1 DEF GetBucket, TypeOK
  <2>3. /\ answer' \in [Procs -> {<<>>} \cup (Names \X Values)]
        /\ pc[p] = "reading" /\ pc' = [pc EXCEPT ![p] = "filling"] /\ UNCHANGED store
    BY <1>4, <2>1 DEF GetBucket, Go, TypeOK
  <2>4. \A m \in Names : Effective(m)' = Effective(m)
    BY <2>3 DEF store, Effective
  <2>5. CacheNeverStale'
    BY <2>3, <2>4 DEF store, CacheNeverStale, Cached
  <2>6. loc' \in [Procs -> Locals] /\ pc' \in [Procs -> PCs]
    BY <2>2, <2>3, ZenonT(60) DEF TypeOK, Locals, PCs
  <2>7. \A q \in Procs : loc'[q].name = loc[q].name /\ loc'[q].gen = loc[q].gen
    BY <2>2 DEF TypeOK, Locals
  <2>8. TypeOK' /\ WriterHolds' /\ LookupKnows'
    BY <2>3, <2>6, <2>7, ZenonT(60) DEF TypeOK, WriterHolds, LookupKnows, store
  <2>9. loc'[p].value # Failed => loc'[p].value = Effective(n)
    BY <2>1, <2>2 DEF TypeOK, Locals, Effective
  <2>10. \A q \in Procs \ {p} : loc'[q] = loc[q] /\ pc'[q] = pc[q]
    BY <2>2, <2>3 DEF TypeOK
  <2>11. FillsFresh'
    <3> SUFFICES ASSUME NEW q \in Procs, pc'[q] = "filling", loc'[q].gen = gen',
                        loc'[q].value # Failed
                 PROVE  loc'[q].value = Effective(loc[q].name)
      BY <2>4, <2>7, <2>8 DEF FillsFresh, LookupKnows
    <3>1. CASE q = p
      BY <2>1, <2>9, <3>1
    <3>2. CASE q # p
      BY <2>3, <2>10, <3>2 DEF FillsFresh, store
    <3>3. QED
      BY <3>1, <3>2
  <2>12. QED
    BY <2>5, <2>8, <2>11
<1>5. ASSUME NEW p \in Procs, fillBucketCache(p) PROVE CacheInv'
  <2>1. /\ cache' \in [Names -> Values \cup {Uncached}]
        /\ \A m \in Names : cache'[m] \in {Uncached, Effective(m)}
    <3>1. CASE loc[p].gen = gen
      <4>1. loc[p].name \in Names /\ loc[p].value \in Values \cup {Failed}
        BY <1>5 DEF fillBucketCache, LookupKnows, TypeOK, Locals
      <4>2. loc[p].value # Failed => loc[p].value = Effective(loc[p].name)
        BY <1>5, <3>1 DEF fillBucketCache, FillsFresh
      <4>3. QED
        BY <1>5, <3>1, <4>1, <4>2, FilledEntries DEF fillBucketCache
    <3>2. CASE loc[p].gen # gen
      BY <1>5, <3>2 DEF fillBucketCache, TypeOK, CacheNeverStale, Cached
    <3>3. QED
      BY <3>1, <3>2
  <2>2. \A m \in Names : Effective(m)' = Effective(m)
    BY <1>5 DEF fillBucketCache, Effective
  <2>3. CacheNeverStale'
    BY <2>1, <2>2 DEF CacheNeverStale, Cached
  <2>4. Blank \in Locals /\ Blank.gen = 0
    BY DEF Blank, Locals, Values
  <2>5. TypeOK' /\ WriterHolds' /\ LookupKnows'
    BY <1>5, <2>1, <2>4 DEF fillBucketCache, Return, Go, TypeOK, PCs, WriterHolds, LookupKnows
  <2>6. FillsFresh'
    BY <1>5, <2>2 DEF fillBucketCache, Return, Go, TypeOK, FillsFresh, LookupKnows
  <2>7. QED
    BY <2>3, <2>5, <2>6
<1>6. ASSUME NEW p \in Procs, NEW n \in Names, NEW v \in Values,
             NEW to \in {"caching", "invalidating"}, Commit(p, n, v, to)
      PROVE  CacheInv'
  <2>1. \A m \in Names : Effective(m)' = Effective(m)
    BY <1>6 DEF Commit, Effective, TypeOK
  <2>2. CacheNeverStale'
    BY <1>6, <2>1 DEF Commit, CacheNeverStale, Cached
  <2>3. TypeOK'
    BY <1>6, ZenonT(60) DEF Commit, Go, TypeOK, PCs, Locals
  <2>6. WriterHolds'
    BY <1>6 DEF Commit, Go, TypeOK, Locals, WriterHolds
  <2>7. LookupKnows'
    BY <1>6 DEF Commit, Go, TypeOK, Locals, LookupKnows
  <2>4. FillsFresh'
    BY <1>6, <2>1 DEF Commit, Go, TypeOK, FillsFresh, LookupKnows
  <2>5. QED
    BY <2>2, <2>3, <2>4, <2>6, <2>7
<1>7. ASSUME NEW p \in Procs, PutBucketCache(p) \/ invalidateBucketCache(p) PROVE CacheInv'
  <2>1. PICK n \in Names :
          /\ n = loc[p].name /\ writer[n] = p
          /\ gen' = gen + 1 /\ UNCHANGED <<db, prior, answer>>
          /\ writer' = [writer EXCEPT ![n] = NoProc]
          /\ Return(p)
          /\ \/ cache' = [cache EXCEPT ![n] = db[n]]
             \/ cache' = [cache EXCEPT ![n] = Uncached]
    BY <1>7 DEF PutBucketCache, invalidateBucketCache, WriterHolds
  <2>2. \A m \in Names \ {n} : Effective(m)' = Effective(m) /\ cache'[m] = cache[m]
    BY <2>1 DEF Effective, TypeOK
  <2>3. Effective(n)' = db[n]
    BY <2>1 DEF Effective, TypeOK
  <2>4. CacheNeverStale'
    BY <2>1, <2>2, <2>3 DEF CacheNeverStale, Cached, TypeOK
  <2>5. Blank \in Locals /\ Blank.gen = 0
    BY DEF Blank, Locals, Values
  <2>6. TypeOK' /\ LookupKnows'
    <3>1. cache' \in [Names -> Values \cup {Uncached}] /\ gen' \in Nat
      BY <2>1 DEF TypeOK
    <3>2. pc' \in [Procs -> PCs] /\ loc' \in [Procs -> Locals]
      BY <2>1, <2>5 DEF Return, Go, TypeOK, PCs
    <3>3. TypeOK'
      BY <2>1, <3>1, <3>2 DEF TypeOK
    <3>4. /\ pc'[p] = "idle" /\ loc'[p] = Blank
          /\ \A q \in Procs \ {p} : pc'[q] = pc[q] /\ loc'[q] = loc[q]
      BY <2>1 DEF Return, Go, TypeOK
    <3>5. \A q \in Procs : loc[q].gen \in Nat /\ loc[q].gen <= gen
      BY DEF TypeOK, Locals, LookupKnows
    <3>6. gen \in Nat /\ gen' = gen + 1
      BY <2>1 DEF TypeOK
    <3>7. \A q \in Procs : loc'[q].gen <= gen'
      <4>1. TAKE q \in Procs
      <4>2. CASE q = p
        BY <2>5, <3>4, <3>6, <4>2
      <4>3. CASE q # p
        BY <3>4, <3>5, <3>6, <4>3
      <4>4. QED
        BY <4>2, <4>3
    <3>8. LookupKnows'
      BY <3>4, <3>7 DEF LookupKnows
    <3>9. QED
      BY <3>3, <3>8
  <2>7. WriterHolds'
    BY <2>1 DEF Return, Go, TypeOK, WriterHolds
  <2>8. FillsFresh'
    <3>1. pc'[p] = "idle" /\ \A q \in Procs \ {p} : loc'[q] = loc[q]
      BY <2>1 DEF Return, Go, TypeOK
    <3>2. \A q \in Procs \ {p} : loc[q].gen \in Nat /\ loc[q].gen <= gen
      BY DEF TypeOK, Locals, LookupKnows
    <3>3. gen \in Nat /\ gen' = gen + 1
      BY <2>1 DEF TypeOK
    <3>4. \A q \in Procs \ {p} : loc'[q].gen # gen'
      BY <3>1, <3>2, <3>3
    <3>5. QED
      BY <3>1, <3>4 DEF FillsFresh
  <2>9. QED
    BY <2>4, <2>6, <2>7, <2>8
<1>8. CASE UNCHANGED vars
  BY <1>8 DEF vars, store, TypeOK, WriterHolds, LookupKnows, FillsFresh, CacheNeverStale,
     Cached, Effective
<1>9. ASSUME NEW p \in Procs, Lookup(p) PROVE CacheInv'
  BY <1>9, <1>1, <1>2, <1>3, <1>4, <1>5 DEF Lookup
<1>10. ASSUME NEW p \in Procs, Write(p) PROVE CacheInv'
  BY <1>10, <1>6, <1>7 DEF Write, PutBucket, updateBucketInfo, DeleteBucket, Values
<1>11. QED
  BY <1>8, <1>9, <1>10 DEF Next

LEMMA CacheInvariant == Spec => []CacheInv
  BY CacheInit, CacheNext, PTL DEF Spec

\* No entry of bucketCache is ever out of date: a fill that raced a write is
\* discarded by the generation check of fillBucketCache, for any number of
\* readers and writers.
THEOREM CacheCoherent == Spec => []CacheNeverStale
<1>1. CacheInv => CacheNeverStale
  BY DEF CacheInv
<1>2. QED
  BY <1>1, CacheInvariant, PTL

-----------------------------------------------------------------------------
(***************************************************************************)
(* Refinement of the register                                              *)
(***************************************************************************)
Config == [n \in Names |-> Effective(n)]

LEMMA RegisterInit == Init => Register!Init
  BY CacheAssumption DEF Init, Register!Init, Effective, Values

LEMMA RegisterNext == CacheInv /\ [Next]_vars => [Register!Next]_(Register!vars)
<1> SUFFICES ASSUME CacheInv, [Next]_vars
             PROVE  Register!Next \/ UNCHANGED <<Config, answer>>
  BY DEF Register!vars, Config
<1> USE DEF CacheInv
<1>1. ASSUME NEW p \in Procs, NEW n \in Names, LookupHit(p, n) PROVE Register!Next
  <2>1. cache[n] = Config[n] /\ UNCHANGED Config
    BY <1>1 DEF LookupHit, CacheNeverStale, Cached, Config, Effective, store
  <2>2. Register!Get(p, n)
    BY <1>1, <2>1 DEF LookupHit, Register!Get, Config
  <2>3. QED
    BY <2>2 DEF Register!Next
<1>2. ASSUME NEW p \in Procs, GetBucket(p) PROVE Register!Next \/ UNCHANGED <<Config, answer>>
  <2>1. loc[p].name \in Names
    BY <1>2 DEF GetBucket, LookupKnows
  <2>2. db[loc[p].name] = Config[loc[p].name] /\ UNCHANGED Config
    BY <1>2, <2>1 DEF GetBucket, Config, Effective, store
  <2>3. Register!Get(p, loc[p].name) \/ UNCHANGED <<Config, answer>>
    BY <1>2, <2>2 DEF GetBucket, Register!Get, Config
  <2>4. QED
    BY <2>1, <2>3 DEF Register!Next
<1>3. ASSUME NEW p \in Procs, NEW n \in Names,
             LookupMiss(p, n) \/ bucketCacheGeneration(p) \/ fillBucketCache(p)
      PROVE  UNCHANGED <<Config, answer>>
  BY <1>3 DEF LookupMiss, bucketCacheGeneration, fillBucketCache, Config, Effective, store
<1>4. ASSUME NEW p \in Procs, NEW n \in Names, NEW v \in Values, NEW to, Commit(p, n, v, to)
      PROVE  UNCHANGED <<Config, answer>>
  <2>1. \A m \in Names : Effective(m)' = Effective(m)
    BY <1>4, CacheAssumption DEF Commit, Effective, TypeOK
  <2>2. QED
    BY <1>4, <2>1 DEF Commit, Config
<1>5. ASSUME NEW p \in Procs, PutBucketCache(p) \/ invalidateBucketCache(p) PROVE Register!Next
  <2> DEFINE n == loc[p].name
  <2>1. /\ n \in Names /\ writer[n] = p /\ UNCHANGED <<db, prior, answer>>
        /\ writer' = [writer EXCEPT ![n] = NoProc]
    BY <1>5 DEF PutBucketCache, invalidateBucketCache, WriterHolds
  <2>2. \A m \in Names : Effective(m)' = IF m = n THEN db[n] ELSE Effective(m)
    BY <2>1 DEF Effective, TypeOK
  <2>3. Config' = [Config EXCEPT ![n] = db[n]] /\ db[n] \in Values
    BY <2>1, <2>2 DEF Config, TypeOK
  <2>4. Register!Set(n, db[n])
    BY <2>1, <2>3 DEF Register!Set, Config
  <2>5. QED
    BY <2>1, <2>3, <2>4 DEF Register!Next
<1>6. CASE UNCHANGED vars
  BY <1>6 DEF vars, store, Config, Effective
<1>7. ASSUME NEW p \in Procs, Lookup(p)
      PROVE  Register!Next \/ UNCHANGED <<Config, answer>>
  <2>1. ASSUME NEW n \in Names, LookupHit(p, n) \/ LookupMiss(p, n)
        PROVE  Register!Next \/ UNCHANGED <<Config, answer>>
    BY <2>1, <1>1, <1>3
  <2>2. CASE bucketCacheGeneration(p) \/ fillBucketCache(p)
    BY <2>2 DEF bucketCacheGeneration, fillBucketCache, Config, Effective, store
  <2>3. QED
    BY <1>2, <1>7, <2>1, <2>2 DEF Lookup
<1>8. ASSUME NEW p \in Procs, Write(p)
      PROVE  Register!Next \/ UNCHANGED <<Config, answer>>
  BY <1>8, <1>4, <1>5 DEF Write, PutBucket, updateBucketInfo, DeleteBucket, Values
<1>9. QED
  BY <1>6, <1>7, <1>8 DEF Next

\* GetBucketCached, with its cache, generations and races, is a single atomic
\* read of the configuration, and PutBucket, updateBucketInfo and DeleteBucket
\* are atomic writes that take effect before they return.
THEOREM CacheImplementsRegister == Spec => LookupsAreAtomic
  BY RegisterInit, RegisterNext, CacheInvariant, PTL DEF Spec, LookupsAreAtomic, Register!Spec
=============================================================================

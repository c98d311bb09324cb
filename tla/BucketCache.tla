---------------------------- MODULE BucketCache ----------------------------
(***************************************************************************)
(* The cache of bucket configurations in front of the central database     *)
(* (internal/storage/metadata.go).  Its entries never expire, so one that  *)
(* is wrong stays wrong: nearly every request asks it whether the bucket   *)
(* exists, is versioned, is public.                                        *)
(*                                                                         *)
(* A bbolt transaction is one step; so is a section under cacheMu.  The    *)
(* bucket lock of the metadata store is held by a writer from before its   *)
(* transaction until after it has dealt with the cache, and by a reader    *)
(* for its transaction only.  Nothing of the cache survives a restart, so  *)
(* any content of the database is an initial state.                        *)
(*                                                                         *)
(* Definitions marked FAULTY are variants no action uses: each is a bug    *)
(* this code could plausibly have, kept to show which property notices it. *)
(***************************************************************************)
EXTENDS Integers, FiniteSets

CONSTANTS
    Names,          \* bucket names
    Procs,          \* request handlers
    Configs,        \* configurations a bucket can have
    MaxEntries,     \* maxBucketCacheEntries
    MaxGen          \* bound on configuration writes

Missing == "missing"    \* no such bucket: errNoSuchBucketRecord, a nil entry
Uncached == "uncached"  \* no entry
Failed == "failed"      \* any other error of a read
NoProc == "free"        \* nobody holds the lock

Values == Configs \cup {Missing}

ASSUME CacheAssumption ==
    /\ IsFiniteSet(Names)
    /\ MaxEntries \in Nat \ {0}
    /\ MaxGen \in Nat
    /\ NoProc \notin Procs /\ Missing \notin Names
    /\ Missing \notin Configs /\ Uncached \notin Configs /\ Failed \notin Configs

VARIABLES
    db,         \* db[n]: the record in the central database, or Missing
    cache,      \* bucketCache
    gen,        \* cacheGen
    writer,     \* writer[n]: who holds n's bucket lock for writing
    prior,      \* history: db[n] before the write in progress
    pc,         \* where each handler is
    loc,        \* its locals: bucket name, generation and value read
    answer      \* what its last lookup found

store == <<db, cache, gen, writer, prior>>
vars == <<store, pc, loc, answer>>

PCs == {"idle", "missed", "reading", "filling", "caching", "invalidating"}
Locals == [name : Names \cup {Missing}, gen : Nat, value : Values \cup {Failed}]
Blank == [name |-> Missing, gen |-> 0, value |-> Missing]

Cached == {n \in Names : cache[n] # Uncached}

Init ==
    /\ db \in [Names -> Values]
    /\ cache = [n \in Names |-> Uncached]
    /\ gen = 0
    /\ writer = [n \in Names |-> NoProc]
    /\ prior = db
    /\ pc = [p \in Procs |-> "idle"]
    /\ loc = [p \in Procs |-> Blank]
    /\ answer = [p \in Procs |-> <<>>]

Go(p, to) == pc' = [pc EXCEPT ![p] = to]

Return(p) == Go(p, "idle") /\ loc' = [loc EXCEPT ![p] = Blank]

-----------------------------------------------------------------------------
(***************************************************************************)
(* GetBucketCached: the cache, else the generation, the database and,      *)
(* unless the generation has moved on, a new entry.                        *)
(***************************************************************************)
LookupHit(p, n) ==
    /\ pc[p] = "idle"
    /\ cache[n] # Uncached
    /\ answer' = [answer EXCEPT ![p] = <<n, cache[n]>>]
    /\ UNCHANGED <<store, pc, loc>>

LookupMiss(p, n) ==
    /\ pc[p] = "idle"
    /\ cache[n] = Uncached
    /\ loc' = [loc EXCEPT ![p].name = n]
    /\ Go(p, "missed")
    /\ UNCHANGED <<store, answer>>

bucketCacheGeneration(p) ==
    /\ pc[p] = "missed"
    /\ loc' = [loc EXCEPT ![p].gen = gen]
    /\ Go(p, "reading")
    /\ UNCHANGED <<store, answer>>

\* GetBucket waits for a writer of this bucket, and may fail.
GetBucket(p) ==
    LET n == loc[p].name
    IN  /\ pc[p] = "reading"
        /\ writer[n] = NoProc
        /\ \/ /\ loc' = [loc EXCEPT ![p].value = db[n]]
              /\ answer' = [answer EXCEPT ![p] = <<n, db[n]>>]
           \/ /\ loc' = [loc EXCEPT ![p].value = Failed]
              /\ UNCHANGED answer
        /\ Go(p, "filling")
        /\ UNCHANGED store

\* The cache as fillBucketCache leaves it: emptied first when it is full, and
\* without an entry for a read that failed.
Filled(n, value) ==
    LET kept == IF Cardinality(Cached) >= MaxEntries THEN [m \in Names |-> Uncached]
                ELSE cache
    IN  IF value = Failed THEN kept ELSE [kept EXCEPT ![n] = value]

\* FAULTY: the generation is not compared.
FillAlways(p) ==
    /\ pc[p] = "filling"
    /\ cache' = Filled(loc[p].name, loc[p].value)
    /\ Return(p)
    /\ UNCHANGED <<db, gen, writer, prior, answer>>

fillBucketCache(p) ==
    /\ pc[p] = "filling"
    /\ cache' = IF loc[p].gen = gen THEN Filled(loc[p].name, loc[p].value) ELSE cache
    /\ Return(p)
    /\ UNCHANGED <<db, gen, writer, prior, answer>>

(***************************************************************************)
(* Writes: under the bucket lock the database first, then the cache.       *)
(***************************************************************************)
Commit(p, n, value, to) ==
    /\ pc[p] = "idle"
    /\ writer[n] = NoProc
    /\ gen + Cardinality({q \in Procs : pc[q] \in {"caching", "invalidating"}}) < MaxGen
    /\ writer' = [writer EXCEPT ![n] = p]
    /\ prior' = [prior EXCEPT ![n] = db[n]]
    /\ db' = [db EXCEPT ![n] = value]
    /\ loc' = [loc EXCEPT ![p].name = n]
    /\ Go(p, to)
    /\ UNCHANGED <<cache, gen, answer>>

\* PutBucket, by CreateBucket, which has found that there is no such bucket
\* and excludes its creation and deletion by others.
PutBucket(p, n, c) ==
    /\ db[n] = Missing
    /\ Commit(p, n, c, "caching")

\* PutBucket caches what it wrote; the cap is not looked at.
PutBucketCache(p) ==
    LET n == loc[p].name
    IN  /\ pc[p] = "caching"
        /\ gen' = gen + 1
        /\ cache' = [cache EXCEPT ![n] = db[n]]
        /\ writer' = [writer EXCEPT ![n] = NoProc]
        /\ Return(p)
        /\ UNCHANGED <<db, prior, answer>>

\* updateBucketInfo changes a bucket that is there.
updateBucketInfo(p, n, c) ==
    /\ db[n] # Missing
    /\ Commit(p, n, c, "invalidating")

DeleteBucket(p, n) ==
    Commit(p, n, Missing, "invalidating")

\* FAULTY: the generation moves on but the entry stays.
InvalidateKeepsEntry(p) ==
    LET n == loc[p].name
    IN  /\ pc[p] = "invalidating"
        /\ gen' = gen + 1
        /\ writer' = [writer EXCEPT ![n] = NoProc]
        /\ Return(p)
        /\ UNCHANGED <<db, cache, prior, answer>>

invalidateBucketCache(p) ==
    LET n == loc[p].name
    IN  /\ pc[p] = "invalidating"
        /\ gen' = gen + 1
        /\ cache' = [cache EXCEPT ![n] = Uncached]
        /\ writer' = [writer EXCEPT ![n] = NoProc]
        /\ Return(p)
        /\ UNCHANGED <<db, prior, answer>>

Lookup(p) ==
    \/ \E n \in Names : LookupHit(p, n) \/ LookupMiss(p, n)
    \/ bucketCacheGeneration(p) \/ GetBucket(p) \/ fillBucketCache(p)

Write(p) ==
    \/ \E n \in Names, c \in Configs : PutBucket(p, n, c) \/ updateBucketInfo(p, n, c)
    \/ \E n \in Names : DeleteBucket(p, n)
    \/ PutBucketCache(p) \/ invalidateBucketCache(p)

Next == \E p \in Procs : Lookup(p) \/ Write(p)

Spec == Init /\ [][Next]_vars

-----------------------------------------------------------------------------
(***************************************************************************)
(* Properties                                                              *)
(***************************************************************************)

\* The configuration in force: a write counts once it has dealt with the
\* cache, which is before it returns to its caller.
Effective(n) == IF writer[n] = NoProc THEN db[n] ELSE prior[n]

\* Every variable keeps its type.
TypeOK ==
    /\ db \in [Names -> Values]
    /\ cache \in [Names -> Values \cup {Uncached}]
    /\ gen \in Nat
    /\ writer \in [Names -> Procs \cup {NoProc}]
    /\ prior \in [Names -> Values]
    /\ pc \in [Procs -> PCs]
    /\ loc \in [Procs -> Locals]
    /\ answer \in [Procs -> {<<>>} \cup (Names \X Values)]

\* fillBucketCache's comment: a stale read must not be kept, it "would serve
\* the old config (a bucket made private still read as public) with no expiry
\* to correct it".  Every entry is the configuration in force, whichever reads
\* raced whichever writes, failed or found the cache full.
CacheNeverStale == \A n \in Cached : cache[n] = Effective(n)

\* GetBucketCached behaves as if there were no cache: every lookup returns the
\* configuration in force at one moment between its call and its return.
Register == INSTANCE ConfigRegister WITH
    config <- [n \in Names |-> Effective(n)]

LookupsAreAtomic == Register!Spec
=============================================================================

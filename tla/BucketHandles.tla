--------------------------- MODULE BucketHandles ---------------------------
(***************************************************************************)
(* The cache of open bucket databases and the deletion of buckets          *)
(* (internal/storage/metadata.go: acquireBucketDB, releaseBucketDB,        *)
(* evictLocked, closeAndRemoveBucketDB; filesystem.go: CreateBucket,       *)
(* DeleteBucket).                                                          *)
(*                                                                         *)
(* Every bucket has a bbolt file, opened on first use, kept open and       *)
(* shared by reference count.  Three locks are in play: the engine's       *)
(* bucket lock (shared by writes, exclusive for create and delete), the    *)
(* metadata store's bucket lock (shared by operations on records,          *)
(* exclusive for configuration writes) and an initialization lock around   *)
(* the opening of a file.  Listings and the replication worker take none   *)
(* of the first two.                                                       *)
(*                                                                         *)
(* A file is known by its inode: removing its path leaves it to those who  *)
(* have it open, and the same name may then belong to a new file.          *)
(*                                                                         *)
(* Definitions marked FAULTY are variants no action uses: each is a bug    *)
(* this code could plausibly have, kept to show which property notices it. *)
(***************************************************************************)
EXTENDS Integers, FiniteSets

CONSTANTS
    Names,      \* bucket names
    Procs,      \* request handlers
    Handles,    \* bbolt handles: bounds how many are open at once
    Files,      \* inodes: bounds how many exist at once
    MaxOpen,    \* maxOpenBucketDBs
    Requests,   \* kinds of request that arrive
    Faults,     \* whether the process may crash
    NoHandle, NoFile, NoProc

ASSUME HandleAssumption ==
    /\ IsFiniteSet(Names) /\ IsFiniteSet(Procs)
    /\ MaxOpen \in Nat \ {0}
    /\ Requests \subseteq {"put", "remove", "list", "create", "delete"}
    /\ Faults \subseteq {"crash"}
    /\ NoHandle \notin Handles /\ NoFile \notin Files /\ NoProc \notin Procs

VARIABLES
    registry,   \* buckets in the central database
    file,       \* file[n]: the inode at the path of n's database
    records,    \* <<inode, what>>: the databases that hold objects, delete markers
    active,     \* activeBuckets
    db,         \* db[h]: a bucketDBEntry and its bbolt handle
    exclusive,  \* exclusive[n], sharers[n]: the engine's bucket lock
    sharers,
    writer,     \* writer[n], readers[n]: the metadata store's bucket lock
    readers,
    initLock,   \* initLock[n]: who opens n's database
    pc,         \* where each handler is
    loc         \* its locals: request, bucket name, handle, IsBucketEmpty

files == <<registry, file, records>>
locks == <<exclusive, sharers, writer, readers>>
vars == <<files, active, db, locks, initLock, pc, loc>>

\* raced is a history: the handle was opened while its bucket was deleted.
Shut == [file |-> NoFile, refs |-> 0, evicted |-> FALSE, open |-> FALSE, raced |-> FALSE]
Blank == [kind |-> "none", name |-> NoFile, h |-> NoHandle, empty |-> FALSE]

Without(f) == {r \in records : r[1] # f}

\* Nothing is open after a start.  Buckets of an earlier run have their files.
Init ==
    /\ registry \in SUBSET Names
    /\ \E made \in [registry -> Files] :
         /\ \A m, n \in registry : made[m] = made[n] => m = n
         /\ file = [n \in Names |-> IF n \in registry THEN made[n] ELSE NoFile]
         /\ records \in SUBSET {<<made[n], "object">> : n \in registry}
    /\ active = [n \in Names |-> NoHandle]
    /\ db = [h \in Handles |-> Shut]
    /\ exclusive = [n \in Names |-> NoProc]
    /\ sharers = [n \in Names |-> {}]
    /\ writer = [n \in Names |-> NoProc]
    /\ readers = [n \in Names |-> {}]
    /\ initLock = [n \in Names |-> NoProc]
    /\ pc = [p \in Procs |-> "idle"]
    /\ loc = [p \in Procs |-> Blank]

Go(p, to) == pc' = [pc EXCEPT ![p] = to]

Enter(p, kind, n, to) ==
    /\ pc[p] = "idle"
    /\ loc' = [loc EXCEPT ![p] = [Blank EXCEPT !.kind = kind, !.name = n]]
    /\ Go(p, to)

\* A handler returns: its deferred unlocks run.
Unlock(p, lock) == [n \in Names |-> IF lock[n] = p THEN NoProc ELSE lock[n]]
Leave(p, group) == [n \in Names |-> group[n] \ {p}]

Return(p) ==
    /\ Go(p, "idle")
    /\ loc' = [loc EXCEPT ![p] = Blank]
    /\ exclusive' = Unlock(p, exclusive) /\ sharers' = Leave(p, sharers)
    /\ writer' = Unlock(p, writer) /\ readers' = Leave(p, readers)
    /\ initLock' = Unlock(p, initLock)

-----------------------------------------------------------------------------
(***************************************************************************)
(* Requests arrive                                                         *)
(***************************************************************************)

\* FAULTY: the write does not take the engine's bucket lock.
PutUnlocked(p, n) ==
    /\ n \in registry
    /\ Enter(p, "put", n, "enter")
    /\ UNCHANGED <<files, active, db, locks, initLock>>

\* The commit of a PUT or an upload: lockBucketForCommit.
Put(p, n) ==
    /\ exclusive[n] = NoProc /\ n \in registry
    /\ sharers' = [sharers EXCEPT ![n] = @ \cup {p}]
    /\ Enter(p, "put", n, "enter")
    /\ UNCHANGED <<files, active, db, exclusive, writer, readers, initLock>>

\* The commit of a DELETE, which takes no bucket lock.
Delete(p, n) ==
    /\ Enter(p, "remove", n, "enter")
    /\ UNCHANGED <<files, active, db, locks, initLock>>

\* ListObjects and the like go straight to the database.
List(p, n) ==
    /\ Enter(p, "list", n, "acquire")
    /\ UNCHANGED <<files, active, db, locks, initLock>>

\* CreateBucket and DeleteBucket: lockBucket, then BucketExists.
lockBucket(p, n) ==
    /\ exclusive[n] = NoProc /\ sharers[n] = {}
    /\ exclusive' = [exclusive EXCEPT ![n] = p]
    /\ UNCHANGED <<files, active, db, sharers, writer, readers, initLock>>

CreateBucket(p, n) ==
    /\ n \notin registry
    /\ Enter(p, "create", n, "create")
    /\ lockBucket(p, n)

DeleteBucket(p, n) ==
    /\ n \in registry
    /\ Enter(p, "delete", n, "enter")
    /\ lockBucket(p, n)

\* acquireBucketLock, shared.
acquireBucketLock(p) ==
    LET n == loc[p].name
    IN  /\ pc[p] = "enter"
        /\ writer[n] = NoProc
        /\ readers' = [readers EXCEPT ![n] = @ \cup {p}]
        /\ Go(p, "acquire")
        /\ UNCHANGED <<files, active, db, exclusive, sharers, writer, initLock, loc>>

-----------------------------------------------------------------------------
(***************************************************************************)
(* acquireBucketDB                                                         *)
(***************************************************************************)

\* The handle is in activeBuckets, at once or when looked for again.
AcquireHit(p) ==
    LET n == loc[p].name
    IN  /\ pc[p] \in {"acquire", "initialize"}
        /\ active[n] # NoHandle
        /\ db' = [db EXCEPT ![active[n]].refs = @ + 1]
        /\ loc' = [loc EXCEPT ![p].h = active[n]]
        /\ initLock' = Unlock(p, initLock)
        /\ Go(p, "using")
        /\ UNCHANGED <<files, active, locks>>

AcquireMiss(p) ==
    /\ pc[p] = "acquire"
    /\ active[loc[p].name] = NoHandle
    /\ Go(p, "verify")
    /\ UNCHANGED <<files, active, db, locks, initLock, loc>>

\* The central database must know the bucket.
AcquireVerify(p) ==
    /\ pc[p] = "verify"
    /\ \/ /\ loc[p].name \in registry
          /\ Go(p, "verified")
          /\ UNCHANGED <<locks, initLock, loc>>
       \/ /\ loc[p].name \notin registry
          /\ Return(p)
    /\ UNCHANGED <<files, active, db>>

\* FAULTY: openings of one database do not exclude each other.
AcquireInitUnlocked(p) ==
    /\ pc[p] = "verified"
    /\ Go(p, "initialize")
    /\ UNCHANGED <<files, active, db, locks, initLock, loc>>

AcquireInit(p) ==
    LET n == loc[p].name
    IN  /\ pc[p] = "verified"
        /\ initLock[n] = NoProc
        /\ initLock' = [initLock EXCEPT ![n] = p]
        /\ Go(p, "initialize")
        /\ UNCHANGED <<files, active, db, locks, loc>>

\* bolt.Open creates the file if there is none.  It locks it: a file that is
\* still open is waited for, until a timeout.
OpenFiles == {db[h].file : h \in {g \in Handles : db[g].open}}

\* DeleteBucket has found n empty and has not returned.
Removing(n) ==
    \E q \in Procs : pc[q] \in {"emptied", "unregistered", "detached"} /\ loc[q].name = n

AcquireOpen(p) ==
    LET n == loc[p].name
    IN  /\ pc[p] = "initialize"
        /\ active[n] = NoHandle
        /\ \E h \in Handles, f \in Files :
             /\ ~db[h].open /\ \A q \in Procs : loc[q].h # h
             /\ f \notin OpenFiles
             /\ IF file[n] # NoFile THEN f = file[n] ELSE \A m \in Names : file[m] # f
             /\ file' = [file EXCEPT ![n] = f]
             /\ records' = IF file[n] = NoFile THEN Without(f) ELSE records
             /\ db' = [db EXCEPT ![h] = [Shut EXCEPT !.file = f, !.open = TRUE,
                                                  !.raced = Removing(n)]]
             /\ loc' = [loc EXCEPT ![p].h = h]
        /\ Go(p, "opened")
        /\ UNCHANGED <<registry, active, locks, initLock>>

AcquireFails(p) ==
    /\ pc[p] = "initialize"
    /\ active[loc[p].name] = NoHandle
    /\ Return(p)
    /\ UNCHANGED <<files, active, db>>

\* The transaction that sets the database up fails, or the sync of its
\* directories: the handle is closed, and a file that was created stays.
AcquireGivesUp(p) ==
    /\ pc[p] = "opened"
    /\ db' = [db EXCEPT ![loc[p].h] = Shut]
    /\ Return(p)
    /\ UNCHANGED <<files, active>>

\* FAULTY: a handle in use may be evicted.
EvictableBusy(n) == {m \in Names \ {n} : active[m] # NoHandle}

\* evictLocked: the handles that may be closed to make room.  The code takes
\* the least recently used of them; here it is any.
Evictable(n) == {m \in Names \ {n} : active[m] # NoHandle /\ db[active[m]].refs = 0}

\* FAULTY: the new entry starts without a reference.
AcquireInsertUncounted(p) ==
    LET n == loc[p].name
    IN  /\ pc[p] = "opened"
        /\ active' = [active EXCEPT ![n] = loc[p].h]
        /\ UNCHANGED db
        /\ initLock' = Unlock(p, initLock)
        /\ Go(p, "using")
        /\ UNCHANGED <<files, locks, loc>>

\* The new handle goes into activeBuckets, after one eviction if it is full.
AcquireInsert(p) ==
    LET n == loc[p].name
        full == Cardinality({m \in Names : active[m] # NoHandle}) >= MaxOpen
    IN  /\ pc[p] = "opened"
        /\ \/ /\ ~full \/ Evictable(n) = {}
              /\ active' = [active EXCEPT ![n] = loc[p].h]
              /\ db' = [db EXCEPT ![loc[p].h].refs = 1]
           \/ /\ full
              /\ \E m \in Evictable(n) :
                   /\ active' = [active EXCEPT ![n] = loc[p].h, ![m] = NoHandle]
                   /\ db' = [db EXCEPT ![loc[p].h].refs = 1, ![active[m]] = Shut]
        /\ initLock' = Unlock(p, initLock)
        /\ Go(p, "using")
        /\ UNCHANGED <<files, locks, loc>>

-----------------------------------------------------------------------------
(***************************************************************************)
(* Using and releasing the database                                        *)
(***************************************************************************)

\* The transaction: a DELETE removes the bucket's only record or adds a
\* delete marker, which matters where there is no object; DeleteBucket runs
\* IsBucketEmpty.
Transact(p) ==
    LET f == db[loc[p].h].file
    IN  /\ pc[p] = "using"
        /\ CASE loc[p].kind = "put" -> records' = Without(f) \cup {<<f, "object">>}
             [] loc[p].kind = "remove" ->
                   \/ records' = Without(f)
                   \/ records = Without(f) /\ records' = records \cup {<<f, "marker">>}
             [] OTHER -> UNCHANGED records
        /\ loc' = [loc EXCEPT ![p].empty = (loc[p].kind = "delete" /\ records = Without(f))]
        /\ Go(p, "used")
        /\ UNCHANGED <<registry, file, active, db, locks, initLock>>

\* FAULTY: the last release of an evicted handle leaves it open.
ReleasedForgotten(h) == [db EXCEPT ![h].refs = @ - 1]

\* releaseBucketDB: the last release of an evicted handle closes it.
Released(h) ==
    IF db[h].refs - 1 <= 0 /\ db[h].evicted THEN [db EXCEPT ![h] = Shut]
    ELSE [db EXCEPT ![h].refs = @ - 1]

releaseBucketDB(p) ==
    /\ pc[p] = "used"
    /\ db' = Released(loc[p].h)
    /\ \/ /\ loc[p].empty
          /\ readers' = Leave(p, readers)
          /\ loc' = [loc EXCEPT ![p].h = NoHandle]
          /\ Go(p, "emptied")
          /\ UNCHANGED <<exclusive, sharers, writer, initLock>>
       \/ /\ ~loc[p].empty
          /\ Return(p)
    /\ UNCHANGED <<files, active>>

-----------------------------------------------------------------------------
(***************************************************************************)
(* Creating and deleting                                                   *)
(***************************************************************************)

\* PutBucket, in one transaction under the metadata lock.
CreateCommit(p) ==
    LET n == loc[p].name
    IN  /\ pc[p] = "create"
        /\ writer[n] = NoProc /\ readers[n] = {}
        /\ registry' = registry \cup {n}
        /\ Return(p)
        /\ UNCHANGED <<file, records, active, db>>

\* FAULTY: the metadata lock is not waited for.
DeleteUnregisterUnlocked(p) ==
    LET n == loc[p].name
    IN  /\ pc[p] = "emptied"
        /\ writer' = [writer EXCEPT ![n] = p]
        /\ registry' = registry \ {n}
        /\ Go(p, "unregistered")
        /\ UNCHANGED <<file, records, active, db, exclusive, sharers, readers, initLock, loc>>

\* DeleteBucket of the metadata store, under its lock: the record, ...
DeleteUnregister(p) ==
    LET n == loc[p].name
    IN  /\ pc[p] = "emptied"
        /\ writer[n] = NoProc /\ readers[n] = {}
        /\ writer' = [writer EXCEPT ![n] = p]
        /\ registry' = registry \ {n}
        /\ Go(p, "unregistered")
        /\ UNCHANGED <<file, records, active, db, exclusive, sharers, readers, initLock, loc>>

\* ... the handle, left to its last user if it has one, ...
closeAndRemoveBucketDB(p) ==
    LET h == active[loc[p].name]
    IN  /\ pc[p] = "unregistered"
        /\ active' = [active EXCEPT ![loc[p].name] = NoHandle]
        /\ db' = IF h = NoHandle THEN db
                 ELSE IF db[h].refs > 0 THEN [db EXCEPT ![h].evicted = TRUE]
                 ELSE [db EXCEPT ![h] = Shut]
        /\ Go(p, "detached")
        /\ UNCHANGED <<files, locks, initLock, loc>>

\* ... and the file.
DeleteFile(p) ==
    /\ pc[p] = "detached"
    /\ file' = [file EXCEPT ![loc[p].name] = NoFile]
    /\ Return(p)
    /\ UNCHANGED <<registry, records, active, db>>

\* The process stops and starts again.
Crash ==
    /\ "crash" \in Faults
    /\ active' = [n \in Names |-> NoHandle]
    /\ db' = [h \in Handles |-> Shut]
    /\ exclusive' = [n \in Names |-> NoProc] /\ sharers' = [n \in Names |-> {}]
    /\ writer' = [n \in Names |-> NoProc] /\ readers' = [n \in Names |-> {}]
    /\ initLock' = [n \in Names |-> NoProc]
    /\ pc' = [p \in Procs |-> "idle"]
    /\ loc' = [p \in Procs |-> Blank]
    /\ UNCHANGED files

Begin(p, n) ==
    \/ "put" \in Requests /\ Put(p, n)
    \/ "remove" \in Requests /\ Delete(p, n)
    \/ "list" \in Requests /\ List(p, n)
    \/ "create" \in Requests /\ CreateBucket(p, n)
    \/ "delete" \in Requests /\ DeleteBucket(p, n)

Step(p) ==
    \/ acquireBucketLock(p)
    \/ AcquireHit(p) \/ AcquireMiss(p) \/ AcquireVerify(p) \/ AcquireInit(p)
    \/ AcquireOpen(p) \/ AcquireFails(p) \/ AcquireGivesUp(p) \/ AcquireInsert(p)
    \/ Transact(p) \/ releaseBucketDB(p)
    \/ CreateCommit(p)
    \/ DeleteUnregister(p) \/ closeAndRemoveBucketDB(p) \/ DeleteFile(p)

Next ==
    \/ \E p \in Procs : Step(p) \/ \E n \in Names : Begin(p, n)
    \/ Crash

Spec == Init /\ [][Next]_vars

-----------------------------------------------------------------------------
(***************************************************************************)
(* Properties                                                              *)
(***************************************************************************)

\* Every variable keeps its type; reference counts do not go negative.
TypeOK ==
    /\ registry \subseteq Names
    /\ file \in [Names -> Files \cup {NoFile}]
    /\ records \subseteq Files \X {"object", "marker"}
    /\ active \in [Names -> Handles \cup {NoHandle}]
    /\ db \in [Handles -> [file : Files \cup {NoFile}, refs : Nat,
                           evicted : BOOLEAN, open : BOOLEAN, raced : BOOLEAN]]
    /\ exclusive \in [Names -> Procs \cup {NoProc}]
    /\ sharers \in [Names -> SUBSET Procs]
    /\ writer \in [Names -> Procs \cup {NoProc}]
    /\ readers \in [Names -> SUBSET Procs]
    /\ initLock \in [Names -> Procs \cup {NoProc}]
    /\ pc \in [Procs -> {"idle", "enter", "acquire", "verify", "verified", "initialize",
                         "opened", "using", "used", "create", "emptied", "unregistered",
                         "detached"}]
    /\ loc \in [Procs -> [kind : {"none"} \cup Requests, name : Names \cup {NoFile},
                          h : Handles \cup {NoHandle}, empty : BOOLEAN]]

\* "A handle is now only closed once its last user releases it": neither an
\* eviction nor the deletion of the bucket closes a database somebody has
\* acquired.
NoUseAfterClose ==
    \A p \in Procs : pc[p] \in {"using", "used"} => db[loc[p].h].open

\* "... the last release closes it": an open handle is in activeBuckets, has
\* users, or is just being opened; none is forgotten with its file locked.
NoLeakedHandle ==
    \A h \in Handles : db[h].open =>
        \/ \E n \in Names : active[n] = h
        \/ db[h].refs > 0
        \/ \E p \in Procs : pc[p] = "opened" /\ loc[p].h = h

\* Nobody else can have opened the database meanwhile: the case "another
\* goroutine may have won the race while we were opening", in which
\* acquireBucketDB would count a reference to a handle that may have been
\* closed in between, does not arise.
OpensOnce ==
    \A p \in Procs : pc[p] = "opened" => active[loc[p].name] = NoHandle

\* A deleted bucket leaves no object behind for a later one of its name,
\* whichever writes raced the deletion and wherever it crashed: DeleteBucket
\* holds the bucket lock so that "no write can land between 'it's empty' and
\* 'it's gone'".  A delete marker can: its commit does not take that lock.
DeletedLeavesNothing ==
    \A n \in Names \ registry : <<file[n], "object">> \notin records

\* A transaction of an operation under the metadata lock goes to the file at
\* the bucket's path, not to one that was removed: "This is what makes
\* DeleteBucket atomic with respect to object writes" (multipart.go:704).  The
\* one exception is a handle that was opened between the check for emptiness
\* and the end of the deletion, which takes an opener without that lock.
WritesReachDisk ==
    \A p \in Procs :
        pc[p] = "using" /\ loc[p].kind # "list" =>
            db[loc[p].h].file = file[loc[p].name] \/ db[loc[p].h].raced
=============================================================================

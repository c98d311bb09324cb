---------------------------- MODULE ObjectStore ----------------------------
(***************************************************************************)
(* How the storage engine publishes, replaces, removes and expires object  *)
(* versions of one bucket (internal/storage: filesystem.go,                *)
(* publication.go, object_metadata.go, expiration.go, versioning.go).      *)
(*                                                                         *)
(* An object is a metadata record in the bucket's bbolt database plus a    *)
(* data file.  The two are changed in separate steps, by several requests  *)
(* at once, and the process may crash between any two of them.  A bbolt    *)
(* transaction is one step of the model; so is a rename, a directory       *)
(* fsync, a file removal, a lock operation.                                *)
(*                                                                         *)
(* Data is abstract: the bytes a PUT writes are identified with the blob   *)
(* allocated for it, so that two PUTs never write equal bytes, and those   *)
(* of an object in the pre-blob layout with the key whose path they are    *)
(* stored at.                                                              *)
(*                                                                         *)
(* Definitions marked FAULTY are variants no action uses: each is a bug    *)
(* this code could plausibly have, kept to show which property notices it. *)
(***************************************************************************)
EXTENDS Integers, FiniteSets

CONSTANTS
    Keys,       \* object keys of the bucket
    Procs,      \* request handlers, and the lifecycle sweep
    Blobs,      \* blob IDs newBlobID can return: bounds the number of PUTs
    Uuids,      \* version IDs uuid.New can return: bounds versioned writes
    MaxClock,   \* bound on the wall clock
    Cutoff,     \* age, in clock ticks, beyond which a lifecycle rule expires
    Heritage,   \* what the data directory may hold at first: see Init
    Requests,   \* kinds of request that arrive
    Faults,     \* what may go wrong: crashes, errors of single calls
    NoRecord    \* no metadata record

\* Values that stand for the empty or missing case of a field.
Absent == "absent"      \* no file at this path
NoProc == "free"        \* nobody holds the lock
NoBlob == ""            \* BlobID of a record in the pre-blob layout
NullVersion == "null"   \* the S3 null version
Unversioned == ""       \* VersionID of a record written without versioning
NoCount == -1           \* the database stores no object count yet

VersionIDs == Uuids \cup {NullVersion}
Paths == Blobs \cup Keys        \* blob paths and legacy key paths
Statuses == {"", "Enabled", "Suspended"}

\* ObjectInfo.  "modified" and "noncurrent" are LastModified and
\* NoncurrentSince; a noncurrent time of 0 is the zero time.
Record == [vid : VersionIDs \cup {Unversioned}, blob : Blobs \cup {NoBlob},
           etag : Paths \cup {Absent}, marker : BOOLEAN, latest : BOOLEAN,
           modified : Nat, noncurrent : Nat]

ASSUME IdAssumption ==
    /\ Keys \cap Blobs = {}
    /\ Absent \notin Paths
    /\ NoBlob \notin Paths
    /\ Unversioned \notin Uuids /\ NullVersion \notin Uuids
    /\ Uuids \cap Paths = {}
    /\ NoProc \notin Procs
    /\ NoRecord \notin Record

ASSUME BoundAssumption ==
    /\ IsFiniteSet(Keys)
    /\ MaxClock \in Nat
    /\ Cutoff \in Nat \ {0}
    /\ Heritage \subseteq {"none", "legacy", "history"}
    /\ Requests \subseteq {"put", "delete", "get", "expire"}
    /\ Faults \subseteq {"crash", "error"}

VARIABLES
    status,     \* the bucket's versioning status
    pointer,    \* pointer[k]: the record stored under "bucket NUL key"
    versions,   \* versions[k][v]: the one under "bucket NUL key NUL version"
    count,      \* the stored object count
    data,       \* data[path]: the bytes of the file there, or Absent
    unsynced,   \* files whose directory entry has not been fsynced
    spent,      \* blob and version IDs handed out so far
    clock,      \* wall clock, never set backwards
    keyLock,    \* keyLock[k]: who holds lockObjectKey
    committers, \* who holds the bucket lock shared (lockBucketForCommit)
    pc,         \* where each process is
    op,         \* its locals
    disturbed   \* history: a crash or a failed cleanup has happened

meta == <<pointer, versions, count>>
disk == <<data, unsynced>>
locks == <<keyLock, committers>>
vars == <<status, meta, disk, spent, clock, locks, pc, op, disturbed>>

\* Locals of a request.  vid is the version requested, then the one written;
\* mode how a delete proceeds; copy the blob a legacy object is copied to;
\* now the time a lifecycle sweep started; gone the data to remove once the
\* metadata is committed.
Op == [kind : {"none", "put", "delete", "expireCurrent", "expireNoncurrent", "get"},
       key : Keys \cup {Absent}, vid : VersionIDs \cup {Unversioned},
       mode : {"", "version", "marker", "all"},
       blob : Paths \cup {NoBlob}, copy : Blobs \cup {NoBlob},
       etag : Paths \cup {Absent}, mod : Nat, now : Nat, gone : SUBSET Paths]

Idle == [kind |-> "none", key |-> Absent, vid |-> Unversioned, mode |-> "",
         blob |-> NoBlob, copy |-> NoBlob, etag |-> Absent, mod |-> 0,
         now |-> 0, gone |-> {}]

PCs == {"idle", "written", "waiting", "locked", "checked", "prepare", "copied",
        "copySynced", "recorded", "promoted", "renamed", "synced", "ready",
        "cleanup", "opening"}

-----------------------------------------------------------------------------
(***************************************************************************)
(* Reading metadata                                                        *)
(***************************************************************************)

\* dataPath: the file that holds a record's data, in either layout.  The
\* pre-blob layout is modelled for unversioned objects, at the key's path.
dataPath(k, rec) == IF rec.blob = NoBlob THEN k ELSE rec.blob

\* GetObjectMeta.  Version "null" falls back to an object written before the
\* bucket was versioned.
GetObjectMeta(k, v) ==
    IF v = Unversioned THEN pointer[k]
    ELSE IF versions[k][v] # NoRecord THEN versions[k][v]
    ELSE IF v = NullVersion /\ pointer[k] # NoRecord
            /\ pointer[k].vid = Unversioned
         THEN pointer[k]
    ELSE NoRecord

\* storedRecord: the record that holds data for k at exactly version v.
storedRecord(k, v) ==
    LET rec == GetObjectMeta(k, v)
    IN  IF rec = NoRecord \/ (rec # NoRecord /\ (rec.marker \/ rec.vid # v))
        THEN NoRecord
        ELSE rec

\* GetObjectVersions: every record of k, the current one included.
GetObjectVersions(k) ==
    ({pointer[k]} \cup {versions[k][v] : v \in VersionIDs}) \ {NoRecord}

\* The files removeData deletes for a set of records (nil and markers have none).
DataOf(k, recs) ==
    {dataPath(k, rec) : rec \in {r \in recs \ {NoRecord} : ~r.marker}}

\* scanObjectCount: the keys that have a current-version record.
scanObjectCount == Cardinality({k \in Keys : pointer[k] # NoRecord})

(***************************************************************************)
(* Metadata transactions                                                   *)
(***************************************************************************)

\* FAULTY: a missing count is adjusted like any other.
AdjustsMissingCount(delta) == count' = count + delta

\* adjustObjectCount: nothing without a stored count; a count that would go
\* negative is dropped, to be recomputed.
adjustObjectCount(delta) ==
    count' = IF count = NoCount \/ count + delta < 0 THEN NoCount
             ELSE count + delta

NoVersions == [v \in VersionIDs |-> NoRecord]

\* The history PutObjectMeta leaves for k before it adds rec: a current
\* version that rec does not replace becomes noncurrent.
Archived(k, rec) ==
    LET old == pointer[k]
    IN  IF old # NoRecord /\ old.vid # Unversioned /\ old.vid # rec.vid
        THEN [versions[k] EXCEPT ![old.vid] =
                 [old EXCEPT !.latest = FALSE, !.noncurrent = rec.modified]]
        ELSE versions[k]

\* FAULTY: an overwrite counts as a new key.
PutObjectMetaCountsOverwrites(k, rec) ==
    /\ pointer' = [pointer EXCEPT ![k] = rec]
    /\ versions' = [versions EXCEPT ![k] =
                      IF rec.vid = Unversioned THEN NoVersions
                      ELSE [Archived(k, rec) EXCEPT ![rec.vid] = rec]]
    /\ adjustObjectCount(1)

\* PutObjectMeta.  An unversioned write drops the key's history.
PutObjectMeta(k, rec) ==
    /\ pointer' = [pointer EXCEPT ![k] = rec]
    /\ versions' = [versions EXCEPT ![k] =
                      IF rec.vid = Unversioned THEN NoVersions
                      ELSE [Archived(k, rec) EXCEPT ![rec.vid] = rec]]
    /\ IF pointer[k] = NoRecord THEN adjustObjectCount(1) ELSE UNCHANGED count

\* PutObjectMetaRaw, as promoteLegacyNullVersion calls it: rec is current and
\* has version "null", and k has a current record.
PutObjectMetaRaw(k, rec) ==
    /\ pointer' = [pointer EXCEPT ![k] = rec]
    /\ versions' = [versions EXCEPT ![k][rec.vid] = rec]
    /\ UNCHANGED count

\* FAULTY: any version left will do.
NextAny(k, v) == {rec \in {versions[k][w] : w \in VersionIDs \ {v}} : rec # NoRecord}

\* findNextNewestVersion: a version other than v with the latest LastModified.
\* A tie goes to the first in key order, and version IDs are random.
NextNewest(k, v) ==
    LET left == {rec \in {versions[k][w] : w \in VersionIDs \ {v}} : rec # NoRecord}
    IN  {rec \in left : \A other \in left : other.modified <= rec.modified}

\* DeleteObjectMeta for one version: if it was the current one, the newest
\* version left becomes current, and without one the key is gone.
DeleteVersionMeta(k, v) ==
    IF pointer[k] # NoRecord /\ pointer[k].vid = v
    THEN \/ \E next \in NextNewest(k, v) :
              LET rec == [next EXCEPT !.latest = TRUE]
              IN  /\ pointer' = [pointer EXCEPT ![k] = rec]
                  /\ versions' = [versions EXCEPT ![k] =
                        [@ EXCEPT ![v] = NoRecord, ![next.vid] = rec]]
                  /\ UNCHANGED count
         \/ /\ NextNewest(k, v) = {}
            /\ pointer' = [pointer EXCEPT ![k] = NoRecord]
            /\ versions' = [versions EXCEPT ![k][v] = NoRecord]
            /\ adjustObjectCount(-1)
    ELSE /\ versions' = [versions EXCEPT ![k][v] = NoRecord]
         /\ UNCHANGED <<pointer, count>>

\* DeleteObjectMeta for the whole key.
DeleteAllMeta(k) ==
    /\ pointer' = [pointer EXCEPT ![k] = NoRecord]
    /\ versions' = [versions EXCEPT ![k] = NoVersions]
    /\ IF pointer[k] # NoRecord THEN adjustObjectCount(-1) ELSE UNCHANGED count

-----------------------------------------------------------------------------
(***************************************************************************)
(* Initial states.  Heritage says what an earlier release may have left:   *)
(* nothing; unversioned objects in the pre-blob layout, with no stored     *)
(* object count; or a version history whose noncurrent record may have no  *)
(* NoncurrentSince.                                                        *)
(***************************************************************************)
LegacyObject(k) ==
    [vid |-> Unversioned, blob |-> NoBlob, etag |-> k, marker |-> FALSE,
     latest |-> TRUE, modified |-> 1, noncurrent |-> 0]

OldVersion(u, b, isLatest, time, since) ==
    [vid |-> u, blob |-> b, etag |-> b, marker |-> FALSE,
     latest |-> isLatest, modified |-> time, noncurrent |-> since]

EmptyStore ==
    /\ status = ""
    /\ pointer = [k \in Keys |-> NoRecord]
    /\ versions = [k \in Keys |-> NoVersions]
    /\ count = 0
    /\ data = [path \in Paths |-> Absent]
    /\ spent = {}

LegacyStore(S) ==
    /\ status = ""
    /\ pointer = [k \in Keys |-> IF k \in S THEN LegacyObject(k) ELSE NoRecord]
    /\ versions = [k \in Keys |-> NoVersions]
    /\ count = NoCount
    /\ data = [path \in Paths |-> IF path \in S THEN path ELSE Absent]
    /\ spent = {}

OldHistory(k, u1, u2, b1, b2, since) ==
    /\ u1 # u2 /\ b1 # b2
    /\ status = "Enabled"
    /\ pointer = [j \in Keys |->
          IF j = k THEN OldVersion(u2, b2, TRUE, 2, 0) ELSE NoRecord]
    /\ versions = [j \in Keys |-> [v \in VersionIDs |->
          IF j = k /\ v = u1 THEN OldVersion(u1, b1, FALSE, 1, since)
          ELSE IF j = k /\ v = u2 THEN OldVersion(u2, b2, TRUE, 2, 0)
          ELSE NoRecord]]
    /\ count = NoCount
    /\ data = [path \in Paths |-> IF path \in {b1, b2} THEN path ELSE Absent]
    /\ spent = {u1, u2, b1, b2}

Init ==
    /\ \/ "none" \in Heritage /\ EmptyStore
       \/ "legacy" \in Heritage /\ \E S \in SUBSET Keys : S # {} /\ LegacyStore(S)
       \/ "history" \in Heritage /\ \E k \in Keys, u1, u2 \in Uuids, b1, b2 \in Blobs,
                                     since \in {0, 2} : OldHistory(k, u1, u2, b1, b2, since)
    /\ unsynced = {}
    /\ clock = 4
    /\ keyLock = [k \in Keys |-> NoProc]
    /\ committers = {}
    /\ pc = [p \in Procs |-> "idle"]
    /\ op = [p \in Procs |-> Idle]
    /\ disturbed = FALSE

-----------------------------------------------------------------------------
(***************************************************************************)
(* Control flow shared by the handlers                                     *)
(***************************************************************************)
Go(p, to) == pc' = [pc EXCEPT ![p] = to]

\* A handler returns: deferred unlocks run, its locals are gone.
Return(p) ==
    /\ Go(p, "idle")
    /\ op' = [op EXCEPT ![p] = Idle]
    /\ keyLock' = [k \in Keys |-> IF keyLock[k] = p THEN NoProc ELSE keyLock[k]]
    /\ committers' = committers \ {p}

\* lockObjectKey: PUT, DELETE and the expiry of a key exclude one another.
lockObjectKey(p) ==
    /\ pc[p] \in {"written", "waiting"}
    /\ keyLock[op[p].key] = NoProc
    /\ keyLock' = [keyLock EXCEPT ![op[p].key] = p]
    /\ Go(p, "locked")
    /\ UNCHANGED <<status, meta, disk, spent, clock, committers, op, disturbed>>

(***************************************************************************)
(* PutObject.  The body goes to a temporary file, private to the request,  *)
(* before any lock is taken.                                               *)
(***************************************************************************)
PutBegin(p, k) ==
    /\ pc[p] = "idle"
    /\ \E b \in Blobs \ spent :
         /\ spent' = spent \cup {b}
         /\ op' = [op EXCEPT ![p] = [Idle EXCEPT !.kind = "put", !.key = k, !.blob = b]]
    /\ Go(p, "written")
    /\ UNCHANGED <<status, meta, disk, clock, locks, disturbed>>

\* The shared bucket lock is taken and the versioning status read again: it
\* decides the version ID the object is published under.
PutJoin(p) ==
    /\ pc[p] = "locked" /\ op[p].kind = "put"
    /\ committers' = committers \cup {p}
    /\ \E v \in VersionIDs \cup {Unversioned} :
         /\ \/ status = "Enabled" /\ v \in Uuids \ spent
            \/ status = "Suspended" /\ v = NullVersion
            \/ status = "" /\ v = Unversioned
         /\ spent' = spent \cup (Uuids \cap {v})
         /\ op' = [op EXCEPT ![p].vid = v, ![p].mod = clock]
    /\ Go(p, "prepare")
    /\ UNCHANGED <<status, meta, disk, clock, keyLock, disturbed>>

\* FAULTY: overwriting the null version forgets the data it replaces.
PutRenameForgetsReplaced(p) ==
    LET k == op[p].key
        obsolete == IF op[p].vid = Unversioned THEN GetObjectVersions(k) ELSE {}
    IN  /\ pc[p] = "promoted" /\ op[p].kind = "put"
        /\ op' = [op EXCEPT ![p].gone = DataOf(k, obsolete)]
        /\ data' = [data EXCEPT ![op[p].blob] = op[p].blob]
        /\ unsynced' = unsynced \cup {op[p].blob}
        /\ Go(p, "renamed")
        /\ UNCHANGED <<status, meta, spent, clock, locks, disturbed>>

\* FAULTY: the new body also lands in the file of what it replaces.
PutRenameInPlace(p) ==
    LET k == op[p].key
        replaced == DataOf(k, {storedRecord(k, op[p].vid)})
    IN  /\ pc[p] = "promoted" /\ op[p].kind = "put"
        /\ op' = [op EXCEPT ![p].gone = replaced]
        /\ data' = [path \in Paths |-> IF path \in replaced \cup {op[p].blob}
                                       THEN op[p].blob ELSE data[path]]
        /\ unsynced' = unsynced \cup {op[p].blob}
        /\ Go(p, "renamed")
        /\ UNCHANGED <<status, meta, spent, clock, locks, disturbed>>

\* commitObject: what the write replaces is looked up, then the temporary
\* file is renamed to its blob.
PutRename(p) ==
    LET k == op[p].key
        replaced == IF op[p].vid \in Uuids THEN {} ELSE {storedRecord(k, op[p].vid)}
        obsolete == IF op[p].vid = Unversioned THEN GetObjectVersions(k) ELSE {}
    IN  /\ pc[p] = "promoted" /\ op[p].kind = "put"
        /\ op' = [op EXCEPT ![p].gone = DataOf(k, replaced \cup obsolete)]
        /\ data' = [data EXCEPT ![op[p].blob] = op[p].blob]
        /\ unsynced' = unsynced \cup {op[p].blob}
        /\ Go(p, "renamed")
        /\ UNCHANGED <<status, meta, spent, clock, locks, disturbed>>

\* syncParents, after the rename and after a legacy object was copied.
syncParents(p) ==
    /\ \/ pc[p] = "renamed" /\ Go(p, "synced") /\ unsynced' = unsynced \ {op[p].blob}
       \/ pc[p] = "copied" /\ Go(p, "copySynced") /\ unsynced' = unsynced \ {op[p].copy}
    /\ UNCHANGED <<status, meta, data, spent, clock, locks, op, disturbed>>

\* FAULTY: the record may be committed before the directory is synced.
PutCommitUnsynced(p) ==
    /\ pc[p] \in {"renamed", "synced"}
    /\ PutObjectMeta(op[p].key,
          [vid |-> op[p].vid, blob |-> op[p].blob, etag |-> op[p].blob, marker |-> FALSE,
           latest |-> TRUE, modified |-> op[p].mod, noncurrent |-> 0])
    /\ Go(p, "cleanup")
    /\ UNCHANGED <<status, disk, spent, clock, locks, op, disturbed>>

PutCommit(p) ==
    /\ pc[p] = "synced"
    /\ PutObjectMeta(op[p].key,
          [vid |-> op[p].vid, blob |-> op[p].blob, etag |-> op[p].blob, marker |-> FALSE,
           latest |-> TRUE, modified |-> op[p].mod, noncurrent |-> 0])
    /\ Go(p, "cleanup")
    /\ UNCHANGED <<status, disk, spent, clock, locks, op, disturbed>>

(***************************************************************************)
(* promoteLegacyNullVersion: an object written before the bucket was       *)
(* versioned is recorded as version "null" before a versioned write or     *)
(* delete, or a delete of version "null", touches the key.                 *)
(***************************************************************************)
\* FAULTY: a delete marker does not promote what it hides.
PromotesForWritesOnly(p) ==
    LET cur == pointer[op[p].key]
    IN  /\ \/ op[p].kind = "put" /\ op[p].vid # Unversioned
           \/ op[p].mode = "version" /\ op[p].vid = NullVersion
        /\ cur # NoRecord
        /\ cur.vid = Unversioned /\ ~cur.marker

Promotes(p) ==
    LET cur == pointer[op[p].key]
    IN  /\ \/ op[p].kind = "put" /\ op[p].vid # Unversioned
           \/ op[p].mode = "marker"
           \/ op[p].mode = "version" /\ op[p].vid = NullVersion
        /\ cur # NoRecord
        /\ cur.vid = Unversioned /\ ~cur.marker

PromoteSkip(p) ==
    /\ pc[p] = "prepare" /\ ~Promotes(p)
    /\ Go(p, "promoted")
    /\ UNCHANGED <<status, meta, disk, spent, clock, locks, op, disturbed>>

\* Data already in a blob stays there: only the records change.
PromoteRaw(p) ==
    LET cur == pointer[op[p].key]
    IN  /\ pc[p] = "prepare" /\ Promotes(p) /\ cur.blob # NoBlob
        /\ PutObjectMetaRaw(op[p].key, [cur EXCEPT !.vid = NullVersion, !.latest = TRUE])
        /\ Go(p, "promoted")
        /\ UNCHANGED <<status, disk, spent, clock, locks, op, disturbed>>

\* Data in the pre-blob layout is first copied to a new blob.
PromoteCopy(p) ==
    LET k == op[p].key
    IN  /\ pc[p] = "prepare" /\ Promotes(p) /\ pointer[k].blob = NoBlob
        /\ data[k] # Absent
        /\ \E b \in Blobs \ spent :
             /\ spent' = spent \cup {b}
             /\ op' = [op EXCEPT ![p].copy = b]
             /\ data' = [data EXCEPT ![b] = data[k]]
             /\ unsynced' = unsynced \cup {b}
        /\ Go(p, "copied")
        /\ UNCHANGED <<status, meta, clock, locks, disturbed>>

PromoteRecord(p) ==
    LET k == op[p].key
    IN  /\ pc[p] = "copySynced"
        /\ PutObjectMetaRaw(k, [pointer[k] EXCEPT !.vid = NullVersion, !.latest = TRUE,
                                                  !.blob = op[p].copy])
        /\ Go(p, "recorded")
        /\ UNCHANGED <<status, disk, spent, clock, locks, op, disturbed>>

\* The old file goes last; failing to remove it only leaves a stray file.
PromoteDrop(p) ==
    /\ pc[p] = "recorded"
    /\ \/ data' = [data EXCEPT ![op[p].key] = Absent] /\ UNCHANGED disturbed
       \/ "error" \in Faults /\ disturbed' = TRUE /\ UNCHANGED data
    /\ op' = [op EXCEPT ![p].copy = NoBlob]
    /\ Go(p, "promoted")
    /\ UNCHANGED <<status, meta, unsynced, spent, clock, locks>>

(***************************************************************************)
(* DeleteObject and deleteObjectLocked.  Unlike a PUT, a delete does not   *)
(* take the bucket lock: the versioning status it reads may be out of date *)
(* when it commits.                                                        *)
(***************************************************************************)
DeleteBegin(p, k, v) ==
    /\ pc[p] = "idle"
    /\ op' = [op EXCEPT ![p] = [Idle EXCEPT !.kind = "delete", !.key = k, !.vid = v]]
    /\ Go(p, "waiting")
    /\ UNCHANGED <<status, meta, disk, spent, clock, locks, disturbed>>

\* A named version is removed; without a name, a versioned bucket gets a
\* delete marker and an unversioned one loses the key.
DeleteMode(p) ==
    /\ \/ pc[p] = "locked" /\ op[p].kind = "delete"
       \/ pc[p] = "checked"
    /\ \/ /\ op[p].vid # Unversioned
          /\ op' = [op EXCEPT ![p].mode = "version"]
          /\ UNCHANGED spent
       \/ /\ op[p].vid = Unversioned /\ status = "Enabled"
          /\ \E u \in Uuids \ spent :
               /\ spent' = spent \cup {u}
               /\ op' = [op EXCEPT ![p].mode = "marker", ![p].vid = u]
       \/ /\ op[p].vid = Unversioned /\ status = "Suspended"
          /\ op' = [op EXCEPT ![p].mode = "marker", ![p].vid = NullVersion]
          /\ UNCHANGED spent
       \/ /\ op[p].vid = Unversioned /\ status = ""
          /\ op' = [op EXCEPT ![p].mode = "all"]
          /\ UNCHANGED spent
    /\ Go(p, "prepare")
    /\ UNCHANGED <<status, meta, disk, clock, locks, disturbed>>

\* The data that goes with the records about to be removed or replaced.
DeleteCollect(p) ==
    LET k == op[p].key
        recs == IF op[p].mode = "all" THEN GetObjectVersions(k)
                ELSE {storedRecord(k, op[p].vid)}
    IN  /\ pc[p] = "promoted" /\ op[p].kind # "put"
        /\ op[p].mode = "all" => pointer[k] # NoRecord
        /\ op' = [op EXCEPT ![p].gone = DataOf(k, recs), ![p].mod = clock]
        /\ Go(p, "ready")
        /\ UNCHANGED <<status, meta, disk, spent, clock, locks, disturbed>>

\* Removing an unversioned key that is not there succeeds at once.
DeleteMissing(p) ==
    /\ pc[p] = "promoted" /\ op[p].mode = "all"
    /\ pointer[op[p].key] = NoRecord
    /\ Return(p)
    /\ UNCHANGED <<status, meta, disk, spent, clock, disturbed>>

\* The metadata goes before the data it points at.
DeleteCommit(p) ==
    LET k == op[p].key
    IN  /\ pc[p] = "ready"
        /\ \/ op[p].mode = "version" /\ DeleteVersionMeta(k, op[p].vid)
           \/ op[p].mode = "all" /\ DeleteAllMeta(k)
           \/ /\ op[p].mode = "marker"
              /\ PutObjectMeta(k, [vid |-> op[p].vid, blob |-> NoBlob, etag |-> Absent,
                                   marker |-> TRUE, latest |-> TRUE,
                                   modified |-> op[p].mod, noncurrent |-> 0])
        /\ Go(p, "cleanup")
        /\ UNCHANGED <<status, disk, spent, clock, locks, op, disturbed>>

(***************************************************************************)
(* The end of PUT and DELETE: data that nothing refers to is removed, one  *)
(* file at a time, and the locks are released.                             *)
(***************************************************************************)
removeData(p) ==
    /\ pc[p] = "cleanup"
    /\ \E path \in op[p].gone :
         /\ op' = [op EXCEPT ![p].gone = @ \ {path}]
         /\ \/ data' = [data EXCEPT ![path] = Absent] /\ UNCHANGED disturbed
            \/ "error" \in Faults /\ disturbed' = TRUE /\ UNCHANGED data
    /\ UNCHANGED <<status, meta, unsynced, spent, clock, locks, pc>>

Finish(p) ==
    /\ pc[p] = "cleanup" /\ op[p].gone = {}
    /\ Return(p)
    /\ UNCHANGED <<status, meta, disk, spent, clock, disturbed>>

\* FAULTY: an error return skips the unlock of the key.
FailKeepsLock(p) ==
    /\ "error" \in Faults
    /\ pc[p] \notin {"idle", "cleanup", "recorded", "opening"}
    /\ Go(p, "idle")
    /\ op' = [op EXCEPT ![p] = Idle]
    /\ committers' = committers \ {p}
    /\ UNCHANGED <<status, meta, disk, spent, clock, keyLock, disturbed>>

\* The error returns before the metadata is committed.  A PUT whose commit
\* fails removes its blob, a failed promotion its copy; a directory that
\* cannot be synced leaves the new blob behind.
Fail(p) ==
    /\ "error" \in Faults
    /\ pc[p] \notin {"idle", "cleanup", "recorded", "opening"}
    /\ data' = IF pc[p] = "synced" THEN [data EXCEPT ![op[p].blob] = Absent]
               ELSE IF pc[p] \in {"copied", "copySynced"}
                    THEN [data EXCEPT ![op[p].copy] = Absent]
               ELSE data
    /\ unsynced' = IF pc[p] = "copied" THEN unsynced \ {op[p].copy} ELSE unsynced
    /\ disturbed' = (disturbed \/ pc[p] = "renamed")
    /\ Return(p)
    /\ UNCHANGED <<status, meta, spent, clock>>

(***************************************************************************)
(* Lifecycle expiration: CleanExpiredObjects scans without the key lock,   *)
(* expireCurrentVersion and expireNoncurrentVersion look again under it.   *)
(***************************************************************************)
ScanCurrent(p, k) ==
    /\ pc[p] = "idle"
    /\ pointer[k] # NoRecord
    /\ clock - pointer[k].modified > Cutoff
    /\ op' = [op EXCEPT ![p] = [Idle EXCEPT !.kind = "expireCurrent", !.key = k,
                                  !.vid = pointer[k].vid, !.mod = pointer[k].modified]]
    /\ Go(p, "waiting")
    /\ UNCHANGED <<status, meta, disk, spent, clock, locks, disturbed>>

ScanNoncurrent(p, k) ==
    /\ pc[p] = "idle"
    /\ \E v \in VersionIDs :
         /\ versions[k][v] # NoRecord
         /\ ~versions[k][v].latest
         /\ \/ versions[k][v].noncurrent = 0
            \/ clock - versions[k][v].noncurrent > Cutoff
         /\ op' = [op EXCEPT ![p] = [Idle EXCEPT !.kind = "expireNoncurrent", !.key = k,
                                       !.vid = v, !.now = clock]]
    /\ Go(p, "waiting")
    /\ UNCHANGED <<status, meta, disk, spent, clock, locks, disturbed>>

\* FAULTY: LastModified is not compared again.
CurrentExpiresByVersion(p) ==
    LET cur == pointer[op[p].key]
    IN  /\ cur # NoRecord /\ cur.vid = op[p].vid
        /\ cur.marker => \A rec \in GetObjectVersions(op[p].key) : rec.vid = op[p].vid

\* The scanned object is still the current one, and if it is a delete marker
\* no other version is left under it.
CurrentExpires(p) ==
    LET cur == pointer[op[p].key]
    IN  /\ cur # NoRecord
        /\ cur.vid = op[p].vid /\ cur.modified = op[p].mod
        /\ cur.marker => \A rec \in GetObjectVersions(op[p].key) : rec.vid = op[p].vid

\* When a version became noncurrent.  Old metadata does not say; then the
\* earliest later version tells, and 0 means unknown.
NoncurrentSince(k, rec) ==
    LET later == {r.modified : r \in {s \in GetObjectVersions(k) :
                                        s.modified > rec.modified}}
    IN  IF rec.noncurrent # 0 \/ later = {} THEN rec.noncurrent
        ELSE CHOOSE t \in later : \A s \in later : t <= s

\* FAULTY: a version that is current again still counts as noncurrent.
NoncurrentExpiresEvenLatest(p) ==
    LET k == op[p].key
        rec == GetObjectMeta(k, op[p].vid)
    IN  /\ rec # NoRecord
        /\ NoncurrentSince(k, rec) # 0
        /\ op[p].now - NoncurrentSince(k, rec) > Cutoff

NoncurrentExpires(p) ==
    LET k == op[p].key
        rec == GetObjectMeta(k, op[p].vid)
    IN  /\ rec # NoRecord
        /\ ~rec.latest
        /\ NoncurrentSince(k, rec) # 0
        /\ op[p].now - NoncurrentSince(k, rec) > Cutoff

ExpireCheck(p) ==
    /\ pc[p] = "locked"
    /\ \/ /\ op[p].kind = "expireCurrent" /\ CurrentExpires(p)
          /\ op' = [op EXCEPT ![p].vid = IF pointer[op[p].key].marker THEN @ ELSE Unversioned]
       \/ /\ op[p].kind = "expireNoncurrent" /\ NoncurrentExpires(p)
          /\ UNCHANGED op
    /\ Go(p, "checked")
    /\ UNCHANGED <<status, meta, disk, spent, clock, locks, disturbed>>

ExpireSkip(p) ==
    /\ pc[p] = "locked"
    /\ \/ op[p].kind = "expireCurrent" /\ ~CurrentExpires(p)
       \/ op[p].kind = "expireNoncurrent" /\ ~NoncurrentExpires(p)
    /\ Return(p)
    /\ UNCHANGED <<status, meta, disk, spent, clock, disturbed>>

(***************************************************************************)
(* GetObject reads the record, then opens the file: no lock is held.       *)
(***************************************************************************)
GetBegin(p, k, v) ==
    LET rec == GetObjectMeta(k, v)
    IN  /\ pc[p] = "idle"
        /\ rec # NoRecord
        /\ ~rec.marker
        /\ op' = [op EXCEPT ![p] = [Idle EXCEPT !.kind = "get", !.key = k,
                                      !.blob = dataPath(k, rec), !.etag = rec.etag]]
        /\ Go(p, "opening")
        /\ UNCHANGED <<status, meta, disk, spent, clock, locks, disturbed>>

GetOpen(p) ==
    /\ pc[p] = "opening"
    /\ Return(p)
    /\ UNCHANGED <<status, meta, disk, spent, clock, disturbed>>

(***************************************************************************)
(* The rest of the world                                                   *)
(***************************************************************************)

\* FAULTY: the bucket lock is not taken.
SetBucketVersioningUnlocked(s) ==
    /\ status' = IF s = "Disabled" THEN status ELSE s
    /\ UNCHANGED <<meta, disk, spent, clock, locks, pc, op, disturbed>>

\* FAULTY: "Disabled" is accepted at any time.
SetBucketVersioningDisables(s) ==
    /\ committers = {}
    /\ status' = IF s = "Disabled" THEN "" ELSE s
    /\ UNCHANGED <<meta, disk, spent, clock, locks, pc, op, disturbed>>

\* SetBucketVersioning holds the bucket lock exclusively.  "Disabled" is
\* refused once the bucket has been versioned and changes nothing before.
SetBucketVersioning(s) ==
    /\ committers = {}
    /\ status' = IF s = "Disabled" THEN status ELSE s
    /\ UNCHANGED <<meta, disk, spent, clock, locks, pc, op, disturbed>>

\* CountObjectMetas stores a count when there is none.
CountObjectMetas ==
    /\ count = NoCount
    /\ count' = scanObjectCount
    /\ UNCHANGED <<status, pointer, versions, disk, spent, clock, locks, pc, op, disturbed>>

Tick ==
    /\ clock < MaxClock
    /\ clock' = clock + 1
    /\ UNCHANGED <<status, meta, disk, spent, locks, pc, op, disturbed>>

\* The process or the machine stops and starts again: files whose directory
\* entry was not synced may be gone, and the startup sweep removes temporary
\* files.  Requests and locks do not survive.
Crash ==
    /\ "crash" \in Faults
    /\ \E lost \in SUBSET unsynced :
         data' = [path \in Paths |-> IF path \in lost THEN Absent ELSE data[path]]
    /\ unsynced' = {}
    /\ keyLock' = [k \in Keys |-> NoProc]
    /\ committers' = {}
    /\ pc' = [p \in Procs |-> "idle"]
    /\ op' = [p \in Procs |-> Idle]
    /\ disturbed' = TRUE
    /\ UNCHANGED <<status, meta, spent, clock>>

\* The steps of a request that has begun.
Step(p) ==
    \/ lockObjectKey(p)
    \/ PutJoin(p) \/ PutRename(p) \/ syncParents(p) \/ PutCommit(p)
    \/ PromoteSkip(p) \/ PromoteRaw(p) \/ PromoteCopy(p)
    \/ PromoteRecord(p) \/ PromoteDrop(p)
    \/ DeleteMode(p) \/ DeleteCollect(p) \/ DeleteMissing(p) \/ DeleteCommit(p)
    \/ removeData(p) \/ Finish(p)
    \/ ExpireCheck(p) \/ ExpireSkip(p)
    \/ GetOpen(p)

\* A request or the sweep arrives.
Begin(p) ==
    \E k \in Keys :
        \/ "put" \in Requests /\ PutBegin(p, k)
        \/ "delete" \in Requests /\ \E v \in VersionIDs \cup {Unversioned} : DeleteBegin(p, k, v)
        \/ "get" \in Requests /\ \E v \in VersionIDs \cup {Unversioned} : GetBegin(p, k, v)
        \/ "expire" \in Requests /\ (ScanCurrent(p, k) \/ ScanNoncurrent(p, k))

Next ==
    \/ \E p \in Procs : Begin(p) \/ Step(p) \/ Fail(p)
    \/ \E s \in {"Enabled", "Suspended", "Disabled"} : SetBucketVersioning(s)
    \/ CountObjectMetas
    \/ Tick
    \/ Crash

Spec == Init /\ [][Next]_vars

\* A request that has begun keeps running until it waits for a lock, and a
\* sync.Mutex is not withheld forever from one that waits.
Fairness == \A p \in Procs : WF_vars(Step(p)) /\ SF_vars(lockObjectKey(p))

FairSpec == Spec /\ Fairness

-----------------------------------------------------------------------------
(***************************************************************************)
(* Properties                                                              *)
(***************************************************************************)

\* Every variable keeps its type.
TypeOK ==
    /\ status \in Statuses
    /\ pointer \in [Keys -> Record \cup {NoRecord}]
    /\ versions \in [Keys -> [VersionIDs -> Record \cup {NoRecord}]]
    /\ count \in Nat \cup {NoCount}
    /\ data \in [Paths -> Paths \cup {Absent}]
    /\ unsynced \subseteq Blobs
    /\ spent \subseteq Blobs \cup Uuids
    /\ clock \in Nat
    /\ keyLock \in [Keys -> Procs \cup {NoProc}]
    /\ committers \subseteq Procs
    /\ pc \in [Procs -> PCs]
    /\ op \in [Procs -> Op]
    /\ disturbed \in BOOLEAN

\* publication.go promises that a crash leaves "an unreferenced file, never a
\* record pointing at the wrong or missing data": the file of every record is
\* there and holds the bytes the record describes, whatever has crashed,
\* failed or run concurrently.
RecordsHaveData ==
    \A k \in Keys : \A rec \in GetObjectVersions(k) :
        ~rec.marker => data[dataPath(k, rec)] = rec.etag

\* The "latest" record of a key and its version records tell one story: the
\* current record is also the version record of its ID, is the only one
\* flagged latest, and no version is newer.
LatestAgrees ==
    \A k \in Keys :
        /\ pointer[k] = NoRecord => versions[k] = NoVersions
        /\ pointer[k] # NoRecord =>
             /\ pointer[k].latest
             /\ IF pointer[k].vid = Unversioned THEN versions[k] = NoVersions
                ELSE versions[k][pointer[k].vid] = pointer[k]
        /\ \A v \in VersionIDs : versions[k][v] # NoRecord =>
             /\ versions[k][v].vid = v
             /\ versions[k][v].latest <=> (v = pointer[k].vid)
             /\ versions[k][v].modified <= pointer[k].modified

\* The stored object count, once there is one, is what a scan would count:
\* no transaction forgets it or adjusts it twice.
CountMatchesScan == count # NoCount => count = scanObjectCount

\* A reader that looked its record up before a concurrent overwrite, delete
\* or promotion never serves other bytes under it: the file it is about to
\* open either still holds them or is gone.
ReadersNeverMixVersions ==
    \A p \in Procs : pc[p] = "opening" => data[op[p].blob] \in {op[p].etag, Absent}

\* Every file on disk belongs to a record or to a request that will publish
\* or remove it, as long as no crash or failed cleanup has left one behind:
\* replaced and deleted versions do not leak, and neither do failed writes.
InFlight(p) ==
    IF pc[p] = "idle" THEN {}
    ELSE op[p].gone \cup {op[p].blob, op[p].copy}
           \cup (IF pc[p] = "recorded" THEN {op[p].key} ELSE {})

NoStrayData ==
    ~disturbed =>
        \A path \in Paths : data[path] # Absent =>
            \/ \E k \in Keys : path \in DataOf(k, GetObjectVersions(k))
            \/ \E p \in Procs : path \in InFlight(p)

\* expiration.go: "stale scans cannot delete a replacement".  What
\* expireCurrentVersion is about to remove or hide is old enough now, not only
\* when it was scanned.
ExpirySparesReplacement ==
    \A p \in Procs : pc[p] = "ready" /\ op[p].kind = "expireCurrent" =>
        /\ pointer[op[p].key] # NoRecord
        /\ clock - pointer[op[p].key].modified > Cutoff

\* "... or a version that became current again": what expireNoncurrentVersion
\* is about to remove is not current and has not been for longer than Cutoff.
ExpirySparesCurrentAgain ==
    \A p \in Procs : pc[p] = "ready" /\ op[p].kind = "expireNoncurrent" =>
        LET k == op[p].key
            target == GetObjectMeta(k, op[p].vid)
        IN  target # NoRecord =>
              /\ ~target.latest
              /\ pointer[k].vid # op[p].vid
              /\ clock - NoncurrentSince(k, target) > Cutoff

\* A PUT publishes under the versioning status the bucket has at that moment:
\* a status change cannot slip between the reading and the commit.
PublishesUnderCurrentStatus ==
    \A p \in committers :
        op[p].vid \in (CASE status = "Enabled" -> Uuids
                         [] status = "Suspended" -> {NullVersion}
                         [] status = "" -> {Unversioned})

\* A version with an ID of its own disappears only by a delete that names it:
\* no PUT, plain DELETE, promotion, status change or crash erases history.
VersionsSurvive ==
    [][\A k \in Keys, u \in Uuids :
          versions[k][u] # NoRecord /\ versions'[k][u] = NoRecord =>
            \E p \in Procs : /\ pc[p] = "ready" /\ op[p].mode = "version"
                             /\ op[p].key = k /\ op[p].vid = u]_vars

\* Every request returns: no path through a handler, errors included, keeps a
\* lock that others then wait for.  Requests that find no ID left are excused,
\* the supply being a bound of the model.
OutOfIDs == Blobs \subseteq spent \/ Uuids \subseteq spent

EveryRequestReturns ==
    \A p \in Procs : pc[p] # "idle" ~> (pc[p] = "idle" \/ OutOfIDs)

(***************************************************************************)
(* The bucket as its clients see it: bodies read through the records and   *)
(* the files, an unversioned object as version "null".                     *)
(***************************************************************************)
BodyOf(k, rec) == IF rec.marker THEN "marker" ELSE data[dataPath(k, rec)]

SeenBody ==
    [k \in Keys |-> [v \in VersionIDs |->
        LET rec == GetObjectMeta(k, v)
        IN  IF rec = NoRecord THEN Absent ELSE BodyOf(k, rec)]]

SeenCurrent ==
    [k \in Keys |-> IF pointer[k] = NoRecord THEN Absent
                    ELSE IF pointer[k].vid = Unversioned THEN NullVersion
                    ELSE pointer[k].vid]

Contract == INSTANCE BucketContract WITH
    Bodies <- Paths, Marker <- "marker", Nothing <- Absent,
    versioning <- status, body <- SeenBody, current <- SeenCurrent

\* The store implements the contract: each operation shows its effect to
\* clients in one step, its metadata transaction.  Crashes, errors, lock
\* waits, promotion to the null version and the removal of data do not show.
ImplementsContract == Contract!Spec
=============================================================================

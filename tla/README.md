# Stiva in TLA+

Stiva is an S3-compatible object server that stores objects as files and their
metadata in bbolt databases. This directory holds TLA+ models of its storage
core (`src/internal/storage`), of the process around it from start to shutdown,
and of backup and restore, the TLC configurations that check them, and TLAPS
proofs. `PROJECT.json` maps every definition to the lines it models.

    tlc -workers 2 -config MCObjectStore_versions.cfg MCObjectStore
    tlapm ObjectStoreProofs.tla

## The system

| Component | Source | State | Operations | Model |
|---|---|---|---|---|
| Publication and versioning | `storage/filesystem.go`, `publication.go`, `object_metadata.go`, `versioning.go`, `paths.go`, `durability.go` | records (current and per version), object count, blob files, key locks, bucket locks | PutObject, GetObject, DeleteObject, promotion of legacy objects, SetBucketVersioning | `ObjectStore`, `BucketContract` |
| Lifecycle expiration | `storage/lifecycle.go`, `expiration.go` | rules; works on the records | scan, expireCurrentVersion, expireNoncurrentVersion | `ObjectStore` |
| Bucket metadata cache | `storage/metadata.go` | registry of buckets, cache with a generation, per-bucket lock | GetBucketCached, PutBucket, updateBucketInfo, DeleteBucket | `BucketCache`, `ConfigRegister` |
| Bucket database handles | `storage/metadata.go` | open databases with reference counts | acquire, release, evict, closeAndRemove, create and delete a bucket | `BucketHandles` |
| Multipart uploads | `storage/multipart.go`, `multipart_cleanup.go` | upload records, part files, upload and part locks, gauge | create, upload part, complete, abort, clean up | `Multipart` |
| Replication outbox | `storage/outbox.go`, `sync.go` | durable marks per key with a revision, workers | mark, seed, reconcile, deliver | `ReplicationOutbox` |
| Webhooks | `storage/webhook.go` | bounded queue, workers, retries, drop counter | trigger, deliver, retry, stop | `WebhookDispatcher`, composed in `ServerLifecycle` |
| Listing | `storage/listing.go`, `filesystem.go`, `s3api/list_handlers.go` | none (cursors over records; the client keeps the marker) | ListObjects, ListObjectVersions, ListMultipartUploads, ListParts | `Listing` |
| Usage accounting | `storage/usage.go` | cached totals per bucket | read, refresh | its stop, in `ServerLifecycle` |
| Server lifecycle | `server/server.go`, `cmd/stiva` | listeners, cleanup loop, deadline | start, serve, shut down | `ServerLifecycle` |
| S3 router | `s3api/router.go` | in-flight counter, access-log queue | serve, log, shut down | `AccessLog`, composed in `ServerLifecycle` |
| S3 handlers, types, errors, CORS | `s3api/*.go` | none | HTTP to engine calls and back | the listings, in `Listing` |
| Request authentication | `auth/signature.go` | clock skew window, chunk reader | verify, read a signed body | no |
| Web console | `console/*.go` | sessions, login attempts, download links | log in, browse, share | no |
| Backup | `backup/backup.go`, `cmd/stiva/maintenance.go` | backup and restored trees, staging directories, the lock on `stiva.db` | create, verify, restore | `Backup` |
| Metrics, readiness, configuration, TLS, client IP, checksums | several | counters, or read once | | no: nothing depends on their interleaving |

How they interact. A request passes authentication and the router and calls the
engine. The engine asks the bucket cache whether the bucket exists and how it is
configured, takes the key lock (writes and deletes) and the shared bucket lock
(writes), moves files, and commits one bbolt transaction in the bucket's own
database, which it reaches through the handle cache. The transaction that
publishes or removes an object also leaves a replication mark; after it, the
engine enqueues a webhook. Background loops (lifecycle sweep, upload cleanup,
replication, usage) call the same engine operations. Shutdown stops them in
order, then closes the databases.

What is hard here:

* An object is a record plus a file, changed in separate steps. A crash, a
  failed call or another request may come between any two.
* Objects of earlier releases have no blob, no version ID and no stored count,
  and are converted when a versioned operation first meets them.
* GET takes no lock at all; DELETE takes no bucket lock, so the versioning
  status it read may be out of date when it commits.
* The lifecycle sweep acts on a scan that is stale by the time it acts.
* The configuration cache never expires an entry, so a wrong one stays.
* Background deliveries, cleanups and shutdown race requests, and the deadline of
  the shutdown may pass between any two of its steps.
* A listing is a sequence of independent pages over a bucket that changes.
* A backup is a tree of files that must become visible as a whole or not at all,
  whatever runs beside it and whenever the power fails.

What makes each part correct:

* Publication: no record without its data, no leaked data, one current version,
  no history lost, a count that matches, atomic effects for clients.
* Expiration: nothing fresh or current again is removed.
* Cache: never stale; lookups look atomic.
* Handles: never closed in use, never re-created for a deleted bucket.
* Multipart: an upload completes or aborts once, and its parts go with it.
* Outbox: every committed change reaches the replica, in the end in its last
  state.
* Webhooks, router, server: nothing accepted is lost silently, the databases
  close behind their users, and shutdown ends.
* Listing: pages are disjoint and complete, and come to an end.
* Backup: what is published is a snapshot, and what is reported stays.

## Modules

### ObjectStore

One bucket. `pointer[k]` is the record under the key, `versions[k][v]` the one
under key and version, `count` the stored object count; these three change only
together, in steps that stand for one bbolt transaction (`PutObjectMeta`,
`PutObjectMetaRaw`, `DeleteVersionMeta`, `DeleteAllMeta`). `data` is the file
system: blob paths and, for objects of the pre-blob layout, key paths;
`unsynced` are the files whose directory entry a power loss may undo. `keyLock`
and `committers` are the engine's two locks. Each handler has a `pc` and its
locals `op`. A step is one of: a lock operation, a rename, an fsync, a
transaction, the removal of one file.

| Handler | Actions |
|---|---|
| PutObject, commitObject | `PutBegin`, `lockObjectKey`, `PutJoin`, promotion, `PutRename`, `syncParents`, `PutCommit`, `removeData`, `Finish` |
| promoteLegacyNullVersion | `PromoteSkip`, `PromoteRaw` or `PromoteCopy`, `syncParents`, `PromoteRecord`, `PromoteDrop` |
| DeleteObject | `DeleteBegin`, `lockObjectKey`, `DeleteMode`, promotion, `DeleteCollect` or `DeleteMissing`, `DeleteCommit`, `removeData`, `Finish` |
| lifecycle sweep | `ScanCurrent` or `ScanNoncurrent`, `lockObjectKey`, `ExpireCheck` or `ExpireSkip`, then as DeleteObject |
| GetObject | `GetBegin`, `GetOpen` |
| errors, restarts | `Fail`, `Crash`; a removal that fails is an alternative of `removeData` and `PromoteDrop` |
| others | `SetBucketVersioning`, `CountObjectMetas`, `Tick` |

Abstractions. The bytes of a PUT are identified with its blob ID, so different
PUTs write different bytes: the harder case. Records keep the fields the
properties tell apart. The pre-blob layout is modelled for unversioned objects,
which sit at the key's path. CopyObject is a GET followed by a PUT. Any process
may act as the sweep, and its `now` is read at the scan of each key: the code
reads it once, earlier, which only makes it expire less. The clock does not run
backwards. A bbolt commit that reports an error has committed nothing, and the
removal of a blob after a failed commit succeeds. A database reopened after a
restart gets its count from `CountObjectMetas`.

`BucketContract` is what a client may rely on: a map from keys to versions with
bodies, changed by operations that take effect at once. `ObjectStore` refines it
with the bodies read through records and files, so the refinement also says
that no promotion, crash or cleanup is visible.

### BucketCache

`db` is the registry, `cache` and `gen` the cache and its generation, `writer`
the per-bucket lock of the metadata store as its writers hold it. A lookup is
four steps (miss, generation, database, fill), a write two (transaction, cache);
a configuration is *in force* once its write has dealt with the cache, which is
before the writer returns (`Effective`). The cache does not survive a restart, so
a restart is an initial state. Reads may fail; a write that fails changes
nothing. `ConfigRegister` is the abstract specification: one value per bucket,
set and read in single steps.

### BucketHandles

`registry` is the central database, `file[n]` the inode at the path of a
bucket's database and `records` the inodes that hold objects, or delete markers
and nothing else; removing a path leaves the inode to those who have it open. `db[h]` is an open handle with its
references and the evicted flag, `active` the map of cached handles. Three locks
matter: the engine's bucket lock (`exclusive`, `sharers`), the metadata store's
(`writer`, `readers`) and the per-bucket initialization lock. A request enters
(`Put`, `Delete`, `List`, `CreateBucket`, `DeleteBucket`), acquires a handle
(`AcquireHit`, or `AcquireMiss`, `AcquireVerify`, `AcquireInit`, `AcquireOpen`,
`AcquireInsert`), runs its transaction and releases. The opening may fail
(`AcquireFails`), and so may the transaction or the sync behind it, which closes
the handle and leaves the file (`AcquireGivesUp`). Listings and replication go
straight to `acquireBucketDB` without either bucket lock. `raced` of a handle is a
history: it was opened while its bucket was being deleted (`Removing`), after the
check for emptiness. Eviction takes any idle handle, where the code takes the
least recently used: more behaviours, none fewer. The branch in which "another
goroutine won" the insertion is left out because the initialization lock makes
it unreachable, which `OpensOnce` checks. Not modelled: the one-time migration
from a single database; `Close` is a step of `ServerLifecycle`.

### ReplicationOutbox

`local[k]` counts the changes of a key and says what is current; `mark[k]` is
the revision of its pending mark and `seq` the last revision handed out. The
reconciler (`StartScan`, `ReadPage`, `PageDone`) reads marks page by page in key
order, and its workers `Take`, `Prepare`, send and `Acknowledge`. The mirror is
external: it applies a request before the answer, before an error, or not at
all (`SendOk`, `SendFails`, `Crash`). A request is assumed not to be applied
after its error was reported: a server that applies it later can take the
mirror back, and no client of plain S3 can exclude that. `SendFails` also
stands for a file that cannot be opened and a failed acknowledgement. The
best-effort dispatcher of `sync.go` is not modelled: `server.go:226` always
starts the durable one. `Image` of an SSE-C object cannot be sent; its mark
stays.

### Multipart

`record[u]` is the upload's MultipartMeta, reduced to its parts, `disk[u]` the
files of its directory. Uploading a part is five steps: a temporary file, the
rename, the record read and written under `lockUpload`, the removal of the file
replaced. Completion holds `lockUpload` throughout; it copies the parts one by
one, publishes, and deletes record, then directory. Abort, of a client or of the
sweep, deletes the directory and then the record. Removal goes file by file and
fails if a part comes in before the directory goes. `Fail` is an error of any of
these calls with the deferred cleanup, `RemovalFails` an error of that cleanup or
of the removal of a replaced part (`multipart.go:295`), `Crash` a restart with the
removal of temporary files and the recount of the gauge. Two histories say what
faults have done: `kept` are the files whose removal failed, and `redo[u]` is how
often a crash or an error came after the object of upload `u` was published and
before its record was gone. Such an upload can be completed again, and is
published again: the code has nothing that would tell. `PublishedOnce` allows
exactly that, one more publication for each such event and none for any other
fault or race; `NothingLeftBehind` excuses, while the process lives, the files in
`kept` and no others. A file's data stands for its ETag,
so a request names the parts it wants and is refused unless their ETags match
the record; refused requests change nothing and are left out. Encryption,
compression and part sizes are left out; the order of parts is that of their
numbers in code and model.

### WebhookDispatcher, AccessLog, ServerLifecycle

`WebhookDispatcher` and `AccessLog` have the state and actions of two parts that
live beside the requests; `ServerLifecycle` extends both and adds the process.

`triggerWebhook` is one step, as `webhookMu` makes it: it starts the workers with
the first event, and queues the event or counts it as dropped. Workers take,
deliver and fail; a failed attempt is given up or handed to a goroutine
(`retry[e]`) that sleeps until its next attempt or until the context is
cancelled. `wg` is the counter of `webhookWG`, so `TypeOK` also says that it
never goes negative, which would be a panic.

`ServeHTTP` counts a request (`inflight`), `ServeAndLog` runs the handler and
queues its log entry, `Return` counts it out; the log worker keeps entries, and
flushes at a full batch, at a tick or when `stopLogs` is closed, through the
engine, whose PutObject triggers an event again. Every entry has one target.

`stage` follows `Server.shutdown`, which one goroutine runs:

| Stage | Waits for | Actions |
|---|---|---|
| `cleanup` | sweeps and usage scan, or the deadline | `StopCleanup` |
| `s3`, `router`, `idle`, `logs` | connections, then requests, or the deadline; then the log worker | `StopS3`, `WaitIdle`, `NowIdle`, `LoggerGone` |
| `console` | its connections, or the deadline | `StopConsole` |
| `dispatchers`, `drain`, `abandon` | replication and webhooks; past the deadline they are cancelled and waited for | `StopDispatchers`, `DrainedInTime`, `Abandon`, `DrainedLate` |
| `close` | nothing | `CloseStore` |

`errs` are the errors that are reported. What http.Server.Shutdown does (no new
connections, a wait for the open ones) is modelled from its use. Requests arrive,
commit or not, and may hang for ever. Replication is one goroutine here that
looks at `durableStop` between rounds; its rounds are in `ReplicationOutbox`.

### Listing

A client lists a bucket page by page. A request opens the cursor where the marker
and the prefix say (`handleListObjects`, `handleListObjectVersions`,
`handleListMultipartUploads`, `ListParts`: the disjuncts of `Request`); each
iteration of the cursor loop is one step (`ListObjects(e)` and so on, `e` the entry
the cursor is at) that skips the entry, emits it or the common prefix it is rolled
up into, gathers the versions of its key (`Gather`, then `EmitVersion` one by
one), or ends the page (`Reply`). One page is one bbolt transaction: others change
the bucket only while no page is open. They add and remove versions or uploads
(`Put`, `Discard`) and, with versioning suspended, overwrite the null version
(`Renew`). `Fail` is an error of the database; the client asks again. A client may
begin with a marker of its own choice, for uploads and parts too. `steady` is what
was there from the first page on and behind that marker: the reference the pages
are compared with.

Keys are sequences of characters and compared in the order of their encoding,
since the code seeks with appended `\x00` and `\xff`. `validateNewKey`
(`paths.go:106`) refuses only NUL and long keys, so a key may have the byte `0xff`,
which is no character, and control characters. What becomes of them is modelled:
the keys of records are stored as JSON, which replaces what is not UTF-8
(`Recorded`), and those of answers, with the tokens and markers, are sent as XML,
which also replaces control characters (`Sent`).

### Backup

`data` is the data directory, `tree[d]` the directory at a destination, `job[p]`
a maintenance command with its staging directory. `Create` holds the lock on
`stiva.db` from its first step to its last, so no server starts meanwhile; `Stage`,
`CopyFile` (one file at a time), `VerifyStaging`, `Rename` and `syncParent` are
the steps of `publish`, and `Fail` ends it anywhere. `Crash` forgets what was
never synced. `Damage` spoils or removes a published file: the corruption that
manifests are for. `quiet` records what the data directory has been while no
server had `stiva.db`.

A server that stops closes `stiva.db` before its process ends. When the deadline
of its shutdown has passed (`ServerLifecycle`), requests may outlive that: `late`
is how many changes they will still make, and `Straggle` is one of them, to any
file but `stiva.db`. `torn` of a staged tree is a history: the files changed in
this way after they had been copied into it.

Definitions marked FAULTY are bugs the code could plausibly have. No action uses
them; they are substituted for the definition that follows them to show that a
property notices.

## Runs

| Run | Bounds | Shows |
|---|---|---|
| `versions` | 1 key, 2 handlers, 3 blobs, 1 version ID, empty or legacy bucket, crashes and errors | `RecordsHaveData`, `CountMatchesScan`, `NoStrayData`, `PublishesUnderCurrentStatus`, `VersionsSurvive`; `ImplementsContract`, the refinement of `BucketContract` |
| `expiry` | legacy objects, or a history of two versions, some without NoncurrentSince; 3 version IDs; GETs beside writes | the successor of a removed version is the newest (`LatestAgrees`); an object that replaced the one scanned (`ExpirySparesReplacement`) or a version that is current again (`ExpirySparesCurrentAgain`) does not expire; `ReadersNeverMixVersions` |
| `progress` | fair scheduling, errors, empty bucket, 2 blobs, a clock that ticks | `EveryRequestReturns` |
| `cache` | 2 buckets, 2 handlers, 2 configurations, room for one entry, 3 writes | `CacheNeverStale`, `LookupsAreAtomic`: refinement of `ConfigRegister` |
| `handles` | 2 buckets, 2 handlers, room for one open handle, crashes | `NoUseAfterClose`, `NoLeakedHandle`, `OpensOnce`, `DeletedLeavesNothing`, `WritesReachDisk` |
| `mirror` | 2 keys, 2 workers, pages of 2, one change per key, 1 crash | `CleanMeansMirrored`, `MirrorNeverGoesBack`, `EventuallyMirrored` |
| `uploads` | 1 upload, 2 part numbers, 2 part files, 2 clients and the sweep, 1 failure, 1 crash | `CompletedAsRequested`, `PartsOnDisk`, `NoPartLost`, `PublishedOnce`, `NothingLeftBehind`, `GaugeCounts`, `ExpiredUploadsGo` |
| `shutdown` | 2 S3 requests, 1 console request, 3 events, 1 worker, queues of 1, 1 retry, log batches of 2 | `ClosesBehindUsers`, `EventsAccounted`, `LogsWritten`, `ShutdownReturns` |
| `pages` | 5 keys with up to 2 versions and a change, pages of 1 or 2, 3 prefixes, 3 starting markers, for uploads 3 others, failing pages | `NothingSkipped`, `PagingProgresses` |
| `folder` | 4 keys, the prefix a folder marker | violated: `NothingSkipped` |
| `page_loop` | the key `a/\xff`, ListObjects with a delimiter, fair scheduling | violated: `EveryPageEnds` |
| `backup` | 2 files, 2 destinations, 2 commands, 2 writes, 1 of them late, 1 damaged file, crashes | `PublishedTreesAreSnapshots`, `ReportedTreesStay` |

Why the bounds are enough. Everything in `ObjectStore` that two requests share
is per key except the versioning status and the count, and requests for
different keys meet only in those; so one key with two handlers has the
interleavings that matter, a third actor being the status switch. Three blobs
are a legacy copy and two PUTs. One version ID with the null version gives two
versions; `expiry` has three. In `cache` two names and room for one entry make
every second fill empty the cache, and three writes cover two that race one
lookup. In `handles` room for one open handle makes two buckets evict each other
all the time, and three inodes are the two buckets' files and a re-created one.
In `mirror` a change after the backfill, with a crash, gives a key two revisions
while a delivery is under way; two workers and two keys are what can overlap.
In `uploads` all state but the object is per upload, so one upload is enough;
two files are a part replaced, or two parts in parallel. In `shutdown` queues of
one overflow at the second event or entry, two S3 requests are one that is
waited for and one that is not, and one retry is a first attempt, a goroutine and
the end of the retries; the log worker's own writes are two of the events. In
`pages` the keys are a name, a folder marker, an object in that folder, and
neighbours that sort right before and after it; two versions under a key make
pages that end inside a history. Its prefixes do not end in the delimiter, its keys are texts and
no upload marker sorts before the prefix: for the rest see the findings. In
`backup` two files and two writes are the least a torn copy needs, two commands
with two destinations restore one from the other or meet at the same one, and the
one late change falls before, between or after the copies of the two files.

Blob and version IDs, bucket names, handlers, configurations, destinations and commands are
only compared for equality, so symmetry is sound for these properties; the
liveness runs use none.

TLC also checks that no state is without a successor, except in runs that really
end: in `uploads` every upload ID has been used, all requests have returned and
nothing is left to sweep; in `shutdown` the process has stopped. A listing that is
complete, in `pages`, has a step that changes nothing.

Fairness (`Fairness` in ObjectStore). Go runs a runnable goroutine eventually:
weak fairness of every step of a request that has begun. A `sync.Mutex` hands
itself to a waiter after at most a millisecond of starvation: strong fairness
of taking the key lock. Nothing is assumed of arrivals, errors, crashes, status
changes or the clock. `EveryRequestReturns` excuses requests once IDs run out,
which is a bound of the model; the mutant that forgets one unlock violates it
before that.

In ReplicationOutbox the reconciler and its workers keep running (weak
fairness); a backfill that is tried at every start of a scan succeeds in the end,
and so does a request for a key that is sent again and again (strong fairness
per key). Without that a mirror that is down for ever would refute everything;
nothing is assumed of the success of any single attempt. In Multipart requests
that have begun go on, the cleanup ticker keeps firing, and the lock lets the
sweep in some time; aborts may still fail within the bound.

In ServerLifecycle one weak fairness condition covers the shutdown, its timer,
background work, the log worker and the dispatcher together: some of them takes
a step as long as one can. Go gives each of them more. Nothing is assumed of
requests, which may hang, nor of a replication round before it is cancelled; the
webhook client has a timeout of its own, so an attempt ends.

In Listing the cursor loop of a request that is being served goes on (weak
fairness of `Scan`). Nothing is assumed of the client, which need not ask for
another page, nor of changes and errors.

## Findings

`folder`. `listing.go:78`: "A key marker ending in the delimiter is a rolled-up
common prefix — what NextKeyMarker is when a page ends on one". It may also be an
object: listing the folder `photos/` with delimiter `/`, the folder-marker object
`photos/` is an entry of its own, and a page that ends on it, or on one of its
versions, has the marker `photos/`. ListObjectVersions (`listing.go:81`) and
ListObjects (`filesystem.go:954`) then resume after every key below it, and the
rest of the folder is not listed.

`page_loop`. Both listings pass a common prefix by seeking to the prefix with
`0xff` appended: "no UTF-8 key contains 0xff, so this sorts after every key under
the prefix" (`listing.go:91`). But keys need not be UTF-8 (`paths.go:106`), and the
key `a/\xff` is not before that position. ListObjects (`filesystem.go:1025`) finds it
again, has its prefix already, and seeks once more, without end. ListObjectVersions
(`listing.go:141`, and `listing.go:91` on the next page) emits the prefix again on
every page: with `APIs = {"versions"}` in the same instance TLC finds
`PagingProgresses` violated. With the keys of `folder` and the other values of `pages`,
under `FairSpec`, TLC finds `EveryPageEnds` to hold.

Other disagreements between comments and code that the models contain, each an
exception that a property above names:

* `metadata.go:257`: "Verify bucket exists in global DB to prevent re-creation of
  deleted DB files". A listing, or the outbox, holds no lock between that check and
  the opening of the file, so DeleteBucket can complete in between and the file is
  created again. If the opening falls between the closing of the old handle and the
  removal of the file, the new handle is cached on a file that is then unlinked, and
  a bucket created again under that name is served from it until it is evicted: its
  objects are gone with the handle, though "This is what makes DeleteBucket atomic
  with respect to object writes" (`multipart.go:704`). Without `raced`,
  `WritesReachDisk` is violated in the run `handles` by just that. With it the
  property holds and is proved: nothing but an opening during a deletion, which
  takes a caller without the lock, sends a write to a removed file.
* `filesystem.go:343`: "no write can land between "it's empty" and "it's gone"".
  DeleteObject takes no bucket lock (`filesystem.go:742`), so a delete marker can be
  written there, acknowledged, and go with the bucket. `DeletedLeavesNothing` is
  therefore about objects, for which it holds.
* `backup.go:1`: "Holding the central bbolt read lock excludes a running server for
  the entire copy". `MetadataStore.Close` (`metadata.go:191`) gives that lock up at the
  deadline of the shutdown, and requests that outlived it still rename and remove
  data files (`publication.go:32`) until the process exits. A backup begun then can
  have a tree that was never the data directory: `torn` in
  `PublishedTreesAreSnapshots`, which shows that nothing else is lost by it.
* `multipart.go:303` and `:592`: an upload is published before its record is deleted,
  so after a crash or a failure in between the client can complete it again, and it
  is published again: `redo` in `PublishedOnce`.
* `listing.go:64`: a marker "points at something the caller already received". The
  XML encoder (`errors.go:138`) writes U+FFFD for a control character in a key, and
  no listing encodes keys: a page that ends on `a\x01` has a token that sorts behind
  `ab`, which is then never listed. The theorems on listings have the hypothesis
  `TextKeys` for this and for `page_loop`.
* `listing.go:223`: "keyMarker/uploadIDMarker resume listing after that (key,
  uploadID) pair". ListMultipartUploads seeks to the marker whenever there is one
  (`listing.go:254`), so one that sorts before the prefix ends the listing at the
  first key between the two; the other listings start at the later of the two. It is
  `EarlyMarker` in the theorems.
* `sync.go:38` says of an SSE-C object that "every retry would fail
  identically". The outbox treats it as any other failure: the mark stays, is
  retried at every scan and keeps the bucket from being deleted. So
  `EventuallyMirrored` excepts these objects.
* `metadata.go:544` says that `maxBucketCacheEntries` "bounds the bucket metadata
  cache". PutBucket (`metadata.go:513`) inserts without looking at it, in code
  and model, so creating buckets grows the cache past the bound until the next
  miss empties it. No property states the bound.

## Proofs

TLAPS proves the results below for every value of the constants that satisfies
the named assumptions: any number of keys, buckets, uploads, requests, workers,
crashes and failures. `PROJECT.json` lists them. Every safety invariant, every
action property and both refinements that the passing runs check are theorems, those
of the listings under the hypothesis on keys that is named there.

The assumptions say no more than the code does. IDs of different kinds differ
and the sentinel values are not IDs (`IdAssumption`, `CacheAssumption`,
`HandleAssumption`, `MultipartAssumption`, `DispatcherAssumption`); sets that
the code counts are finite; bounds, queues and batches are numbers, with room
for one entry where the code has it (`BoundAssumption`, `OutboxAssumption`,
`BackupAssumption`, `AccessLogAssumption`); the requests are S3 or console
requests, not both (`LifecycleAssumption`); keys are not empty and have no byte 0,
which is what `validateNewKey` refuses, no character is encoded as 0xff, the
delimiter is a character, and the version IDs handed out are new and none is the
null version's (`ListingAssumption`). `Workers # {}` is in
`DispatcherAssumption` because `webhookWorkerCount` is 10 (`webhook.go`): without
a worker a queued event would outlive the wait of the shutdown.

Each proof has the same shape. The properties are not inductive; the module
defines the invariant that is, as a conjunction of named parts, shows that it
holds initially and is kept action by action, and draws the properties from it.
The invariants were checked by TLC on the instances of the runs before they were
proved.

`ObjectStoreProofs`, first the control of the store:

* `TypeCorrect`: `Spec => []TypeOK`.
* `HandlersExclude`: `Spec => []KeyExclusion`. Two handlers past
  `lockObjectKey` never have the same key.

`PutObjectMetaRaw` and the promotion dereference `pointer[k]`, so the type of
what they write needs a record to be there: the invariant `Promoting` says that
a promotion in progress still finds the legacy record it started from. That holds
because nobody else changes the key, which is `LockInv`: a handler past the lock
is the lock's owner. So the inductive invariant is `Control`, the conjunction of
the typing, `LockInv` and `Promoting`.

Then, in four layers on `Control`:

* Records. `MetaInv` is `LatestAgrees`, what a current record may look like
  (`CurrentInv`), that a bucket never versioned has no version with an ID of its own
  (`StatusInv`), who
  holds the bucket lock (`CommitInv`), `PublishesUnderCurrentStatus`, and for each
  handler with the key lock what it knows of the key's records (`Knows`). Results:
  `StoriesAgree`, `PublishesAsRead`, `HistorySurvives` (an action property), and
  `CountIsRight`, by counting the set of keys a scan would find before and after
  each transaction.
* Sweep. `SweepInv` says of each sweep what it found at the scan and found again
  under the lock (`Sweeps`). Results: `SparesReplacement`, `SparesCurrentAgain`.
* Files. `DataInv`: every record has a file that survives a power loss
  (`BackedInv`); two records never have the same file (`UniqueInv`); a path that
  is not published yet, or no longer, has one owner among the handlers and no
  record (`OwnInv`); blob names are never reused (`FileInv`); what has data has a
  record or an owner (`KeptInv`); what a reader looked up still means what it
  did (`ReadInv`); and what the locals of each handler say of the files
  (`Tracks`). The argument is a protocol of ownership, `Proper`: a step gives data
  only to a path its handler owns, publishes only what it owns and has synced,
  removes only what its own commit left without a record, and takes over only
  fresh paths or those its commit unreferenced. Each action is shown to be
  `Proper` once, and the invariants are shown to survive any `Proper` step. A
  crash loses unsynced files, to which no record refers. Results: `RecordsBacked`,
  `NothingStray`, `ReadersSafe`.
* Contract. `StoreImplementsContract`: `Spec => ImplementsContract`. By
  `RecordsHaveData` the view of a client is a function of the records alone. The
  commit of a PUT is `Put` of `BucketContract`, that of a delete marker `Mark`, the
  removal of an unversioned object `Remove`, the removal of a version
  `DeleteVersion` or invisible, `SetBucketVersioning` is `SetVersioning`. Every
  other step leaves the view alone: promotions, renames, syncs, cleanups, sweeps
  before their commit, failures and crashes.

`BucketCacheProofs`:

* `CacheCoherent`: `Spec => []CacheNeverStale`.
* `CacheImplementsRegister`: `Spec => LookupsAreAtomic`, the refinement.

The inductive invariant `CacheInv` adds three facts. `WriterHolds`: a writer
that still has to deal with the cache holds the bucket's lock. `LookupKnows`: no
lookup has a generation from the future. `FillsFresh`, the heart of it: a value
read under the present generation is in force, because whatever changes
`Effective` moves the generation on.

`BucketHandlesProofs`: `TypeCorrect`, `NeverUsedClosed`, `NoneLeaked`,
`OpenedOnce`, `DeletionIsComplete`, `WritesPersist`.

`HandlesInv` has four parts. `LockInv`: who is past a lock owns it. `HandleInv`:
the reference count of a handle is the number of requests that hold it
(`RefsCount`), an entry of `activeBuckets` is open and unevicted, and between
`bolt.Open` and the insertion a handle has one owner and nobody else opens the
bucket. `FileInv`: users under the metadata lock have the file at the bucket's
path (`UsersCurrent`, `Current`), a file is at no path but that of the bucket whose
requests use it (`FilesApart`, `Owned`), what is opened or cached beside a deletion
that found the bucket empty is marked as `raced` (`OpenedBeside`, `Detached`), and a bucket found empty gets no object until it
is gone (`StaysEmpty`). The count is what makes closing safe: a release that
finds zero references has no other user to close under.

`ReplicationOutboxProofs`:

* `MirrorClean`: `Spec => []CleanMeansMirrored`.
* `MirrorMonotonic`: `Spec => MirrorNeverGoesBack`.

`OutboxInv` adds: outside a page nothing is queued or under way (`PagesApart`); a
key has one delivery at a time (`OneDelivery`), whose mark stays until it is
acknowledged (`StillMarked`); what was sent under a revision is the state of the
key as long as the mark has that revision (`SentCurrent`), because every change
takes a revision never handed out before (the lemma `Marks`); the mirror is
behind what is being sent, and that behind the bucket (`MirrorBehind`). `Clean`
is `CleanMeansMirrored` with what is true before the backfill: a key without an
object is mirrored even then.

`MultipartProofs`: `TypeCorrect`, `PartsKept`, `CompletesAsRequested` and
`EntriesKept` (action properties), `CompletesOnce`, `LeavesNothing`,
`GaugeIsRight`.

`UploadInv` says for each request (`Proc`) which upload's lock it holds, what it knows of
the record it read under the upload's lock, which part file it is sending, and
what it has copied so far; that file names are used once (`NamesInv`); that an
upload published once more often than its record has outlived a publication
(`redo`) has no record, or a completion about to delete it (`OnceInv`); and that,
unless the machine crashed, a file in an upload's directory is in its record,
claimed by a request, or one whose removal failed (`LeftInv`). No step of these proofs uses the part lock: names that are never
reused and the upload's lock suffice for safety.

`ServerLifecycleProofs`: `TypeCorrect`, `ClosesLast`, `NoEventUncounted`,
`NoLogLost`.

`LifeInv`: `wg` counts the workers and retries there are, and an accepted event
is in exactly one place (`HookInv`); `inflight` is the number of S3 requests being
served (`CountInv`); what each stage of the shutdown has left behind is gone, or
in the errors (`StageInv`); the log queue is empty behind the log worker unless
the errors say why not (`LogInv`). The stages are the argument: each conjunct of
`StageInv` is established by one stage and kept by all later ones.

`BackupProofs`: `TypeCorrect`, `BackupsAreSnapshots`, `ReportsHold`.

`SnapInv`: no server runs while a backup has the lock on `stiva.db`, and while none
does the data directory is in a quiet state (`Excluded`); what a backup has copied
agrees with the directory, but for what is torn (`CopiesData`); a staging directory
about to be renamed is, but for that, of one quiet moment (`OfMoment`), and on disk
(`StagingVerified`); manifests vouch for one moment too (`ManifestsQuiet`); and
what is published has been synced (`PublishedSynced`). `StayInv` adds that a place is
there between its rename and its report, and that what was reported has its
directory entry on disk.

`ListingProofs`: `PagesFit`, `ListingTypes`, `PagesAdvance`, `NothingLost`,
`NothingLostInPlainFolders`. All have the hypothesis `TextKeys`: every key is a
sequence of characters that XML can express, so UTF-8 without control characters.
The code does not enforce it, and without it the theorems are false: the findings
have buckets with one such key. Nothing of the kind is
assumed of prefixes and markers, which are any bytes.

* `PagesAdvance`: `TextKeys` implies `Spec => []PagingProgresses`.
* `NothingLost`: `TextKeys` implies
  `Spec => [](NothingSkipped \/ OwnFolder \/ EarlyMarker)`. `OwnFolder` is the case
  of the finding `folder` and nothing else: the delimiter, with a prefix that ends
  in it and is itself a key. `EarlyMarker` is the last of the findings: uploads listed
  from a marker that sorts before the prefix. So where keys are texts these two
  are the only ways for the listings to lose an entry. `NothingLostInPlainFolders`
  states it without the exceptions, of objects, versions and parts and for
  prefixes that are not keys, as in `pages`.

The first part is the byte order: that `Less` is a total order, what lies between
a prefix and its successor, what `\x00` and `\xff` appended to a marker sort
behind (`BehindNul`, `UnderTop`), and that everything below a common prefix, and
nothing else, is between it and where the cursor jumps (`BehindDirPrefix`,
`RolledBelow`). Where two keys first differ is the least element of a set of
positions; that one exists is `SmallestNat`, from the well-foundedness of `<`.

`Inv` (the theorem `PagesFit`) says of a page that what was shown is `Proper` for
the request and `Under` every entry ahead of the cursor, but for the entries the
marker makes the code skip (`AheadInv`, `Again`); that the marker is at or behind
all that was shown (`ShownInv`, `Reached`); that the versions still to be emitted
are the end of one key's history, right behind the one the next marker would
name (`RestInv`); that no version behind the marker was shown (`OnceInv`), which is
what new IDs being new is needed for (`IdsInv`); that the cursor has every entry
behind the one it is at (`ClosedInv`); and that everything `steady` was
shown or is `Pending` behind the marker, and while a page is open shown, in `rest`
or ahead of the cursor (`KeptInv`). The iterations of the four loops come down to
six kinds (`ScanSteps`): skip, emit, gather, emit a version, cut the page, end the
listing; each part of the invariant is shown to survive each of them once.

Only model-checked:

* Liveness: `EveryRequestReturns`, `EventuallyMirrored`, `ExpiredUploadsGo`,
  `ShutdownReturns`, `EveryPageEnds`. The prover does not reason about fairness. That a listing
  comes to an end is such a property too; what is proved of it is that every page
  but the last shows something new.

## Not modelled

* Request authentication: signatures are cryptography over byte strings; the
  signed chunk reader keeps nothing beyond its request.
* The console beyond the requests of ServerLifecycle: sessions are signed tokens
  without state, the login limiter and the one-time download links are maps
  behind a mutex with one step per request.
* The other S3 handlers, routing, CORS: a stateless translation between HTTP and
  the engine's operations.
* The totals of usage accounting: a fold over each bucket's records that nothing
  else depends on.
* Metrics, readiness, configuration, TLS, checksums: independent counters,
  read-only probes, or values read once.
* The one-time migration of a single metadata database into one per bucket, and
  the best-effort replication dispatcher, which the server does not start.
* Encryption and compression of object data, and lifecycle rules beyond their
  expiry conditions.

## Plan

What is left:

1. Shorter proofs: the per-action steps of MultipartProofs and ObjectStoreProofs
   share frame arguments that could become lemmas.
2. Once keys are validated or encoded, the theorems on listings without `TextKeys`.

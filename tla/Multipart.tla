----------------------------- MODULE Multipart -----------------------------
(***************************************************************************)
(* Multipart uploads to one key (internal/storage: multipart.go,           *)
(* multipart_cleanup.go): parts are files in the upload's directory and    *)
(* entries of its record; Complete assembles them into an object, Abort    *)
(* and the expiry sweep discard them.                                      *)
(*                                                                         *)
(* Handlers of one upload meet at the lock of a part number and the lock   *)
(* of the upload.  A file has an immutable name of its own; its data       *)
(* stands for its ETag.  Publishing the assembled object is one step here  *)
(* and several in ObjectStore.  The bucket exists throughout: DeleteBucket *)
(* refuses a bucket with uploads.  Requests that are refused change        *)
(* nothing and are left out.                                               *)
(*                                                                         *)
(* Definitions marked FAULTY are variants no action uses: each is a bug    *)
(* this code could plausibly have, kept to show which property notices it. *)
(***************************************************************************)
EXTENDS Integers, FiniteSets

CONSTANTS
    NumUploads,   \* upload IDs, in the order of the database
    Parts,        \* part numbers
    Contents,     \* what a part may hold
    Clients,      \* request handlers
    Sweeper,      \* the goroutine of the cleanup ticker
    BatchSize,    \* maxExpiryBatch
    MaxFiles,     \* bound on the parts sent
    MaxCrashes,   \* bound on crashes
    MaxFailures,  \* bound on failed reads and writes
    NoPart, NoRecord, NoProc

Uploads == 1..NumUploads
Procs == Clients \cup {Sweeper}
Files == [id : 1..MaxFiles, path : {<<>>} \cup (Parts \X (0..MaxFiles)), data : Contents]
Records == [Parts -> Files \cup {NoPart}]

ASSUME MultipartAssumption ==
    /\ NumUploads \in Nat \ {0} /\ BatchSize \in Nat \ {0}
    /\ IsFiniteSet(Parts) /\ IsFiniteSet(Clients)
    /\ MaxFiles \in Nat /\ MaxCrashes \in Nat /\ MaxFailures \in Nat
    /\ Sweeper \notin Clients /\ NoProc \notin Clients \cup {Sweeper}
    /\ NoPart \notin Contents \cup Files /\ NoRecord \notin Records

VARIABLES
    record,       \* record[u]: the MultipartMeta's parts
    dirs,         \* uploads whose directory exists
    disk,         \* disk[u]: the files in it
    ids,          \* part file names handed out
    gauge,        \* ActiveMultiparts
    object,       \* what the last Complete published
    published,    \* published[u]: how often (history)
    started,      \* uploads whose ID was handed out
    old,          \* uploads past the cutoff
    torn,         \* uploads whose files are being removed or were (history)
    batch,        \* uploads the sweep has still to abort
    uploadLock,   \* lockUpload
    partLock,     \* lockPart
    pc,           \* where each handler is
    loc,          \* its locals
    crashes, failures,
    kept,         \* files that stayed because removing them failed (history)
    redo          \* redo[u]: how often the record outlived the publication (history)

store == <<record, dirs, disk>>
history == <<published, started, old, torn>>
locks == <<uploadLock, partLock>>
faults == <<crashes, failures, kept, redo>>
vars == <<store, ids, gauge, object, history, batch, locks, pc, loc, faults>>

None == [n \in Parts |-> NoPart]
Idle == [op |-> "none", u |-> 0, n |-> NoPart, file |-> NoPart, meta |-> None,
         todo |-> {}, out |-> None]

Init ==
    /\ record = [u \in Uploads |-> NoRecord]
    /\ dirs = {} /\ disk = [u \in Uploads |-> {}]
    /\ ids = 0 /\ gauge = 0 /\ object = None
    /\ published = [u \in Uploads |-> 0]
    /\ started = {} /\ old = {} /\ torn = {} /\ batch = {}
    /\ uploadLock = [u \in Uploads |-> NoProc]
    /\ partLock = [u \in Uploads |-> [n \in Parts |-> NoProc]]
    /\ pc = [p \in Procs |-> "idle"]
    /\ loc = [p \in Procs |-> Idle]
    /\ crashes = 0 /\ failures = 0 /\ kept = {}
    /\ redo = [u \in Uploads |-> 0]

Go(p, to) == pc' = [pc EXCEPT ![p] = to]
At(p, where) == pc[p] = where

\* A handler returns: its deferred unlocks run.
Return(p) ==
    /\ Go(p, "idle")
    /\ loc' = [loc EXCEPT ![p] = Idle]
    /\ uploadLock' = [u \in Uploads |-> IF uploadLock[u] = p THEN NoProc ELSE uploadLock[u]]
    /\ partLock' = [u \in Uploads |-> [n \in Parts |->
                      IF partLock[u][n] = p THEN NoProc ELSE partLock[u][n]]]

lockUpload(p, u) ==
    /\ uploadLock[u] = NoProc
    /\ uploadLock' = [uploadLock EXCEPT ![u] = p]
    /\ UNCHANGED partLock

-----------------------------------------------------------------------------
(***************************************************************************)
(* CreateMultipartUpload                                                   *)
(***************************************************************************)
CreateMultipartUpload(p) ==
    /\ At(p, "idle")
    /\ \E u \in Uploads \ started :
         /\ \A v \in Uploads \ started : u <= v
         /\ started' = started \cup {u}
         /\ dirs' = dirs \cup {u}
         /\ loc' = [loc EXCEPT ![p] = [Idle EXCEPT !.op = "create", !.u = u]]
    /\ Go(p, "record")
    /\ UNCHANGED <<record, disk, ids, gauge, object, published, old, torn, batch, locks, faults>>

CreateRecord(p) ==
    /\ At(p, "record")
    /\ record' = [record EXCEPT ![loc[p].u] = None]
    /\ Go(p, "count")
    /\ UNCHANGED <<dirs, disk, ids, gauge, object, history, batch, locks, loc, faults>>

IncActiveMultiparts(p) ==
    /\ At(p, "count")
    /\ gauge' = gauge + 1
    /\ Return(p)
    /\ UNCHANGED <<store, ids, object, history, batch, faults>>

-----------------------------------------------------------------------------
(***************************************************************************)
(* UploadPart                                                              *)
(***************************************************************************)

\* FAULTY: a part number has one file, replaced in place.
partDataPathInPlace(n, id) == <<n, 0>>

\* The name of a part's file; a temporary file is never taken for one.
partDataPath(n, id) == <<n, id>>

Own(p) == {f \in disk[loc[p].u] : f.id = loc[p].file.id}

UploadPart(p, u, n, data) ==
    /\ At(p, "idle") /\ record[u] # NoRecord /\ ids < MaxFiles
    /\ ids' = ids + 1
    /\ loc' = [loc EXCEPT ![p] = [Idle EXCEPT !.op = "part", !.u = u, !.n = n,
                 !.file = [id |-> ids + 1, path |-> partDataPath(n, ids + 1), data |-> data]]]
    /\ Go(p, "temp")
    /\ UNCHANGED <<store, gauge, object, history, batch, locks, faults>>

\* Under lockPart, the data goes to a temporary file of the directory.
PartTemp(p) ==
    LET u == loc[p].u
        n == loc[p].n
    IN  /\ At(p, "temp") /\ partLock[u][n] = NoProc
        /\ \/ /\ u \in dirs
              /\ partLock' = [partLock EXCEPT ![u][n] = p]
              /\ disk' = [disk EXCEPT ![u] = @ \cup {[loc[p].file EXCEPT !.path = <<>>]}]
              /\ Go(p, "rename")
              /\ UNCHANGED <<uploadLock, loc>>
           \/ u \notin dirs /\ Return(p) /\ UNCHANGED disk
        /\ UNCHANGED <<record, dirs, ids, gauge, object, history, batch, faults>>

\* The rename fails when the directory was removed meanwhile.
PartRename(p) ==
    LET u == loc[p].u
    IN  /\ At(p, "rename")
        /\ \/ /\ Own(p) # {}
              /\ disk' = [disk EXCEPT ![u] =
                            {f \in @ \ Own(p) : f.path # loc[p].file.path} \cup {loc[p].file}]
              /\ Go(p, "read")
              /\ UNCHANGED <<locks, loc>>
           \/ Own(p) = {} /\ Return(p) /\ UNCHANGED disk
        /\ UNCHANGED <<record, dirs, ids, gauge, object, history, batch, faults>>

\* FAULTY: the record is read without the lock of the upload.
PartReadUnlocked(p) ==
    /\ At(p, "read") /\ record[loc[p].u] # NoRecord
    /\ loc' = [loc EXCEPT ![p].meta = record[loc[p].u]]
    /\ Go(p, "write")
    /\ UNCHANGED <<store, ids, gauge, object, history, batch, locks, faults>>

\* FAULTY: the file stays when the upload is gone.
PartReadLeaves(p) ==
    LET u == loc[p].u
    IN  /\ At(p, "read") /\ uploadLock[u] = NoProc
        /\ \/ /\ record[u] # NoRecord
              /\ lockUpload(p, u)
              /\ loc' = [loc EXCEPT ![p].meta = record[u]]
              /\ Go(p, "write")
           \/ record[u] = NoRecord /\ Return(p)
        /\ UNCHANGED <<store, ids, gauge, object, history, batch, faults>>

\* FAULTY: the file of the entry goes before the record names the new one.
PartReadRetires(p) ==
    LET u == loc[p].u
    IN  /\ At(p, "read") /\ record[u] # NoRecord
        /\ lockUpload(p, u)
        /\ loc' = [loc EXCEPT ![p].meta = record[u]]
        /\ disk' = [disk EXCEPT ![u] = @ \ {record[u][loc[p].n]}]
        /\ Go(p, "write")
        /\ UNCHANGED <<record, dirs, ids, gauge, object, history, batch, faults>>

\* The upload may have ended while the data was received.
PartRead(p) ==
    LET u == loc[p].u
    IN  /\ At(p, "read") /\ uploadLock[u] = NoProc
        /\ \/ /\ record[u] # NoRecord
              /\ lockUpload(p, u)
              /\ loc' = [loc EXCEPT ![p].meta = record[u]]
              /\ Go(p, "write")
              /\ UNCHANGED disk
           \/ /\ record[u] = NoRecord
              /\ disk' = [disk EXCEPT ![u] = @ \ Own(p)]
              /\ Return(p)
        /\ UNCHANGED <<record, dirs, ids, gauge, object, history, batch, faults>>

\* PutMultipartMeta rewrites the whole record.
PartWrite(p) ==
    /\ At(p, "write")
    /\ record' = [record EXCEPT ![loc[p].u] = [loc[p].meta EXCEPT ![loc[p].n] = loc[p].file]]
    /\ Go(p, "retire")
    /\ UNCHANGED <<dirs, disk, ids, gauge, object, history, batch, locks, loc, faults>>

\* The file of the entry that was replaced is removed last.
PartRetire(p) ==
    /\ At(p, "retire")
    /\ disk' = [disk EXCEPT ![loc[p].u] = @ \ {loc[p].meta[loc[p].n]}]
    /\ Return(p)
    /\ UNCHANGED <<record, dirs, ids, gauge, object, history, batch, faults>>

-----------------------------------------------------------------------------
(***************************************************************************)
(* CompleteMultipartUpload                                                 *)
(***************************************************************************)

\* FAULTY: two retries of a Complete do not exclude each other.
CompleteUnlocked(p, u, chosen) ==
    /\ At(p, "idle") /\ record[u] # NoRecord
    /\ \A n \in chosen : record[u][n] # NoPart
    /\ loc' = [loc EXCEPT ![p] = [Idle EXCEPT !.op = "complete", !.u = u,
                 !.meta = record[u], !.todo = chosen]]
    /\ Go(p, "copy")
    /\ UNCHANGED <<store, ids, gauge, object, history, batch, locks, faults>>

\* Under lockUpload for the whole of it: every part asked for has been
\* uploaded and has the ETag the client knows.
CompleteMultipartUpload(p, u, chosen) ==
    /\ At(p, "idle") /\ record[u] # NoRecord
    /\ \A n \in chosen : record[u][n] # NoPart
    /\ lockUpload(p, u)
    /\ loc' = [loc EXCEPT ![p] = [Idle EXCEPT !.op = "complete", !.u = u,
                 !.meta = record[u], !.todo = chosen]]
    /\ Go(p, "copy")
    /\ UNCHANGED <<store, ids, gauge, object, history, batch, faults>>

\* What the file of part n holds, if it is there.
Found(p, n) == {f \in disk[loc[p].u] : f.path = loc[p].meta[n].path}

\* Parts are opened and copied one by one, in the order of their numbers.
CopyPart(p) ==
    /\ At(p, "copy")
    /\ \E n \in loc[p].todo :
         /\ \A m \in loc[p].todo : n <= m
         /\ \/ /\ \E f \in Found(p, n) :
                    loc' = [loc EXCEPT ![p].out[n] = f.data, ![p].todo = @ \ {n}]
               /\ UNCHANGED <<pc, locks>>
            \/ Found(p, n) = {} /\ Return(p)
    /\ UNCHANGED <<store, ids, gauge, object, history, batch, faults>>

\* commitObject
Publish(p) ==
    /\ At(p, "copy") /\ loc[p].todo = {}
    /\ object' = loc[p].out
    /\ published' = [published EXCEPT ![loc[p].u] = @ + 1]
    /\ Go(p, "delete")
    /\ UNCHANGED <<store, ids, gauge, started, old, torn, batch, locks, loc, faults>>

-----------------------------------------------------------------------------
(***************************************************************************)
(* The end of an upload: Complete deletes the record and then the          *)
(* directory, Abort first the directory.                                   *)
(***************************************************************************)
Abort(p, u) ==
    /\ At(p, "idle") /\ record[u] # NoRecord
    /\ lockUpload(p, u)
    /\ loc' = [loc EXCEPT ![p] = [Idle EXCEPT !.op = "abort", !.u = u]]
    /\ torn' = torn \cup {u}
    /\ Go(p, "unlink")

AbortMultipartUpload(p, u) ==
    /\ Abort(p, u)
    /\ UNCHANGED <<store, ids, gauge, object, published, started, old, batch, faults>>

DeleteMultipartMeta(p) ==
    /\ At(p, "delete")
    /\ record' = [record EXCEPT ![loc[p].u] = NoRecord]
    /\ Go(p, "discount")
    /\ UNCHANGED <<dirs, disk, ids, gauge, object, history, batch, locks, loc, faults>>

DecActiveMultiparts(p) ==
    /\ At(p, "discount")
    /\ gauge' = gauge - 1
    /\ torn' = torn \cup {loc[p].u}
    /\ \/ loc[p].op = "complete" /\ Go(p, "unlink") /\ UNCHANGED <<locks, loc>>
       \/ loc[p].op = "abort" /\ Return(p)
    /\ UNCHANGED <<store, ids, object, published, started, old, batch, faults>>

\* removeUploadDir: one file after the other, and then the directory, which is
\* no longer empty if a part has come in between.
UnlinkFiles(p) ==
    LET u == loc[p].u
    IN  /\ At(p, "unlink")
        /\ \/ \E f \in disk[u] : disk' = [disk EXCEPT ![u] = @ \ {f}] /\ UNCHANGED pc
           \/ disk[u] = {} /\ Go(p, "rmdir") /\ UNCHANGED disk
        /\ UNCHANGED <<record, dirs, ids, gauge, object, history, batch, locks, loc, faults>>

\* FAULTY: whatever is in the directory is taken to be gone.
RemoveDirBlind(p) ==
    /\ At(p, "rmdir")
    /\ dirs' = dirs \ {loc[p].u}
    /\ \/ loc[p].op = "complete" /\ Return(p)
       \/ loc[p].op = "abort" /\ Go(p, "delete") /\ UNCHANGED <<locks, loc>>
    /\ UNCHANGED <<record, disk, ids, gauge, object, history, batch, faults>>

\* FAULTY: a directory that is not there is an error.
RemoveDirStrict(p) ==
    LET u == loc[p].u
    IN  /\ At(p, "rmdir")
        /\ \/ /\ disk[u] = {} /\ u \in dirs /\ dirs' = dirs \ {u}
              /\ \/ loc[p].op = "complete" /\ Return(p)
                 \/ loc[p].op = "abort" /\ Go(p, "delete") /\ UNCHANGED <<locks, loc>>
           \/ /\ disk[u] # {} \/ u \notin dirs
              /\ Return(p) /\ UNCHANGED dirs
        /\ UNCHANGED <<record, disk, ids, gauge, object, history, batch, faults>>

RemoveDir(p) ==
    LET u == loc[p].u
    IN  /\ At(p, "rmdir")
        /\ \/ /\ disk[u] = {} /\ dirs' = dirs \ {u}
              /\ \/ loc[p].op = "complete" /\ Return(p)
                 \/ loc[p].op = "abort" /\ Go(p, "delete") /\ UNCHANGED <<locks, loc>>
           \/ disk[u] # {} /\ Return(p) /\ UNCHANGED dirs
        /\ UNCHANGED <<record, disk, ids, gauge, object, history, batch, faults>>

-----------------------------------------------------------------------------
(***************************************************************************)
(* CleanExpiredMultipartUploads                                            *)
(***************************************************************************)
Age(u) ==
    /\ record[u] # NoRecord /\ u \notin old
    /\ old' = old \cup {u}
    /\ UNCHANGED <<store, ids, gauge, object, published, started, torn, batch, locks, pc, loc,
                   faults>>

\* expiredMultipartUploads: a bounded batch, in the order of the database.
Expired ==
    LET left == {u \in old : record[u] # NoRecord}
    IN  {u \in left : Cardinality({v \in left : v < u}) < BatchSize}

Scan ==
    /\ At(Sweeper, "idle") /\ batch = {} /\ Expired # {}
    /\ batch' = Expired
    /\ UNCHANGED <<store, ids, gauge, object, history, locks, pc, loc, faults>>

\* abortExpiredUploads: "another caller already finished it" is no error, and
\* an abort that fails does not keep the others waiting.
SweepAbort ==
    /\ At(Sweeper, "idle")
    /\ \E u \in batch :
         /\ \A v \in batch : u <= v
         /\ batch' = batch \ {u}
         /\ uploadLock[u] = NoProc
         /\ \/ Abort(Sweeper, u)
            \/ record[u] = NoRecord /\ UNCHANGED <<locks, pc, loc, torn>>
    /\ UNCHANGED <<store, ids, gauge, object, published, started, old, faults>>

-----------------------------------------------------------------------------
(***************************************************************************)
(* Failures                                                                *)
(***************************************************************************)

\* What a request has to remove when it fails or is done, besides the parts of
\* an abort, which stay recorded: the file of the part it received, the file
\* that one replaced, or all files of a completed upload.
Litter(p) ==
    CASE pc[p] \in {"rename", "read", "write"} -> Own(p)
      [] At(p, "retire") -> {loc[p].meta[loc[p].n]} \ {NoPart}
      [] pc[p] \in {"unlink", "rmdir"} /\ loc[p].op = "complete" -> disk[loc[p].u]
      [] OTHER -> {}

\* A Complete has published the object and not yet deleted the record; when
\* the deletion fails, or the process dies, the client can repeat it.
Finishing(p, u) == pc[p] = "delete" /\ loc[p].op = "complete" /\ loc[p].u = u
Interrupted(S) ==
    [u \in Uploads |-> IF \E p \in S : Finishing(p, u) THEN redo[u] + 1 ELSE redo[u]]

\* A read or a write fails and the request with it; an upload of a part
\* removes the file it made.  A Complete whose object is published succeeds
\* all the same, and keeps the record and the gauge.
Fail(p) ==
    /\ failures < MaxFailures /\ failures' = failures + 1
    /\ pc[p] \in {"record", "rename", "read", "write", "copy", "delete", "unlink", "rmdir"}
    /\ disk' = [disk EXCEPT ![loc[p].u] = IF loc[p].op = "part" THEN @ \ Own(p) ELSE @]
    /\ kept' = IF loc[p].op = "part" THEN kept ELSE kept \cup Litter(p)
    /\ redo' = Interrupted({p})
    /\ Return(p)
    /\ UNCHANGED <<record, dirs, ids, gauge, object, history, batch, crashes>>

\* The removal of a part's file fails, and the request goes on as it would:
\* of its own one when it is given up, or of the one it has replaced.
RemovalFails(p) ==
    /\ failures < MaxFailures /\ failures' = failures + 1
    /\ pc[p] \in {"rename", "read", "write", "retire"} /\ Litter(p) # {}
    /\ kept' = kept \cup Litter(p)
    /\ Return(p)
    /\ UNCHANGED <<store, ids, gauge, object, history, batch, crashes, redo>>

\* FAULTY: the gauge starts at zero.
CrashUnseeded ==
    /\ crashes < MaxCrashes /\ crashes' = crashes + 1
    /\ redo' = Interrupted(Procs)
    /\ disk' = [u \in Uploads |-> {f \in disk[u] : f.path # <<>>}]
    /\ gauge' = 0 /\ batch' = {}
    /\ uploadLock' = [u \in Uploads |-> NoProc]
    /\ partLock' = [u \in Uploads |-> [n \in Parts |-> NoProc]]
    /\ pc' = [p \in Procs |-> "idle"]
    /\ loc' = [p \in Procs |-> Idle]
    /\ UNCHANGED <<record, dirs, ids, object, history, failures, kept>>

\* The process dies.  A start removes temporary files (cleanupOrphanedTempFiles)
\* and counts the uploads recorded (seedActiveMultipartGauge).
Crash ==
    /\ crashes < MaxCrashes /\ crashes' = crashes + 1
    /\ redo' = Interrupted(Procs)
    /\ disk' = [u \in Uploads |-> {f \in disk[u] : f.path # <<>>}]
    /\ gauge' = Cardinality({u \in Uploads : record[u] # NoRecord})
    /\ batch' = {}
    /\ uploadLock' = [u \in Uploads |-> NoProc]
    /\ partLock' = [u \in Uploads |-> [n \in Parts |-> NoProc]]
    /\ pc' = [p \in Procs |-> "idle"]
    /\ loc' = [p \in Procs |-> Idle]
    /\ UNCHANGED <<record, dirs, ids, object, history, failures, kept>>

Request(p) ==
    \/ CreateMultipartUpload(p)
    \/ \E u \in Uploads : \/ \E n \in Parts, data \in Contents : UploadPart(p, u, n, data)
                          \/ \E chosen \in SUBSET Parts \ {{}} : CompleteMultipartUpload(p, u, chosen)
                          \/ AbortMultipartUpload(p, u)

Continue(p) ==
    \/ CreateRecord(p) \/ IncActiveMultiparts(p)
    \/ PartTemp(p) \/ PartRename(p) \/ PartRead(p) \/ PartWrite(p) \/ PartRetire(p)
    \/ CopyPart(p) \/ Publish(p)
    \/ DeleteMultipartMeta(p) \/ DecActiveMultiparts(p) \/ UnlinkFiles(p) \/ RemoveDir(p)

Sweep == Scan \/ SweepAbort

Next ==
    \/ \E p \in Clients : Request(p)
    \/ \E p \in Procs : Continue(p) \/ Fail(p) \/ RemovalFails(p)
    \/ \E u \in Uploads : Age(u)
    \/ Sweep
    \/ Crash

Spec == Init /\ [][Next]_vars

\* Handlers that have begun go on, the ticker fires again and again, and Go's
\* mutexes let the sweep in some time, however often clients take the lock.
Fairness ==
    /\ \A p \in Procs : WF_vars(Continue(p))
    /\ SF_vars(Sweep)

FairSpec == Spec /\ Fairness

-----------------------------------------------------------------------------
(***************************************************************************)
(* Properties                                                              *)
(***************************************************************************)
\* Every variable keeps its type, and an upload that was never started has no
\* record and no directory.
TypeOK ==
    /\ record \in [Uploads -> Records \cup {NoRecord}]
    /\ dirs \subseteq started /\ {u \in Uploads : record[u] # NoRecord} \subseteq started
    /\ \A u \in Uploads : disk[u] \subseteq Files /\ (disk[u] # {} => u \in dirs)
    /\ object \in [Parts -> Contents \cup {NoPart}]
    /\ batch \subseteq old /\ torn \subseteq started
    /\ uploadLock \in [Uploads -> Procs \cup {NoProc}]
    /\ \A p \in Procs : loc[p].todo \subseteq Parts

\* "can't leave the on-disk file from one request paired with the ETag/size
\* metadata from another": what a Complete publishes are the parts it was
\* asked for, with the data their ETags stand for, whoever uploads the same
\* part numbers again meanwhile.
CompletedAsRequested ==
    [][\A p \in Procs : Publish(p) =>
         \A n \in Parts : object'[n] # NoPart => object'[n] = loc[p].meta[n].data]_vars

\* "Retain the previous immutable file until the replacement metadata commits":
\* the file of every recorded part is there, after any failure or crash, until
\* someone aborts the upload.
PartsOnDisk ==
    \A u \in Uploads \ torn : record[u] # NoRecord =>
        \A n \in Parts : record[u][n] # NoPart => record[u][n] \in disk[u]

\* Parallel parts do not overwrite each other's entries, and an upload that
\* ended does not come back with a part that was on its way.
NoPartLost ==
    [][\A u \in Uploads :
         /\ record[u] = NoRecord /\ record'[u] # NoRecord => u \notin torn /\ published[u] = 0
         /\ record[u] # NoRecord /\ record'[u] # NoRecord =>
              \A n \in Parts : record[u][n] # NoPart => record'[u][n] # NoPart]_vars

\* Retries of a Complete publish one object, however they race.  Only where the
\* record outlived the publication, because deleting it failed or the process
\* died right between the two, a retry publishes once more.
PublishedOnce == \A u \in Uploads : published[u] <= 1 + redo[u]

\* What no upload refers to is gone from the disk when the requests have ended,
\* also when parts came in while an upload was removed.  Only a crash leaves
\* files behind, or the very removal of a file that failed.
NothingLeftBehind ==
    crashes = 0 /\ (\A p \in Procs : At(p, "idle")) =>
        \A u \in Uploads : \A f \in disk[u] :
            \/ record[u] # NoRecord /\ \E n \in Parts : record[u][n] = f
            \/ f \in kept

\* The gauge counts the uploads recorded whenever no request is between the
\* database and the gauge, restarts included.
GaugeCounts ==
    gauge = Cardinality({u \in Uploads : record[u] # NoRecord})
            - Cardinality({p \in Procs : At(p, "count")})
            + Cardinality({p \in Procs : At(p, "discount")})

\* "retaining failed upload metadata so later sweeps can retry": an expired
\* upload is removed in the end, whatever an earlier abort left of it.
ExpiredUploadsGo == \A u \in Uploads : u \in old ~> record[u] = NoRecord
=============================================================================
